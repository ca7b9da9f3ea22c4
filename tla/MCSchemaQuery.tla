---------------------------- MODULE MCSchemaQuery ---------------------------
(* Values for SchemaQuery: three or four documents, words a, b and c.      *)
EXTENDS Integers, Sequences, TLC

V(x, s) == [offset |-> x, score |-> s]

(* Documents d1 and d2 at 0 and 1, d3 and d4 at 10 and 11.                 *)
Summaries == <<[base |-> 0, docs |-> <<"d1", "d2">>], [base |-> 10, docs |-> <<"d3", "d4">>]>>
Index ==
  <<"a" :> <<V(0, 1), V(1, 2), V(1, 3), V(11, 1)>> @@ "b" :> <<V(1, 2), V(10, 5), V(11, 0)>>,
    "c" :> <<V(0, 3), V(1, 3), V(10, 2), V(11, 1)>>>>
World == [summaries |-> Summaries, overrides |-> <<{"d1", "d3"}, {"d1"}>>, index |-> Index]

(* Words a and c in two index tables, of which the second answers.         *)
TwoTables ==
  [World EXCEPT !.index =
     <<"a" :> <<V(0, 2), V(1, 4), V(10, 2)>> @@ "b" :> <<V(1, 2), V(10, 5), V(11, 0)>>
         @@ "c" :> <<V(0, 2), V(1, 2), V(11, 3)>>,
       "a" :> <<V(1, 2), V(1, 3), V(11, 1)>> @@ "c" :> <<V(0, 3), V(1, 1), V(10, 2)>>>>]
MCWorlds == {World, TwoTables}

Word(w) == [type |-> "word", word |-> w]
Cmp(op, w, v, v2) == [type |-> "compare", op |-> op, lhs |-> Word(w), value |-> v, value2 |-> v2]
Bin(op, p, q) == [type |-> "binary", op |-> op, lhs |-> p, rhs |-> q]
Un(op, q) == [type |-> "unary", op |-> op, lhs |-> q]
Object == [type |-> "many", words |-> {"a", "b"}, headers |-> ("a" :> "h")]

Simple ==
  {Word("a"), Word("b"), Word("c"), Word("missing"), [type |-> "key", doc |-> "d3"], Object,
   Un("max", Word("a")), Un("min", Word("a"))}
    \cup {Cmp(op, "a", 2, 2) : op \in {"=", ">", ">=", "<", "<="}}
    \cup {Cmp("in range", "c", 3, 2)}
Deep ==
  {Bin(op, p, q) : op \in {"or", "and", "subtract"}, p \in Simple, q \in Simple}
    \cup {Bin("or", Bin("subtract", Word("a"), p), Bin("and", Word("c"), p)) : p \in Simple}
Other ==
  {Bin(op, Word("a"), Word("c")) : op \in {"greater", "less", "orderby"}}
    \cup {[type |-> "sample", lhs |-> Word("c"), value |-> 2], Un("negate", Word("c"))}

Query(q) ==
  [query |-> q, keys_only |-> FALSE, thresholds |-> <<>>, word |-> "c", limit |-> -1, offset |-> 0]
Pages ==
  {[Query(q) EXCEPT !.limit = n, !.offset = from, !.keys_only = k] :
     q \in {Word("c"), Un("negate", Word("c"))}, n \in {-1, 0, 2, 3}, from \in {0, 1, 3, 4},
     k \in BOOLEAN}
Grouped ==
  {[Query(q) EXCEPT !.thresholds = t] :
     q \in Simple \cup Other, t \in {<<1>>, <<1, 2, 3>>, <<1, 2, 4>>, <<2, 5>>}}

MCStatements ==
  {Query(q) : q \in Simple \cup Deep \cup Other} \cup Pages \cup Grouped

(* Schemas and sessions that the README comes back to: summary tables out  *)
(* of order, a document in two of them, a statement with the headers of an *)
(* object before others, and thresholds for a word that no index table     *)
(* has.                                                                    *)
Reordered == [World EXCEPT !.summaries = <<Summaries[2], Summaries[1]>>]
SharedDocument ==
  [World EXCEPT !.summaries = <<Summaries[1], [base |-> 10, docs |-> <<"d1", "d4">>]>>]
ObjectThenWord == {Query(Object), Query(Word("b")), Query(Word("a"))}
NoSuchWord ==
  {[Query(Word("a")) EXCEPT !.thresholds = t, !.word = "missing"] : t \in {<<1, 2>>, <<4, 5>>}}
=============================================================================
