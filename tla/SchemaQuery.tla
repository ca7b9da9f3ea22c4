----------------------------- MODULE SchemaQuery ----------------------------
(***************************************************************************)
(* Search: ProcessQuery and ca_schema_query of src/src/query.cc, for one   *)
(* statement after another on one schema, as ca-shell runs them.           *)
(*                                                                         *)
(* Lists of documents are sequences of an offset and a score; what the     *)
(* loops over two lists compute is taken from module OffsetLists, which    *)
(* runs them step by step.  A word is a row of the index tables, a         *)
(* document a row of the summary tables.  The text of a summary is left    *)
(* out, what is put together for a result is not.                          *)
(***************************************************************************)
EXTENDS Integers, Sequences, SequencesExt, FiniteSets, TLC

CONSTANTS
  Worlds,          \* the schemas: summaries, overrides, index
  Statements,      \* the statements that may be given
  MaxStatements,   \* bound: statements in a session
  MinusInf         \* -HUGE_VAL, below every score

(* What the constants must satisfy; the modules that instantiate this one  *)
(* assume it.                                                              *)
SchemaQueryAssumption == MaxStatements \in Nat \ {0} /\ MinusInf \in Int

None == "none"
Pending == <<>>      \* a result that has not been fetched

VARIABLES
  world,        \* the schema
  count,        \* how many statements have been begun
  stmt,         \* the statement
  offsets,      \* the documents found
  extra_data,   \* headers by offset; never cleared
  page,         \* sorted by score: the part of offsets that is printed
  results,      \* by rank
  stage         \* "idle", "found", "filtered", "sorted", "printed", "error",
                \* or "undefined" after a read behind the thresholds

vars == <<world, count, stmt, offsets, extra_data, page, results, stage>>
-----------------------------------------------------------------------------
(* Lists.                                                                  *)

At(s, x) == {i \in 1..Len(s) : s[i].offset = x}
Offsets(s) == {s[i].offset : i \in 1..Len(s)}
(* s[i] is the how-manieth element of its offset.                          *)
Occurrence(s, i) == Cardinality({j \in At(s, s[i].offset) : j <= i})
Nth(s, x, n) == s[CHOOSE i \in At(s, x) : Occurrence(s, i) = n]
Keep(s, Test(_)) ==
  LET kept == {i \in 1..Len(s) : Test(i)}
      at == SetToSortSeq(kept, <)
  IN  [n \in 1..Len(at) |-> s[at[n]]]

IntersectOffsets(s, t) == Keep(s, LAMBDA i : s[i].offset \in Offsets(t))

(* Mutant of SubtractOffsets: std::set_difference.                         *)
SubtractOffsetsDifference(s, t) ==
  Keep(s, LAMBDA i : Occurrence(s, i) > Cardinality(At(t, s[i].offset)))

SubtractOffsets(s, t) == Keep(s, LAMBDA i : s[i].offset \notin Offsets(t))

(* Elements of one offset take turns: the ones of t, then what s has more. *)
UnionOffsets(s, t) ==
  LET rest == Keep(s, LAMBDA i : Occurrence(s, i) > Cardinality(At(t, s[i].offset)))
      upto(x) == Keep(t, LAMBDA i : t[i].offset = x) \o Keep(rest, LAMBDA i : rest[i].offset = x)
      order == SetToSortSeq(Offsets(s) \cup Offsets(t), <)
  IN  FlattenSeq([n \in 1..Len(order) |-> upto(order[n])])

(* The elements of one offset are paired, first with first.                *)
Paired(s, i, t) == Occurrence(s, i) <= Cardinality(At(t, s[i].offset))
Partner(s, i, t) == Nth(t, s[i].offset, Occurrence(s, i))
Join(s, t, Test(_, _)) ==
  Keep(s, LAMBDA i : Paired(s, i, t) /\ Test(s[i].score, Partner(s, i, t).score))
OrderBy(s, t) ==
  [i \in 1..Len(s) |->
     [s[i] EXCEPT !.score = IF Paired(s, i, t) THEN Partner(s, i, t).score ELSE MinusInf]]

(* Mutant of RemoveDuplicates: the first score is kept.                    *)
RemoveDuplicatesFirst(s, use_max) == Keep(s, LAMBDA i : Occurrence(s, i) = 1)

RemoveDuplicates(s, use_max) ==
  LET best(x) == CHOOSE v \in {s[i].score : i \in At(s, x)} :
                   \A i \in At(s, x) : IF use_max THEN s[i].score <= v ELSE v <= s[i].score
      order == SetToSortSeq(Offsets(s), <)
  IN  [n \in 1..Len(order) |-> [offset |-> order[n], score |-> best(order[n])]]

(* RANDOM_SAMPLE takes any of the elements, which it puts in order again.  *)
Samples(s, n) ==
  IF Len(s) <= n THEN {s}
  ELSE {Keep(s, LAMBDA i : i \in chosen) : chosen \in {c \in SUBSET (1..Len(s)) : Cardinality(c) = n}}
-----------------------------------------------------------------------------
(* Evaluation.                                                             *)

(* Index tables that have the word, and the rows that they have.           *)
Having(word) == {i \in DOMAIN world.index : word \in DOMAIN world.index[i]}
Rows(word) ==
  LET at == SetToSortSeq(Having(word), <) IN [n \in 1..Len(at) |-> world.index[at[n]][word]]

(* A word: the callback is called for every table, and each time replaces  *)
(* what was found.                                                         *)
LookupIndexKey(word) == IF Rows(word) = <<>> THEN <<>> ELSE Last(Rows(word))

(* "in-PREFIX:PART" and "FIELD-in:KEY": the rows of many words in all      *)
(* tables, without their scores.                                           *)
LookupMany(words) ==
  LET found == UNION {UNION {Offsets(Rows(w)[n]) : n \in 1..Len(Rows(w))} : w \in words}
      order == SetToSortSeq(found, <)
  IN  [n \in 1..Len(order) |-> [offset |-> order[n], score |-> 0]]

(* Where document number n of summary table i is in the address space.     *)
Address(i, n) == world.summaries[i].base + n - 1
PlacesOf(doc) ==
  {p \in UNION {{i} \X (1..Len(world.summaries[i].docs)) : i \in DOMAIN world.summaries} :
     world.summaries[p[1]].docs[p[2]] = doc}

(* KEY=: the first summary table that has the document.                    *)
LookupKey(doc) ==
  IF PlacesOf(doc) = {} THEN <<>>
  ELSE LET p == CHOOSE p \in PlacesOf(doc) : \A q \in PlacesOf(doc) : p[1] <= q[1]
       IN  <<[offset |-> Address(p[1], p[2]), score |-> 0]>>

Compare(op, score, q) ==
  LET low == IF q.value > q.value2 THEN q.value2 ELSE q.value
      high == IF q.value > q.value2 THEN q.value ELSE q.value2
  IN  CASE op = "=" -> score = q.value
        [] op = ">" -> score > q.value
        [] op = ">=" -> score >= q.value
        [] op = "<" -> score < q.value
        [] op = "<=" -> score <= q.value
        [] op = "in range" -> score >= low /\ score <= high

(* The lists that a query may yield.  An operator whose left side finds    *)
(* nothing does not evaluate its right side, or nothing but that.          *)
RECURSIVE ProcessSubQuery(_)
ProcessSubQuery(q) ==
  CASE q.type = "key" -> {LookupKey(q.doc)}
    [] q.type = "word" -> {LookupIndexKey(q.word)}
    [] q.type = "many" -> {LookupMany(q.words)}
    [] q.type = "compare" ->
         {Keep(s, LAMBDA i : Compare(q.op, s[i].score, q)) : s \in ProcessSubQuery(q.lhs)}
    [] q.type = "sample" -> UNION {Samples(s, q.value) : s \in ProcessSubQuery(q.lhs)}
    [] q.type = "unary" ->
         {CASE q.op = "max" -> RemoveDuplicates(s, TRUE)
            [] q.op = "min" -> RemoveDuplicates(s, FALSE)
            [] q.op = "negate" -> [i \in 1..Len(s) |-> [s[i] EXCEPT !.score = -@]] :
            s \in ProcessSubQuery(q.lhs)}
    [] q.type = "binary" ->
         UNION {{CASE q.op = "or" -> IF s = <<>> THEN t ELSE UnionOffsets(s, t)
                   [] q.op = "and" -> IntersectOffsets(s, t)
                   [] q.op = "subtract" -> SubtractOffsets(s, t)
                   [] q.op = "greater" -> Join(s, t, LAMBDA a, b : a > b)
                   [] q.op = "less" -> Join(s, t, LAMBDA a, b : a < b)
                   [] q.op = "orderby" -> OrderBy(s, t) :
                   t \in ProcessSubQuery(q.rhs)} : s \in ProcessSubQuery(q.lhs)}

(* The headers of the object that "FIELD-in:KEY" names, recorded for the   *)
(* documents of its words while the query is evaluated.                    *)
RECURSIVE HeadersIn(_)
HeadersIn(q) ==
  CASE q.type = "many" ->
         UNION {{<<x, q.headers[w]>> : x \in Offsets(LookupMany({w}))} : w \in DOMAIN q.headers}
    [] q.type = "binary" ->
         HeadersIn(q.lhs) \cup (IF /\ q.op \in {"and", "subtract"}
                                   /\ \A s \in ProcessSubQuery(q.lhs) : s = <<>>
                                THEN {} ELSE HeadersIn(q.rhs))
    [] q.type \in {"compare", "sample", "unary"} -> HeadersIn(q.lhs)
    [] OTHER -> {}

Recorded(q) ==
  LET new == HeadersIn(q)
      xs == {h[1] : h \in new}
  IN  {f @@ extra_data : f \in {g \in [xs -> {h[2] : h \in new}] : \A x \in xs : <<x, g[x]>> \in new}}
-----------------------------------------------------------------------------
(* Statements.                                                             *)

Init ==
  /\ world \in Worlds
  /\ count = 0 /\ stmt = None /\ offsets = <<>> /\ extra_data = <<>>
  /\ page = <<>> /\ results = <<>> /\ stage = "idle"

(* ProcessQuery.  With thresholds no headers are recorded.                 *)
Find ==
  /\ stage \in {"idle", "printed", "error"} /\ count < MaxStatements
  /\ count' = count + 1
  /\ stmt' \in Statements
  /\ \E s \in ProcessSubQuery(stmt'.query) : offsets' = RemoveDuplicates(s, TRUE)
  /\ extra_data' \in IF stmt'.thresholds = <<>> THEN Recorded(stmt'.query) ELSE {extra_data}
  /\ page' = <<>> /\ results' = <<>> /\ stage' = "found"
  /\ UNCHANGED world

LowThreshold == stmt.thresholds[1]
HighThreshold == Last(stmt.thresholds)

(* The documents whose score for the threshold's word is in the range, and *)
(* that score.  Module OffsetLists has the loop; here an offset comes once *)
(* in a row.                                                               *)
InRange(s, t) ==
  LET kept == Keep(s, LAMBDA i :
                /\ s[i].offset \in Offsets(t)
                /\ Nth(t, s[i].offset, 1).score >= LowThreshold
                /\ Nth(t, s[i].offset, 1).score < HighThreshold)
  IN  [i \in 1..Len(kept) |-> Nth(t, kept[i].offset, 1)]

(* Every table that has the word filters what the one before has left.     *)
FilterByThresholds ==
  /\ stage = "found"
  /\ offsets' = IF stmt.thresholds = <<>> THEN offsets
                ELSE FoldLeft(InRange, offsets, Rows(stmt.word))
  /\ stage' = "filtered"
  /\ UNCHANGED <<world, count, stmt, extra_data, page, results>>

(* Mutant of Limit: no limit and a limit of nothing are the same.          *)
LimitZeroIsAll ==
  LET limit == IF stmt.limit <= 0 \/ stmt.offset + stmt.limit > Len(offsets)
               THEN Len(offsets) - stmt.offset ELSE stmt.limit
  IN  stmt.offset + limit

(* Where the page ends.                                                    *)
Limit ==
  LET limit == IF stmt.limit < 0 \/ stmt.offset + stmt.limit > Len(offsets)
               THEN Len(offsets) - stmt.offset ELSE stmt.limit
  IN  stmt.offset + limit

(* The order that partial_sort may leave, best score first.                *)
Ranked(s) ==
  {f \in SetToSeqs(ToSet(s)) : \A i \in 1 .. Len(f) - 1 : f[i].score >= f[i + 1].score}

(* A page behind the end is printed as an empty list.                      *)
Sort ==
  /\ stage = "filtered"
  /\ \/ /\ stmt.offset >= Len(offsets)
        /\ page' = <<>> /\ results' = <<>> /\ stage' = "printed"
     \/ /\ stmt.offset < Len(offsets)
        /\ \E f \in Ranked(offsets) :
             /\ page' = SubSeq(f, stmt.offset + 1, Limit)
             /\ results' = [i \in 1 .. Limit - stmt.offset |-> Pending]
        /\ stage' = "sorted"
  /\ UNCHANGED <<world, count, stmt, offsets, extra_data>>

(* Mutant of TableOf: the first table is never looked at.                  *)
TableOfSecond(x) ==
  LET below == {i \in 2..Len(world.summaries) : world.summaries[i].base <= x}
  IN  IF below = {} THEN Len(world.summaries)
      ELSE CHOOSE i \in below : \A j \in below : j <= i

(* The summary table of an address: from the last one down, until one      *)
(* begins at or below it; the first when none does.                        *)
TableOf(x) ==
  LET below == {i \in 2..Len(world.summaries) : world.summaries[i].base <= x}
  IN  IF below = {} THEN 1 ELSE CHOOSE i \in below : \A j \in below : j <= i

(* Which document is read there; None when the table has no row there.     *)
ReadAt(x) ==
  LET t == world.summaries[TableOf(x)]
      n == x - t.base + 1
  IN  IF n \in 1..Len(t.docs) THEN t.docs[n] ELSE None

(* The override tables that add to a document: those in front of the first *)
(* that does not have it.                                                  *)
Overriding(doc) ==
  {i \in DOMAIN world.overrides : \A j \in 1..i : doc \in world.overrides[j]}

(* Mutant of Bucket: a score on a threshold belongs to what is below.      *)
BucketBelow(score) ==
  LET above == {i \in 2..Len(stmt.thresholds) : stmt.thresholds[i] >= score}
  IN  CHOOSE i \in above : \A j \in above : i <= j

(* The thresholds around a score, by the index of the upper one.           *)
Bucket(score) ==
  LET above == {i \in 2..Len(stmt.thresholds) : stmt.thresholds[i] >= score}
      i == CHOOSE i \in above : \A j \in above : i <= j
  IN  IF stmt.thresholds[i] = score /\ i < Len(stmt.thresholds) THEN i + 1 ELSE i

InBuckets(score) == \E i \in 2..Len(stmt.thresholds) : stmt.thresholds[i] >= score

Unfetched == {i \in 1..Len(page) : results[i] = Pending}

(* Results are fetched in the order of their addresses, keys by rank.      *)
IsNextToFetch(i) ==
  \A j \in Unfetched : IF stmt.keys_only THEN i <= j ELSE page[i].offset <= page[j].offset

Result(v, doc) ==
  [doc |-> doc, from |-> {TableOf(v.offset)},
   overrides |-> IF stmt.keys_only THEN {} ELSE Overriding(doc),
   header |-> IF stmt.keys_only \/ v.offset \notin DOMAIN extra_data
              THEN None ELSE extra_data[v.offset],
   bucket |-> IF stmt.keys_only \/ stmt.thresholds = <<>> THEN 0 ELSE Bucket(v.score)]

Fetch ==
  /\ stage = "sorted"
  /\ \E i \in Unfetched :
       /\ IsNextToFetch(i)
       /\ IF ReadAt(page[i].offset) = None THEN stage' = "error" /\ UNCHANGED results
          ELSE IF ~stmt.keys_only /\ stmt.thresholds /= <<>> /\ ~InBuckets(page[i].score)
          THEN stage' = "undefined" /\ UNCHANGED results
          ELSE /\ results' = [results EXCEPT ![i] = Result(page[i], ReadAt(page[i].offset))]
               /\ UNCHANGED stage
  /\ UNCHANGED <<world, count, stmt, offsets, extra_data, page>>

Finish ==
  /\ stage = "sorted" /\ Unfetched = {}
  /\ stage' = "printed"
  /\ UNCHANGED <<world, count, stmt, offsets, extra_data, page, results>>

Next == Find \/ FilterByThresholds \/ Sort \/ Fetch \/ Finish

Spec == Init /\ [][Next]_vars
-----------------------------------------------------------------------------
Printed == stage = "printed"

(* The index tables that answer for a word: only the last of those that    *)
(* have it, or, had the lists not replaced each other, all of them.        *)
Answering(word, any) ==
  {i \in Having(word) : any \/ \A j \in Having(word) : j <= i}

(* What a query of words, comparisons and set operators stands for: a      *)
(* document matches a word when a table that answers for the word lists    *)
(* it.                                                                     *)
RECURSIVE Matches(_, _, _)
Matches(q, x, any) ==
  CASE q.type = "key" -> \E p \in PlacesOf(q.doc) : x = Address(p[1], p[2])
    [] q.type = "word" -> \E i \in Answering(q.word, any) : x \in Offsets(world.index[i][q.word])
    [] q.type = "many" -> \E w \in q.words : \E i \in Having(w) : x \in Offsets(world.index[i][w])
    [] q.type = "compare" ->      \* of a word
         \E i \in Answering(q.lhs.word, any) : \E v \in ToSet(world.index[i][q.lhs.word]) :
           v.offset = x /\ Compare(q.op, v.score, q)
    [] q.type = "binary" /\ q.op = "or" -> Matches(q.lhs, x, any) \/ Matches(q.rhs, x, any)
    [] q.type = "binary" /\ q.op = "and" -> Matches(q.lhs, x, any) /\ Matches(q.rhs, x, any)
    [] q.type = "binary" /\ q.op = "subtract" -> Matches(q.lhs, x, any) /\ ~Matches(q.rhs, x, any)
    [] OTHER -> Matches(q.lhs, x, any)

(* Operators that pick some of what their left side matches.               *)
RECURSIVE Exact(_)
Exact(q) ==
  CASE q.type \in {"key", "word", "many", "compare"} -> TRUE
    [] q.type = "unary" -> Exact(q.lhs)
    [] q.type = "binary" ->
         q.op \in {"or", "and", "subtract", "orderby"} /\ Exact(q.lhs) /\ Exact(q.rhs)
    [] OTHER -> FALSE

AllAddresses == {Address(p[1], p[2]) : p \in UNION {PlacesOf(d) :
                   d \in UNION {ToSet(world.summaries[i].docs) : i \in DOMAIN world.summaries}}}

Finds(any) ==
  /\ \A x \in Offsets(offsets) : Matches(stmt.query, x, any)
  /\ \A i, j \in 1..Len(offsets) : i < j => offsets[i].offset < offsets[j].offset
  /\ Exact(stmt.query) => \A x \in AllAddresses :
       Matches(stmt.query, x, any) => x \in Offsets(offsets)

(* A search finds the documents that match, all of them and each once,     *)
(* although the lists of the index hold documents more than once, sides    *)
(* are not evaluated when the left one is empty, and scores are replaced.  *)
(* A document that only an earlier table lists under a word does not match *)
(* it: each table's list replaces the one before (query.cc:406).           *)
FindsMatches == stage = "found" => Finds(FALSE)

(* The same with every table that has a word: what a reader of the sample  *)
(* schema, with its two index tables, expects.  It follows from            *)
(* FindsMatches where no word is in two tables, and is false elsewhere.    *)
FindsInAllTables == stage = "found" => Finds(TRUE)

(* The best score counts of a document that a word lists several times, in *)
(* the table that answers for the word.                                    *)
BestScoreCounts ==
  stage = "found" /\ stmt.query.type = "word" =>
    \A i \in 1..Len(offsets) : \A n \in Answering(stmt.query.word, FALSE) :
      \A v \in ToSet(world.index[n][stmt.query.word]) :
        v.offset = offsets[i].offset => v.score <= offsets[i].score

(* A page holds what it should: the documents of the ranks it covers, in   *)
(* order, no more than the limit and no fewer than there are.              *)
PageHoldsRanks ==
  stage \in {"sorted", "printed"} =>
    LET better(v) == Cardinality({i \in 1..Len(offsets) : offsets[i].score > v.score})
        asgood(v) == Cardinality({i \in 1..Len(offsets) : offsets[i].score >= v.score})
        rest == Len(offsets) - stmt.offset
    IN  /\ \A i \in 1..Len(page) :
             better(page[i]) < stmt.offset + i /\ stmt.offset + i <= asgood(page[i])
        /\ Len(page) = IF rest <= 0 THEN 0
                       ELSE IF stmt.limit < 0 \/ stmt.limit > rest THEN rest ELSE stmt.limit

(* Each result is the document that the loader gave the address, at the    *)
(* rank of its score, although it was fetched in another order; no address *)
(* leads nowhere.  (It holds where summary tables come in the order of     *)
(* their addresses.)                                                       *)
AddressesResolve ==
  /\ stage /= "error"
  /\ Printed => \A i \in 1..Len(page) :
       \E p \in PlacesOf(results[i].doc) : page[i].offset = Address(p[1], p[2])

(* A result is in the group of its score: not below the lower threshold,   *)
(* and below the upper one.                                                *)
GroupsHoldScores ==
  Printed => \A i \in 1..Len(page) : results[i].bucket > 0 =>
    /\ stmt.thresholds[results[i].bucket - 1] <= page[i].score
    /\ page[i].score < stmt.thresholds[results[i].bucket]

(* The score of a result is inside the range of the thresholds.            *)
ScoresInRange == stage /= "undefined"

(* An entry in an override table is used.                                  *)
OverridesUsed ==
  Printed => \A i \in 1..Len(page) : \A n \in DOMAIN world.overrides :
    results[i].doc \in world.overrides[n] => results[i].overrides /= {}

(* The summaries of all tables that have the document are in its result.   *)
SummariesMerged ==
  Printed => \A i \in 1..Len(page) : {p[1] : p \in PlacesOf(results[i].doc)} = results[i].from

(* The headers in a result are those of the object in its own query.       *)
HeadersOfThisQuery ==
  Printed => \A i \in 1..Len(page) :
    results[i].header = None \/ <<page[i].offset, results[i].header>> \in HeadersIn(stmt.query)
=============================================================================
