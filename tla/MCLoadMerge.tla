---------------------------- MODULE MCLoadMerge -----------------------------
(* Values for LoadMerge: two tables of up to two rows, and one or three.   *)
EXTENDS Integers, Sequences

Keys == <<<<1>>, <<1, 2>>, <<2>>>>
Val(o, s, b) == [offset |-> o, score |-> s, band |-> b]

(* The tables with rows for some of the keys, in order.                    *)
TablesOf(values) ==
  {[i \in 1..Len(s) |-> [key |-> Keys[s[i]], value |-> f[i]]] :
     <<s, f>> \in UNION {{<<q, g>> : g \in [1..Len(q) -> values]} :
                           q \in {<<1>>, <<2>>, <<3>>, <<1, 2>>, <<1, 3>>}}}

Spans ==
  {<<Val(1, 1, FALSE)>>, <<Val(1, 3, TRUE)>>,
   <<Val(1, 1, FALSE), Val(2, 3, FALSE)>>, <<Val(2, 1, TRUE)>>}

(* As a column file may have left it.                                      *)
Unsorted == {<<Val(2, 1, FALSE), Val(1, 1, FALSE)>>}

CopyTables == {<<t>> : t \in TablesOf(Spans)}
SeriesTables ==
  (TablesOf(Spans) \X TablesOf(Spans)) \cup (TablesOf(Spans) \X {<<>>})
    \cup (TablesOf(Unsorted) \X TablesOf(Spans))
    \cup CopyTables \cup {<<t, t, t>> : t \in TablesOf(Spans)}

Texts == {<<"{", "x", "}">>, <<"{", "y", "}">>, <<"{", " ", "z", "}">>, <<"{", "w", "w">>}
SummaryTables ==
  (TablesOf(Texts) \X TablesOf(Texts)) \cup {<<t>> : t \in TablesOf(Texts)}

Default ==
  [type |-> "time-series", backend |-> "leveldb-table", mode |-> "union", other_shards |-> {},
   filtered |-> {}, min_key |-> <<>>, threshold |-> -1, strip |-> <<>>, add |-> <<>>]

SeriesOptions ==
  {Default,
   [Default EXCEPT !.type = "index", !.add = <<2>>],
   [Default EXCEPT !.mode = "pick-one", !.add = <<1>>],
   [Default EXCEPT !.mode = "pick-one", !.other_shards = {<<2>>}],
   [Default EXCEPT !.mode = "sum", !.threshold = 3, !.backend = "write-once"],
   [Default EXCEPT !.mode = "sum", !.filtered = {<<1>>}, !.min_key = <<1, 2>>],
   [Default EXCEPT !.strip = <<1>>]}

(* Summaries are written to write-once tables.                             *)
Summaries == [Default EXCEPT !.type = "summaries", !.backend = "write-once"]
SummaryOptions ==
  {Summaries, [Summaries EXCEPT !.mode = "pick-one", !.add = <<3>>],
   [Summaries EXCEPT !.mode = "sum", !.other_shards = {<<2>>}]}
=============================================================================
