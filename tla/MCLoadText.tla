----------------------------- MODULE MCLoadText -----------------------------
(* Values for LoadText: files of up to three lines.                        *)
EXTENDS Integers, Sequences, TLC

a == 97
b == 98
Tab == 9
Backslash == 92

Line(k, o, v) == [key |-> k, offset |-> o, value |-> v]

(* Keys of which one begins another, two that need escaping, and a key of  *)
(* another first character.                                                *)
Keys == {<<a>>, <<a, Tab>>, <<a, Backslash>>, <<a, b>>, <<b>>}
Lines == {Line(k, o, <<s>>) : k \in Keys, o \in 1..2, s \in {1, 3}}
FewerLines == {Line(k, o, <<1>>) : k \in Keys, o \in 1..2}

ShortFiles == [1..2 -> Lines]
LongFiles == [1..3 -> FewerLines]
MCFiles ==
  ShortFiles \cup LongFiles
    \cup {<<Line(<<a>>, 1, <<5, 1, 2, 3, 4>>)>>, <<Line(<<a>>, 1, <<5, 1>>)>>}

Default ==
  [type |-> "time-series", backend |-> "leveldb-table", rejected |-> {},
   threshold |-> -1, strip |-> <<>>, add |-> <<>>, summaries |-> <<>>,
   no_unescape |-> FALSE, pipe |-> TRUE]

(* Document 1 is in both summary tables, document 2 in neither.            *)
Tables == <<[base |-> 0, rows |-> (0 :> 0 @@ 1 :> 3)], [base |-> 10, rows |-> (1 :> 0)]>>

MCOptions ==
  {Default,
   [Default EXCEPT !.backend = "unsorted write-once", !.threshold = 3, !.add = <<b>>],
   [Default EXCEPT !.rejected = {<<a>>}, !.backend = "write-once", !.pipe = FALSE],
   [Default EXCEPT !.strip = <<a>>, !.no_unescape = TRUE, !.pipe = FALSE],
   [Default EXCEPT !.type = "index", !.summaries = Tables],
   [Default EXCEPT !.type = "summaries", !.backend = "write-once", !.add = <<b>>]}
=============================================================================
