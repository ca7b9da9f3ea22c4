---------------------------- MODULE MCLoadColumns ---------------------------
(* Values for LoadColumns: up to four rows in two files.                   *)
EXTENDS Integers, Sequences, TLC

NoScore == -1

C(k, d, s) == [key |-> k, date |-> d, score |-> s]
Rows == {C(k, d, s) : k \in 1..2, d \in 1..2, s \in {NoScore, 2}} \cup {C(0, 1, 2)}
SomeFiles == {<<>>} \cup [1..1 -> Rows] \cup [1..2 -> Rows]
MCInputs == [1..2 -> SomeFiles] \cup {<<f>> : f \in SomeFiles}

Default == [type |-> "time-series", backend |-> "leveldb-table", threshold |-> NoScore,
            summaries |-> <<>>]
(* Document 1 is in both summary tables, document 2 in neither.            *)
MCOptions ==
  {Default, [Default EXCEPT !.backend = "write-once", !.threshold = 1],
   [Default EXCEPT !.type = "index", !.summaries = <<1 :> 5, 1 :> 7>>],
   [Default EXCEPT !.type = "summaries", !.backend = "write-once"]}
=============================================================================
