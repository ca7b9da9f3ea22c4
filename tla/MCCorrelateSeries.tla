------------------------- MODULE MCCorrelateSeries --------------------------
(* Values for CorrelateSeries: sets of up to two documents of three,       *)
(* series of up to three values.                                           *)
EXTENDS Integers, Sequences

Elements(scores) == [offset : 1..3, score : scores]

(* Series are sorted by offset, sets strictly.                             *)
Series(n) ==
  {s \in [1..n -> Elements(0..2)] :
     \A k \in 1 .. n - 1 : s[k].offset <= s[k + 1].offset}
Sets(n) ==
  {s \in [1..n -> Elements(1..2)] :
     \A k \in 1 .. n - 1 : s[k].offset < s[k + 1].offset}

OffsetsOf(s) == {s[k].offset : k \in 1..Len(s)}
MCCases ==
  {c \in (Sets(1) \cup Sets(2)) \X (Sets(1) \cup Sets(2))
         \X (Series(1) \cup Series(2) \cup Series(3)) :
     OffsetsOf(c[1]) \cap OffsetsOf(c[2]) = {}}
MCMinusInf == -10
=============================================================================
