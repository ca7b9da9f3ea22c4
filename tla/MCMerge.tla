------------------------------ MODULE MCMerge ------------------------------
(* Every list of five tables over three keys, one of them the empty key:   *)
(* two tables of up to two rows, two of up to one row, and one that has    *)
(* up to one row or is not sorted.  Five tables give the heap three levels *)
(* and a last entry that need not be below the hole; the second rows keep  *)
(* a table in the heap while others leave it.                              *)
EXTENDS Merge

CONSTANTS MaxKey

SortedRows(n) ==
  {s \in UNION {[1..k -> 0..MaxKey] : k \in 0..n} :
     \A i, j \in 1..Len(s) : i < j => s[i] <= s[j]}

Unsorted == <<1, 0>>

MCInputs ==
  {<<a, b, c, d, e>> : a \in SortedRows(2), b \in SortedRows(2),
                       c \in SortedRows(1), d \in SortedRows(1),
                       e \in SortedRows(1) \cup {Unsorted}}
=============================================================================
