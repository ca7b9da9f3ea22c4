------------------------ MODULE MCWriteOnceBuilder ------------------------
(* The two ways WriteOnceTable is written, of which the table's options    *)
(* choose one (TableOptions::input_unsorted): WriteOnceBuilder, or         *)
(* WriteOnceSortingBuilder, which hands sorted rows to the former.  One of *)
(* them takes the steps of a behaviour.                                    *)
(*                                                                         *)
(* Sorted input has values of which two fill a block exactly to            *)
(* kBlockSizeMax, or whose entry is just at or just over kEntrySizeLimit:  *)
(* every way to close a block, or not to, occurs within three rows.        *)
(* Unsorted input has a prefix of one byte, keys that share it, of which   *)
(* one begins another, and the empty key and value.                        *)
EXTENDS WriteOnceBuilder, WriteOnceSorting

CONSTANTS Inputs      \* of {"sorted", "unsorted"}: what to check

ASSUME Inputs \subseteq {"sorted", "unsorted"}

VARIABLES input       \* whether the rows come sorted

MCKeys == {1, 2}
MCVals == {"v"}
MCSizes == {16380, kEntrySizeLimit - KeySize, kEntrySizeLimit}

MCRawKeys == {<<>>, <<1>>, <<1, 1>>, <<1, 2>>, <<2>>}
MCRawValues == {<<>>, <<7>>, <<8, 9>>}

MCInit == Init /\ SortInit /\ input \in Inputs

(* Build() has ended, with the rows handed on or with an exception.        *)
SortingEnds ==
  /\ sorting \notin {"adding", "flushed", "sorted"}
  /\ UNCHANGED sortVars

MCNext ==
  \/ input = "sorted" /\ Next /\ UNCHANGED <<input, sortVars>>
  \/ input = "unsorted" /\ (SortNext \/ SortingEnds) /\ UNCHANGED <<input, vars>>

MCSpec == MCInit /\ [][MCNext]_<<input, vars, sortVars>>
=============================================================================
