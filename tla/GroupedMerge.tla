---------------------------- MODULE GroupedMerge ----------------------------
(***************************************************************************)
(* What ca_table_merge of src/src/merge.cc promises its caller: the        *)
(* callback gets every key of the tables once, in order, with all rows     *)
(* that have the key.                                                      *)
(***************************************************************************)
EXTENDS Integers, Sequences, SequencesExt

VARIABLES
  input,    \* the tables: input[t] is the sequence of table t's keys
  groups,   \* what the callback was given: a key and a sequence of rows
  outcome   \* "running", "returned" or "thrown"

vars == <<input, groups, outcome>>

(* Row r of table t is <<t, r>>.                                           *)
AllRows == UNION {{t} \X (1..Len(input[t])) : t \in DOMAIN input}
KeyOf(row) == input[row[1]][row[2]]

RowsGiven == UNION {ToSet(groups[g].data) : g \in 1..Len(groups)}

Init ==
  /\ input \in Seq(Seq(Nat))
  /\ groups = <<>> /\ outcome = "running"

(* A group has one key, all rows that have it, each once, and the rows of  *)
(* one table in their order.                                               *)
WholeGroup(g) ==
  /\ ToSet(g.data) = {row \in AllRows : KeyOf(row) = g.key}
  /\ \A i, j \in 1..Len(g.data) :
       i < j => \/ g.data[i][1] # g.data[j][1]
                \/ g.data[i][2] < g.data[j][2]

(* The callback gets the smallest key that is left.                        *)
Emit ==
  /\ outcome = "running"
  /\ Len(groups') = Len(groups) + 1
  /\ Front(groups') = groups
  /\ Last(groups').data # <<>>
  /\ WholeGroup(Last(groups'))
  /\ \A row \in AllRows \ RowsGiven : Last(groups').key <= KeyOf(row)
  /\ \A g \in 1..Len(groups) : groups[g].key < Last(groups').key
  /\ UNCHANGED input

(* The merge returns, after a last group or without, when all is given.    *)
Return ==
  /\ outcome = "running" /\ outcome' = "returned"
  /\ Emit \/ UNCHANGED <<input, groups>>
  /\ RowsGiven' = AllRows

(* The callback throws, or a table, which may be after a group.            *)
Throw ==
  /\ outcome = "running" /\ outcome' = "thrown"
  /\ Emit \/ UNCHANGED <<input, groups>>

Next == (Emit /\ UNCHANGED outcome) \/ Return \/ Throw

Spec == Init /\ [][Next]_vars
=============================================================================
