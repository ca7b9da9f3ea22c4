------------------------------- MODULE Merge -------------------------------
(***************************************************************************)
(* ca_table_merge of src/src/merge.cc: the next row of every table is kept *)
(* in a binary heap ordered by key; the rows that leave it at the top are  *)
(* gathered until the key changes.  A round of a loop is a step, those of  *)
(* the three functions on the heap too.                                    *)
(*                                                                         *)
(* The heap is a sequence, so that its first entry is number 1 as it is in *)
(* the code after `--heap'.  A key is a number; only the order of keys     *)
(* matters, and 0 is the empty key.                                        *)
(***************************************************************************)
EXTENDS Integers, Sequences, SequencesExt

CONSTANTS Inputs      \* the lists of tables that may be merged

ASSUME InputsAssumption == Inputs \subseteq Seq(Seq(Nat))

VARIABLES
  input,        \* tables: input[t] is the sequence of table t's keys
  read,         \* how many rows have been read from each table
  filled,       \* how many tables the first loop has been through
  heap,         \* heap[0 .. heap_size - 1]
  call,         \* which CA_merge_heap_ function runs, or "none"
  hole,         \* its i
  down,         \* whether it is in its first loop
  entry,        \* the entry it is to put in
  current_key,  \* of callback_wrapper
  data,         \* of callback_wrapper: the rows gathered
  groups,       \* history: what the callback was given
  phase         \* "running", "returned", "thrown", or "undefined" after a
                \* read in front of the array

heapVars == <<heap, call, hole, down, entry>>
wrapperVars == <<current_key, data, groups>>
vars == <<input, read, filled, heapVars, wrapperVars, phase>>

Tables == DOMAIN input
Entry == [key : Nat, table : Nat, row : Nat]

TypeOK ==
  /\ input \in Seq(Seq(Nat))
  /\ read \in [Tables -> Nat] /\ \A t \in Tables : read[t] \in 0..Len(input[t])
  /\ filled \in 0..Len(input)
  /\ heap \in Seq(Entry)
  /\ call \in {"none", "push", "replace_top", "pop"}
  /\ hole \in Nat /\ down \in BOOLEAN /\ entry \in Entry
  /\ current_key \in Nat
  /\ data \in Seq(Nat \X Nat)
  /\ groups \in Seq([key : Nat, data : Seq(Nat \X Nat)])
  /\ phase \in {"running", "returned", "thrown", "undefined"}

Init ==
  /\ input \in Inputs
  /\ read = [t \in Tables |-> 0]
  /\ filled = 0
  /\ heap = <<>> /\ call = "none" /\ hole = 0 /\ down = FALSE
  /\ entry = [key |-> 0, table |-> 0, row |-> 0]
  /\ current_key = 0 /\ data = <<>> /\ groups = <<>>
  /\ phase = "running"
-----------------------------------------------------------------------------
(* The heap's functions are called.                                        *)

CA_merge_heap_push(e) ==
  /\ heap' = Append(heap, e)
  /\ call' = "push" /\ hole' = Len(heap) + 1 /\ down' = FALSE /\ entry' = e

CA_merge_heap_replace_top(e) ==
  /\ call' = "replace_top" /\ hole' = 1 /\ down' = TRUE /\ entry' = e
  /\ UNCHANGED heap

CA_merge_heap_pop ==
  /\ call' = "pop" /\ hole' = 1 /\ down' = TRUE
  /\ UNCHANGED <<heap, entry>>

(* Mutant of SmallerChild: the first child is taken unseen.                *)
SmallerChildFirst == 2 * hole

SmallerChild ==
  IF 2 * hole + 1 <= Len(heap) /\ heap[2 * hole + 1].key < heap[2 * hole].key
  THEN 2 * hole + 1 ELSE 2 * hole

Parent(i) == i \div 2

(* Entry i moves into the hole and leaves a hole.                          *)
MoveIntoHole(i) ==
  /\ heap' = [heap EXCEPT ![hole] = heap[i]]
  /\ hole' = i

(* "Move hole down the tree"                                               *)
HoleDown ==
  /\ phase = "running" /\ call # "none" /\ down
  /\ 2 * hole <= Len(heap)
  /\ MoveIntoHole(SmallerChild)
  /\ UNCHANGED <<input, read, filled, call, down, entry, wrapperVars, phase>>

(* The first loop ends.  A pop is done if the hole has come to the last    *)
(* entry's place; or else that is the entry to put in.                     *)
HoleAtBottom ==
  /\ phase = "running" /\ call # "none" /\ down
  /\ 2 * hole > Len(heap)
  /\ \/ /\ call = "pop" /\ hole = Len(heap)
        /\ heap' = Front(heap) /\ call' = "none" /\ UNCHANGED entry
     \/ /\ ~(call = "pop" /\ hole = Len(heap))
        /\ entry' = IF call = "pop" THEN Last(heap) ELSE entry
        /\ UNCHANGED <<heap, call>>
  /\ down' = FALSE
  /\ UNCHANGED <<input, read, filled, hole, wrapperVars, phase>>

(* Mutant of BelongsAbove: the entry stays where the hole has got to.      *)
BelongsNowhere == FALSE

BelongsAbove == hole > 1 /\ entry.key < heap[Parent(hole)].key

(* "Move ancestor chain down into hole"                                    *)
HoleUp ==
  /\ phase = "running" /\ call # "none" /\ ~down
  /\ BelongsAbove
  /\ MoveIntoHole(Parent(hole))
  /\ UNCHANGED <<input, read, filled, call, down, entry, wrapperVars, phase>>

(* The entry is put into the hole.  A pop has `while (i > 0)': at the top  *)
(* it compares with heap[0], in front of the array.                        *)
FillHole ==
  /\ phase = "running" /\ call # "none" /\ ~down
  /\ ~BelongsAbove
  /\ LET full == [heap EXCEPT ![hole] = entry] IN
       heap' = IF call = "pop" THEN Front(full) ELSE full
  /\ phase' = IF call = "pop" /\ hole = 1 THEN "undefined" ELSE phase
  /\ call' = "none"
  /\ UNCHANGED <<input, read, filled, hole, down, entry, wrapperVars>>
-----------------------------------------------------------------------------
(* Table::IsSorted: what version 3 tables keep as a flag, and all others   *)
(* are by their construction.                                              *)
TableIsSorted(t) ==
  \A i, j \in 1..Len(input[t]) : i < j => input[t][i] <= input[t][j]

(* What ReadRow gives next, and whether it gives anything.                 *)
NextEntry(t) == [key |-> input[t][read[t] + 1], table |-> t, row |-> read[t] + 1]
HasRow(t) == read[t] < Len(input[t])

(* Mutant of ReadRow: the cursor moves although there is no row.           *)
ReadRowPastEnd(t) == read' = [read EXCEPT ![t] = @ + 1]

ReadRow(t) == read' = IF HasRow(t) THEN [read EXCEPT ![t] = @ + 1] ELSE read

(* Mutant of Fill: a table without rows is not passed over.                *)
FillSticks ==
  /\ phase = "running" /\ call = "none" /\ filled < Len(input)
  /\ LET t == filled + 1 IN
       /\ TableIsSorted(t) /\ HasRow(t) /\ filled' = t
       /\ ReadRow(t)
       /\ CA_merge_heap_push(NextEntry(t))
  /\ UNCHANGED <<input, wrapperVars, phase>>

(* One round of the first loop.                                            *)
Fill ==
  /\ phase = "running" /\ call = "none" /\ filled < Len(input)
  /\ LET t == filled + 1 IN
       \/ /\ ~TableIsSorted(t)
          /\ phase' = "thrown" /\ UNCHANGED <<read, filled, heapVars>>
       \/ /\ TableIsSorted(t) /\ filled' = t
          /\ ReadRow(t)
          /\ IF HasRow(t) THEN CA_merge_heap_push(NextEntry(t)) ELSE UNCHANGED heapVars
          /\ UNCHANGED phase
  /\ UNCHANGED <<input, wrapperVars>>

(* callback_wrapper: the rows of the last key are handed on when a row     *)
(* with another key comes.  It never returns the -1 that would end the     *)
(* loop.                                                                   *)
CallbackWrapper(e) ==
  /\ groups' = IF e.key # current_key /\ data # <<>>
               THEN Append(groups, [key |-> current_key, data |-> data])
               ELSE groups
  /\ data' = Append(IF e.key # current_key THEN <<>> ELSE data, <<e.table, e.row>>)
  /\ current_key' = e.key

(* One round of the second loop.                                           *)
Step ==
  /\ phase = "running" /\ call = "none" /\ filled = Len(input) /\ heap # <<>>
  /\ CallbackWrapper(heap[1])
  /\ LET t == heap[1].table IN
       /\ ReadRow(t)
       /\ \/ HasRow(t) /\ CA_merge_heap_replace_top(NextEntry(t))
          \/ ~HasRow(t) /\ CA_merge_heap_pop
  /\ UNCHANGED <<input, filled, phase>>

(* After the loops the rows of the last key are handed on.                 *)
LastGroup ==
  /\ filled = Len(input) /\ heap = <<>>
  /\ groups' = IF data # <<>>
               THEN Append(groups, [key |-> current_key, data |-> data])
               ELSE groups
  /\ UNCHANGED <<current_key, data>>

(* The callback throws, or a table's ReadRow does: in the first loop, or   *)
(* after the callback was called.                                          *)
Throw ==
  /\ phase = "running" /\ call = "none" /\ phase' = "thrown"
  /\ \/ UNCHANGED wrapperVars
     \/ filled = Len(input) /\ heap # <<>> /\ CallbackWrapper(heap[1])
     \/ LastGroup
  /\ UNCHANGED <<input, read, filled, heapVars>>

(* Mutant of Return: the last key's rows are forgotten.                    *)
ReturnForgets ==
  /\ phase = "running" /\ call = "none" /\ filled = Len(input) /\ heap = <<>>
  /\ phase' = "returned"
  /\ UNCHANGED <<input, read, filled, heapVars, wrapperVars>>

Return ==
  /\ phase = "running" /\ call = "none" /\ phase' = "returned"
  /\ LastGroup
  /\ UNCHANGED <<input, read, filled, heapVars>>

HeapStep == HoleDown \/ HoleAtBottom \/ HoleUp \/ FillHole

Next == Fill \/ Step \/ HeapStep \/ Throw \/ Return

Spec == Init /\ [][Next]_vars

(* One thread runs the two loops to their end; tables are finite.          *)
FairSpec == Spec /\ WF_vars(Fill \/ Step \/ HeapStep \/ Return)
-----------------------------------------------------------------------------
Grouped == INSTANCE GroupedMerge WITH outcome <- phase

(* The heap, and a group that is open across many rows and tables, do not  *)
(* show: the callback gets each key once, in order, with all its rows.     *)
MergesInGroups == Grouped!Spec

(* Between two calls of the heap's functions, no entry is smaller than the *)
(* one above it, and every table that has rows left has exactly one entry: *)
(* the row read last.                                                      *)
HeapHoldsCursors ==
  call = "none" =>
    /\ \A i \in 2..Len(heap) : heap[Parent(i)].key <= heap[i].key
    /\ \A i, j \in 1..Len(heap) : heap[i].table = heap[j].table => i = j
    /\ \A i \in 1..Len(heap) :
         /\ heap[i].table \in 1..filled
         /\ heap[i].row = read[heap[i].table]
         /\ heap[i].key = input[heap[i].table][heap[i].row]
    /\ \A t \in 1..filled :
         (\A i \in 1..Len(heap) : heap[i].table # t) => ~HasRow(t)

(* CA_merge_heap_pop's loop runs to i = 1 and would then look in front of  *)
(* the array: the last entry never gets so far, because the smaller child  *)
(* that moved to the top is not larger.                                    *)
PopStaysInside == phase # "undefined"

(* The heap of the merge is an array that stays sound.                     *)
HeapSound == TypeOK /\ HeapHoldsCursors /\ PopStaysInside

(* The merge comes to an end.                                              *)
MergeEnds == <>(phase # "running")
=============================================================================
