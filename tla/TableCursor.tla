----------------------------- MODULE TableCursor -----------------------------
(***************************************************************************)
(* What class Table of src/src/ca-table.h promises a reader of a sorted    *)
(* table, whatever the backend: the rows are one sequence, and the cursor  *)
(* stands before one of them or after the last.  A state holds the last    *)
(* call with its argument and what came of it.                             *)
(***************************************************************************)
EXTENDS WriteOnceFormat

CONSTANTS Files,      \* the tables that may be opened
          MaxSkip     \* bound: largest argument of Skip

VARIABLES
  file,   \* the open table: rows, ends, and at[i], the offset after i rows
  pos,    \* how many rows the cursor has passed
  call,   \* the last call and its argument
  ret,    \* what it returned
  got,    \* the rows it took key and value from, if it was ReadRow()
  off     \* the offset it returned, if it was Offset()

vars == <<file, pos, call, ret, got, off>>

NumRows(f) == Len(f.rows)
NoRow == [key |-> 0, value |-> 0]
Call(op, arg) == [op |-> op, arg |-> arg]

Init ==
  /\ file \in Files
  /\ pos = 0 /\ call = Call("Open", 0) /\ ret = "none" /\ got = NoRow /\ off = 0

(* A call that returns at most a truth value.                              *)
Returns(r) == ret' = r /\ got' = NoRow /\ off' = 0 /\ UNCHANGED file

SeekToFirst ==
  /\ call' = Call("SeekToFirst", 0)
  /\ pos' = 0
  /\ Returns("none")

(* The cursor moves to the first row that is not before the key; if there  *)
(* is none, behind the last row.                                           *)
SeekToKey(key) ==
  /\ call' = Call("SeekToKey", key)
  /\ pos' \in 0..NumRows(file)
  /\ \A i \in 1..pos' : file.rows[i].key < key
  /\ pos' < NumRows(file) => key <= file.rows[pos' + 1].key
  /\ Returns(IF \E i \in 1..NumRows(file) : file.rows[i].key = key
             THEN "true" ELSE "false")

Skip(n) ==
  /\ call' = Call("Skip", n)
  /\ \/ pos + n <= NumRows(file) /\ pos' = pos + n /\ Returns("true")
     \/ pos + n > NumRows(file) /\ pos' = NumRows(file) /\ Returns("false")

ReadRow ==
  /\ call' = Call("ReadRow", 0)
  /\ \/ /\ pos < NumRows(file)
        /\ pos' = pos + 1 /\ ret' = "true"
        /\ got' = [key |-> pos + 1, value |-> pos + 1]
        /\ off' = 0 /\ UNCHANGED file
     \/ /\ pos = NumRows(file)
        /\ Returns("false") /\ UNCHANGED pos

Offset ==
  /\ call' = Call("Offset", 0)
  /\ off' = file.at[pos] - HeaderSize
  /\ ret' = "none" /\ got' = NoRow
  /\ UNCHANGED <<file, pos>>

(* Seek(offset, SEEK_SET): to the first row at or after the offset.        *)
SeekSet(offset) ==
  /\ call' = Call("SeekSet", offset)
  /\ pos' \in 0..NumRows(file)
  /\ \A i \in 0..pos' - 1 : file.at[i] < offset + HeaderSize
  /\ offset + HeaderSize <= file.at[pos']
  /\ Returns("none")

Next ==
  \/ SeekToFirst
  \/ \E key \in Keys : SeekToKey(key)
  \/ \E n \in 0..MaxSkip : Skip(n)
  \/ ReadRow
  \/ Offset
  \/ \E offset \in 0..file.at[NumRows(file)] - HeaderSize : SeekSet(offset)

Spec == Init /\ [][Next]_vars
=============================================================================
