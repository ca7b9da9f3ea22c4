--------------------------- MODULE LevelDBCursor ---------------------------
(***************************************************************************)
(* The reading half of LevelDBTable (src/src/table-backend-leveldb-        *)
(* table.cc): a LevelDB iterator and two flags.  After a row is read the   *)
(* iterator stays on it, because the row's memory is the iterator's, and   *)
(* need_seek_ says that it has to move before the next read.               *)
(*                                                                         *)
(* The iterator itself is external.  It stands on a row or on none, and    *)
(* must not be moved or read when it stands on none.  A block that cannot  *)
(* be read is one it passes over: it records an error that nobody asks for.*)
(***************************************************************************)
EXTENDS Integers, Sequences

CONSTANTS LevelDBTables,    \* the sequences of keys a table may hold
          SoughtKeys,       \* the keys that are looked for
          MaxLevelDBSkip,   \* bound: largest argument of Skip
          MayFail           \* whether blocks may be unreadable

ASSUME LevelDBAssumption ==
  /\ LevelDBTables \subseteq Seq(Int) /\ SoughtKeys \subseteq Int
  /\ \A t \in LevelDBTables : \A i, j \in 1..Len(t) : i < j => t[i] < t[j]
  /\ MaxLevelDBSkip \in Nat /\ MayFail \in BOOLEAN

VARIABLES
  keys,        \* the rows' keys
  it,          \* iterator_: the number of its row, Len(keys) + 1 for none
  need_seek,   \* need_seek_
  eof,         \* eof_
  lastCall,    \* the last call and its argument
  rowRet,      \* what it returned
  rowGot       \* the row it returned, if it was ReadRow()

cursorVars == <<keys, it, need_seek, eof, lastCall, rowRet, rowGot>>

LevelDBCall(op, arg) == [op |-> op, arg |-> arg]

N == Len(keys)
Valid(i) == i \in 1..N

CursorTypeOK ==
  /\ keys \in LevelDBTables /\ it \in 1 .. N + 1
  /\ need_seek \in BOOLEAN /\ eof \in BOOLEAN
  /\ lastCall.op \in {"Open", "SeekToFirst", "SeekToKey", "Skip", "ReadRow"}
  /\ rowRet \in {"none", "true", "false", "thrown", "undefined"} /\ rowGot \in 0..N

(* leveldb::Iterator: Next() and Seek() find the row asked for, or pass    *)
(* over unreadable blocks to a later one or to none.                       *)
From(i) == IF MayFail THEN i .. N + 1 ELSE {i}
LowerBound(key) ==
  CHOOSE i \in 1 .. N + 1 : /\ \A j \in 1 .. i - 1 : keys[j] < key
                            /\ i <= N => keys[i] >= key

CursorInit ==
  /\ keys \in LevelDBTables
  /\ it \in From(1) /\ eof = ~Valid(it)
  /\ need_seek = FALSE /\ lastCall = LevelDBCall("Open", 0) /\ rowRet = "none" /\ rowGot = 0

(* Mutant of SeekToFirst: eof_ is set but never cleared.                   *)
LevelDBSeekToFirstStale ==
  /\ it' \in From(1)
  /\ need_seek' = FALSE /\ eof' = (eof \/ ~Valid(it'))
  /\ rowRet' = IF eof' THEN "thrown" ELSE "none"
  /\ lastCall' = LevelDBCall("SeekToFirst", 0) /\ rowGot' = 0 /\ UNCHANGED keys

LevelDBSeekToFirst ==
  /\ it' \in From(1)
  /\ need_seek' = FALSE /\ eof' = ~Valid(it')
  /\ rowRet' = IF eof' THEN "thrown" ELSE "none"
  /\ lastCall' = LevelDBCall("SeekToFirst", 0) /\ rowGot' = 0 /\ UNCHANGED keys

LevelDBSeekToKey(key) ==
  /\ it' \in From(LowerBound(key))
  /\ need_seek' = FALSE /\ eof' = ~Valid(it')
  /\ rowRet' = IF Valid(it') /\ keys[it'] = key THEN "true" ELSE "false"
  /\ lastCall' = LevelDBCall("SeekToKey", key) /\ rowGot' = 0 /\ UNCHANGED keys

(* Mutant of SkipFrom: need_seek_ is reset, though the iterator is still   *)
(* on a row that was read.                                                 *)
SkipFromForgets(i, need, n) ==
  IF i + n <= N \/ n = 0
  THEN [it |-> i + n, need |-> FALSE, eof |-> ~Valid(i), ret |-> "true"]
  ELSE [it |-> N + 1, need |-> FALSE, eof |-> TRUE,
        ret |-> IF i + n = N + 1 THEN "true" ELSE "false"]

(* `n' turns of the loop from row i: it stops in front of a move that has  *)
(* no row to start from.                                                   *)
SkipFrom(i, need, n) ==
  IF i + n <= N \/ n = 0
  THEN [it |-> i + n, need |-> need, eof |-> ~Valid(i), ret |-> "true"]
  ELSE [it |-> N + 1, need |-> FALSE, eof |-> TRUE,
        ret |-> IF i + n = N + 1 THEN "true" ELSE "false"]

(* With unreadable blocks, m rows are passed over on the way.              *)
LevelDBSkip(n) ==
  \E m \in (IF MayFail /\ n > 0 THEN 0 .. N + 1 - it ELSE {0}) :
    LET r == SkipFrom(it + m, need_seek, n)
    IN /\ it' = r.it /\ need_seek' = r.need /\ eof' = r.eof
       /\ lastCall' = LevelDBCall("Skip", n)
       /\ rowRet' = r.ret /\ rowGot' = 0 /\ UNCHANGED keys

LevelDBReadRow ==
  \E i \in (IF need_seek THEN From(it + 1) ELSE {it}) :
    /\ it' = i /\ lastCall' = LevelDBCall("ReadRow", 0)
    /\ eof' = (eof \/ (need_seek /\ ~Valid(i)))
    /\ need_seek' = ~eof'
    /\ rowRet' = (CASE eof' -> "false" [] Valid(i) -> "true"
                 [] OTHER -> "undefined")
    /\ rowGot' = IF rowRet' = "true" THEN i ELSE 0
    /\ UNCHANGED keys

CursorNext ==
  \/ LevelDBSeekToFirst
  \/ \E key \in SoughtKeys : LevelDBSeekToKey(key)
  \/ \E n \in 0..MaxLevelDBSkip : LevelDBSkip(n)
  \/ LevelDBReadRow

CursorSpec == CursorInit /\ [][CursorNext]_cursorVars
-----------------------------------------------------------------------------
(* The iterator is moved and read only while it stands on a row, as        *)
(* LevelDB demands: eof_ is set exactly when it stands on none, and        *)
(* need_seek_ is never set then (ReadRow, Skip and SeekToKey each keep the *)
(* two flags in step).                                                     *)
FlagsFollowIterator ==
  /\ CursorTypeOK
  /\ eof <=> ~Valid(it)
  /\ need_seek => Valid(it)
  /\ rowRet /= "undefined"

(* The rows that the cursor has passed.                                    *)
LevelDBPos == IF eof THEN N ELSE IF need_seek THEN it ELSE it - 1

LevelDBRows ==
  INSTANCE TableCursor WITH
    file <- [rows |-> [i \in 1..N |-> [key |-> keys[i]]],
             at |-> [i \in 0..N |-> i]],
    pos <- LevelDBPos, off <- 0,
    got <- [key |-> rowGot, value |-> rowGot],
    Files <- {}, Keys <- SoughtKeys, Vals <- {}, Sizes <- {},
    MaxSkip <- MaxLevelDBSkip, call <- lastCall, ret <- rowRet

(* Skip() of one row more than are left returns true when a row has been   *)
(* read since the last seek: the loop's last turn takes the iterator off   *)
(* the row that was read already.                                          *)
SkipOneTooMany ==
  /\ lastCall'.op = "Skip" /\ need_seek /\ LevelDBPos + lastCall'.arg = N + 1
  /\ rowRet' = "true" /\ eof' /\ LevelDBPos' = N
  /\ UNCHANGED keys /\ rowGot' = 0

(* SeekToFirst() throws on a table without rows.                           *)
SeekToFirstOfNone ==
  lastCall'.op = "SeekToFirst" /\ N = 0 /\ rowRet' = "thrown" /\ UNCHANGED LevelDBPos

(* Apart from those two, the table behaves as the interface in ca-table.h  *)
(* promises of every backend: each call does with its argument what it     *)
(* does to one sequence of rows and a cursor in it. In particular Skip()   *)
(* after ReadRow(), where the iterator is one row behind the cursor, ends  *)
(* at the row its count says.                                              *)
LevelDBReadsAsOneTable ==
  [][\/ LevelDBRows!SeekToFirst
     \/ \E key \in SoughtKeys : LevelDBRows!SeekToKey(key)
     \/ \E n \in 0..MaxLevelDBSkip : LevelDBRows!Skip(n)
     \/ LevelDBRows!ReadRow
     \/ SkipOneTooMany
     \/ SeekToFirstOfNone]_cursorVars

(* "Returns true if a value was read successfully, or false if end of file *)
(* was reached instead" (ReadRow): the rows read between two seeks have no *)
(* gaps, and false is returned behind the last row only.                   *)
FalseMeansEnd ==
  [][lastCall'.op = "ReadRow" =>
       LET before == IF need_seek THEN it ELSE it - 1
       IN IF rowRet' = "true" THEN rowGot' = before + 1
          ELSE eof \/ before = N]_cursorVars
=============================================================================
