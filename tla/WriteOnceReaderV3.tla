------------------------- MODULE WriteOnceReaderV3 --------------------------
(***************************************************************************)
(* WriteOnceReader_v3 of src/src/table-backend-writeonce.cc: tables of the *)
(* versions up to 3, which end in a hash table of row offsets.  One step   *)
(* of a search looks at one slot.                                          *)
(*                                                                         *)
(* Row n of the table is at offset n; behind the last row are zeros, if    *)
(* any, and then the hash table, in which a slot that holds 0 is empty.    *)
(* Version 3 tries the slots one after the other; the versions before go   *)
(* in steps that grow, until they overflow a word.                         *)
(*                                                                         *)
(* The program that wrote such tables is gone.  It is here as the search   *)
(* expects it: every row in the first empty slot on the way of its key.    *)
(***************************************************************************)
EXTENDS Integers, Sequences

CONSTANTS
  V3Tables,     \* sequences of keys, numbers
  V3Keys,       \* the keys that may be sought
  IndexSizes,   \* numbers of slots
  Versions,     \* of the format: 2, 3
  MaxPadding,   \* bound: zeros between the rows and the index
  Word          \* 2^64

ASSUME V3Assumption ==
  /\ V3Keys \subseteq Nat /\ V3Tables \subseteq Seq(V3Keys)
  /\ IndexSizes \subseteq Nat \ {0} /\ Versions \subseteq {2, 3}
  /\ Word \in Nat \ {0, 1, 2} /\ MaxPadding \in Nat

VARIABLES
  rowKeys,      \* the keys of the table
  ascending,    \* CA_WO_FLAG_ASCENDING
  padding,      \* how many zeros there are between the rows and the index
  version, index_size_, hashes, index_,
  placed,       \* how many rows the writer has placed
  offset_,
  hash, collisions, fib, min_offset, max_offset,   \* locals of SeekToKey
  soughtKey, before,  \* history: what the last call sought, and offset_ when it began
  result        \* "writing", "none", "seeking", "true" or "false", "row" or "end", "thrown"

v3Table == <<rowKeys, ascending, padding, version, index_size_, hashes>>
v3Search == <<hash, collisions, fib, min_offset, max_offset>>
v3Vars == <<v3Table, index_, placed, offset_, v3Search, soughtKey, before, result>>

IndexOffset == Len(rowKeys) + padding + 1
BufferFill == IndexOffset + index_size_
-----------------------------------------------------------------------------
(* The next slot to try, and the numbers that the one after depends on; of *)
(* collisions only the last bit counts.                                    *)

(* Mutant of NextSlot: the search does not begin again at the first slot.  *)
NextSlotStuck(p) ==
  IF version = 3 THEN [p EXCEPT !.hash = IF @ + 1 = index_size_ THEN @ ELSE @ + 1]
  ELSE LET i == 1 - p.collisions
       IN  [hash |-> ((p.hash + p.fib[i]) % Word) % index_size_, collisions |-> i,
            fib |-> [p.fib EXCEPT ![i] = (@ + p.fib[1 - i]) % Word]]

NextSlot(p) ==
  IF version = 3 THEN [p EXCEPT !.hash = IF @ + 1 = index_size_ THEN 0 ELSE @ + 1]
  ELSE LET i == 1 - p.collisions
       IN  [hash |-> ((p.hash + p.fib[i]) % Word) % index_size_, collisions |-> i,
            fib |-> [p.fib EXCEPT ![i] = (@ + p.fib[1 - i]) % Word]]

FirstSlot(k) == [hash |-> hashes[k] % index_size_, collisions |-> 0,
                 fib |-> [i \in {0, 1} |-> 2 - i]]

NoSlot == [hash |-> 0, collisions |-> 0, fib |-> [i \in {0, 1} |-> 0]]

Slot == [hash |-> hash, collisions |-> collisions, fib |-> fib]
GoTo(p) == hash' = p.hash /\ collisions' = p.collisions /\ fib' = p.fib

(* The way of the next row to place.                                       *)
StartOf(row) == IF row <= Len(rowKeys) THEN FirstSlot(rowKeys[row]) ELSE NoSlot

V3Init ==
  /\ rowKeys \in V3Tables
  /\ ascending \in BOOLEAN
  /\ ascending => \A i, j \in 1..Len(rowKeys) : i < j => rowKeys[i] < rowKeys[j]
  /\ padding \in 0..MaxPadding /\ version \in Versions
  /\ index_size_ \in {n \in IndexSizes : n > Len(rowKeys)}
  /\ hashes \in [V3Keys -> 0 .. Word - 1]
  /\ index_ = [i \in 0 .. index_size_ - 1 |-> 0] /\ placed = 0
  /\ LET p == StartOf(1) IN hash = p.hash /\ collisions = p.collisions /\ fib = p.fib
  /\ offset_ = 1 /\ soughtKey = 0 /\ before = 0
  /\ min_offset = 0 /\ max_offset = 0
  /\ result = "writing"

(* The writer tries a slot for its next row.                               *)
PlaceRow ==
  /\ result = "writing" /\ placed < Len(rowKeys)
  /\ IF index_[hash] = 0
     THEN /\ index_' = [index_ EXCEPT ![hash] = placed + 1]
          /\ placed' = placed + 1 /\ GoTo(StartOf(placed + 2))
     ELSE GoTo(NextSlot(Slot)) /\ UNCHANGED <<index_, placed>>
  /\ UNCHANGED <<v3Table, offset_, min_offset, max_offset, soughtKey, before, result>>

(* MemoryMap: a table that is complete is opened.                          *)
MemoryMap ==
  /\ result = "writing" /\ placed = Len(rowKeys)
  /\ result' = "none"
  /\ UNCHANGED <<v3Table, index_, placed, offset_, v3Search, soughtKey, before>>

V3Idle == result \notin {"writing", "seeking"}

(* The locals of a search are gone when it returns, and what it was after  *)
(* is of no interest after the next call.                                  *)
EndSearch == GoTo(NoSlot) /\ min_offset' = 0 /\ max_offset' = 0
Forget == soughtKey' = 0 /\ before' = 0

V3SeekToKey(k) ==
  /\ V3Idle
  /\ GoTo(FirstSlot(k))
  /\ soughtKey' = k
  /\ min_offset' = 0 /\ max_offset' = BufferFill
  /\ before' = offset_ /\ result' = "seeking"
  /\ UNCHANGED <<v3Table, index_, placed, offset_>>

(* Mutant of Narrows: rows are taken to be in order in any table.          *)
NarrowsAlways == TRUE

Narrows == ascending

(* One round of the loop in SeekToKey.                                     *)
Probe ==
  /\ result = "seeking"
  /\ LET at == index_[hash]
         looks == at >= min_offset /\ at <= max_offset
     IN  CASE at = 0 -> result' = "false" /\ EndSearch /\ UNCHANGED offset_
           [] at /= 0 /\ looks /\ rowKeys[at] = soughtKey ->
                result' = "true" /\ EndSearch /\ offset_' = at
           [] OTHER ->
                /\ max_offset' = IF looks /\ Narrows /\ soughtKey < rowKeys[at] THEN at ELSE max_offset
                /\ min_offset' = IF looks /\ Narrows /\ soughtKey > rowKeys[at] THEN at ELSE min_offset
                /\ GoTo(NextSlot(Slot))
                /\ UNCHANGED <<offset_, result>>
  /\ UNCHANGED <<v3Table, index_, placed, soughtKey, before>>

(* SeekToFirst, and Seek to the beginning of a row.  SEEK_END subtracts an *)
(* offset that is not positive.                                            *)
Target(n, whence) ==
  CASE whence = "SEEK_SET" -> 1 + n
    [] whence = "SEEK_CUR" -> offset_ + n
    [] whence = "SEEK_END" -> IndexOffset - n

Admits(n, whence) ==
  CASE whence = "SEEK_SET" -> n >= 0 [] whence = "SEEK_END" -> n <= 0 [] OTHER -> TRUE

(* Mutant of V3Seek: the position changes before it is checked.            *)
V3SeekEarly(n, whence) ==
  /\ V3Idle
  /\ offset_' = Target(n, whence)
  /\ result' = IF Admits(n, whence) /\ Target(n, whence) \in 1..IndexOffset THEN "none" ELSE "thrown"
  /\ Forget /\ UNCHANGED <<v3Table, index_, placed, v3Search>>

V3Seek(n, whence) ==
  /\ V3Idle
  /\ IF Admits(n, whence) /\ Target(n, whence) \in 1..IndexOffset
     THEN offset_' = Target(n, whence) /\ result' = "none"
     ELSE result' = "thrown" /\ UNCHANGED offset_
  /\ Forget /\ UNCHANGED <<v3Table, index_, placed, v3Search>>

(* The next byte is of the index, or zero: no row begins with a zero.      *)
AtEnd == offset_ >= IndexOffset \/ offset_ > Len(rowKeys)

V3ReadRow ==
  /\ V3Idle
  /\ IF AtEnd THEN result' = "end" /\ UNCHANGED offset_
     ELSE result' = "row" /\ offset_' = offset_ + 1
  /\ Forget /\ UNCHANGED <<v3Table, index_, placed, v3Search>>

(* KJ_UNIMPLEMENTED.                                                       *)
V3Skip ==
  /\ V3Idle
  /\ result' = "thrown"
  /\ Forget /\ UNCHANGED <<v3Table, index_, placed, offset_, v3Search>>

V3Next ==
  \/ PlaceRow \/ MemoryMap
  \/ \E k \in V3Keys : V3SeekToKey(k)
  \/ Probe
  \/ \E n \in -1..1, whence \in {"SEEK_SET", "SEEK_CUR", "SEEK_END"} : V3Seek(n, whence)
  \/ V3ReadRow \/ V3Skip

V3Spec == V3Init /\ [][V3Next]_v3Vars
-----------------------------------------------------------------------------
(* The position is always one of a row or behind the rows, and a row that  *)
(* ReadRow() returns is one of the table.                                  *)
PositionInside ==
  /\ offset_ \in 1..IndexOffset
  /\ result = "row" => offset_ - 1 \in 1..Len(rowKeys)

(* A search finds its key if and only if the table has it, and stands at   *)
(* its row; a search in vain leaves the position.  The rows that the       *)
(* bounds rule out without a look are never the one that is sought.        *)
SearchIsRight ==
  /\ result = "true" => offset_ \in 1..Len(rowKeys) /\ rowKeys[offset_] = soughtKey
  /\ result = "false" => /\ \A n \in 1..Len(rowKeys) : rowKeys[n] # soughtKey
                         /\ offset_ = before

(* A search of the hash index finds its key if and only if it is there,    *)
(* the position is one of a row or behind the rows, and a row that is read *)
(* is one of the table.                                                    *)
FindsExactly == PositionInside /\ SearchIsRight

(* A search of a version 3 table ends: it meets its key or an empty slot,  *)
(* of which the index has one, as it tries all slots in turn.              *)
SeekEnds == (version = 3 /\ result = "seeking") ~> result /= "seeking"

(* The steps of the versions before need not come by all slots: this fails *)
(* with eight of them, of which the steps miss two.                        *)
SeekEndsInAnyVersion == result = "seeking" ~> result /= "seeking"
=============================================================================
