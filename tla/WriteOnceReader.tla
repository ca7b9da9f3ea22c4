-------------------------- MODULE WriteOnceReader --------------------------
(***************************************************************************)
(* WriteOnceReader_v4 of src/src/table-backend-writeonce.cc: a cursor that *)
(* is a block number and an entry number, over a file whose blocks are     *)
(* read one at a time, with lazily filled caches of keys and values.       *)
(***************************************************************************)
EXTENDS WriteOnceFormat

CONSTANTS Files,      \* the tables that may be opened
          MaxSkip     \* bound: largest argument of Skip

(* A file as the builder leaves it: at[i] is the offset after i rows, so   *)
(* that at[Len(rows)] is index_offset_.                                    *)
WellBuilt(f) ==
  /\ f.rows \in Seq(Row) /\ f.rows # <<>>
  /\ f.ends \in Seq(Nat)
  /\ WellFormed(f.rows, f.ends)
  /\ f.at \in [0..Len(f.rows) -> Nat]
  /\ f.at[0] = HeaderSize
  /\ \A i, j \in 0..Len(f.rows) : i < j => f.at[i] < f.at[j]

ASSUME ReaderAssumption ==
  /\ \A f \in Files : WellBuilt(f)
  /\ MaxSkip \in Nat

VARIABLES
  file,       \* the open table
  block_num,  \* block_num_
  entry_num,  \* entry_num_
  blk,        \* num: block_read_num_, that is, the block held in block_;
              \* keys, values: the block that keys_ and values_ point into
  pc,         \* "skip" while the loop of Skip() runs
  loop,       \* locals of Skip(), and the count it was asked for
  call,       \* the last call that has returned, and its argument
  ret,        \* what it returned
  got,        \* the rows it took key and value from, if it was ReadRow()
  off         \* the offset it returned, if it was Offset()

vars == <<file, block_num, entry_num, blk, pc, loop, call, ret, got, off>>

(* UINT64_MAX and UINT32_MAX, and an empty cache.                          *)
Unset == -1

NoRow == [key |-> 0, value |-> 0]
NoLoop == [block |-> 0, entry |-> 0, count |-> 0, asked |-> 0]

Calls == {"Open", "SeekToFirst", "SeekToKey", "Skip", "ReadRow", "Offset",
          "SeekSet", "SeekCur", "SeekEnd"}
Call(op, arg) == [op |-> op, arg |-> arg]

NumBlocks == Len(file.ends)
NumRows == Len(file.rows)
Start(b) == BlockStart(file.ends, b)
Entries(b) == GetNumEntries(file.ends, b)

(* The row that is entry e of block b, and where it begins in the file.    *)
RowAt(b, e) == Start(b) + e + 1
GetBlockOffset(b) == file.at[Start(b)]
GetEntryOffset(b, e) == file.at[Start(b) + e] - file.at[Start(b)]

TypeOK ==
  /\ file \in Files
  /\ block_num \in Unset..NumBlocks
  /\ entry_num \in Unset..NumRows
  /\ blk \in [num : Unset..NumBlocks - 1, keys : Unset..NumBlocks - 1,
              values : Unset..NumBlocks - 1]
  /\ pc \in {"idle", "skip"}
  /\ loop \in [block : 0..NumBlocks, entry : 0..NumRows,
               count : 0..MaxSkip, asked : 0..MaxSkip]
  /\ call.op \in Calls /\ ret \in {"none", "true", "false", "undefined", "refused"}
  /\ got \in [key : 0..NumRows, value : 0..NumRows]
  /\ off \in Nat

Init ==
  /\ file \in Files
  /\ block_num = Unset /\ entry_num = Unset
  /\ blk = [num |-> Unset, keys |-> Unset, values |-> Unset]
  /\ pc = "idle" /\ loop = NoLoop
  /\ call = Call("Open", 0) /\ ret = "none" /\ got = NoRow /\ off = 0
-----------------------------------------------------------------------------
(* Where the cursor is once an unset one has been sent to the first row.   *)
CurrentBlock == IF block_num = Unset THEN 0 ELSE block_num
CurrentEntry == IF block_num = Unset THEN 0 ELSE entry_num

(* ReadBlock, unless the block is the one at hand.                         *)
ReadBlock(b) ==
  IF b = blk.num THEN blk
  ELSE [num |-> b, keys |-> Unset, values |-> Unset]

(* InitializeKeys and InitializeValues, if the cache is empty.             *)
WithKeys(k) == IF k.keys = Unset THEN [k EXCEPT !.keys = k.num] ELSE k
WithValues(k) == IF k.values = Unset THEN [k EXCEPT !.values = k.num] ELSE k

(* b is what std::lower_bound finds among the last keys of the blocks.     *)
FindBlockByKey(key, b) ==
  /\ \A c \in 0..b - 1 : LastKey(file.rows, file.ends, c) < key
  /\ b < NumBlocks => key <= LastKey(file.rows, file.ends, b)

(* e is what std::lower_bound finds among the keys of block b.             *)
FindEntryByKey(b, key, e) ==
  /\ \A d \in 0..e - 1 : file.rows[RowAt(b, d)].key < key
  /\ e < Entries(b) => key <= file.rows[RowAt(b, e)].key

(* A call returns, and at most a truth value.                              *)
Returns(r) == ret' = r /\ got' = NoRow /\ off' = 0

NotFound ==
  /\ block_num' = NumBlocks /\ entry_num' = 0
  /\ Returns("false")

SeekToFirst ==
  /\ pc = "idle" /\ call' = Call("SeekToFirst", 0)
  /\ block_num' = 0 /\ entry_num' = 0
  /\ Returns("none")
  /\ UNCHANGED <<file, blk, pc, loop>>

SeekToKey(key) ==
  /\ pc = "idle" /\ call' = Call("SeekToKey", key)
  /\ \E b \in 0..NumBlocks :
       /\ FindBlockByKey(key, b)
       /\ \/ b = NumBlocks /\ NotFound /\ UNCHANGED blk
          \/ /\ b < NumBlocks
             /\ block_num' = b
             /\ LET k == WithKeys(ReadBlock(b)) IN
                  \E e \in 0..Entries(k.keys) :
                    /\ FindEntryByKey(k.keys, key, e)
                    /\ blk' = k /\ entry_num' = e
                    /\ Returns(IF file.rows[RowAt(k.keys, e)].key = key
                               THEN "true" ELSE "false")
  /\ UNCHANGED <<file, pc, loop>>

(* Skip(): the loop works on copies of the cursor.                         *)
SkipStart(n) ==
  /\ pc = "idle" /\ pc' = "skip"
  /\ block_num' = CurrentBlock /\ entry_num' = CurrentEntry
  /\ loop' = [block |-> CurrentBlock, entry |-> CurrentEntry,
              count |-> n, asked |-> n]
  /\ UNCHANGED <<file, blk, call, ret, got, off>>

(* Mutant of SkipStep: count <= avail instead of count < avail.            *)
SkipStepInclusive ==
  LET avail == Entries(loop.block) - loop.entry
  IN  /\ pc = "skip" /\ loop.count > 0 /\ loop.block < NumBlocks
      /\ \/ /\ loop.count <= avail
            /\ loop' = [loop EXCEPT !.entry = @ + loop.count, !.count = 0]
         \/ /\ loop.count > avail
            /\ loop' = [loop EXCEPT !.block = @ + 1, !.entry = 0,
                                    !.count = @ - avail]
      /\ UNCHANGED <<file, block_num, entry_num, blk, pc, call, ret, got, off>>

(* Mutant of SkipStep: neither block_num nor count moves on.               *)
SkipStepStays ==
  LET avail == Entries(loop.block) - loop.entry
  IN  /\ pc = "skip" /\ loop.count > 0 /\ loop.block < NumBlocks
      /\ \/ /\ loop.count < avail
            /\ loop' = [loop EXCEPT !.entry = @ + loop.count, !.count = 0]
         \/ /\ loop.count >= avail
            /\ loop' = [loop EXCEPT !.entry = 0]
      /\ UNCHANGED <<file, block_num, entry_num, blk, pc, call, ret, got, off>>

(* Mutant of SkipStep: the rows of a block that is passed are not counted. *)
SkipStepUncounted ==
  LET avail == Entries(loop.block) - loop.entry
  IN  /\ pc = "skip" /\ loop.count > 0 /\ loop.block < NumBlocks
      /\ \/ /\ loop.count < avail
            /\ loop' = [loop EXCEPT !.entry = @ + loop.count, !.count = 0]
         \/ /\ loop.count >= avail
            /\ loop' = [loop EXCEPT !.block = @ + 1, !.entry = 0]
      /\ UNCHANGED <<file, block_num, entry_num, blk, pc, call, ret, got, off>>

SkipStep ==
  LET avail == Entries(loop.block) - loop.entry
  IN  /\ pc = "skip" /\ loop.count > 0 /\ loop.block < NumBlocks
      /\ \/ /\ loop.count < avail
            /\ loop' = [loop EXCEPT !.entry = @ + loop.count, !.count = 0]
         \/ /\ loop.count >= avail
            /\ loop' = [loop EXCEPT !.block = @ + 1, !.entry = 0,
                                    !.count = @ - avail]
      /\ UNCHANGED <<file, block_num, entry_num, blk, pc, call, ret, got, off>>

SkipReturn ==
  /\ pc = "skip" /\ pc' = "idle" /\ loop' = NoLoop
  /\ call' = Call("Skip", loop.asked)
  /\ \/ /\ loop.count > 0 /\ loop.block >= NumBlocks
        /\ NotFound
     \/ /\ loop.count = 0
        /\ block_num' = loop.block /\ entry_num' = loop.entry
        /\ Returns("true")
  /\ UNCHANGED <<file, blk>>

(* An entry number behind the block's last indexes the caches out of       *)
(* bounds: then key and value are whatever memory holds.                   *)
ReadRow ==
  LET b == CurrentBlock
      e == CurrentEntry
      k == WithValues(WithKeys(ReadBlock(b)))
      inside == e < Entries(k.num)
  IN  /\ pc = "idle" /\ call' = Call("ReadRow", 0)
      /\ \/ /\ b >= NumBlocks
            /\ Returns("false")
            /\ UNCHANGED <<block_num, entry_num, blk>>
         \/ /\ b < NumBlocks
            /\ blk' = k
            /\ ret' = IF inside THEN "true" ELSE "undefined"
            /\ got' = IF inside THEN [key |-> RowAt(k.keys, e),
                                      value |-> RowAt(k.values, e)]
                      ELSE NoRow
            /\ off' = 0
            /\ \/ e + 1 < Entries(k.num) /\ block_num' = b /\ entry_num' = e + 1
               \/ e + 1 >= Entries(k.num) /\ block_num' = b + 1 /\ entry_num' = 0
      /\ UNCHANGED <<file, pc, loop>>

(* What Offset() returns, before the caller has it.                        *)
OffsetValue ==
  IF CurrentBlock >= NumBlocks THEN file.at[NumRows] - HeaderSize
  ELSE GetBlockOffset(CurrentBlock)
         + GetEntryOffset(ReadBlock(CurrentBlock).num, CurrentEntry) - HeaderSize

Offset ==
  /\ pc = "idle" /\ call' = Call("Offset", 0)
  /\ off' = OffsetValue /\ ret' = "none" /\ got' = NoRow
  /\ block_num' = CurrentBlock /\ entry_num' = CurrentEntry
  /\ blk' = IF CurrentBlock >= NumBlocks THEN blk ELSE ReadBlock(CurrentBlock)
  /\ UNCHANGED <<file, pc, loop>>
-----------------------------------------------------------------------------
(* Seek() goes to the first block b whose successor begins behind the      *)
(* offset ...                                                              *)
FindBlockByOffset(offset, b) ==
  /\ \A c \in 0..b - 1 : GetBlockOffset(c + 1) <= offset
  /\ b + 1 < NumBlocks => offset < GetBlockOffset(b + 1)

(* ... and in it to the first entry n that does not begin before it.       *)
GetEntryNumber(b, offset, n) ==
  /\ \A m \in 0..n - 1 : GetEntryOffset(b, m) < offset
  /\ offset <= GetEntryOffset(b, n)

(* Seek() once the offset counts from the start of the file.               *)
SeekTo(offset) ==
  \E b \in 0..NumBlocks - 1 :
    /\ FindBlockByOffset(offset, b)
    /\ block_num' = b
    /\ blk' = ReadBlock(b)
    /\ entry_num' \in 0..Entries(blk'.num)
    /\ GetEntryNumber(blk'.num, offset - GetBlockOffset(b), entry_num')
    /\ Returns("none")

InTable(offset) == HeaderSize <= offset /\ offset <= file.at[NumRows]

SeekSet(offset) ==
  /\ pc = "idle" /\ call' = Call("SeekSet", offset)
  /\ InTable(offset + HeaderSize)
  /\ SeekTo(offset + HeaderSize)
  /\ UNCHANGED <<file, pc, loop>>

(* Seek(offset, SEEK_CUR) adds what Offset() returns and no header size.   *)
SeekCur(offset) ==
  /\ pc = "idle" /\ call' = Call("SeekCur", offset)
  /\ \/ InTable(offset + OffsetValue) /\ SeekTo(offset + OffsetValue)
     \/ /\ ~InTable(offset + OffsetValue)
        /\ Returns("refused")
        /\ block_num' = CurrentBlock /\ entry_num' = CurrentEntry
        /\ blk' = IF CurrentBlock >= NumBlocks THEN blk
                  ELSE ReadBlock(CurrentBlock)
  /\ UNCHANGED <<file, pc, loop>>

(* Seek(offset, SEEK_END), for an offset that is not positive, subtracts   *)
(* it from index_offset_.                                                  *)
SeekEnd(offset) ==
  /\ pc = "idle" /\ call' = Call("SeekEnd", offset) /\ offset <= 0
  /\ \/ InTable(file.at[NumRows] - offset) /\ SeekTo(file.at[NumRows] - offset)
     \/ /\ ~InTable(file.at[NumRows] - offset)
        /\ Returns("refused") /\ UNCHANGED <<block_num, entry_num, blk>>
  /\ UNCHANGED <<file, pc, loop>>
-----------------------------------------------------------------------------
Common ==
  \/ SeekToFirst
  \/ \E key \in Keys : SeekToKey(key)
  \/ \E n \in 0..MaxSkip : SkipStart(n)
  \/ SkipStep
  \/ SkipReturn
  \/ ReadRow
  \/ Offset

(* The offsets that the programs give to Seek(): query.cc, select.cc and   *)
(* ca-dump.cc use SEEK_SET with what Offset() returned for some row.       *)
RowOffsets == {file.at[i] - HeaderSize : i \in 0..NumRows - 1}

Next == Common \/ \E offset \in RowOffsets : SeekSet(offset)
Spec == Init /\ [][Next]_vars

(* The loop of Skip() runs on by itself once it was called.                *)
FairSpec == Spec /\ WF_vars(SkipStep \/ SkipReturn)

(* Every call of Seek() that the class accepts.                            *)
AllOffsets == 0..(file.at[NumRows] - HeaderSize)
AnyNext ==
  \/ Common
  \/ \E offset \in AllOffsets : SeekSet(offset) \/ SeekCur(offset) \/ SeekEnd(-offset)
AnySpec == Init /\ [][AnyNext]_vars
-----------------------------------------------------------------------------
(* The row that the cursor is at, counted over the whole file.             *)
Pos ==
  IF block_num = Unset THEN 0
  ELSE IF block_num >= NumBlocks THEN NumRows
  ELSE Start(block_num) + entry_num

Cursor == INSTANCE TableCursor WITH pos <- Pos

(* Blocks, caches and the laziness of both do not show: every call does    *)
(* what it would do, with the same argument, to one sorted sequence of     *)
(* rows, and every row read has its own key and its own value.             *)
ReadsAsOneTable == Cursor!Spec

(* The cursor never stands on an entry that its block does not have.       *)
CursorInBlock ==
  block_num \in 0..NumBlocks - 1 => entry_num \in 0..Entries(block_num) - 1

(* Skip() comes to an end: it passes a row or more with every block.       *)
SkipReturns == pc = "skip" ~> pc = "idle"

(* "attempt to seek past end of table": an offset that Seek() does not     *)
(* refuse is one that ReadRow() can go on from.                            *)
NoUndefinedRead == ret # "undefined"

(* "attempt to seek before start of table": a call that does not move the  *)
(* cursor does not seek before the start.                                  *)
SeekCurStays == [][SeekCur(0) => ret' # "refused"]_vars
=============================================================================
