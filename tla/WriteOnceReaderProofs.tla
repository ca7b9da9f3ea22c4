----------------------- MODULE WriteOnceReaderProofs -----------------------
(***************************************************************************)
(* Proofs about the version 4 reader, for every set of well-built files.   *)
(* The inductive invariant says where the cursor, the copies Skip() works  *)
(* on and the caches may be; the refinement follows from it step by step.  *)
(* Then the reader of the versions before, for every table and every hash. *)
(***************************************************************************)
EXTENDS WriteOnceReader, WriteOnceReaderV3, TLAPS

(* Entry e of block b exists, or (b, e) is the position behind the last.   *)
InFile(b, e) ==
  \/ b \in 0..Len(file.ends) - 1 /\ e \in 0..GetNumEntries(file.ends, b) - 1
  \/ b = Len(file.ends) /\ e = 0

(* How many rows precede entry e of block b.                               *)
Before(b, e) == BlockStart(file.ends, b) + e

CursorInv == (block_num = Unset /\ entry_num = Unset) \/ InFile(block_num, entry_num)

(* A cache is empty or holds the block that block_ holds.                  *)
CacheInv ==
  /\ blk \in [num : Unset..Len(file.ends) - 1, keys : Int, values : Int]
  /\ blk.keys \in {Unset, blk.num}
  /\ blk.values \in {Unset, blk.num}

(* Skip() has as far to go from its copies as it had from the cursor.      *)
LoopInv ==
  /\ pc \in {"idle", "skip"}
  /\ loop \in [block : Nat, entry : Nat, count : Nat, asked : 0..MaxSkip]
  /\ pc = "idle" => loop = NoLoop
  /\ pc = "skip" =>
       /\ block_num # Unset
       /\ InFile(loop.block, loop.entry)
       /\ loop.count <= loop.asked
       /\ Before(loop.block, loop.entry) + loop.count
            = Before(block_num, entry_num) + loop.asked

ResultInv ==
  /\ ret \in {"none", "true", "false"}
  /\ got \in [key : 0..Len(file.rows), value : 0..Len(file.rows)]
  /\ off \in Nat

Inv == file \in Files /\ CursorInv /\ CacheInv /\ LoopInv /\ ResultInv
-----------------------------------------------------------------------------
(* The blocks of a file follow each other, and none is empty.              *)
LEMMA FileFacts ==
  ASSUME NEW f \in Files
  PROVE  /\ Len(f.rows) \in Nat /\ Len(f.rows) > 0
         /\ Len(f.ends) \in Nat /\ Len(f.ends) > 0
         /\ BlockStart(f.ends, 0) = 0
         /\ BlockStart(f.ends, Len(f.ends)) = Len(f.rows)
         /\ \A b \in 0..Len(f.ends) : BlockStart(f.ends, b) \in 0..Len(f.rows)
         /\ \A b \in 0..Len(f.ends) - 1 :
              /\ GetNumEntries(f.ends, b) \in Nat
              /\ GetNumEntries(f.ends, b) > 0
              /\ BlockStart(f.ends, b + 1)
                   = BlockStart(f.ends, b) + GetNumEntries(f.ends, b)
<1>1. /\ f.rows \in Seq(Row) /\ f.rows # <<>> /\ f.ends \in Seq(Nat)
      /\ IndexCovers(f.ends, Len(f.rows))
  BY ReaderAssumption DEF WellBuilt, WellFormed
<1>2. Len(f.rows) \in Nat /\ Len(f.rows) > 0 /\ Len(f.ends) \in Nat
  BY <1>1
<1>3. Len(f.ends) > 0 /\ f.ends[Len(f.ends)] = Len(f.rows)
  BY <1>1, <1>2 DEF IndexCovers
<1>4. \A b \in 1..Len(f.ends) : f.ends[b] \in 1..Len(f.rows)
  BY <1>1 DEF IndexCovers
<1>5. \A b \in 0..Len(f.ends) : BlockStart(f.ends, b) \in 0..Len(f.rows)
  BY <1>2, <1>4 DEF BlockStart
<1>6. ASSUME NEW b \in 0..Len(f.ends) - 1
      PROVE  /\ GetNumEntries(f.ends, b) \in Nat
             /\ GetNumEntries(f.ends, b) > 0
             /\ BlockStart(f.ends, b + 1)
                  = BlockStart(f.ends, b) + GetNumEntries(f.ends, b)
  <2>1. b + 1 \in 1..Len(f.ends) /\ (b + 1) - 1 = b
    BY <1>2
  <2>2. BlockStart(f.ends, b) < f.ends[b + 1]
    BY <1>1, <2>1 DEF IndexCovers
  <2>3. BlockStart(f.ends, b + 1) = f.ends[b + 1]
    BY <2>1 DEF BlockStart
  <2> QED BY <1>2, <1>4, <1>5, <2>1, <2>2, <2>3, SMTT(30) DEF GetNumEntries
<1> QED BY <1>2, <1>3, <1>5, <1>6 DEF BlockStart

(* The rows are sorted by integer keys, and at is strictly increasing.     *)
LEMMA RowFacts ==
  ASSUME NEW f \in Files
  PROVE  /\ Keys \subseteq Int
         /\ \A i \in 1..Len(f.rows) : f.rows[i].key \in Int
         /\ \A i, j \in 1..Len(f.rows) : i < j => f.rows[i].key <= f.rows[j].key
         /\ \A i \in 0..Len(f.rows) : f.at[i] \in Nat
         /\ f.at[0] = HeaderSize
         /\ \A i, j \in 0..Len(f.rows) : i < j => f.at[i] < f.at[j]
<1>1. /\ f.rows \in Seq(Row) /\ SortedRows(f.rows)
      /\ f.at \in [0..Len(f.rows) -> Nat] /\ f.at[0] = HeaderSize
      /\ \A i, j \in 0..Len(f.rows) : i < j => f.at[i] < f.at[j]
  BY ReaderAssumption DEF WellBuilt, WellFormed
<1>2. Keys \subseteq Int
  BY FormatAssumption
<1>3. \A i \in 1..Len(f.rows) : f.rows[i] \in Row
  BY <1>1
<1>4. \A i \in 1..Len(f.rows) : f.rows[i].key \in Int
  BY <1>2, <1>3 DEF Row
<1> QED BY <1>1, <1>2, <1>4 DEF SortedRows
-----------------------------------------------------------------------------
(* The position an unset cursor stands for is the first row's.             *)
LEMMA CurrentFacts ==
  ASSUME Inv
  PROVE  /\ InFile(CurrentBlock, CurrentEntry)
         /\ CurrentBlock \in 0..Len(file.ends) /\ CurrentEntry \in Nat
         /\ Pos = Before(CurrentBlock, CurrentEntry)
         /\ Pos \in 0..Len(file.rows)
         /\ CurrentBlock = Len(file.ends) <=> Pos = Len(file.rows)
<1> USE FileFacts
<1>1. InFile(CurrentBlock, CurrentEntry)
  BY DEF Inv, CursorInv, InFile, CurrentBlock, CurrentEntry, Unset
<1>2. CurrentBlock \in 0..Len(file.ends) /\ CurrentEntry \in Nat
  BY <1>1 DEF Inv, InFile
<1>3. Pos = Before(CurrentBlock, CurrentEntry)
  BY <1>1, <1>2 DEF Inv, CursorInv, InFile, Before, Pos, CurrentBlock, CurrentEntry,
                    NumBlocks, NumRows, Start, Unset
<1>4. CASE CurrentBlock = Len(file.ends)
  BY <1>1, <1>3, <1>4 DEF Inv, InFile, Before
<1>5. CASE CurrentBlock # Len(file.ends)
  <2>1. /\ CurrentBlock \in 0..Len(file.ends) - 1
        /\ CurrentEntry \in 0..GetNumEntries(file.ends, CurrentBlock) - 1
    BY <1>1, <1>5 DEF InFile
  <2>2. BlockStart(file.ends, CurrentBlock + 1) \in 0..Len(file.rows)
    BY <2>1 DEF Inv
  <2> QED BY <1>1, <1>2, <1>3, <1>5, <2>1, <2>2, SMTT(30) DEF Inv, Before
<1> QED BY <1>1, <1>2, <1>3, <1>4, <1>5

(* Reading a block, or not, leaves the caches at it or empty.              *)
LEMMA ReadFacts ==
  ASSUME Inv, NEW b \in 0..Len(file.ends) - 1, NEW k,
         k \in {ReadBlock(b), WithKeys(ReadBlock(b)),
                WithValues(WithKeys(ReadBlock(b)))}
  PROVE  /\ k \in [num : Unset..Len(file.ends) - 1, keys : Int, values : Int]
         /\ k.num = b
         /\ k.keys \in {Unset, b} /\ k.values \in {Unset, b}
         /\ k # ReadBlock(b) => k.keys = b
         /\ k = WithKeys(ReadBlock(b)) => k.keys = b
         /\ k = WithValues(WithKeys(ReadBlock(b))) => k.keys = b /\ k.values = b
<1> USE FileFacts
<1>1. Len(file.ends) \in Nat
  BY DEF Inv
<1>2. /\ ReadBlock(b) \in [num : Unset..Len(file.ends) - 1, keys : Int, values : Int]
      /\ ReadBlock(b).num = b
      /\ ReadBlock(b).keys \in {Unset, b} /\ ReadBlock(b).values \in {Unset, b}
  BY <1>1 DEF Inv, CacheInv, ReadBlock, Unset
<1>3. /\ WithKeys(ReadBlock(b)) \in [num : Unset..Len(file.ends) - 1, keys : Int, values : Int]
      /\ WithKeys(ReadBlock(b)).num = b
      /\ WithKeys(ReadBlock(b)).keys = b
      /\ WithKeys(ReadBlock(b)).values \in {Unset, b}
  BY <1>1, <1>2 DEF WithKeys, Unset
<1>4. /\ WithValues(WithKeys(ReadBlock(b)))
           \in [num : Unset..Len(file.ends) - 1, keys : Int, values : Int]
      /\ WithValues(WithKeys(ReadBlock(b))).num = b
      /\ WithValues(WithKeys(ReadBlock(b))).keys = b
      /\ WithValues(WithKeys(ReadBlock(b))).values = b
  BY <1>1, <1>3 DEF WithValues, Unset
<1> QED BY <1>2, <1>3, <1>4
-----------------------------------------------------------------------------
(* What a search by key finds: the rows before it have smaller keys, and   *)
(* it is a row of its block whose key is not smaller.                      *)
LEMMA SearchFacts ==
  ASSUME Inv, NEW key \in Keys,
         NEW b \in 0..Len(file.ends) - 1, FindBlockByKey(key, b),
         NEW e \in 0..GetNumEntries(file.ends, b), FindEntryByKey(b, key, e)
  PROVE  /\ e < GetNumEntries(file.ends, b)
         /\ Before(b, e) + 1 \in 1..Len(file.rows)
         /\ RowAt(b, e) = Before(b, e) + 1
         /\ key <= file.rows[Before(b, e) + 1].key
         /\ \A i \in 1..Before(b, e) : file.rows[i].key < key
<1> DEFINE n == GetNumEntries(file.ends, b)
           s == BlockStart(file.ends, b)
<1>1. /\ file \in Files /\ key \in Int
      /\ n \in Nat /\ n > 0 /\ s \in Nat
      /\ BlockStart(file.ends, b + 1) = s + n
      /\ s + n <= Len(file.rows) /\ Len(file.rows) \in Nat
      /\ Len(file.ends) \in Nat
  <2>1. b + 1 \in 0..Len(file.ends) /\ file \in Files
    BY FileFacts DEF Inv
  <2> QED BY <2>1, FileFacts, RowFacts DEF Inv
<1>2. key <= file.rows[s + n].key
  <2>1. BlockStart(file.ends, b + 1) = file.ends[b + 1]
    <3>1. b + 1 # 0
      BY <1>1
    <3> QED BY <3>1 DEF BlockStart
  <2>2. LastKey(file.rows, file.ends, b) = file.rows[s + n].key
    BY <1>1, <2>1 DEF LastKey
  <2> QED BY <1>1, <2>2 DEF FindBlockByKey, NumBlocks
<1>3. \A d \in 0..e - 1 : file.rows[s + d + 1].key < key
  BY DEF FindEntryByKey, RowAt, Start
<1>4. e < n
  <2>1. SUFFICES ASSUME e = n PROVE FALSE
    BY <1>1
  <2>2. n - 1 \in 0..e - 1 /\ s + (n - 1) + 1 = s + n
    BY <1>1, <2>1
  <2>3. file.rows[s + n].key < key
    BY <1>3, <2>2
  <2>4. s + n \in 1..Len(file.rows)
    BY <1>1
  <2>5. file.rows[s + n].key \in Int
    BY <1>1, <2>4, RowFacts
  <2> QED BY <1>1, <1>2, <2>3, <2>5
<1>5. key <= file.rows[s + e + 1].key
  BY <1>4 DEF FindEntryByKey, RowAt, Start, Entries
<1>6. ASSUME NEW i \in 1..(s + e) PROVE file.rows[i].key < key
  <2>1. CASE i > s
    <3>1. s \in Nat /\ e \in Nat /\ i \in 1..(s + e)
      BY <1>1
    <3> HIDE DEF s, n
    <3>2. i - s - 1 \in 0..e - 1 /\ s + (i - s - 1) + 1 = i
      BY <2>1, <3>1
    <3> QED BY <1>3, <3>2
  <2>2. CASE i <= s
    <3>1. s > 0 /\ b # 0 /\ b - 1 \in 0..b - 1 /\ s = file.ends[b]
      <4>1. s > 0
        BY <1>1, <2>2
      <4>2. b # 0 /\ s = file.ends[b]
        BY <4>1 DEF BlockStart
      <4> QED BY <1>1, <4>1, <4>2
    <3>2. file.rows[s].key < key
      <4>1. LastKey(file.rows, file.ends, b - 1) < key
        BY <3>1 DEF FindBlockByKey
      <4>2. (b - 1) + 1 = b
        OBVIOUS
      <4> QED BY <3>1, <4>1, <4>2 DEF LastKey
    <3>3. i \in 1..Len(file.rows) /\ s \in 1..Len(file.rows)
      BY <1>1, <2>2, <3>1, SMTT(30)
    <3>4. file.rows[i].key \in Int /\ file.rows[s].key \in Int
      BY <1>1, <3>3, RowFacts
    <3>5. i = s \/ file.rows[i].key <= file.rows[s].key
      BY <1>1, <2>2, <3>3, RowFacts, SMTT(30)
    <3> QED BY <1>1, <3>2, <3>4, <3>5, SMTT(30)
  <2> QED BY <1>1, <2>1, <2>2
<1> QED BY <1>1, <1>4, <1>5, <1>6 DEF Before, RowAt, Start

(* A search that leaves every block behind leaves every row behind.        *)
LEMMA SearchFails ==
  ASSUME Inv, NEW key \in Keys, FindBlockByKey(key, Len(file.ends)),
         NEW i \in 1..Len(file.rows)
  PROVE  file.rows[i].key < key
<1>1. /\ file \in Files /\ key \in Int
      /\ Len(file.rows) \in Nat /\ Len(file.rows) > 0
      /\ Len(file.ends) \in Nat /\ Len(file.ends) > 0
  BY FileFacts, RowFacts DEF Inv
<1>2. file.ends[Len(file.ends)] = Len(file.rows)
  BY <1>1, FileFacts DEF BlockStart
<1>3. file.rows[Len(file.rows)].key < key
  <2>1. /\ Len(file.ends) - 1 \in 0..Len(file.ends) - 1
        /\ (Len(file.ends) - 1) + 1 = Len(file.ends)
    BY <1>1
  <2>2. LastKey(file.rows, file.ends, Len(file.ends) - 1) < key
    BY <2>1 DEF FindBlockByKey
  <2> QED BY <1>2, <2>1, <2>2 DEF LastKey
<1>4. Len(file.rows) \in 1..Len(file.rows)
  BY <1>1
<1>5. i = Len(file.rows) \/ file.rows[i].key <= file.rows[Len(file.rows)].key
  BY <1>1, <1>4, RowFacts
<1> QED BY <1>1, <1>3, <1>4, <1>5, RowFacts

(* Where Seek() goes for the offset of row r + 1: to that row.             *)
LEMMA OffsetFacts ==
  ASSUME Inv, NEW r \in 0..Len(file.rows) - 1,
         NEW b \in 0..Len(file.ends) - 1, FindBlockByOffset(file.at[r], b),
         NEW n \in 0..GetNumEntries(file.ends, b),
         GetEntryNumber(b, file.at[r] - GetBlockOffset(b), n)
  PROVE  n < GetNumEntries(file.ends, b) /\ Before(b, n) = r
<1> DEFINE s == BlockStart(file.ends, b)
           c == GetNumEntries(file.ends, b)
           at == file.at
<1>1. /\ file \in Files
      /\ c \in Nat /\ c > 0 /\ s \in Nat
      /\ BlockStart(file.ends, b + 1) = s + c
      /\ s + c <= Len(file.rows) /\ Len(file.rows) \in Nat
      /\ Len(file.ends) \in Nat
  <2>1. b + 1 \in 0..Len(file.ends) /\ file \in Files
    BY FileFacts DEF Inv
  <2> QED BY <2>1, FileFacts DEF Inv
<1>2. /\ \A i \in 0..Len(file.rows) : at[i] \in Nat
      /\ \A i, j \in 0..Len(file.rows) : i < j => at[i] < at[j]
  BY <1>1, RowFacts
<1>3. /\ \A m \in 0..n - 1 : at[s + m] - at[s] < at[r] - at[s]
      /\ at[r] - at[s] <= at[s + n] - at[s]
  BY DEF GetEntryNumber, GetEntryOffset, GetBlockOffset, Start
<1>4. r \in 0..Len(file.rows) /\ s \in 0..Len(file.rows) /\ s + n \in 0..Len(file.rows)
  BY <1>1
<1>5. at[r] \in Nat /\ at[s] \in Nat /\ at[s + n] \in Nat
  BY <1>2, <1>4
<1>6. s + n >= r
  <2>1. at[r] <= at[s + n]
    BY <1>3, <1>5
  <2> QED BY <1>2, <1>4, <1>5, <2>1, SMTT(30)
<1>7. s + n <= r \/ n = 0
  <2>1. SUFFICES ASSUME n > 0, s + n > r PROVE FALSE
    BY <1>1
  <2>2. n - 1 \in 0..n - 1 /\ s + (n - 1) \in 0..Len(file.rows) /\ r <= s + (n - 1)
    BY <1>1, <1>4, <2>1, SMTT(30)
  <2>3. at[s + (n - 1)] \in Nat
    BY <1>2, <2>2
  <2>4. at[s + (n - 1)] < at[r]
    BY <1>3, <1>5, <2>2, <2>3, SMTT(30)
  <2>5. r = s + (n - 1) \/ at[r] < at[s + (n - 1)]
    BY <1>2, <1>4, <2>2
  <2> QED BY <1>5, <2>3, <2>4, <2>5
<1>8. s <= r
  <2>1. CASE b = 0
    BY <2>1 DEF BlockStart
  <2>2. CASE b # 0
    <3>1. b - 1 \in 0..b - 1 /\ (b - 1) + 1 = b
      BY <2>2
    <3>2. at[s] <= at[r]
      BY <3>1 DEF FindBlockByOffset, GetBlockOffset, Start
    <3> QED BY <1>2, <1>4, <1>5, <3>2, SMTT(30)
  <2> QED BY <2>1, <2>2
<1>9. r < s + c
  <2>1. CASE b + 1 < Len(file.ends)
    <3>1. at[r] < at[s + c]
      BY <1>1, <2>1 DEF FindBlockByOffset, GetBlockOffset, Start, NumBlocks
    <3>2. s + c \in 0..Len(file.rows)
      BY <1>1
    <3>3. at[s + c] \in Nat
      BY <1>2, <3>2
    <3> HIDE DEF s, c, at
    <3>4. s + c # r
      BY <1>5, <3>1, <3>3
    <3>5. s + c < r => at[s + c] < at[r]
      BY <1>2, <1>4, <3>2
    <3>6. ~(s + c < r)
      BY <1>5, <3>1, <3>3, <3>5
    <3> QED BY <1>1, <3>4, <3>6
  <2>2. CASE b + 1 >= Len(file.ends)
    <3>1. b + 1 = Len(file.ends)
      BY <1>1, <2>2
    <3>2. s + c = Len(file.rows)
      BY <1>1, <3>1, FileFacts
    <3> QED BY <1>1, <3>2
  <2> QED BY <1>1, <2>1, <2>2
<1> QED BY <1>1, <1>6, <1>7, <1>8, <1>9 DEF Before

(* What a Seek() to the offset of row r + 1 does, if it lands in block b.  *)
LandsOn(r, b) ==
  /\ blk' = ReadBlock(b) /\ block_num' = b
  /\ entry_num' \in 0..GetNumEntries(file.ends, b) - 1
  /\ Before(b, entry_num') = r
  /\ ret' = "none" /\ got' = NoRow /\ off' = 0

(* Seek() to the offset of a row lands on that row.                        *)
LEMMA SeekLands ==
  ASSUME Inv, NEW r \in 0..Len(file.rows) - 1, SeekSet(file.at[r] - HeaderSize)
  PROVE  \E b \in 0..Len(file.ends) - 1 : LandsOn(r, b)
<1>1. file.at[r] - HeaderSize + HeaderSize = file.at[r]
  <2>1. file \in Files /\ r \in 0..Len(file.rows)
    BY FileFacts DEF Inv
  <2>2. file.at[r] \in Nat /\ HeaderSize \in Nat
    BY <2>1, RowFacts DEF HeaderSize
  <2> QED BY <2>2
<1>2. PICK b \in 0..Len(file.ends) - 1 :
        /\ FindBlockByOffset(file.at[r], b)
        /\ block_num' = b /\ blk' = ReadBlock(b)
        /\ entry_num' \in 0..GetNumEntries(file.ends, blk'.num)
        /\ GetEntryNumber(blk'.num, file.at[r] - GetBlockOffset(b), entry_num')
        /\ ret' = "none" /\ got' = NoRow /\ off' = 0
  BY <1>1 DEF SeekSet, SeekTo, NumBlocks, Entries, Returns
<1>3. blk'.num = b
  BY <1>2, ReadFacts
<1>4. /\ entry_num' < GetNumEntries(file.ends, b)
      /\ Before(b, entry_num') = r
  BY <1>2, <1>3, OffsetFacts
<1>5. entry_num' \in 0..GetNumEntries(file.ends, b) - 1
  BY <1>2, <1>3, <1>4, FileFacts DEF Inv
<1> QED BY <1>2, <1>4, <1>5 DEF LandsOn

(* Offset() returns where the next row begins, the header not counted.     *)
LEMMA OffsetIsPos ==
  ASSUME Inv
  PROVE  OffsetValue = file.at[Pos] - HeaderSize /\ OffsetValue \in Nat
<1> DEFINE b == CurrentBlock
           e == CurrentEntry
<1>1. /\ file \in Files /\ Len(file.rows) \in Nat /\ Len(file.ends) \in Nat
      /\ b \in 0..Len(file.ends) /\ e \in Nat
      /\ Pos = Before(b, e) /\ Pos \in 0..Len(file.rows)
      /\ b = Len(file.ends) <=> Pos = Len(file.rows)
  BY CurrentFacts, FileFacts DEF Inv
<1>2. /\ \A i \in 0..Len(file.rows) : file.at[i] \in Nat
      /\ file.at[0] = HeaderSize
      /\ \A i, j \in 0..Len(file.rows) : i < j => file.at[i] < file.at[j]
  BY <1>1, RowFacts
<1>3. file.at[Pos] - HeaderSize \in Nat
  <2>1. 0 \in 0..Len(file.rows) /\ (Pos = 0 \/ 0 < Pos) /\ HeaderSize \in Nat
    BY <1>1 DEF HeaderSize
  <2>2. file.at[0] <= file.at[Pos]
    BY <1>1, <1>2, <2>1
  <2> QED BY <1>1, <1>2, <2>1, <2>2
<1>4. OffsetValue = file.at[Pos] - HeaderSize
  <2>1. CASE b >= NumBlocks
    BY <1>1, <2>1 DEF OffsetValue, NumBlocks, NumRows
  <2>2. CASE b < NumBlocks
    <3>1. b \in 0..Len(file.ends) - 1
      BY <1>1, <2>2 DEF NumBlocks
    <3>2. ReadBlock(b).num = b
      BY <3>1, ReadFacts
    <3>3. OffsetValue = file.at[BlockStart(file.ends, b)]
             + (file.at[BlockStart(file.ends, b) + e] - file.at[BlockStart(file.ends, b)])
             - HeaderSize
      BY <1>1, <2>2, <3>2 DEF OffsetValue, GetBlockOffset, GetEntryOffset, Start, NumBlocks
    <3>4. file.at[BlockStart(file.ends, b)] \in Nat /\ file.at[Pos] \in Nat
      BY <1>1, <1>2, FileFacts
    <3>5. HeaderSize \in Nat
      BY DEF HeaderSize
    <3> QED BY <1>1, <3>3, <3>4, <3>5 DEF Before
  <2> QED BY <1>1, <2>1, <2>2 DEF NumBlocks
<1> QED BY <1>3, <1>4
-----------------------------------------------------------------------------
(* One round of the loop in Skip() goes on as far as it counts down.       *)
LEMMA LoopFacts ==
  ASSUME Inv, SkipStep
  PROVE  /\ loop' \in [block : Nat, entry : Nat, count : Nat, asked : 0..MaxSkip]
         /\ InFile(loop'.block, loop'.entry)
         /\ loop'.count <= loop'.asked /\ loop'.asked = loop.asked
         /\ Before(loop'.block, loop'.entry) + loop'.count
              = Before(loop.block, loop.entry) + loop.count
<1> DEFINE b == loop.block
           e == loop.entry
           avail == GetNumEntries(file.ends, b) - e
<1>1. /\ pc = "skip" /\ loop.count > 0 /\ b < Len(file.ends)
      /\ InFile(b, e) /\ loop.count <= loop.asked
      /\ loop \in [block : Nat, entry : Nat, count : Nat, asked : 0..MaxSkip]
      /\ file \in Files
  BY DEF Inv, LoopInv, SkipStep, NumBlocks
<1>2. /\ b \in Nat /\ e \in Nat /\ loop.count \in Nat /\ loop.asked \in 0..MaxSkip
      /\ Len(file.ends) \in Nat
  BY <1>1, FileFacts
<1>3. b \in 0..Len(file.ends) - 1 /\ e \in 0..GetNumEntries(file.ends, b) - 1
  BY <1>1, <1>2 DEF InFile
<1>4. /\ avail \in Nat /\ avail > 0
      /\ GetNumEntries(file.ends, b) \in Nat
      /\ BlockStart(file.ends, b) \in Nat
      /\ BlockStart(file.ends, b + 1) = BlockStart(file.ends, b) + e + avail
      /\ b + 1 \in 0..Len(file.ends)
  <2>1. /\ GetNumEntries(file.ends, b) \in Nat
        /\ BlockStart(file.ends, b + 1)
             = BlockStart(file.ends, b) + GetNumEntries(file.ends, b)
    BY <1>1, <1>3, FileFacts
  <2>2. b \in 0..Len(file.ends) /\ b + 1 \in 0..Len(file.ends)
    BY <1>2, <1>3
  <2>3. BlockStart(file.ends, b) \in 0..Len(file.rows) /\ Len(file.rows) \in Nat
    BY <1>1, <2>2, FileFacts
  <2> QED BY <1>2, <1>3, <2>1, <2>2, <2>3, SMTT(30)
<1>5. CASE loop.count < avail /\ loop' = [loop EXCEPT !.entry = @ + loop.count, !.count = 0]
  <2>1. /\ loop'.block = b /\ loop'.entry = e + loop.count /\ loop'.count = 0
        /\ loop'.asked = loop.asked
    BY <1>1, <1>5
  <2>2. loop' \in [block : Nat, entry : Nat, count : Nat, asked : 0..MaxSkip]
    <3>1. e + loop.count \in Nat
      BY <1>2
    <3> QED BY <1>1, <1>5, <3>1
  <2>3. InFile(b, e + loop.count)
    BY <1>2, <1>3, <1>4, <1>5, SMTT(30) DEF InFile
  <2>4. Before(b, e + loop.count) + 0 = Before(b, e) + loop.count
    <3> HIDE DEF b, e
    <3> QED BY <1>2, <1>4 DEF Before
  <2>5. 0 <= loop.asked
    BY <1>2, ReaderAssumption
  <2> QED BY <2>1, <2>2, <2>3, <2>4, <2>5
<1>6. CASE /\ loop.count >= avail
           /\ loop' = [loop EXCEPT !.block = @ + 1, !.entry = 0, !.count = @ - avail]
  <2>1. /\ loop'.block = b + 1 /\ loop'.entry = 0 /\ loop'.count = loop.count - avail
        /\ loop'.asked = loop.asked
    BY <1>1, <1>6
  <2>2. loop' \in [block : Nat, entry : Nat, count : Nat, asked : 0..MaxSkip]
    <3>1. loop.count - avail \in Nat /\ b + 1 \in Nat
      BY <1>2, <1>4, <1>6
    <3> QED BY <1>1, <1>6, <3>1
  <2>3. InFile(b + 1, 0)
    <3>1. CASE b + 1 = Len(file.ends)
      BY <3>1 DEF InFile
    <3>2. CASE b + 1 # Len(file.ends)
      <4>1. b + 1 \in 0..Len(file.ends) - 1
        BY <1>2, <1>4, <3>2
      <4>2. GetNumEntries(file.ends, b + 1) \in Nat /\ GetNumEntries(file.ends, b + 1) > 0
        BY <1>1, <4>1, FileFacts
      <4> QED BY <4>1, <4>2 DEF InFile
    <3> QED BY <3>1, <3>2
  <2>4. Before(b + 1, 0) + (loop.count - avail) = Before(b, e) + loop.count
    <3> HIDE DEF b, e, avail
    <3> QED BY <1>2, <1>4 DEF Before
  <2> QED BY <1>1, <1>2, <1>4, <2>1, <2>2, <2>3, <2>4
<1> QED BY <1>5, <1>6 DEF SkipStep, Entries, Start

(* Every call of the reader, and every round of Skip(), keeps the          *)
(* invariant.                                                              *)
LEMMA InvStep == Inv /\ [Next]_vars => Inv'
<1> SUFFICES ASSUME Inv, [Next]_vars PROVE Inv'
  OBVIOUS
<1> USE DEF CursorInv, InFile, Before
<1>a. /\ file \in Files /\ Len(file.ends) \in Nat /\ Len(file.ends) > 0
      /\ Len(file.rows) \in Nat /\ Len(file.rows) > 0
      /\ GetNumEntries(file.ends, 0) \in Nat /\ GetNumEntries(file.ends, 0) > 0
  BY FileFacts DEF Inv
<1>1. CASE SeekToFirst
  BY <1>1, <1>a DEF SeekToFirst, Returns, Inv, CacheInv, LoopInv, ResultInv, NoRow
<1>2. CASE \E key \in Keys : SeekToKey(key)
  <2>1. PICK key \in Keys : SeekToKey(key)
    BY <1>2
  <2>2. PICK b \in 0..Len(file.ends) :
          /\ FindBlockByKey(key, b)
          /\ \/ b = NumBlocks /\ NotFound /\ UNCHANGED blk
             \/ /\ b < NumBlocks
                /\ block_num' = b
                /\ \E e \in 0..Entries(WithKeys(ReadBlock(b)).keys) :
                     /\ FindEntryByKey(WithKeys(ReadBlock(b)).keys, key, e)
                     /\ blk' = WithKeys(ReadBlock(b)) /\ entry_num' = e
                     /\ Returns(IF file.rows[RowAt(WithKeys(ReadBlock(b)).keys, e)].key = key
                                THEN "true" ELSE "false")
    BY <2>1 DEF SeekToKey, NumBlocks
  <2>3. pc = "idle" /\ UNCHANGED <<file, pc, loop>>
    BY <2>1 DEF SeekToKey
  <2>4. CASE b = NumBlocks /\ NotFound /\ UNCHANGED blk
    BY <2>3, <2>4, <1>a
       DEF NotFound, NumBlocks, Returns, Inv, CacheInv, LoopInv, ResultInv, NoRow
  <2>5. CASE b < NumBlocks
    <3>1. b \in 0..Len(file.ends) - 1
      BY <2>5, <1>a DEF NumBlocks
    <3>2. /\ WithKeys(ReadBlock(b))
               \in [num : Unset..Len(file.ends) - 1, keys : Int, values : Int]
          /\ WithKeys(ReadBlock(b)).num = b /\ WithKeys(ReadBlock(b)).keys = b
          /\ WithKeys(ReadBlock(b)).values \in {Unset, b}
      BY <3>1, ReadFacts
    <3>3. PICK e \in 0..GetNumEntries(file.ends, b) :
            /\ FindEntryByKey(b, key, e)
            /\ blk' = WithKeys(ReadBlock(b)) /\ entry_num' = e /\ block_num' = b
            /\ ret' \in {"true", "false"} /\ got' = NoRow /\ off' = 0
      BY <2>2, <2>5, <3>2 DEF Entries, Returns
    <3>4. e < GetNumEntries(file.ends, b)
      BY <2>2, <3>1, <3>3, SearchFacts
    <3>5. CursorInv'
      <4>1. e \in 0..GetNumEntries(file.ends, b) - 1
        BY <3>1, <3>3, <3>4, <1>a, FileFacts
      <4> QED BY <2>3, <3>1, <3>3, <4>1
    <3>6. CacheInv'
      BY <2>3, <3>2, <3>3 DEF CacheInv
    <3>7. LoopInv' /\ ResultInv'
      BY <2>3, <3>3, <1>a DEF Inv, LoopInv, ResultInv, NoRow
    <3> QED BY <2>3, <3>5, <3>6, <3>7, <1>a DEF Inv
  <2> QED BY <2>2, <2>4, <2>5
<1>3. CASE \E n \in 0..MaxSkip : SkipStart(n)
  <2>1. PICK n \in 0..MaxSkip : SkipStart(n)
    BY <1>3
  <2>2. /\ CurrentBlock \in 0..Len(file.ends) /\ CurrentEntry \in Nat
        /\ InFile(CurrentBlock, CurrentEntry)
    BY CurrentFacts
  <2>3. MaxSkip \in Nat
    BY ReaderAssumption
  <2>4. LoopInv'
    BY <2>1, <2>2, <2>3, <1>a DEF SkipStart, LoopInv, Unset, Inv
  <2> QED BY <2>1, <2>2, <2>4, <1>a DEF SkipStart, Inv, CacheInv, ResultInv
<1>4. CASE SkipStep
  <2>1. /\ loop' \in [block : Nat, entry : Nat, count : Nat, asked : 0..MaxSkip]
        /\ InFile(loop'.block, loop'.entry)
        /\ loop'.count <= loop'.asked /\ loop'.asked = loop.asked
        /\ Before(loop'.block, loop'.entry) + loop'.count
             = Before(loop.block, loop.entry) + loop.count
    BY <1>4, LoopFacts
  <2>2. UNCHANGED <<file, block_num, entry_num, blk, pc, call, ret, got, off>> /\ pc = "skip"
    BY <1>4 DEF SkipStep
  <2>3. LoopInv'
    BY <2>1, <2>2 DEF Inv, LoopInv
  <2> QED BY <2>2, <2>3 DEF Inv, CacheInv, ResultInv
<1>5. CASE SkipReturn
  <2>1. LoopInv'
    <3>1. MaxSkip \in Nat
      BY ReaderAssumption
    <3> QED BY <1>5, <3>1 DEF SkipReturn, LoopInv, NoLoop
  <2>2. UNCHANGED <<file, blk>> /\ got' = NoRow /\ off' = 0 /\ ret' \in {"true", "false"}
    BY <1>5 DEF SkipReturn, NotFound, Returns
  <2>3. CursorInv'
    <3>1. CASE NotFound
      BY <2>2, <3>1 DEF NotFound, NumBlocks
    <3>2. CASE block_num' = loop.block /\ entry_num' = loop.entry
      <4>1. InFile(loop.block, loop.entry)
        BY <1>5 DEF SkipReturn, Inv, LoopInv
      <4> QED BY <2>2, <3>2, <4>1
    <3> QED BY <1>5, <3>1, <3>2 DEF SkipReturn
  <2> QED BY <2>1, <2>2, <2>3, <1>a DEF Inv, CacheInv, ResultInv, NoRow
<1>6. CASE ReadRow
  <2> DEFINE b == CurrentBlock
             e == CurrentEntry
             k == WithValues(WithKeys(ReadBlock(b)))
  <2>1. /\ b \in 0..Len(file.ends) /\ e \in Nat
        /\ InFile(b, e)
    BY CurrentFacts
  <2>2. UNCHANGED <<file, pc, loop>> /\ pc = "idle"
    BY <1>6 DEF ReadRow
  <2>3. CASE b >= NumBlocks
    <3>1. Returns("false") /\ UNCHANGED <<block_num, entry_num, blk>>
      BY <1>6, <2>1, <2>3, <1>a DEF ReadRow, NumBlocks
    <3>2. CursorInv' /\ CacheInv' /\ LoopInv'
      BY <2>2, <3>1 DEF Inv, LoopInv, CacheInv
    <3>3. ResultInv'
      BY <2>2, <3>1, <1>a DEF Returns, ResultInv, NoRow
    <3> QED BY <2>2, <3>2, <3>3, <1>a DEF Inv
  <2>4. CASE b < NumBlocks
    <3>1. b \in 0..Len(file.ends) - 1 /\ e \in 0..GetNumEntries(file.ends, b) - 1
      BY <2>1, <2>4, <1>a DEF NumBlocks
    <3>2. /\ k \in [num : Unset..Len(file.ends) - 1, keys : Int, values : Int]
          /\ k.num = b /\ k.keys = b /\ k.values = b
      BY <3>1, ReadFacts
    <3>3. /\ GetNumEntries(file.ends, b) \in Nat
          /\ BlockStart(file.ends, b) \in Nat
          /\ BlockStart(file.ends, b) + e + 1 \in 0..Len(file.rows)
      <4>1. b + 1 \in 0..Len(file.ends)
        BY <3>1, <1>a
      <4>2. BlockStart(file.ends, b + 1) \in 0..Len(file.rows)
        BY <4>1, <1>a, FileFacts
      <4> QED BY <3>1, <4>2, <1>a, FileFacts, SMTT(30)
    <3>4. /\ blk' = k
          /\ ret' = "true" /\ off' = 0
          /\ got' = [key |-> BlockStart(file.ends, b) + e + 1,
                     value |-> BlockStart(file.ends, b) + e + 1]
          /\ \/ e + 1 < GetNumEntries(file.ends, b) /\ block_num' = b /\ entry_num' = e + 1
             \/ e + 1 >= GetNumEntries(file.ends, b) /\ block_num' = b + 1 /\ entry_num' = 0
      <4>1. /\ blk' = k /\ off' = 0
            /\ ret' = IF e < Entries(k.num) THEN "true" ELSE "undefined"
            /\ got' = IF e < Entries(k.num)
                      THEN [key |-> RowAt(k.keys, e), value |-> RowAt(k.values, e)]
                      ELSE NoRow
            /\ \/ e + 1 < Entries(k.num) /\ block_num' = b /\ entry_num' = e + 1
               \/ e + 1 >= Entries(k.num) /\ block_num' = b + 1 /\ entry_num' = 0
        BY <1>6, <2>1, <2>4, <1>a DEF ReadRow, NumBlocks
      <4>2. /\ Entries(k.num) = GetNumEntries(file.ends, b)
            /\ RowAt(k.keys, e) = BlockStart(file.ends, b) + e + 1
            /\ RowAt(k.values, e) = BlockStart(file.ends, b) + e + 1
        BY <3>2 DEF Entries, RowAt, Start
      <4>3. e < GetNumEntries(file.ends, b)
        BY <3>1, <3>3
      <4> HIDE DEF b, e, k
      <4> QED BY <4>1, <4>2, <4>3
    <3>5. CursorInv'
      <4>1. CASE e + 1 < GetNumEntries(file.ends, b)
        BY <2>2, <3>1, <3>3, <3>4, <4>1, SMTT(30)
      <4>2. CASE e + 1 >= GetNumEntries(file.ends, b)
        <5>1. block_num' = b + 1 /\ entry_num' = 0
          BY <3>1, <3>3, <3>4, <4>2
        <5>2. b + 1 = Len(file.ends) \/ b + 1 \in 0..Len(file.ends) - 1
          BY <3>1, <1>a
        <5> QED BY <2>2, <5>1, <5>2, <1>a, FileFacts, SMTT(30)
      <4> QED BY <3>1, <3>3, <4>1, <4>2
    <3>6. CacheInv'
      BY <2>2, <3>2, <3>4 DEF CacheInv
    <3>7. LoopInv' /\ ResultInv'
      BY <2>2, <3>3, <3>4 DEF Inv, LoopInv, ResultInv
    <3> QED BY <2>2, <3>5, <3>6, <3>7, <1>a DEF Inv
  <2> QED BY <2>1, <2>3, <2>4, <1>a DEF NumBlocks
<1>7. CASE Offset
  <2> DEFINE b == CurrentBlock
             e == CurrentEntry
  <2>1. /\ b \in 0..Len(file.ends) /\ e \in Nat /\ InFile(b, e)
        /\ Pos = Before(b, e) /\ Pos \in 0..Len(file.rows)
    BY CurrentFacts
  <2>2. UNCHANGED <<file, pc, loop>> /\ pc = "idle" /\ block_num' = b /\ entry_num' = e
        /\ ret' = "none" /\ got' = NoRow /\ off' = OffsetValue
    BY <1>7 DEF Offset
  <2>3. CacheInv'
    <3>1. CASE b >= NumBlocks
      BY <1>7, <2>2, <3>1 DEF Offset, Inv, CacheInv
    <3>2. CASE b < NumBlocks
      <4>1. b \in 0..Len(file.ends) - 1
        BY <2>1, <3>2, <1>a DEF NumBlocks
      <4>2. blk' = ReadBlock(b)
        BY <1>7, <3>2, <2>1, <1>a DEF Offset, NumBlocks
      <4> QED BY <2>2, <4>1, <4>2, ReadFacts DEF CacheInv
    <3> QED BY <2>1, <3>1, <3>2, <1>a DEF NumBlocks
  <2>4. OffsetValue \in Nat
    BY OffsetIsPos
  <2>5. LoopInv' /\ ResultInv'
    BY <2>2, <2>4, <1>a DEF Inv, LoopInv, ResultInv, NoRow
  <2> QED BY <2>1, <2>2, <2>3, <2>5, <1>a DEF Inv
<1>8. CASE \E offset \in RowOffsets : SeekSet(offset)
  <2>1. PICK r \in 0..Len(file.rows) - 1 : SeekSet(file.at[r] - HeaderSize)
    BY <1>8 DEF RowOffsets, NumRows
  <2>2. PICK b \in 0..Len(file.ends) - 1 : LandsOn(r, b)
    BY <2>1, SeekLands
  <2>3. UNCHANGED <<file, pc, loop>> /\ pc = "idle"
    BY <2>1 DEF SeekSet
  <2>4. CacheInv'
    BY <2>2, <2>3, ReadFacts DEF CacheInv, LandsOn
  <2>5. CursorInv'
    BY <2>2, <2>3 DEF LandsOn
  <2>6. LoopInv' /\ ResultInv'
    BY <2>2, <2>3, <1>a DEF Inv, LoopInv, ResultInv, LandsOn, NoRow
  <2> QED BY <2>3, <2>4, <2>5, <2>6, <1>a DEF Inv
<1>9. CASE UNCHANGED vars
  BY <1>9 DEF vars, Inv, CacheInv, LoopInv, ResultInv
<1> QED BY <1>1, <1>2, <1>3, <1>4, <1>5, <1>6, <1>7, <1>8, <1>9 DEF Next, Common
-----------------------------------------------------------------------------
(* The invariant is all that TypeOK and CursorInBlock say of the cursor    *)
(* and of the copies that Skip() works on.                                 *)
LEMMA InvImplies ==
  ASSUME Inv
  PROVE  (call.op \in Calls => TypeOK) /\ CursorInBlock
<1>1. /\ file \in Files /\ Len(file.ends) \in Nat /\ Len(file.rows) \in Nat
      /\ MaxSkip \in Nat
  BY FileFacts, ReaderAssumption DEF Inv
<1>2. ASSUME NEW b \in 0..Len(file.ends) - 1,
             NEW e \in 0..GetNumEntries(file.ends, b) - 1
      PROVE  e \in 0..Len(file.rows)
  <2>1. b + 1 \in 0..Len(file.ends) /\ b \in 0..Len(file.ends)
    BY <1>1
  <2>2. /\ BlockStart(file.ends, b + 1) \in 0..Len(file.rows)
        /\ BlockStart(file.ends, b) \in 0..Len(file.rows)
        /\ GetNumEntries(file.ends, b) \in Nat
        /\ BlockStart(file.ends, b + 1)
             = BlockStart(file.ends, b) + GetNumEntries(file.ends, b)
    BY <1>1, <2>1, FileFacts
  <2> QED BY <1>1, <2>2
<1>3. ASSUME NEW b, NEW e, InFile(b, e)
      PROVE  b \in 0..Len(file.ends) /\ e \in 0..Len(file.rows)
  BY <1>1, <1>2, <1>3 DEF InFile
<1>4. block_num \in Unset..NumBlocks /\ entry_num \in Unset..NumRows
  BY <1>1, <1>3 DEF Inv, CursorInv, NumBlocks, NumRows, Unset
<1>5. blk \in [num : Unset..NumBlocks - 1, keys : Unset..NumBlocks - 1,
               values : Unset..NumBlocks - 1]
  BY <1>1 DEF Inv, CacheInv, NumBlocks, Unset
<1>6. loop \in [block : 0..NumBlocks, entry : 0..NumRows,
                count : 0..MaxSkip, asked : 0..MaxSkip]
  <2>1. CASE pc = "idle"
    BY <1>1, <2>1 DEF Inv, LoopInv, NoLoop, NumBlocks, NumRows
  <2>2. CASE pc = "skip"
    <3>1. /\ loop \in [block : Nat, entry : Nat, count : Nat, asked : 0..MaxSkip]
          /\ InFile(loop.block, loop.entry) /\ loop.count <= loop.asked
      BY <2>2 DEF Inv, LoopInv
    <3>2. loop.block \in 0..Len(file.ends) /\ loop.entry \in 0..Len(file.rows)
      BY <1>3, <3>1
    <3>3. loop.count \in 0..MaxSkip
      BY <1>1, <3>1
    <3> QED BY <3>1, <3>2, <3>3 DEF NumBlocks, NumRows
  <2> QED BY <2>1, <2>2 DEF Inv, LoopInv
<1>7. CursorInBlock
  BY <1>1 DEF Inv, CursorInv, InFile, CursorInBlock, Entries, NumBlocks, Unset
<1> QED BY <1>4, <1>5, <1>6, <1>7 DEF Inv, LoopInv, ResultInv, TypeOK, NumRows

(* A reader that was just opened satisfies the invariant.                  *)
LEMMA InvInit == Init => Inv
<1> SUFFICES ASSUME Init PROVE Inv
  OBVIOUS
<1>1. file \in Files /\ MaxSkip \in Nat /\ Len(file.ends) \in Nat /\ Len(file.rows) \in Nat
  BY FileFacts, ReaderAssumption DEF Init
<1>2. CursorInv
  BY DEF Init, CursorInv
<1>3. CacheInv
  BY <1>1 DEF Init, CacheInv, Unset
<1>4. LoopInv
  BY <1>1 DEF Init, LoopInv, NoLoop
<1>5. ResultInv
  BY <1>1 DEF Init, ResultInv, NoRow
<1> QED BY <1>1, <1>2, <1>3, <1>4, <1>5 DEF Inv

(* The inductive invariant holds of every behaviour of the reader.         *)
THEOREM ReaderInvariant == Spec => []Inv
BY InvInit, InvStep, PTL DEF Spec

(* Block number, entry number, block_read_num_ and the caches of the       *)
(* version 4 reader stay in the ranges of the file it has open, however    *)
(* long and in whatever order it is called.                                *)
THEOREM ReaderTypeCorrect == Spec => []TypeOK
<1> DEFINE J == call.op \in Calls
<1>1. Init => J
  BY DEF Init, Call, Calls
<1>2. J /\ [Next]_vars => J'
  BY DEF Next, Common, SeekToFirst, SeekToKey, SkipStart, SkipStep, SkipReturn, ReadRow,
         Offset, SeekSet, vars, Call, Calls
<1>3. Inv /\ J => TypeOK
  BY InvImplies
<1> HIDE DEF J
<1> QED BY <1>1, <1>2, <1>3, ReaderInvariant, PTL DEF Spec

(* The version 4 reader's cursor never stands on an entry that its block   *)
(* does not have, so ReadRow() does not index the caches out of bounds.    *)
THEOREM CursorStaysInBlock == Spec => []CursorInBlock
BY ReaderInvariant, InvImplies, PTL
-----------------------------------------------------------------------------
(* A cursor at entry e of block b has passed Before(b, e) rows.            *)
PosIsCount ==
  /\ Pos \in 0..Len(file.rows)
  /\ block_num # Unset => Pos = Before(block_num, entry_num)
  /\ block_num = Len(file.ends) <=> Pos = Len(file.rows)

(* The invariant ties the block and the entry number to the count of rows. *)
LEMMA PosFacts == Inv => PosIsCount
<1> SUFFICES ASSUME Inv PROVE PosIsCount
  OBVIOUS
<1>1. /\ file \in Files /\ Len(file.ends) \in Nat /\ Len(file.ends) > 0
      /\ Len(file.rows) \in Nat /\ Len(file.rows) > 0
  BY FileFacts DEF Inv
<1>2. CASE block_num = Unset
  BY <1>1, <1>2 DEF Pos, PosIsCount, Unset
<1>3. CASE block_num # Unset
  BY <1>3, CurrentFacts DEF CurrentBlock, CurrentEntry, PosIsCount
<1> QED BY <1>2, <1>3

(* A call that keeps the file open leaves the cursor at its count of rows. *)
LEMMA PosAfter ==
  ASSUME Inv', file' = file
  PROVE  /\ Pos' \in 0..Len(file.rows)
         /\ block_num' # Unset => Pos' = Before(block_num', entry_num')
         /\ block_num' = Len(file.ends) => Pos' = Len(file.rows)
<1>2. PosIsCount'
  BY PosFacts, PTL
<1>3. Before(block_num, entry_num)' = Before(block_num', entry_num')
  BY DEF Before
<1> QED BY <1>2, <1>3 DEF PosIsCount

(* A search by key is a search in the one sequence of rows.                *)
LEMMA SeekToKeyStep ==
  ASSUME Inv, Inv', NEW key \in Keys, SeekToKey(key)
  PROVE  Cursor!SeekToKey(key)
<1>1. /\ file \in Files /\ Len(file.ends) \in Nat /\ Len(file.ends) > 0
      /\ Len(file.rows) \in Nat /\ Len(file.rows) > 0 /\ key \in Int
      /\ UNCHANGED file
  BY FileFacts, RowFacts DEF Inv, SeekToKey
<1>2. /\ \A i \in 1..Len(file.rows) : file.rows[i].key \in Int
      /\ \A i, j \in 1..Len(file.rows) : i < j => file.rows[i].key <= file.rows[j].key
  BY <1>1, RowFacts
<1>3. /\ Pos' \in 0..Len(file.rows)
      /\ block_num' # Unset => Pos' = Before(block_num', entry_num')
      /\ block_num' = Len(file.ends) => Pos' = Len(file.rows)
  BY <1>1, PosAfter
<1>4. SUFFICES
        /\ \A i \in 1..Pos' : file.rows[i].key < key
        /\ Pos' < Len(file.rows) => key <= file.rows[Pos' + 1].key
        /\ ret' = IF \E i \in 1..Len(file.rows) : file.rows[i].key = key
                  THEN "true" ELSE "false"
        /\ got' = NoRow /\ off' = 0
  BY <1>1, <1>3 DEF SeekToKey, Call, Cursor!Call, Cursor!SeekToKey, Cursor!Returns, Cursor!NumRows, Cursor!NoRow, NoRow
<1>5. PICK b \in 0..Len(file.ends) :
        /\ FindBlockByKey(key, b)
        /\ \/ b = NumBlocks /\ NotFound /\ UNCHANGED blk
           \/ /\ b < NumBlocks
              /\ block_num' = b
              /\ \E e \in 0..Entries(WithKeys(ReadBlock(b)).keys) :
                   /\ FindEntryByKey(WithKeys(ReadBlock(b)).keys, key, e)
                   /\ blk' = WithKeys(ReadBlock(b)) /\ entry_num' = e
                   /\ Returns(IF file.rows[RowAt(WithKeys(ReadBlock(b)).keys, e)].key = key
                              THEN "true" ELSE "false")
  BY DEF SeekToKey, NumBlocks
<1>6. CASE b = NumBlocks /\ NotFound
  <2>1. Pos' = Len(file.rows) /\ ret' = "false" /\ got' = NoRow /\ off' = 0
    BY <1>3, <1>6 DEF NotFound, Returns, NumBlocks
  <2>2. \A i \in 1..Len(file.rows) : file.rows[i].key < key
    BY <1>5, <1>6, SearchFails DEF NumBlocks
  <2> QED BY <1>1, <1>2, <2>1, <2>2
<1>7. CASE b < NumBlocks
  <2>1. b \in 0..Len(file.ends) - 1
    BY <1>1, <1>7 DEF NumBlocks
  <2>2. WithKeys(ReadBlock(b)).keys = b
    BY <2>1, ReadFacts
  <2>3. PICK e \in 0..GetNumEntries(file.ends, b) :
          /\ FindEntryByKey(b, key, e)
          /\ entry_num' = e /\ block_num' = b
          /\ ret' = IF file.rows[RowAt(b, e)].key = key THEN "true" ELSE "false"
          /\ got' = NoRow /\ off' = 0
    BY <1>5, <1>7, <2>2 DEF Entries, Returns
  <2>4. /\ Before(b, e) + 1 \in 1..Len(file.rows)
        /\ RowAt(b, e) = Before(b, e) + 1
        /\ key <= file.rows[Before(b, e) + 1].key
        /\ \A i \in 1..Before(b, e) : file.rows[i].key < key
    BY <1>5, <2>1, <2>3, SearchFacts
  <2>5. Pos' = Before(b, e)
    BY <1>3, <2>1, <2>3 DEF Unset
  <2>6. (\E i \in 1..Len(file.rows) : file.rows[i].key = key)
           <=> file.rows[Pos' + 1].key = key
    <3>1. SUFFICES ASSUME NEW i \in 1..Len(file.rows), file.rows[i].key = key
                   PROVE  file.rows[Pos' + 1].key = key
      BY <2>4, <2>5
    <3>2. ~(file.rows[i].key < key)
      BY <1>1, <3>1
    <3>3. i \notin 1..Pos'
      BY <2>4, <2>5, <3>2
    <3>4. i = Pos' + 1 \/ Pos' + 1 < i
      <4>1. Pos' \in Nat /\ i \in Nat /\ i > 0
        BY <1>1, <1>3
      <4>2. \A p, j \in Nat : j > 0 /\ j \notin 1..p => j = p + 1 \/ p + 1 < j
        OBVIOUS
      <4> QED BY <3>3, <4>1, <4>2
    <3>5. Pos' + 1 \in 1..Len(file.rows) /\ key <= file.rows[Pos' + 1].key
      BY <2>4, <2>5
    <3>6. i = Pos' + 1 \/ file.rows[Pos' + 1].key <= file.rows[i].key
      BY <1>2, <3>4, <3>5
    <3>7. file.rows[Pos' + 1].key \in Int
      BY <1>2, <3>5
    <3> QED BY <1>1, <3>1, <3>5, <3>6, <3>7
  <2> QED BY <2>3, <2>4, <2>5, <2>6
<1> QED BY <1>1, <1>5, <1>6, <1>7 DEF NumBlocks

(* Skip() ends where a walk over the one sequence of rows would end.       *)
LEMMA SkipReturnStep ==
  ASSUME Inv, Inv', SkipReturn
  PROVE  \E n \in 0..MaxSkip : Cursor!Skip(n)
<1>1. /\ file \in Files /\ Len(file.ends) \in Nat /\ Len(file.rows) \in Nat
      /\ UNCHANGED file /\ MaxSkip \in Nat
  BY FileFacts, ReaderAssumption DEF Inv, SkipReturn
<1>2. /\ loop \in [block : Nat, entry : Nat, count : Nat, asked : 0..MaxSkip]
      /\ block_num # Unset
      /\ InFile(loop.block, loop.entry)
      /\ Before(loop.block, loop.entry) + loop.count
           = Before(block_num, entry_num) + loop.asked
  BY DEF SkipReturn, Inv, LoopInv
<1>3. Pos \in 0..Len(file.rows) /\ Pos = Before(block_num, entry_num)
  BY <1>2, PosFacts DEF PosIsCount
<1>4. /\ Pos' \in 0..Len(file.rows)
      /\ block_num' # Unset => Pos' = Before(block_num', entry_num')
      /\ block_num' = Len(file.ends) => Pos' = Len(file.rows)
  BY <1>1, PosAfter
<1>5. SUFFICES
        \/ /\ Pos + loop.asked <= Len(file.rows) /\ Pos' = Pos + loop.asked
           /\ Returns("true")
        \/ /\ Pos + loop.asked > Len(file.rows) /\ Pos' = Len(file.rows)
           /\ Returns("false")
  BY <1>1, <1>2 DEF SkipReturn, Call, Cursor!Call, Cursor!Skip, Cursor!Returns, Cursor!NumRows, Cursor!NoRow, NoRow, Returns
<1>6. CASE loop.count > 0 /\ loop.block >= NumBlocks /\ NotFound
  <2>1. Pos' = Len(file.rows) /\ Returns("false")
    BY <1>4, <1>6 DEF NotFound, NumBlocks
  <2>2. loop.block = Len(file.ends) /\ loop.entry = 0
    BY <1>1, <1>2, <1>6 DEF InFile, NumBlocks
  <2>3. Before(loop.block, loop.entry) = Len(file.rows)
    BY <1>1, <2>2, FileFacts DEF Before
  <2> QED BY <1>1, <1>2, <1>3, <1>6, <2>1, <2>3
<1>7. CASE /\ loop.count = 0
           /\ block_num' = loop.block /\ entry_num' = loop.entry
           /\ Returns("true")
  <2>1. block_num' # Unset
    BY <1>2, <1>7 DEF Unset
  <2>2. Pos' = Before(loop.block, loop.entry)
    BY <1>4, <1>7, <2>1
  <2>3. Pos' = Pos + loop.asked
    BY <1>2, <1>3, <1>4, <1>7, <2>2
  <2> QED BY <1>1, <1>2, <1>3, <1>4, <1>7, <2>3
<1> QED BY <1>6, <1>7 DEF SkipReturn

(* Every call of the reader is a call of the abstract cursor, and a round  *)
(* of the loop of Skip() does not show.                                    *)
LEMMA RefinementStep == Inv /\ Inv' /\ [Next]_vars => [Cursor!Next]_(Cursor!vars)
<1> SUFFICES ASSUME Inv, Inv', [Next]_vars PROVE [Cursor!Next]_(Cursor!vars)
  OBVIOUS
<1> USE DEF Cursor!Returns, Cursor!NumRows, Cursor!NoRow, NoRow, Call, Cursor!Call
<1>a. /\ file \in Files /\ Len(file.ends) \in Nat /\ Len(file.ends) > 0
      /\ Len(file.rows) \in Nat /\ Len(file.rows) > 0
      /\ Pos \in 0..Len(file.rows)
  BY FileFacts, PosFacts DEF Inv, PosIsCount
<1>1. ASSUME SeekToFirst PROVE Cursor!SeekToFirst
  <2>1. block_num' = 0 /\ entry_num' = 0 /\ UNCHANGED file
    BY <1>1 DEF SeekToFirst
  <2>2. Pos' = 0
    BY <2>1, <1>a, FileFacts DEF Pos, NumBlocks, Start, Unset
  <2> QED BY <1>1, <2>1, <2>2 DEF SeekToFirst, Returns, Cursor!SeekToFirst
<1>2. ASSUME \E key \in Keys : SeekToKey(key) PROVE \E key \in Keys : Cursor!SeekToKey(key)
  BY <1>2, SeekToKeyStep
<1>3. ASSUME \E n \in 0..MaxSkip : SkipStart(n) PROVE UNCHANGED Cursor!vars
  <2>1. /\ UNCHANGED <<file, call, ret, got, off>>
        /\ block_num' = CurrentBlock /\ entry_num' = CurrentEntry
    BY <1>3 DEF SkipStart
  <2>2. Pos' = Pos
    BY <2>1, <1>a, PosAfter, CurrentFacts DEF Unset
  <2> QED BY <2>1, <2>2 DEF Cursor!vars
<1>4. ASSUME SkipStep PROVE UNCHANGED Cursor!vars
  BY <1>4 DEF SkipStep, Cursor!vars, Pos, NumBlocks, NumRows, Start
<1>5. ASSUME SkipReturn PROVE \E n \in 0..MaxSkip : Cursor!Skip(n)
  BY <1>5, SkipReturnStep
<1>6. ASSUME ReadRow PROVE Cursor!ReadRow
  <2> DEFINE b == CurrentBlock
             e == CurrentEntry
             k == WithValues(WithKeys(ReadBlock(b)))
  <2>1. /\ b \in 0..Len(file.ends) /\ e \in Nat /\ InFile(b, e)
        /\ Pos = Before(b, e) /\ (b = Len(file.ends) <=> Pos = Len(file.rows))
    BY CurrentFacts
  <2>2. UNCHANGED file /\ call' = Call("ReadRow", 0)
    BY <1>6 DEF ReadRow
  <2>3. CASE b >= NumBlocks
    <3>1. Returns("false") /\ UNCHANGED <<block_num, entry_num>>
      BY <1>6, <2>1, <2>3, <1>a DEF ReadRow, NumBlocks
    <3>2. Pos' = Pos
      BY <2>2, <3>1 DEF Pos, NumBlocks, NumRows, Start
    <3>3. Pos = Len(file.rows)
      BY <2>1, <2>3, <1>a DEF NumBlocks
    <3> QED BY <2>2, <3>1, <3>2, <3>3 DEF Returns, Cursor!ReadRow
  <2>4. CASE b < NumBlocks
    <3>1. b \in 0..Len(file.ends) - 1 /\ e \in 0..GetNumEntries(file.ends, b) - 1
      BY <2>1, <2>4, <1>a DEF NumBlocks, InFile
    <3>2. k.num = b /\ k.keys = b /\ k.values = b
      BY <3>1, ReadFacts
    <3>3. /\ GetNumEntries(file.ends, b) \in Nat /\ BlockStart(file.ends, b) \in Nat
          /\ BlockStart(file.ends, b + 1)
               = BlockStart(file.ends, b) + GetNumEntries(file.ends, b)
      BY <3>1, <1>a, FileFacts
    <3>4. /\ off' = 0
          /\ ret' = IF e < Entries(k.num) THEN "true" ELSE "undefined"
          /\ got' = IF e < Entries(k.num)
                    THEN [key |-> RowAt(k.keys, e), value |-> RowAt(k.values, e)]
                    ELSE NoRow
          /\ \/ e + 1 < Entries(k.num) /\ block_num' = b /\ entry_num' = e + 1
             \/ e + 1 >= Entries(k.num) /\ block_num' = b + 1 /\ entry_num' = 0
      BY <1>6, <2>1, <2>4, <1>a DEF ReadRow, NumBlocks
    <3>5. /\ Entries(k.num) = GetNumEntries(file.ends, b)
          /\ RowAt(k.keys, e) = BlockStart(file.ends, b) + e + 1
          /\ RowAt(k.values, e) = BlockStart(file.ends, b) + e + 1
      BY <3>2 DEF Entries, RowAt, Start
    <3>6. e < GetNumEntries(file.ends, b)
      BY <3>1, <3>3
    <3>7. block_num' # Unset /\ Before(block_num', entry_num') = Pos + 1
      <4>1. CASE block_num' = b /\ entry_num' = e + 1
        BY <2>1, <3>1, <3>3, <4>1 DEF Before, Unset
      <4>2. CASE e + 1 >= GetNumEntries(file.ends, b) /\ block_num' = b + 1 /\ entry_num' = 0
        BY <2>1, <3>1, <3>3, <4>2 DEF Before, Unset
      <4> HIDE DEF b, e, k
      <4> QED BY <3>4, <3>5, <4>1, <4>2
    <3>8. Pos' = Pos + 1
      BY <2>2, <3>7, PosAfter
    <3>9. ret' = "true" /\ got' = [key |-> Pos + 1, value |-> Pos + 1] /\ off' = 0
      <4>1. BlockStart(file.ends, b) + e + 1 = Pos + 1
        BY <2>1 DEF Before
      <4> HIDE DEF b, e, k
      <4> QED BY <3>4, <3>5, <3>6, <4>1
    <3>10. Pos < Len(file.rows)
      BY <2>1, <3>1, <1>a
    <3> QED BY <2>2, <3>8, <3>9, <3>10 DEF Cursor!ReadRow
  <2> QED BY <2>1, <2>3, <2>4, <1>a DEF NumBlocks
<1>7. ASSUME Offset PROVE Cursor!Offset
  <2>1. /\ UNCHANGED file /\ block_num' = CurrentBlock /\ entry_num' = CurrentEntry
        /\ call' = Call("Offset", 0) /\ off' = OffsetValue /\ ret' = "none" /\ got' = NoRow
    BY <1>7 DEF Offset
  <2>2. Pos' = Pos
    BY <2>1, <1>a, PosAfter, CurrentFacts DEF Unset
  <2> QED BY <2>1, <2>2, OffsetIsPos DEF Cursor!Offset, Cursor!HeaderSize, HeaderSize
<1>8. ASSUME \E offset \in RowOffsets : SeekSet(offset)
      PROVE  \E offset \in 0..file.at[Len(file.rows)] - HeaderSize : Cursor!SeekSet(offset)
  <2>1. PICK r \in 0..Len(file.rows) - 1 : SeekSet(file.at[r] - HeaderSize)
    BY <1>8 DEF RowOffsets, NumRows
  <2>2. PICK b \in 0..Len(file.ends) - 1 : LandsOn(r, b)
    BY <2>1, SeekLands
  <2>3. UNCHANGED file /\ call' = Call("SeekSet", file.at[r] - HeaderSize)
    BY <2>1 DEF SeekSet
  <2>4. block_num' # Unset /\ Before(block_num', entry_num') = r
    BY <2>2, <1>a DEF LandsOn, Unset
  <2>5. Pos' = r
    BY <2>3, <2>4, PosAfter
  <2>6. /\ \A i \in 0..Len(file.rows) : file.at[i] \in Nat
        /\ file.at[0] = HeaderSize
        /\ \A i, j \in 0..Len(file.rows) : i < j => file.at[i] < file.at[j]
        /\ HeaderSize \in Nat
    BY <1>a, RowFacts DEF HeaderSize
  <2>7. /\ r \in 0..Len(file.rows) /\ 0 \in 0..Len(file.rows)
        /\ Len(file.rows) \in 0..Len(file.rows) /\ r < Len(file.rows)
    BY <1>a
  <2>8. /\ file.at[r] \in Nat /\ HeaderSize <= file.at[r]
        /\ file.at[Len(file.rows)] \in Nat /\ file.at[r] < file.at[Len(file.rows)]
    <3>1. r = 0 \/ file.at[0] < file.at[r]
      BY <2>6, <2>7
    <3> QED BY <2>6, <2>7, <3>1
  <2>9. /\ file.at[r] - HeaderSize \in 0..file.at[Len(file.rows)] - HeaderSize
        /\ file.at[r] - HeaderSize + HeaderSize = file.at[r]
    BY <2>6, <2>8, SMTT(30)
  <2>10. \A i \in 0..r - 1 : file.at[i] < file.at[r]
    BY <2>6, <2>7
  <2>11. ret' = "none" /\ got' = NoRow /\ off' = 0
    BY <2>2 DEF LandsOn
  <2>12. Cursor!SeekSet(file.at[r] - HeaderSize)
    <3>1. Cursor!HeaderSize = HeaderSize
      BY DEF Cursor!HeaderSize, HeaderSize
    <3> QED BY <2>3, <2>5, <2>7, <2>8, <2>9, <2>10, <2>11, <3>1 DEF Cursor!SeekSet
  <2> QED BY <2>9, <2>12
<1>9. ASSUME UNCHANGED vars PROVE UNCHANGED Cursor!vars
  BY <1>9 DEF vars, Cursor!vars, Pos, NumBlocks, NumRows, Start
<1>10. Cursor!HeaderSize = HeaderSize
  BY DEF Cursor!HeaderSize, HeaderSize
<1> QED BY <1>1, <1>2, <1>3, <1>4, <1>5, <1>6, <1>7, <1>8, <1>9, <1>10
       DEF Next, Common, Cursor!Next

(* Blocks, lazily read and lazily decoded, do not show: for every set of   *)
(* well-built files the version 4 reader implements the one cursor over    *)
(* one sorted sequence of rows that class Table promises.                  *)
THEOREM ReaderImplementsCursor == Spec => ReadsAsOneTable
<1>1. Init => Cursor!Init
  BY FileFacts DEF Init, Cursor!Init, Cursor!NoRow, NoRow, Pos, Unset, Call, Cursor!Call
<1> QED BY <1>1, ReaderInvariant, RefinementStep, PTL
       DEF Spec, ReadsAsOneTable, Cursor!Spec
-----------------------------------------------------------------------------
(* The reader of the versions up to 3.  A search is right because every    *)
(* row lies on the way of its key with no empty slot before it.  Ways are  *)
(* not numbered: a set of slots that has the first one and goes on from    *)
(* every slot that is taken has the row.                                   *)

SlotState == [hash : 0 .. index_size_ - 1, collisions : {0, 1},
              fib : [{0, 1} -> 0 .. Word - 1]]

(* From p on the row is met, and no empty slot before it.                  *)
Leads(p, row) ==
  \A S \in SUBSET SlotState :
    /\ p \in S
    /\ \A q \in S : index_[q.hash] # 0 /\ index_[q.hash] # row => NextSlot(q) \in S
    => \E q \in S : index_[q.hash] = row

(* From p on all slots before q are taken.                                 *)
Reaches(p, q) ==
  \A S \in SUBSET SlotState :
    /\ p \in S
    /\ \A s \in S : index_[s.hash] # 0 => NextSlot(s) \in S
    => q \in S

V3Results == {"writing", "none", "seeking", "true", "false", "row", "end", "thrown"}

V3Types ==
  /\ rowKeys \in Seq(V3Keys) /\ ascending \in BOOLEAN /\ padding \in Nat
  /\ ascending => \A n, m \in 1..Len(rowKeys) : n < m => rowKeys[n] < rowKeys[m]
  /\ index_size_ \in Nat \ {0} /\ hashes \in [V3Keys -> 0 .. Word - 1]
  /\ placed \in 0 .. Len(rowKeys) /\ index_ \in [0 .. index_size_ - 1 -> 0 .. placed]
  /\ Slot \in SlotState
  /\ min_offset \in Nat /\ max_offset \in Nat /\ soughtKey \in Nat
  /\ result \in V3Results

(* Every row that the writer has placed is on the way of its key, and the  *)
(* next one is on its way.                                                 *)
Indexed ==
  /\ \A r \in 1..placed : Leads(FirstSlot(rowKeys[r]), r)
  /\ result = "writing" /\ placed < Len(rowKeys) =>
       Reaches(FirstSlot(rowKeys[placed + 1]), Slot)
  /\ result # "writing" => placed = Len(rowKeys)

(* What is sought is still ahead, and within the bounds.                   *)
Ahead ==
  /\ before = offset_
  /\ \A r \in 1..Len(rowKeys) :
       rowKeys[r] = soughtKey => Leads(Slot, r) /\ min_offset <= r /\ r <= max_offset

V3Inv ==
  /\ V3Types /\ Indexed /\ FindsExactly
  /\ result = "seeking" => Ahead
-----------------------------------------------------------------------------
(* The next slot is one of the index.                                      *)
LEMMA NextSlotFacts ==
  ASSUME index_size_ \in Nat \ {0}, Word \in Nat \ {0, 1, 2}, NEW p \in SlotState
  PROVE  NextSlot(p) \in SlotState
<1>1. /\ p.hash \in 0 .. index_size_ - 1 /\ p.collisions \in {0, 1}
      /\ p.fib \in [{0, 1} -> 0 .. Word - 1]
      /\ p = [hash |-> p.hash, collisions |-> p.collisions, fib |-> p.fib]
  BY DEF SlotState
<1>2. CASE version = 3
  <2> DEFINE h == IF p.hash + 1 = index_size_ THEN 0 ELSE p.hash + 1
  <2>1. NextSlot(p) = [hash |-> h, collisions |-> p.collisions, fib |-> p.fib]
    BY <1>1, <1>2 DEF NextSlot
  <2>2. h \in 0 .. index_size_ - 1
    BY <1>1
  <2> HIDE DEF h
  <2> QED BY <1>1, <2>1, <2>2 DEF SlotState
<1>3. CASE version # 3
  <2> DEFINE i == 1 - p.collisions
             h == ((p.hash + p.fib[i]) % Word) % index_size_
             step == [p.fib EXCEPT ![i] = (@ + p.fib[1 - i]) % Word]
  <2>1. NextSlot(p) = [hash |-> h, collisions |-> i, fib |-> step]
    BY <1>3 DEF NextSlot
  <2>2. i \in {0, 1} /\ 1 - i \in {0, 1}
    BY <1>1
  <2> HIDE DEF i
  <2>3. p.fib[i] \in Nat /\ p.fib[1 - i] \in Nat
    BY <1>1, <2>2
  <2>4. \A a \in Nat, b \in Nat \ {0} : a % b \in 0 .. b - 1
    OBVIOUS
  <2>5. h \in 0 .. index_size_ - 1
    <3>1. p.hash + p.fib[i] \in Nat
      BY <1>1, <2>3
    <3>2. (p.hash + p.fib[i]) % Word \in Nat
      BY <2>4, <3>1
    <3> QED BY <2>4, <3>2
  <2>6. step \in [{0, 1} -> 0 .. Word - 1]
    <3>1. p.fib[i] + p.fib[1 - i] \in Nat
      BY <2>3
    <3>2. (p.fib[i] + p.fib[1 - i]) % Word \in 0 .. Word - 1
      BY <2>4, <3>1
    <3> QED BY <1>1, <2>2, <3>2
  <2> HIDE DEF h, step
  <2> QED BY <2>1, <2>2, <2>5, <2>6 DEF SlotState
<1> QED BY <1>2, <1>3

(* The first slot of a key is one of the index.                            *)
LEMMA FirstSlotFacts ==
  ASSUME index_size_ \in Nat \ {0}, Word \in Nat \ {0, 1, 2},
         hashes \in [V3Keys -> 0 .. Word - 1], NEW k \in V3Keys
  PROVE  FirstSlot(k) \in SlotState
<1>1. hashes[k] % index_size_ \in 0 .. index_size_ - 1
  <2>1. \A a \in Nat, b \in Nat \ {0} : a % b \in 0 .. b - 1
    OBVIOUS
  <2>2. hashes[k] \in Nat
    OBVIOUS
  <2> QED BY <2>1, <2>2
<1>2. [i \in {0, 1} |-> 2 - i] \in [{0, 1} -> 0 .. Word - 1]
  OBVIOUS
<1> QED BY <1>1, <1>2 DEF FirstSlot, SlotState

(* There is a slot to be at when no search runs.                           *)
LEMMA NoSlotFacts ==
  ASSUME index_size_ \in Nat \ {0}, Word \in Nat \ {0, 1, 2}
  PROVE  NoSlot \in SlotState
BY DEF NoSlot, SlotState

(* Ways depend on nothing but the table and its index.                     *)
LEMMA WaysStay ==
  ASSUME UNCHANGED <<version, index_size_, hashes, index_>>
  PROVE  /\ SlotState' = SlotState
         /\ \A k : FirstSlot(k)' = FirstSlot(k)
         /\ \A p, r : Leads(p, r)' = Leads(p, r)
         /\ \A p, q : Reaches(p, q)' = Reaches(p, q)
<1>1. SlotState' = SlotState
  BY DEF SlotState
<1>2. \A k : FirstSlot(k)' = FirstSlot(k)
  BY DEF FirstSlot
<1>3. \A p : NextSlot(p)' = NextSlot(p)
  BY DEF NextSlot
<1>4. ASSUME NEW p, NEW r PROVE Leads(p, r)' = Leads(p, r)
  BY <1>1, <1>3 DEF Leads
<1>5. ASSUME NEW p, NEW q PROVE Reaches(p, q)' = Reaches(p, q)
  BY <1>1, <1>3 DEF Reaches
<1> QED BY <1>1, <1>2, <1>4, <1>5

(* A way that leads to a row does not begin with an empty slot, and goes   *)
(* on until it is there.                                                   *)
LEMMA LeadsOn ==
  ASSUME NEW p \in SlotState, NextSlot(p) \in SlotState, NEW r, r # 0, Leads(p, r)
  PROVE  /\ index_[p.hash] # 0
         /\ index_[p.hash] # r => Leads(NextSlot(p), r)
<1>1. ASSUME index_[p.hash] = 0 PROVE FALSE
  <2>1. {p} \in SUBSET SlotState /\ p \in {p}
    OBVIOUS
  <2>2. \A q \in {p} : index_[q.hash] # 0 /\ index_[q.hash] # r => NextSlot(q) \in {p}
    BY <1>1
  <2>3. \E q \in {p} : index_[q.hash] = r
    BY <2>1, <2>2 DEF Leads
  <2> QED BY <1>1, <2>3
<1>2. ASSUME index_[p.hash] # r PROVE Leads(NextSlot(p), r)
  <2>1. SUFFICES ASSUME NEW S \in SUBSET SlotState, NextSlot(p) \in S,
                        \A q \in S : index_[q.hash] # 0 /\ index_[q.hash] # r => NextSlot(q) \in S
                 PROVE  \E q \in S : index_[q.hash] = r
    BY DEF Leads
  <2> DEFINE T == S \cup {p}
  <2>2. T \in SUBSET SlotState /\ p \in T
    OBVIOUS
  <2>3. \A q \in T : index_[q.hash] # 0 /\ index_[q.hash] # r => NextSlot(q) \in T
    BY <2>1
  <2>4. \E q \in T : index_[q.hash] = r
    <3> HIDE DEF T
    <3> QED BY <2>2, <2>3 DEF Leads
  <2> QED BY <1>2, <2>4
<1> QED BY <1>1, <1>2

(* Filling an empty slot does not lead a way astray; and a row that is put *)
(* into the first empty slot on its way is on it.                          *)
LEMMA PlacingLeads ==
  ASSUME UNCHANGED <<version, index_size_>>, Slot \in SlotState,
         DOMAIN index_ = 0 .. index_size_ - 1,
         index_[hash] = 0, NEW row, row # 0,
         index_' = [index_ EXCEPT ![hash] = row],
         \A h \in DOMAIN index_ : index_[h] # row
  PROVE  /\ \A p, r : r # 0 /\ Leads(p, r) => Leads(p, r)'
         /\ \A p : Reaches(p, Slot) => Leads(p, row)'
<1>1. SlotState' = SlotState /\ \A p : NextSlot(p)' = NextSlot(p)
  BY DEF SlotState, NextSlot
<1>2. /\ hash \in 0 .. index_size_ - 1 /\ Slot.hash = hash
      /\ index_'[hash] = row
      /\ \A q \in SlotState : /\ q.hash \in 0 .. index_size_ - 1
                              /\ q.hash # hash => index_'[q.hash] = index_[q.hash]
  BY DEF Slot, SlotState
<1>3. ASSUME NEW p, NEW r, r # 0, Leads(p, r) PROVE Leads(p, r)'
  <2>1. SUFFICES ASSUME NEW S \in SUBSET SlotState, p \in S,
                        \A q \in S : index_'[q.hash] # 0 /\ index_'[q.hash] # r => NextSlot(q) \in S
                 PROVE  \E q \in S : index_'[q.hash] = r
    BY <1>1 DEF Leads
  <2>2. ASSUME NEW q \in S, index_[q.hash] # 0 PROVE index_'[q.hash] = index_[q.hash]
    BY <1>2, <2>2
  <2>3. \A q \in S : index_[q.hash] # 0 /\ index_[q.hash] # r => NextSlot(q) \in S
    BY <2>1, <2>2
  <2>4. PICK q \in S : index_[q.hash] = r
    BY <1>3, <2>1, <2>3 DEF Leads
  <2> QED BY <1>3, <2>2, <2>4
<1>4. ASSUME NEW p, Reaches(p, Slot) PROVE Leads(p, row)'
  <2>1. SUFFICES ASSUME NEW S \in SUBSET SlotState, p \in S,
                        \A q \in S : index_'[q.hash] # 0 /\ index_'[q.hash] # row => NextSlot(q) \in S,
                        \A q \in S : index_'[q.hash] # row
                 PROVE  FALSE
    BY <1>1 DEF Leads
  <2>2. ASSUME NEW q \in S, index_[q.hash] # 0 PROVE NextSlot(q) \in S
    <3>1. q.hash # hash
      BY <2>2
    <3>2. index_'[q.hash] = index_[q.hash]
      BY <1>2, <3>1
    <3> QED BY <2>1, <2>2, <3>2
  <2>3. Slot \in S
    BY <1>4, <2>1, <2>2 DEF Reaches
  <2> QED BY <1>2, <2>1, <2>3
<1> QED BY <1>3, <1>4

LEMMA GoToFacts ==
  ASSUME NEW p \in SlotState, GoTo(p)
  PROVE  Slot' = p
BY DEF GoTo, Slot, SlotState

(* What the types say of the table, for the steps below.                   *)
LEMMA TableTypes ==
  ASSUME V3Types, V3Assumption
  PROVE  /\ Len(rowKeys) \in Nat /\ \A n \in 1..Len(rowKeys) : rowKeys[n] \in V3Keys /\ rowKeys[n] \in Nat
         /\ padding \in Nat /\ IndexOffset \in Nat /\ Len(rowKeys) < IndexOffset
         /\ index_size_ \in Nat \ {0} /\ NoSlot \in SlotState
         /\ \A k \in V3Keys : FirstSlot(k) \in SlotState
         /\ Slot \in SlotState /\ NextSlot(Slot) \in SlotState /\ Slot.hash = hash
         /\ hash \in 0 .. index_size_ - 1 /\ index_[hash] \in 0 .. Len(rowKeys)
<1>1. Word \in Nat \ {0, 1, 2} /\ V3Keys \subseteq Nat
  BY DEF V3Assumption
<1>2. /\ rowKeys \in Seq(V3Keys) /\ index_size_ \in Nat \ {0} /\ Slot \in SlotState
      /\ hashes \in [V3Keys -> 0 .. Word - 1]
      /\ placed \in 0 .. Len(rowKeys) /\ index_ \in [0 .. index_size_ - 1 -> 0 .. placed]
  BY DEF V3Types
<1>3. Len(rowKeys) \in Nat /\ \A n \in 1..Len(rowKeys) : rowKeys[n] \in V3Keys
  BY <1>2
<1>4. \A n \in 1..Len(rowKeys) : rowKeys[n] \in Nat
  BY <1>1, <1>3
<1>5. NoSlot \in SlotState /\ \A k \in V3Keys : FirstSlot(k) \in SlotState
  BY <1>1, <1>2, NoSlotFacts, FirstSlotFacts
<1>6. NextSlot(Slot) \in SlotState
  BY <1>1, <1>2, NextSlotFacts
<1>7. Slot.hash = hash
  BY DEF Slot
<1>8. hash \in 0 .. index_size_ - 1
  <2>1. Slot.hash \in 0 .. index_size_ - 1
    BY <1>2 DEF SlotState
  <2> QED BY <1>7, <2>1
<1>9. index_[hash] \in 0 .. Len(rowKeys)
  <2>1. index_[hash] \in 0 .. placed
    BY <1>2, <1>8
  <2> QED BY <1>2, <1>3, <2>1
<1>10. padding \in Nat /\ IndexOffset \in Nat /\ Len(rowKeys) < IndexOffset
  <2>1. padding \in Nat
    BY DEF V3Types
  <2> QED BY <1>3, <2>1 DEF IndexOffset
<1> QED BY <1>2, <1>3, <1>4, <1>5, <1>6, <1>7, <1>8, <1>9, <1>10

LEMMA V3InitInv ==
  ASSUME V3Init, V3Assumption
  PROVE  V3Inv
<1>1. /\ V3Keys \subseteq Nat /\ V3Tables \subseteq Seq(V3Keys)
      /\ IndexSizes \subseteq Nat \ {0} /\ Word \in Nat \ {0, 1, 2} /\ MaxPadding \in Nat
  BY DEF V3Assumption
<1>2. /\ rowKeys \in Seq(V3Keys) /\ ascending \in BOOLEAN /\ padding \in Nat
      /\ ascending => \A n, m \in 1..Len(rowKeys) : n < m => rowKeys[n] < rowKeys[m]
      /\ index_size_ \in Nat \ {0} /\ hashes \in [V3Keys -> 0 .. Word - 1]
  BY <1>1 DEF V3Init
<1>3. Len(rowKeys) \in Nat /\ \A n \in 1..Len(rowKeys) : rowKeys[n] \in V3Keys
  BY <1>2
<1>4. StartOf(1) \in SlotState /\ (0 < Len(rowKeys) => StartOf(1) = FirstSlot(rowKeys[1]))
  <2>1. NoSlot \in SlotState /\ \A k \in V3Keys : FirstSlot(k) \in SlotState
    BY <1>1, <1>2, NoSlotFacts, FirstSlotFacts
  <2>2. 1 <= Len(rowKeys) => 1 \in 1..Len(rowKeys)
    BY <1>3
  <2>3. 0 < Len(rowKeys) => 1 <= Len(rowKeys)
    BY <1>3
  <2> QED BY <1>3, <2>1, <2>2, <2>3 DEF StartOf
<1>5. Slot = StartOf(1)
  <2>1. hash = StartOf(1).hash /\ collisions = StartOf(1).collisions /\ fib = StartOf(1).fib
    BY DEF V3Init
  <2> QED BY <1>4, <2>1 DEF Slot, SlotState
<1>6. /\ index_ = [n \in 0 .. index_size_ - 1 |-> 0] /\ placed = 0 /\ offset_ = 1
      /\ min_offset = 0 /\ max_offset = 0 /\ soughtKey = 0 /\ result = "writing"
  BY DEF V3Init
<1>7. V3Types
  <2>1. index_ \in [0 .. index_size_ - 1 -> 0 .. placed]
    BY <1>6
  <2>2. placed \in 0 .. Len(rowKeys) /\ min_offset \in Nat /\ max_offset \in Nat /\ soughtKey \in Nat
    BY <1>3, <1>6
  <2> QED BY <1>2, <1>4, <1>5, <1>6, <2>1, <2>2 DEF V3Types, V3Results
<1>8. Indexed
  <2>1. 1..placed = {} /\ placed + 1 = 1
    BY <1>6
  <2>2. \A p : Reaches(p, p)
    BY DEF Reaches
  <2>3. placed < Len(rowKeys) => Reaches(FirstSlot(rowKeys[placed + 1]), Slot)
    BY <1>4, <1>5, <1>6, <2>1, <2>2
  <2> QED BY <1>6, <2>1, <2>3 DEF Indexed
<1>9. FindsExactly
  BY <1>2, <1>3, <1>6 DEF FindsExactly, PositionInside, SearchIsRight, IndexOffset
<1> QED BY <1>6, <1>7, <1>8, <1>9 DEF V3Inv

(* The writer goes on, or puts its row where it is.                        *)
LEMMA PlaceRowInv ==
  ASSUME V3Inv, PlaceRow, V3Assumption
  PROVE  V3Inv'
<1>1. /\ V3Types /\ Indexed /\ FindsExactly
      /\ result = "writing" /\ result' = "writing" /\ placed < Len(rowKeys)
      /\ UNCHANGED <<rowKeys, ascending, padding, version, index_size_, hashes, offset_,
                     min_offset, max_offset, soughtKey, before>>
  BY DEF V3Inv, PlaceRow, v3Table
<1>2. /\ Len(rowKeys) \in Nat /\ \A n \in 1..Len(rowKeys) : rowKeys[n] \in V3Keys
      /\ NoSlot \in SlotState /\ \A k \in V3Keys : FirstSlot(k) \in SlotState
      /\ Slot \in SlotState /\ NextSlot(Slot) \in SlotState /\ Slot.hash = hash
      /\ hash \in 0 .. index_size_ - 1 /\ index_[hash] \in 0 .. Len(rowKeys)
  BY <1>1, TableTypes
<1>3. placed \in 0 .. Len(rowKeys) /\ index_ \in [0 .. index_size_ - 1 -> 0 .. placed]
  BY <1>1 DEF V3Types
<1>4. /\ placed + 1 \in 1..Len(rowKeys) /\ placed + 1 # 0
      /\ \A r \in 1..placed : r \in 1..Len(rowKeys) /\ r # 0
  BY <1>1, <1>2, <1>3
<1>5. FindsExactly'
  BY <1>1 DEF FindsExactly, PositionInside, SearchIsRight, IndexOffset
<1>6. SlotState' = SlotState /\ \A k : FirstSlot(k)' = FirstSlot(k)
  BY <1>1 DEF SlotState, FirstSlot
<1>7. ASSUME index_' \in [0 .. index_size_ - 1 -> 0 .. placed'],
             placed' \in 0 .. Len(rowKeys), Slot' \in SlotState
      PROVE  V3Types'
  BY <1>1, <1>6, <1>7 DEF V3Types, V3Results
<1>8. /\ \A r \in 1..placed : Leads(FirstSlot(rowKeys[r]), r)
      /\ Reaches(FirstSlot(rowKeys[placed + 1]), Slot)
  BY <1>1 DEF Indexed
<1>9. CASE index_[hash] # 0
  <2>1. GoTo(NextSlot(Slot)) /\ UNCHANGED <<index_, placed>>
    BY <1>9 DEF PlaceRow
  <2>2. Slot' = NextSlot(Slot)
    BY <1>2, <2>1, GoToFacts
  <2>3. V3Types'
    BY <1>2, <1>3, <1>7, <2>1, <2>2
  <2>4. /\ \A p, r : Leads(p, r)' = Leads(p, r)
        /\ \A p, q : Reaches(p, q)' = Reaches(p, q)
    BY <1>1, <2>1, WaysStay
  <2>5. Reaches(FirstSlot(rowKeys[placed + 1]), NextSlot(Slot))
    BY <1>2, <1>8, <1>9 DEF Reaches
  <2>6. Indexed'
    <3>1. \A r \in 1..placed : Leads(FirstSlot(rowKeys[r]), r)'
      BY <1>1, <1>6, <1>8, <2>4
    <3> QED BY <1>1, <1>6, <2>1, <2>2, <2>4, <2>5, <3>1 DEF Indexed
  <2> QED BY <1>1, <1>5, <2>3, <2>6 DEF V3Inv
<1>10. CASE index_[hash] = 0
  <2>1. /\ index_' = [index_ EXCEPT ![hash] = placed + 1]
        /\ placed' = placed + 1 /\ GoTo(StartOf(placed + 2))
    BY <1>10 DEF PlaceRow
  <2>2. StartOf(placed + 2) \in SlotState
    <3>1. placed + 2 <= Len(rowKeys) => placed + 2 \in 1..Len(rowKeys)
      BY <1>2, <1>3
    <3> QED BY <1>2, <3>1 DEF StartOf
  <2>3. Slot' = StartOf(placed + 2)
    BY <2>1, <2>2, GoToFacts
  <2>4. V3Types'
    <3>1. placed' \in 0 .. Len(rowKeys)
      BY <1>2, <1>3, <1>4, <2>1
    <3>2. index_' \in [0 .. index_size_ - 1 -> 0 .. placed']
      <4>1. placed + 1 \in 0 .. placed + 1 /\ \A a \in 0 .. placed : a \in 0 .. placed + 1
        BY <1>3
      <4>2. [index_ EXCEPT ![hash] = placed + 1] \in [0 .. index_size_ - 1 -> 0 .. placed + 1]
        BY <1>2, <1>3, <4>1
      <4> QED BY <2>1, <4>2
    <3> QED BY <1>7, <2>2, <2>3, <3>1, <3>2
  <2>5. /\ \A p, r : r # 0 /\ Leads(p, r) => Leads(p, r)'
        /\ \A p, r : r = placed + 1 /\ Reaches(p, Slot) => Leads(p, r)'
    <3>1. PICK row : row = placed + 1
      OBVIOUS
    <3>2. \A h \in DOMAIN index_ : index_[h] # row
      BY <1>3, <3>1
    <3>3. DOMAIN index_ = 0 .. index_size_ - 1 /\ row # 0
      BY <1>3, <1>4, <3>1
    <3>4. index_' = [index_ EXCEPT ![hash] = row]
      BY <2>1, <3>1
    <3>5. /\ \A p, r : r # 0 /\ Leads(p, r) => Leads(p, r)'
          /\ \A p : Reaches(p, Slot) => Leads(p, row)'
      BY <1>1, <1>2, <1>10, <3>2, <3>3, <3>4, PlacingLeads
    <3> QED BY <3>1, <3>5
  <2>6. ASSUME NEW r \in 1..placed' PROVE Leads(FirstSlot(rowKeys[r]), r)'
    <3>1. PICK p : p = FirstSlot(rowKeys[r])
      OBVIOUS
    <3>2. p = FirstSlot(rowKeys[r])'
      BY <1>1, <1>6, <3>1
    <3>3. r \in 1..placed \/ r = placed + 1
      BY <1>3, <2>1
    <3>4. Leads(p, r)'
      BY <1>4, <1>8, <2>5, <3>1, <3>3
    <3> QED BY <3>2, <3>4
  <2>7. ASSUME placed' < Len(rowKeys) PROVE Reaches(FirstSlot(rowKeys[placed + 1]), Slot)'
    <3>1. placed' + 1 = placed + 2 /\ placed + 2 <= Len(rowKeys)
      BY <1>2, <1>3, <2>1, <2>7
    <3>2. Slot' = FirstSlot(rowKeys[placed + 2])
      BY <2>3, <3>1 DEF StartOf
    <3>3. FirstSlot(rowKeys[placed + 1])' = Slot'
      BY <1>1, <1>6, <3>1, <3>2
    <3>4. \A p : Reaches(p, p)'
      BY DEF Reaches
    <3> QED BY <3>3, <3>4
  <2>8. Indexed'
    BY <1>1, <2>6, <2>7 DEF Indexed
  <2> QED BY <1>1, <1>5, <2>4, <2>8 DEF V3Inv
<1> QED BY <1>9, <1>10

(* What a step of the reader leaves alone.                                 *)
LEMMA ReaderStep ==
  ASSUME V3Types, Indexed, V3Assumption, placed = Len(rowKeys),
         UNCHANGED <<v3Table, index_, placed>>, result' # "writing"
  PROVE  /\ Indexed'
         /\ SlotState' = SlotState /\ \A p, r : Leads(p, r)' = Leads(p, r)
         /\ Slot' \in SlotState /\ min_offset' \in Nat /\ max_offset' \in Nat
              /\ soughtKey' \in Nat /\ result' \in V3Results => V3Types'
<1>1. UNCHANGED <<rowKeys, ascending, padding, version, index_size_, hashes, index_, placed>>
  BY DEF v3Table
<1>2. /\ SlotState' = SlotState /\ \A k : FirstSlot(k)' = FirstSlot(k)
      /\ \A p, r : Leads(p, r)' = Leads(p, r)
  BY <1>1, WaysStay
<1>3. ASSUME NEW r \in 1..placed' PROVE Leads(FirstSlot(rowKeys[r]), r)'
  <2>1. PICK p : p = FirstSlot(rowKeys[r])
    OBVIOUS
  <2>2. p = FirstSlot(rowKeys[r])'
    BY <1>1, <1>2, <2>1
  <2>3. Leads(p, r)
    BY <1>1, <2>1 DEF Indexed
  <2> QED BY <1>2, <2>2, <2>3
<1>4. Indexed'
  BY <1>1, <1>3 DEF Indexed
<1>5. ASSUME Slot' \in SlotState, min_offset' \in Nat, max_offset' \in Nat,
             soughtKey' \in Nat, result' \in V3Results
      PROVE  V3Types'
  BY <1>1, <1>2, <1>5 DEF V3Types
<1> QED BY <1>2, <1>4, <1>5

LEMMA MemoryMapInv ==
  ASSUME V3Inv, MemoryMap, V3Assumption
  PROVE  V3Inv'
<1>1. /\ V3Types /\ Indexed /\ FindsExactly /\ placed = Len(rowKeys)
      /\ UNCHANGED <<v3Table, index_, placed>> /\ result' = "none"
      /\ UNCHANGED <<offset_, hash, collisions, fib, min_offset, max_offset, soughtKey, before>>
  BY DEF V3Inv, MemoryMap, v3Search
<1>2. Indexed' /\ SlotState' = SlotState
  BY <1>1, ReaderStep
<1>3. V3Types'
  <2>1. Slot' \in SlotState /\ min_offset' \in Nat /\ max_offset' \in Nat /\ soughtKey' \in Nat
    BY <1>1 DEF V3Types, Slot
  <2>2. result' \in V3Results /\ result' # "writing"
    BY <1>1 DEF V3Results
  <2> QED BY <1>1, <2>1, <2>2, ReaderStep
<1>4. FindsExactly'
  BY <1>1 DEF FindsExactly, PositionInside, SearchIsRight, IndexOffset, v3Table
<1> QED BY <1>1, <1>2, <1>3, <1>4 DEF V3Inv

(* A search begins at the first slot of its key, with every row ahead.     *)
LEMMA V3SeekToKeyInv ==
  ASSUME V3Inv, NEW k \in V3Keys, V3SeekToKey(k), V3Assumption
  PROVE  V3Inv'
<1>1. /\ V3Types /\ Indexed /\ FindsExactly /\ result # "writing"
      /\ UNCHANGED <<v3Table, index_, placed>> /\ result' = "seeking"
      /\ GoTo(FirstSlot(k)) /\ soughtKey' = k /\ min_offset' = 0 /\ max_offset' = BufferFill
      /\ before' = offset_ /\ offset_' = offset_
  BY DEF V3Inv, V3SeekToKey, V3Idle
<1>2. rowKeys' = rowKeys /\ padding' = padding /\ placed = Len(rowKeys)
  BY <1>1 DEF v3Table, Indexed
<1>3. /\ Len(rowKeys) \in Nat /\ index_size_ \in Nat \ {0}
      /\ padding \in Nat /\ IndexOffset \in Nat /\ Len(rowKeys) < IndexOffset
      /\ \A j \in V3Keys : FirstSlot(j) \in SlotState
  BY <1>1, TableTypes
<1>4. Slot' = FirstSlot(k)
  BY <1>1, <1>3, GoToFacts
<1>5. k \in Nat /\ BufferFill \in Nat /\ \A r \in 1..Len(rowKeys) : 0 <= r /\ r <= BufferFill
  <2>1. k \in Nat
    BY DEF V3Assumption
  <2> QED BY <1>3, <2>1 DEF BufferFill
<1>6. Indexed' /\ SlotState' = SlotState /\ \A p, r : Leads(p, r)' = Leads(p, r)
  BY <1>1, <1>2, ReaderStep
<1>7. V3Types'
  <2>1. result' \in V3Results /\ result' # "writing"
    BY <1>1 DEF V3Results
  <2>2. Slot' \in SlotState /\ min_offset' \in Nat /\ max_offset' \in Nat /\ soughtKey' \in Nat
    BY <1>1, <1>3, <1>4, <1>5
  <2> QED BY <1>1, <1>2, <2>1, <2>2, ReaderStep
<1>8. FindsExactly'
  BY <1>1, <1>2 DEF FindsExactly, PositionInside, SearchIsRight, IndexOffset
<1>9. Ahead'
  <2>1. ASSUME NEW r \in 1..Len(rowKeys'), rowKeys'[r] = soughtKey'
        PROVE  Leads(Slot, r)' /\ min_offset' <= r /\ r <= max_offset'
    <3>1. PICK p : p = FirstSlot(k)
      OBVIOUS
    <3>2. p = Slot'
      BY <1>4, <3>1
    <3>3. Leads(p, r)
      <4>1. r \in 1..placed /\ rowKeys[r] = k
        BY <1>1, <1>2, <2>1
      <4> QED BY <1>1, <3>1, <4>1 DEF Indexed
    <3>4. Leads(Slot, r)'
      BY <1>6, <3>2, <3>3
    <3>5. min_offset' <= r /\ r <= max_offset'
      BY <1>1, <1>2, <1>5
    <3> QED BY <3>4, <3>5
  <2>2. before' = offset_'
    BY <1>1
  <2> QED BY <2>1, <2>2 DEF Ahead
<1> QED BY <1>6, <1>7, <1>8, <1>9 DEF V3Inv

(* A round of a search: it ends at an empty slot only if the key is in no  *)
(* row, ends at a row only if it is the key's, and goes on towards it.     *)
LEMMA ProbeInv ==
  ASSUME V3Inv, Probe, V3Assumption
  PROVE  V3Inv'
<1> DEFINE at == index_[hash]
           looks == at >= min_offset /\ at <= max_offset
<1>1. /\ V3Types /\ Indexed /\ FindsExactly /\ Ahead /\ result = "seeking"
      /\ UNCHANGED <<v3Table, index_, placed, soughtKey, before>>
  BY DEF V3Inv, Probe
<1>2. rowKeys' = rowKeys /\ padding' = padding /\ placed = Len(rowKeys)
  BY <1>1 DEF v3Table, Indexed
<1>3. /\ Len(rowKeys) \in Nat /\ \A n \in 1..Len(rowKeys) : rowKeys[n] \in Nat
      /\ NoSlot \in SlotState /\ Slot \in SlotState /\ NextSlot(Slot) \in SlotState
      /\ IndexOffset \in Nat /\ Len(rowKeys) < IndexOffset
      /\ Slot.hash = hash /\ at \in 0 .. Len(rowKeys)
  BY <1>1, TableTypes
<1>4. min_offset \in Nat /\ max_offset \in Nat /\ soughtKey \in Nat
  BY <1>1 DEF V3Types
<1>5. offset_ \in 1..IndexOffset /\ before = offset_
  BY <1>1 DEF FindsExactly, PositionInside, Ahead
<1>6. ASSUME NEW r \in 1..Len(rowKeys), rowKeys[r] = soughtKey
      PROVE  /\ at # 0 /\ min_offset <= r /\ r <= max_offset
             /\ at # r => Leads(NextSlot(Slot), r)
  <2>1. Leads(Slot, r) /\ min_offset <= r /\ r <= max_offset /\ r # 0
    BY <1>1, <1>3, <1>6 DEF Ahead
  <2> QED BY <1>3, <2>1, LeadsOn
<1>7. ASSUME result' \in {"true", "false"}, EndSearch
      PROVE  V3Types' /\ Indexed'
  <2>1. Slot' = NoSlot /\ min_offset' = 0 /\ max_offset' = 0
    BY <1>3, <1>7, GoToFacts DEF EndSearch
  <2>2. result' \in V3Results /\ result' # "writing"
    BY <1>7 DEF V3Results
  <2>3. Slot' \in SlotState /\ min_offset' \in Nat /\ max_offset' \in Nat /\ soughtKey' \in Nat
    BY <1>1, <1>3, <1>4, <2>1
  <2> QED BY <1>1, <1>2, <2>2, <2>3, ReaderStep
<1>8. CASE at = 0
  <2>1. result' = "false" /\ EndSearch /\ offset_' = offset_
    BY <1>8 DEF Probe
  <2>2. \A n \in 1..Len(rowKeys) : rowKeys[n] # soughtKey
    BY <1>6, <1>8
  <2>3. FindsExactly'
    BY <1>1, <1>2, <1>5, <2>1, <2>2 DEF FindsExactly, PositionInside, SearchIsRight, IndexOffset
  <2> QED BY <1>7, <2>1, <2>3 DEF V3Inv
<1>9. CASE at # 0 /\ looks /\ rowKeys[at] = soughtKey
  <2>1. result' = "true" /\ EndSearch /\ offset_' = at
    BY <1>9 DEF Probe
  <2>2. at \in 1..Len(rowKeys) /\ at \in 1..IndexOffset
    BY <1>3, <1>9
  <2> HIDE DEF at
  <2>3. FindsExactly'
    BY <1>1, <1>2, <1>9, <2>1, <2>2 DEF FindsExactly, PositionInside, SearchIsRight, IndexOffset
  <2> QED BY <1>7, <2>1, <2>3 DEF V3Inv
<1>10. CASE at # 0 /\ ~(looks /\ rowKeys[at] = soughtKey)
  <2>1. /\ max_offset' = IF looks /\ Narrows /\ soughtKey < rowKeys[at] THEN at ELSE max_offset
        /\ min_offset' = IF looks /\ Narrows /\ soughtKey > rowKeys[at] THEN at ELSE min_offset
        /\ GoTo(NextSlot(Slot)) /\ offset_' = offset_ /\ result' = result
    BY <1>10 DEF Probe
  <2>2. Slot' = NextSlot(Slot)
    BY <1>3, <2>1, GoToFacts
  <2>3. at \in 1..Len(rowKeys) /\ at \in Nat
    BY <1>3, <1>10
  <2>4. result' \in V3Results /\ result' # "writing"
    BY <1>1, <2>1 DEF V3Results
  <2>5. /\ Indexed' /\ SlotState' = SlotState /\ \A p, r : Leads(p, r)' = Leads(p, r)
    BY <1>1, <1>2, <2>4, ReaderStep
  <2>6. V3Types'
    <3>1. min_offset' \in Nat /\ max_offset' \in Nat
      <4> HIDE DEF at, looks
      <4> QED BY <1>4, <2>1, <2>3
    <3>2. Slot' \in SlotState /\ soughtKey' \in Nat
      BY <1>1, <1>3, <1>4, <2>2
    <3> QED BY <1>1, <1>2, <2>4, <3>1, <3>2, ReaderStep
  <2>7. FindsExactly'
    BY <1>1, <1>2, <1>5, <2>1 DEF FindsExactly, PositionInside, SearchIsRight, IndexOffset
  <2>8. ASSUME NEW r \in 1..Len(rowKeys), rowKeys[r] = soughtKey
        PROVE  Leads(Slot, r)' /\ min_offset' <= r /\ r <= max_offset'
    <3>1. min_offset <= r /\ r <= max_offset
      BY <1>6, <2>8
    <3>2. at # r
      BY <1>10, <2>8, <3>1
    <3>3. PICK p : p = NextSlot(Slot)
      OBVIOUS
    <3>4. Leads(p, r) /\ p = Slot'
      BY <1>6, <2>2, <2>8, <3>2, <3>3
    <3>5. Leads(Slot, r)'
      BY <2>5, <3>4
    <3>6. ASSUME Narrows, soughtKey < rowKeys[at] PROVE r <= at
      <4>1. \A n, m \in 1..Len(rowKeys) : n < m => rowKeys[n] < rowKeys[m]
        BY <1>1, <3>6 DEF V3Types, Narrows
      <4>2. ~(at < r)
        <5>1. rowKeys[at] \in Nat
          BY <1>3, <2>3
        <5>2. ~(rowKeys[at] < rowKeys[r])
          BY <1>4, <2>8, <3>6, <5>1
        <5> QED BY <2>3, <4>1, <5>2
      <4> QED BY <1>3, <2>3, <4>2
    <3>7. ASSUME Narrows, soughtKey > rowKeys[at] PROVE at <= r
      <4>1. \A n, m \in 1..Len(rowKeys) : n < m => rowKeys[n] < rowKeys[m]
        BY <1>1, <3>7 DEF V3Types, Narrows
      <4>2. ~(r < at)
        <5>1. rowKeys[at] \in Nat
          BY <1>3, <2>3
        <5>2. ~(rowKeys[r] < rowKeys[at])
          BY <1>4, <2>8, <3>7, <5>1
        <5> QED BY <2>3, <4>1, <5>2
      <4> QED BY <1>3, <2>3, <4>2
    <3>8. min_offset' <= r /\ r <= max_offset'
      <4> HIDE DEF at, looks
      <4> QED BY <2>1, <3>1, <3>6, <3>7
    <3> QED BY <3>5, <3>8
  <2>9. Ahead'
    BY <1>1, <1>2, <1>5, <2>1, <2>8 DEF Ahead
  <2> QED BY <2>5, <2>6, <2>7, <2>9 DEF V3Inv
<1> QED BY <1>8, <1>9, <1>10

(* Calls without a search move to a row or to the end, or not at all.      *)
LEMMA V3CallInv ==
  ASSUME V3Inv, V3Assumption, result \notin {"writing", "seeking"},
         UNCHANGED <<v3Table, index_, placed, v3Search>>, Forget,
         offset_' \in 1..IndexOffset, result' \in {"none", "thrown", "row", "end"},
         result' = "row" => offset_' - 1 \in 1..Len(rowKeys)
  PROVE  V3Inv'
<1>1. V3Types /\ Indexed /\ FindsExactly
  BY DEF V3Inv
<1>2. rowKeys' = rowKeys /\ padding' = padding /\ placed = Len(rowKeys) /\ soughtKey' = 0
  BY <1>1 DEF v3Table, Indexed, Forget
<1>3. result' \in V3Results /\ result' \notin {"writing", "seeking", "true", "false"}
  BY DEF V3Results
<1>4. Indexed' /\ SlotState' = SlotState
  BY <1>1, <1>2, <1>3, ReaderStep
<1>5. V3Types'
  <2>1. Slot' \in SlotState /\ min_offset' \in Nat /\ max_offset' \in Nat
    BY <1>1 DEF V3Types, Slot, v3Search
  <2>2. soughtKey' \in Nat
    BY <1>2
  <2> QED BY <1>1, <1>2, <1>3, <2>1, <2>2, ReaderStep
<1>6. FindsExactly'
  BY <1>2, <1>3 DEF FindsExactly, PositionInside, SearchIsRight, IndexOffset
<1> QED BY <1>3, <1>4, <1>5, <1>6 DEF V3Inv

(* The invariant of the reader of older tables.                            *)
THEOREM HashReaderInvariant == V3Spec => []V3Inv
<1>1. V3Init => V3Inv
  BY V3InitInv, V3Assumption
<1>2. V3Inv /\ [V3Next]_v3Vars => V3Inv'
  <2> SUFFICES ASSUME V3Inv, [V3Next]_v3Vars PROVE V3Inv'
    OBVIOUS
  <2>1. CASE PlaceRow
    BY <2>1, PlaceRowInv, V3Assumption
  <2>2. CASE MemoryMap
    BY <2>2, MemoryMapInv, V3Assumption
  <2>3. ASSUME NEW k \in V3Keys, V3SeekToKey(k) PROVE V3Inv'
    BY <2>3, V3SeekToKeyInv, V3Assumption
  <2>4. CASE Probe
    BY <2>4, ProbeInv, V3Assumption
  <2>5. ASSUME NEW n \in -1..1, NEW whence, V3Seek(n, whence) PROVE V3Inv'
    <3>1. /\ result \notin {"writing", "seeking"} /\ Forget
          /\ UNCHANGED <<v3Table, index_, placed, v3Search>>
      BY <2>5 DEF V3Seek, V3Idle
    <3>2. offset_ \in 1..IndexOffset /\ rowKeys' = rowKeys
      BY <3>1 DEF V3Inv, FindsExactly, PositionInside, v3Table
    <3>3. offset_' \in 1..IndexOffset /\ result' \in {"none", "thrown"}
      BY <2>5, <3>2 DEF V3Seek
    <3> QED BY <3>1, <3>3, V3CallInv, V3Assumption
  <2>6. CASE V3ReadRow
    <3>1. /\ result \notin {"writing", "seeking"} /\ Forget
          /\ UNCHANGED <<v3Table, index_, placed, v3Search>>
      BY <2>6 DEF V3ReadRow, V3Idle
    <3>2. /\ offset_ \in 1..IndexOffset /\ IndexOffset \in Nat
          /\ Len(rowKeys) \in Nat /\ Len(rowKeys) < IndexOffset
      <4>1. IndexOffset \in Nat /\ Len(rowKeys) \in Nat /\ Len(rowKeys) < IndexOffset
        BY TableTypes, V3Assumption DEF V3Inv
      <4> QED BY <4>1 DEF V3Inv, FindsExactly, PositionInside
    <3>3. CASE AtEnd
      <4>1. offset_' = offset_ /\ result' = "end"
        BY <2>6, <3>3 DEF V3ReadRow
      <4> QED BY <3>1, <3>2, <4>1, V3CallInv, V3Assumption
    <3>4. CASE ~AtEnd
      <4>1. offset_' = offset_ + 1 /\ result' = "row"
        BY <2>6, <3>4 DEF V3ReadRow
      <4>2. offset_ + 1 \in 1..IndexOffset /\ (offset_ + 1) - 1 \in 1..Len(rowKeys)
        BY <3>2, <3>4 DEF AtEnd
      <4> QED BY <3>1, <4>1, <4>2, V3CallInv, V3Assumption
    <3> QED BY <3>3, <3>4
  <2>7. CASE V3Skip
    <3>1. /\ result \notin {"writing", "seeking"} /\ Forget
          /\ UNCHANGED <<v3Table, index_, placed, v3Search>>
          /\ offset_' = offset_ /\ result' = "thrown"
      BY <2>7 DEF V3Skip, V3Idle
    <3>2. offset_ \in 1..IndexOffset
      BY DEF V3Inv, FindsExactly, PositionInside
    <3> QED BY <3>1, <3>2, V3CallInv, V3Assumption
  <2>8. CASE UNCHANGED v3Vars
    <3>1. UNCHANGED <<rowKeys, ascending, padding, version, index_size_, hashes, index_, placed,
                      offset_, hash, collisions, fib, min_offset, max_offset, soughtKey, before, result>>
      BY <2>8 DEF v3Vars, v3Table, v3Search
    <3>2. /\ SlotState' = SlotState /\ \A k : FirstSlot(k)' = FirstSlot(k)
          /\ \A p, r : Leads(p, r)' = Leads(p, r)
          /\ \A p, q : Reaches(p, q)' = Reaches(p, q)
      BY <3>1, WaysStay
    <3>3. Slot' = Slot
      BY <3>1 DEF Slot
    <3>4. V3Types'
      BY <3>1, <3>2, <3>3 DEF V3Inv, V3Types
    <3>5. FindsExactly'
      BY <3>1 DEF V3Inv, FindsExactly, PositionInside, SearchIsRight, IndexOffset
    <3>6. Indexed'
      BY <3>1, <3>2, <3>3 DEF V3Inv, Indexed
    <3>7. Ahead' = Ahead
      BY <3>1, <3>2, <3>3 DEF Ahead
    <3> QED BY <3>1, <3>4, <3>5, <3>6, <3>7 DEF V3Inv
  <2> QED BY <2>1, <2>2, <2>3, <2>4, <2>5, <2>6, <2>7, <2>8 DEF V3Next
<1> QED BY <1>1, <1>2, PTL DEF V3Spec

(* A search of the hash index stands at a row of its key when it says that *)
(* it found it, and says that it did not only if no row has it, for any    *)
(* table, any hashes and any number of slots, though rows outside the      *)
(* bounds are passed over without a look; the position is always one of a  *)
(* row or behind the rows, and a row that is read is one of the table.     *)
THEOREM HashSearchIsExact == V3Spec => []FindsExactly
<1>1. V3Inv => FindsExactly
  BY DEF V3Inv
<1> QED BY <1>1, HashReaderInvariant, PTL
=============================================================================
