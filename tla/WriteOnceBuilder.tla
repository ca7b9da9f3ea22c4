-------------------------- MODULE WriteOnceBuilder --------------------------
(***************************************************************************)
(* Writing a write-once table (WriteOnceBuilder and the writing half of    *)
(* WriteOnceTable): rows are gathered in a block, full blocks are appended *)
(* to a temporary file, Sync() writes the last block, the index and the    *)
(* header, renames the file to its final path and then calls fsync().      *)
(* Between any two system calls the call may fail, the process may be      *)
(* killed or the machine may lose power.                                   *)
(***************************************************************************)
EXTENDS WriteOnceFormat

CONSTANTS NoFSync,      \* TableOptions::no_fsync_
          MaxRows,      \* bound: rows accepted per table
          MaxTables     \* bound: tables created at the same path

ASSUME BuilderAssumption ==
  /\ NoFSync \in BOOLEAN
  /\ MaxRows \in Nat /\ MaxTables \in Nat

VARIABLES
  phase,      \* where the table object is in its life
  block,      \* block_
  tmp,        \* the temporary file, and tmp.ends its index_
  path,       \* what the final path names
  survivors,  \* what the final path may name after a loss of power
  accepted,   \* history: the rows InsertRow took for this table
  tables      \* history: tables created so far

vars == <<phase, block, tmp, path, survivors, accepted, tables>>

Phases == {"none", "building", "flushed", "indexed", "headed", "renamed",
           "committed", "empty", "reading", "failed", "refused"}

NoFile == [state |-> "absent", rows |-> <<>>, ends |-> <<>>]

(* File f if its name reached the disk before its contents did.            *)
Torn(f) == [f EXCEPT !.state = "torn"]

(* A file under construction is "open" (header.index_offset is 0),         *)
(* "indexed" (the index follows the blocks) and at last "complete".        *)
File == [state : {"absent", "torn", "open", "indexed", "complete"},
         rows : Seq(Row), ends : Seq(Nat)]

TypeOK ==
  /\ phase \in Phases
  /\ block \in Seq(Row)
  /\ tmp \in File
  /\ path \in File
  /\ survivors \subseteq File
  /\ accepted \in Seq(Row)
  /\ tables \in 0..MaxTables

Init ==
  /\ phase = "none" /\ block = <<>> /\ tmp = NoFile
  /\ path = NoFile /\ survivors = {NoFile}
  /\ accepted = <<>> /\ tables = 0
-----------------------------------------------------------------------------
(* WriteOnceBlock::EstimateSize.                                           *)
EstimateSize(rows) == ByteEnds(rows)[Len(rows)]

(* CreateFile: mkstemp and a header with index_offset 0.                   *)
Create ==
  /\ phase = "none" /\ tables < MaxTables
  /\ phase' = "building"
  /\ block' = <<>> /\ accepted' = <<>>
  /\ tmp' = [state |-> "open", rows |-> <<>>, ends |-> <<>>]
  /\ tables' = tables + 1
  /\ UNCHANGED <<path, survivors>>

(* WriteBlock: the block's rows are appended to the file and the index     *)
(* gets an entry; an empty block is not written.                           *)
WriteBlock(file) ==
  IF block = <<>> THEN file
  ELSE [file EXCEPT !.rows = @ \o block,
                    !.ends = Append(@, Len(file.rows) + Len(block))]

(* Mutant of MustClose: a block that is exactly full is closed too.        *)
MustCloseAtMax(r) ==
  \/ EstimateSize(block) >= kBlockSizeMax
  \/ EstimateSize(block) > kBlockSizeMin /\ EntrySize(r) > kEntrySizeLimit

(* The block is closed before the new row is added to it.                  *)
MustClose(r) ==
  \/ EstimateSize(block) > kBlockSizeMax
  \/ EstimateSize(block) > kBlockSizeMin /\ EntrySize(r) > kEntrySizeLimit

(* Mutant of InOrder: the order is checked after the block was cleared.    *)
InOrderAfterClose(r) ==
  (block # <<>> /\ ~MustClose(r)) => block[Len(block)].key <= r.key

(* "unsorted input data" unless this holds.                                *)
InOrder(r) == block # <<>> => block[Len(block)].key <= r.key

InsertRow(r) ==
  /\ phase = "building" /\ Len(accepted) < MaxRows
  /\ InOrder(r)
  /\ IF MustClose(r)
     THEN tmp' = WriteBlock(tmp) /\ block' = <<r>>
     ELSE block' = Append(block, r) /\ UNCHANGED tmp
  /\ accepted' = Append(accepted, r)
  /\ UNCHANGED <<phase, path, survivors, tables>>

(* The exception leaves InsertRow, and no caller catches it to go on.      *)
RefuseRow(r) ==
  /\ phase = "building" /\ ~InOrder(r)
  /\ phase' = "refused"
  /\ UNCHANGED <<block, tmp, path, survivors, accepted, tables>>
-----------------------------------------------------------------------------
(* Sync(), one step per system call.                                       *)

(* Mutant of SyncBlock: Build() goes straight to the index.                *)
SyncBlockForgotten ==
  /\ phase = "building"
  /\ phase' = "flushed"
  /\ UNCHANGED <<block, tmp, path, survivors, accepted, tables>>

SyncBlock ==
  /\ phase = "building"
  /\ tmp' = WriteBlock(tmp)
  /\ phase' = "flushed"
  /\ UNCHANGED <<block, path, survivors, accepted, tables>>

(* WriteIndex: an empty index is not written, and nothing is committed.    *)
SyncIndex ==
  /\ phase = "flushed"
  /\ IF tmp.ends = <<>>
     THEN phase' = "empty" /\ UNCHANGED tmp
     ELSE phase' = "indexed" /\ tmp' = [tmp EXCEPT !.state = "indexed"]
  /\ UNCHANGED <<block, path, survivors, accepted, tables>>

SyncHeader ==
  /\ phase = "indexed"
  /\ tmp' = [tmp EXCEPT !.state = "complete"]
  /\ phase' = "headed"
  /\ UNCHANGED <<block, path, survivors, accepted, tables>>

(* CommitFile: fchmod and rename.  Neither the data nor the directory need *)
(* be on disk yet, so power loss may bring back what was there before or   *)
(* leave the new name on a file without its contents.                      *)
SyncRename ==
  /\ phase = "headed"
  /\ path' = tmp
  /\ survivors' = survivors \cup {tmp, Torn(tmp)}
  /\ tmp' = NoFile
  /\ phase' = "renamed"
  /\ UNCHANGED <<block, accepted, tables>>

(* Mutant of SyncFile: the test of no_fsync_ is inverted.                  *)
SyncFileInverted ==
  /\ phase = "renamed"
  /\ survivors' = IF NoFSync THEN survivors \ {Torn(path)} ELSE survivors
  /\ phase' = "committed"
  /\ UNCHANGED <<block, tmp, path, accepted, tables>>

(* CommitFile: fsync, unless the options say otherwise.                    *)
SyncFile ==
  /\ phase = "renamed"
  /\ survivors' = IF NoFSync THEN survivors ELSE survivors \ {Torn(path)}
  /\ phase' = "committed"
  /\ UNCHANGED <<block, tmp, path, accepted, tables>>

(* builder_.reset() unlinks a temporary file that was not committed; then  *)
(* the path is opened for reading, which throws if nothing is there.  The  *)
(* index is read at the offset Build() returned: 0 after an empty index,   *)
(* where an older file has its header and decoding it may fail or not.     *)
SyncOpen ==
  /\ \/ phase = "committed" /\ phase' = "reading"
     \/ phase = "empty" /\ path.state = "absent" /\ phase' = "failed"
     \/ phase = "empty" /\ path.state # "absent" /\ phase' \in {"reading", "failed"}
  /\ tmp' = NoFile
  /\ UNCHANGED <<block, path, survivors, accepted, tables>>
-----------------------------------------------------------------------------
(* A system call of InsertRow or Sync() fails and the exception leaves it. *)
(* A block may then be partly written, which no index entry tells of.      *)
IoError ==
  /\ phase \in {"building", "flushed", "indexed", "headed", "renamed"}
  /\ phase' = "failed"
  /\ UNCHANGED <<block, tmp, path, survivors, accepted, tables>>

(* The table object is gone, and with it everything in memory.             *)
Gone ==
  /\ phase' = "none" /\ block' = <<>> /\ accepted' = <<>>
  /\ tmp' = NoFile
  /\ UNCHANGED tables

(* The table object is destroyed between two calls, or after an exception: *)
(* ~WriteOnceBuilder unlinks an uncommitted file.                          *)
Close ==
  /\ phase \in {"building", "reading", "failed", "refused"}
  /\ Gone
  /\ UNCHANGED <<path, survivors>>

(* The process is killed; a temporary file of its own stays in the         *)
(* directory under a name no later process uses.                           *)
Kill ==
  /\ phase # "none"
  /\ Gone
  /\ UNCHANGED <<path, survivors>>

PowerLoss ==
  /\ path' \in survivors
  /\ survivors' = {path'}
  /\ Gone

(* The kernel writes back everything in its own time.                      *)
WriteBack ==
  /\ survivors' = {path}
  /\ UNCHANGED <<phase, block, tmp, path, accepted, tables>>

Next ==
  \/ Create
  \/ \E r \in Row : InsertRow(r) \/ RefuseRow(r)
  \/ SyncBlock \/ SyncIndex \/ SyncHeader \/ SyncRename \/ SyncFile \/ SyncOpen
  \/ IoError \/ Close
  \/ Kill \/ PowerLoss \/ WriteBack

Spec == Init /\ [][Next]_vars
-----------------------------------------------------------------------------
(* Whatever fails and whenever, the final path names nothing or a file     *)
(* that is finished, sorted across its blocks and fully indexed; and so    *)
(* does it after a loss of power, a torn file excepted.  The reader of     *)
(* version 4 relies on it: it says IsSorted() of any file.  A test that    *)
(* expects a file that is not sorted is UnsortedOK, below.                 *)
CommittedIsComplete ==
  \A f \in survivors \cup {path} :
    f.state \notin {"absent", "torn"} =>
      f.state = "complete" /\ WellFormed(f.rows, f.ends)

(* From the moment the file has its final name, it holds exactly the rows  *)
(* that were inserted, in their order.                                     *)
NothingLost ==
  phase \in {"renamed", "committed"} => path.rows = accepted

(* A Sync() of some rows that has returned is durable: unless fsync was    *)
(* switched off, power loss leaves this file whole or brings back what the *)
(* path named before.                                                      *)
SyncIsDurable ==
  (phase \in {"committed", "reading"} /\ accepted # <<>> /\ ~NoFSync) =>
    path.rows = accepted /\ path \in survivors /\ Torn(path) \notin survivors

(* The comments on kBlockSizeMax, kEntrySizeLimit and kBlockSizeMin: a     *)
(* block is closed by the row that takes it over the maximum and not       *)
(* before; a large entry is the last of its block, and shares it only with *)
(* at most kBlockSizeMin bytes.                                            *)
Large(r) == EntrySize(r) > kEntrySizeLimit
Fits(s) ==
  /\ Len(s) > 1 => EstimateSize(SubSeq(s, 1, Len(s) - 1)) <= kBlockSizeMax
  /\ \A i \in 1..Len(s) : Large(s[i]) =>
       i = Len(s) /\ (i > 1 => EstimateSize(SubSeq(s, 1, i - 1)) <= kBlockSizeMin)
IsFull(s, next) ==
  EstimateSize(s) > kBlockSizeMax \/ (EstimateSize(s) > kBlockSizeMin /\ Large(next))

RowsOfBlock(f, b) == SubSeq(f.rows, BlockStart(f.ends, b - 1) + 1, f.ends[b])
Sized(f) ==
  \A b \in 1..Len(f.ends) :
    /\ Fits(RowsOfBlock(f, b))
    /\ b < Len(f.ends) => IsFull(RowsOfBlock(f, b), f.rows[f.ends[b] + 1])
BlocksSized == Sized(tmp)

(* TEST_F(WriteOnceTest, EmptyTableOK): Sync() of a table without rows     *)
(* succeeds.                                                               *)
EmptyTableOK == [][phase = "empty" => phase' # "failed"]_vars

(* TEST_F(WriteOnceTest, CanWriteThenReadUnsorted): rows in any order are  *)
(* inserted, with the default options, and the table is not sorted.        *)
UnsortedOK == phase # "refused"
=============================================================================
