----------------------------- MODULE MCReaders ------------------------------
(* The tables that TableFactory::Open gives a program, of which the header *)
(* of the file or the name of the backend chooses one: the write-once      *)
(* readers of version 4 and of the versions before, and a LevelDB table;   *)
(* and the programs that replace a LevelDB table at its path meanwhile.    *)
(* A reader keeps the file it has opened, so no step of one part depends   *)
(* on another: one of them takes the steps of a behaviour.                 *)
(*                                                                         *)
(* Version 4: every sorted table of up to MaxRows rows over three keys,    *)
(* cut into blocks in every way.  Version 3: up to three rows in three or  *)
(* four slots, with every hash of every key up to a rotation of the slots, *)
(* which both ways through them commute with.  LevelDB: every table of up   *)
(* to four rows over the even keys, so that keys between rows, before the  *)
(* first and behind the last are looked for; two programs that each build  *)
(* up to two tables over two intermediate names, so that the leftovers of  *)
(* failures can take both names.                                           *)
EXTENDS WriteOnceReader, WriteOnceReaderV3, LevelDBCursor, LevelDBPublish

CONSTANTS
  Parts,                                        \* what to check
  MaxRows,                                      \* of a version 4 table
  MaxKey                                        \* of LevelDBCursor

VARIABLE part                                   \* the part that takes steps

MCLevelDBTables ==
  {t \in UNION {[1..n -> {2 * k : k \in 1..MaxKey}] : n \in 0..MaxKey} :
     \A i, j \in DOMAIN t : i < j => t[i] < t[j]}
MCSoughtKeys == 1 .. 2 * MaxKey + 1

AllParts == {"version 4", "version 3", "leveldb cursor", "leveldb publish"}
ASSUME Parts \subseteq AllParts

MCKeys == 1..3
MCVals == {"v"}
MCSizes == {1}

RowSeqs ==
  {s \in UNION {[1..n -> [key : MCKeys, val : MCVals, size : MCSizes]] : n \in 1..MaxRows} :
     \A i, j \in 1..Len(s) : i < j => s[i].key <= s[j].key}

(* The ends of the blocks, from the set of rows that are last in theirs.   *)
EndsOf(S) == [b \in 1..Cardinality(S) |->
                CHOOSE e \in S : Cardinality({d \in S : d <= e}) = b]

(* The rows s, of four bytes each, with blocks that end at the rows of S   *)
(* and at the last.                                                        *)
FileOf(s, S) ==
  [rows |-> s, ends |-> EndsOf(S \cup {Len(s)}),
   at |-> [i \in 0..Len(s) |-> HeaderSize + 4 * i]]
AllFiles ==
  {FileOf(c[1], c[2]) : c \in UNION {{s} \X SUBSET (1..Len(s)) : s \in RowSeqs}}
MCFiles == AllFiles

MCV3Tables == {<<>>, <<2>>, <<1, 2>>, <<3, 1>>, <<1, 2, 3>>, <<3, 1, 2>>}

(* What the readers have open while another part takes the steps.          *)
IdleFile == CHOOSE f \in Files : TRUE
IdleV3 ==
  /\ rowKeys = <<>> /\ ascending = FALSE /\ padding = 0
  /\ version = (CHOOSE v \in Versions : TRUE)
  /\ index_size_ = (CHOOSE n \in IndexSizes : TRUE)
  /\ hashes = [k \in V3Keys |-> 0]

(* The hashes of the keys with the first one at slot 0.                    *)
FromSlotZero ==
  LET first == CHOOSE k \in V3Keys : TRUE
  IN {h \in [V3Keys -> 0..3] : h[first] = 0}

MCInit ==
  /\ part \in Parts
  /\ part /= "version 4" => file = IdleFile
  /\ Init
  /\ IF part = "version 3" THEN hashes \in FromSlotZero ELSE IdleV3
  /\ V3Init
  /\ part /= "leveldb cursor" => keys = <<>>
  /\ CursorInit
  /\ PublishInit

(* The programs have built their tables, or were killed.                   *)
PublishStops ==
  /\ \A p \in Programs :
       step[p] = "killed" \/ (step[p] \in {"returned", "thrown"} /\ built[p] = MaxTables)
  /\ UNCHANGED publishVars

MCNext ==
  \/ part = "version 4" /\ Next /\ UNCHANGED <<part, v3Vars, cursorVars, publishVars>>
  \/ part = "version 3" /\ V3Next /\ UNCHANGED <<part, vars, cursorVars, publishVars>>
  \/ part = "leveldb cursor" /\ CursorNext /\ UNCHANGED <<part, vars, v3Vars, publishVars>>
  \/ /\ part = "leveldb publish" /\ (PublishNext \/ PublishStops)
     /\ UNCHANGED <<part, vars, v3Vars, cursorVars>>

MCSpec == MCInit /\ [][MCNext]_<<part, vars, v3Vars, cursorVars, publishVars>>

(* Loops of Skip(), SeekToKey() and LinkAnonTemporaryFile() run on by      *)
(* themselves; in the parts that take no steps none is under way.          *)
FairMCSpec ==
  /\ MCSpec
  /\ WF_vars(SkipStep \/ SkipReturn)
  /\ WF_v3Vars(Probe)
  /\ \A p \in Programs : WF_publishVars(Publish(p))
-----------------------------------------------------------------------------
(* The calls that loop end: Skip() of the version 4 reader, a search of    *)
(* the hash index of version 3, and LinkAnonTemporaryFile(), though all    *)
(* its names may be taken.                                                 *)
CallsEnd == SkipReturns /\ SeekEnds /\ PublishEnds
=============================================================================
