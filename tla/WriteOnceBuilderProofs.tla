----------------------- MODULE WriteOnceBuilderProofs -----------------------
(***************************************************************************)
(* Proofs about writing a write-once table, for all rows, all block limits *)
(* and any number of tables at one path, with failing calls, killed        *)
(* processes and losses of power at every step.                            *)
(***************************************************************************)
EXTENDS WriteOnceBuilder, WriteOnceSorting, SequenceTheorems, WellFoundedInduction, TLAPS

(* What the temporary file holds, from its creation to its renaming.       *)
TmpInv ==
  /\ phase = "building" =>
       /\ tmp.state = "open"
       /\ accepted = tmp.rows \o block
       /\ SortedRows(accepted)
       /\ IndexCovers(tmp.ends, Len(tmp.rows))
       /\ block = <<>> => accepted = <<>>
  /\ phase \in {"flushed", "indexed", "headed"} =>
       tmp.rows = accepted /\ WellFormed(tmp.rows, tmp.ends)
  /\ phase = "headed" => tmp.state = "complete"
  /\ phase = "empty" => accepted = <<>>

(* The object's own file is what the final path names.                     *)
Published ==
  phase \in {"renamed", "committed"} \/ (phase = "reading" /\ accepted # <<>>)

PathInv ==
  /\ path \in survivors
  /\ Published => path.rows = accepted /\ path.state = "complete"
  /\ (Published /\ phase # "renamed" /\ NoFSync = FALSE) => Torn(path) \notin survivors
  /\ CommittedIsComplete

Inv == TypeOK /\ TmpInv /\ PathInv
-----------------------------------------------------------------------------
(* An index that covers n rows covers k more once an entry is added.       *)
LEMMA IndexAppend ==
  ASSUME NEW ends \in Seq(Nat), NEW n \in Nat, NEW k \in Nat, k > 0,
         IndexCovers(ends, n)
  PROVE  IndexCovers(Append(ends, n + k), n + k)
<1> DEFINE new == Append(ends, n + k)
<1>1. /\ Len(ends) \in Nat /\ Len(new) = Len(ends) + 1 /\ new # <<>>
      /\ \A b \in 1..Len(ends) : new[b] = ends[b]
      /\ new[Len(ends) + 1] = n + k
  BY AppendProperties
<1>2. ASSUME NEW b \in 1..Len(new)
      PROVE  new[b] \in 1..(n + k) /\ BlockStart(new, b - 1) < new[b]
  <2>1. CASE b = Len(ends) + 1
    <3>1. BlockStart(new, b - 1) = n
      <4>1. CASE Len(ends) = 0
        BY <1>1, <2>1, <4>1 DEF IndexCovers, BlockStart
      <4>2. CASE Len(ends) # 0
        <5>1. n = ends[Len(ends)]
          BY <1>1, <4>2 DEF IndexCovers
        <5>2. b - 1 = Len(ends) /\ b - 1 # 0 /\ Len(ends) \in 1..Len(ends)
          BY <1>1, <2>1, <4>2
        <5> QED BY <1>1, <5>1, <5>2 DEF BlockStart
      <4> QED BY <4>1, <4>2
    <3> QED BY <1>1, <2>1, <3>1
  <2>2. CASE b # Len(ends) + 1
    <3>1. b \in 1..Len(ends) /\ (b - 1 = 0 \/ b - 1 \in 1..Len(ends))
      BY <1>1, <2>2
    <3>2. ends[b] \in 1..n /\ BlockStart(ends, b - 1) < ends[b]
      BY <3>1 DEF IndexCovers
    <3>3. BlockStart(new, b - 1) = BlockStart(ends, b - 1)
      BY <1>1, <3>1 DEF BlockStart
    <3> QED BY <1>1, <3>1, <3>2, <3>3
  <2> QED BY <2>1, <2>2
<1> QED BY <1>1, <1>2 DEF IndexCovers

(* Sorted rows stay sorted when a row that is not smaller is added.        *)
LEMMA SortedAppend ==
  ASSUME NEW rows \in Seq(Row), NEW r \in Row, SortedRows(rows),
         rows # <<>> => rows[Len(rows)].key <= r.key
  PROVE  SortedRows(Append(rows, r))
<1> DEFINE new == Append(rows, r)
<1>1. /\ Len(rows) \in Nat /\ Len(new) = Len(rows) + 1
      /\ \A i \in 1..Len(rows) : new[i] = rows[i]
      /\ new[Len(rows) + 1] = r
  OBVIOUS
<1>2. r.key \in Int /\ \A i \in 1..Len(rows) : rows[i].key \in Int
  <2>1. \A i \in 1..Len(rows) : rows[i] \in Row
    OBVIOUS
  <2> QED BY <2>1, FormatAssumption DEF Row
<1>3. ASSUME NEW i \in 1..Len(new), NEW j \in 1..Len(new), i < j
      PROVE  new[i].key <= new[j].key
  <2>1. i \in 1..Len(rows)
    BY <1>1, <1>3
  <2>2. CASE j \in 1..Len(rows)
    BY <1>1, <1>3, <2>1, <2>2 DEF SortedRows
  <2>3. CASE j \notin 1..Len(rows)
    <3>1. j = Len(rows) + 1 /\ rows # <<>> /\ Len(rows) \in 1..Len(rows)
      BY <1>1, <2>1, <2>3
    <3>2. i = Len(rows) \/ rows[i].key <= rows[Len(rows)].key
      BY <1>1, <2>1, <3>1 DEF SortedRows
    <3> QED BY <1>1, <1>2, <2>1, <3>1, <3>2
  <2> QED BY <2>2, <2>3
<1> QED BY <1>3 DEF SortedRows

(* WriteBlock appends the block and keeps the index in step.               *)
LEMMA WriteBlockFacts ==
  ASSUME TypeOK, IndexCovers(tmp.ends, Len(tmp.rows))
  PROVE  /\ WriteBlock(tmp) \in File
         /\ WriteBlock(tmp).state = tmp.state
         /\ WriteBlock(tmp).rows = tmp.rows \o block
         /\ IndexCovers(WriteBlock(tmp).ends, Len(WriteBlock(tmp).rows))
<1>1. tmp \in File /\ block \in Seq(Row)
  BY DEF TypeOK
<1>2. tmp.rows \in Seq(Row) /\ tmp.ends \in Seq(Nat)
  BY <1>1 DEF File
<1>3. CASE block = <<>>
  <2>1. WriteBlock(tmp) = tmp
    BY <1>3 DEF WriteBlock
  <2>2. tmp.rows \o block = tmp.rows
    BY <1>2, <1>3, ConcatEmptySeq
  <2> QED BY <1>1, <2>1, <2>2
<1>4. CASE block # <<>>
  <2>1. Len(tmp.rows) \in Nat /\ Len(block) \in Nat /\ Len(block) > 0
    BY <1>1, <1>2, <1>4
  <2>2. /\ tmp.rows \o block \in Seq(Row)
        /\ Len(tmp.rows \o block) = Len(tmp.rows) + Len(block)
    BY <1>1, <1>2, ConcatProperties
  <2>3. WriteBlock(tmp) = [tmp EXCEPT !.rows = tmp.rows \o block,
                                      !.ends = Append(tmp.ends, Len(tmp.rows) + Len(block))]
    BY <1>1, <1>4 DEF WriteBlock, File
  <2>4. IndexCovers(Append(tmp.ends, Len(tmp.rows) + Len(block)), Len(tmp.rows) + Len(block))
    BY <1>2, <2>1, IndexAppend
  <2>5. Append(tmp.ends, Len(tmp.rows) + Len(block)) \in Seq(Nat)
    BY <1>2, <2>1
  <2> HIDE DEF WriteBlock
  <2>6. /\ WriteBlock(tmp).state = tmp.state
        /\ WriteBlock(tmp).rows = tmp.rows \o block
        /\ WriteBlock(tmp).ends = Append(tmp.ends, Len(tmp.rows) + Len(block))
    BY <1>1, <2>3 DEF File
  <2>7. WriteBlock(tmp) \in File
    BY <1>1, <2>2, <2>3, <2>5 DEF File
  <2> QED BY <2>2, <2>4, <2>6, <2>7
<1> QED BY <1>3, <1>4
-----------------------------------------------------------------------------
(* A file that is not there, and a torn one, are files.                    *)
LEMMA FileShapes ==
  /\ NoFile \in File
  /\ \A f \in File : Torn(f) \in File /\ Torn(f).state = "torn"
<1>1. NoFile \in File
  BY DEF NoFile, File
<1>2. \A f \in File : Torn(f) \in File /\ Torn(f).state = "torn"
  BY DEF Torn, File
<1> QED BY <1>1, <1>2

(* A step that changes neither what the path names nor what may survive,   *)
(* and enters no phase in which the file counts as published, keeps        *)
(* PathInv.                                                                *)
LEMMA PathKept ==
  ASSUME Inv, UNCHANGED <<path, survivors>>, ~Published'
  PROVE  PathInv'
BY DEF Inv, PathInv, CommittedIsComplete

(* Adding a row at the end of the block adds it at the end of the table.   *)
LEMMA AppendLast ==
  ASSUME NEW S, NEW s \in Seq(S), NEW t \in Seq(S), NEW e \in S
  PROVE  s \o Append(t, e) = Append(s \o t, e)
<1> DEFINE u == Append(t, e)
           v == s \o t
<1>1. /\ Len(s) \in Nat /\ Len(t) \in Nat
      /\ u \in Seq(S) /\ Len(u) = Len(t) + 1
      /\ \A i \in 1..Len(t) : u[i] = t[i]
      /\ u[Len(t) + 1] = e
  BY AppendProperties
<1>2. /\ v \in Seq(S) /\ Len(v) = Len(s) + Len(t)
      /\ \A i \in 1..Len(s) + Len(t) : v[i] = IF i <= Len(s) THEN s[i] ELSE t[i - Len(s)]
  BY ConcatProperties
<1> DEFINE x == s \o u
           y == Append(v, e)
<1> HIDE DEF u, v
<1>a. u \in Seq(S) /\ v \in Seq(S)
  BY <1>1, <1>2
<1>3. /\ x \in Seq(S) /\ Len(x) = Len(s) + Len(u)
      /\ \A i \in 1..Len(s) + Len(u) :
           x[i] = IF i <= Len(s) THEN s[i] ELSE u[i - Len(s)]
  BY <1>a, ConcatProperties
<1>4. /\ y \in Seq(S) /\ Len(y) = Len(v) + 1
      /\ \A i \in 1..Len(v) : y[i] = v[i]
      /\ y[Len(v) + 1] = e
  BY <1>a, AppendProperties
<1> HIDE DEF x, y
<1>5. Len(x) = Len(y) /\ Len(x) = Len(s) + Len(t) + 1
  BY <1>1, <1>2, <1>3, <1>4
<1>6. ASSUME NEW i \in 1..Len(x) PROVE x[i] = y[i]
  <2>1. CASE i <= Len(s)
    <3>1. i \in 1..Len(s) /\ i \in 1..Len(v) /\ i \in 1..Len(s) + Len(t)
          /\ i \in 1..Len(s) + Len(u)
      BY <1>1, <1>2, <1>5, <2>1
    <3> QED BY <1>2, <1>3, <1>4, <2>1, <3>1
  <2>2. CASE i > Len(s) /\ i <= Len(s) + Len(t)
    <3>1. i - Len(s) \in 1..Len(t) /\ i \in 1..Len(v) /\ i \in 1..Len(s) + Len(u)
      BY <1>1, <1>2, <1>3, <2>2
    <3> QED BY <1>1, <1>2, <1>3, <1>4, <2>2, <3>1
  <2>3. CASE i = Len(s) + Len(t) + 1
    <3>1. i - Len(s) = Len(t) + 1 /\ i = Len(v) + 1 /\ ~(i <= Len(s))
      BY <1>1, <1>2, <2>3
    <3> QED BY <1>1, <1>3, <1>4, <3>1
  <2> QED BY <1>1, <1>5, <2>1, <2>2, <2>3
<1>7. x = y
  BY <1>3, <1>4, <1>5, <1>6, SeqEqual
<1> QED BY <1>7 DEF u, v, x, y

(* InsertRow throws.                                                       *)
Refusal == \E r \in Row : RefuseRow(r)

(* A row that InsertRow takes, whether or not it closes the block.         *)
LEMMA InsertStep ==
  ASSUME Inv, NEW r \in Row, InsertRow(r)
  PROVE  Inv'
<1>1. /\ block \in Seq(Row) /\ tmp \in File /\ tmp.rows \in Seq(Row) /\ tmp.ends \in Seq(Nat)
      /\ accepted \in Seq(Row)
  BY DEF Inv, TypeOK, File
<1>2. /\ phase = "building" /\ phase' = "building" /\ InOrder(r)
      /\ UNCHANGED <<path, survivors, tables>> /\ accepted' = Append(accepted, r)
      /\ \/ tmp' = WriteBlock(tmp) /\ block' = <<r>>
         \/ block' = Append(block, r) /\ UNCHANGED tmp
  BY DEF InsertRow
<1>3. /\ tmp.state = "open" /\ accepted = tmp.rows \o block /\ SortedRows(accepted)
      /\ IndexCovers(tmp.ends, Len(tmp.rows)) /\ (block = <<>> => accepted = <<>>)
  BY <1>2 DEF Inv, TmpInv
<1>4. accepted # <<>> => accepted[Len(accepted)].key <= r.key
  <2>1. SUFFICES ASSUME accepted # <<>> PROVE accepted[Len(accepted)].key <= r.key
    OBVIOUS
  <2>2. block # <<>>
    BY <1>3, <2>1
  <2>3. Len(block) \in Nat /\ Len(block) > 0 /\ Len(tmp.rows) \in Nat
    BY <1>1, <2>2
  <2>4. /\ Len(accepted) = Len(tmp.rows) + Len(block)
        /\ \A i \in 1..Len(tmp.rows) + Len(block) :
             accepted[i] = IF i <= Len(tmp.rows) THEN tmp.rows[i]
                           ELSE block[i - Len(tmp.rows)]
    BY <1>1, <1>3, ConcatProperties
  <2>5. accepted[Len(accepted)] = block[Len(block)]
    <3>1. /\ Len(accepted) \in 1..Len(tmp.rows) + Len(block)
          /\ ~(Len(accepted) <= Len(tmp.rows))
          /\ Len(accepted) - Len(tmp.rows) = Len(block)
      BY <2>3, <2>4
    <3> QED BY <2>4, <3>1
  <2> QED BY <1>2, <2>2, <2>5 DEF InOrder
<1>5. SortedRows(Append(accepted, r)) /\ Append(accepted, r) \in Seq(Row)
  <2>1. SortedRows(Append(accepted, r))
    BY <1>1, <1>3, <1>4, SortedAppend
  <2>2. Append(accepted, r) \in Seq(Row)
    BY <1>1, AppendProperties
  <2> QED BY <2>1, <2>2
<1>7. CASE tmp' = WriteBlock(tmp) /\ block' = <<r>>
  <2>1. /\ tmp' \in File /\ tmp'.state = "open" /\ tmp'.rows = accepted
        /\ IndexCovers(tmp'.ends, Len(tmp'.rows))
    BY <1>3, <1>7, WriteBlockFacts DEF Inv
  <2>2. tmp'.rows \o block' = Append(accepted, r)
    BY <1>1, <1>7, <2>1
  <2>3. block' \in Seq(Row) /\ block' # <<>>
    BY <1>7
  <2>4. TmpInv'
    BY <1>2, <1>5, <2>1, <2>2, <2>3 DEF TmpInv
  <2>5. TypeOK'
    BY <1>2, <1>5, <2>1, <2>3 DEF Inv, TypeOK
  <2>6. PathInv'
    BY <1>2, PathKept DEF Published
  <2> QED BY <2>4, <2>5, <2>6 DEF Inv
<1>8. CASE block' = Append(block, r) /\ UNCHANGED tmp
  <2>1. block' \in Seq(Row) /\ block' # <<>>
    BY <1>1, <1>8
  <2>2. tmp'.rows \o block' = Append(accepted, r)
    <3>1. tmp.rows \o Append(block, r) = Append(tmp.rows \o block, r)
      <4>1. \A s, t \in Seq(Row), e \in Row : s \o Append(t, e) = Append(s \o t, e)
        BY AppendLast
      <4>2. tmp.rows \in Seq(Row) /\ block \in Seq(Row) /\ r \in Row
        BY <1>1
      <4> QED BY <4>1, <4>2
    <3> QED BY <1>3, <1>8, <3>1
  <2>3. TmpInv'
    BY <1>2, <1>3, <1>5, <1>8, <2>1, <2>2 DEF TmpInv
  <2>4. TypeOK'
    BY <1>2, <1>5, <1>8, <2>1 DEF Inv, TypeOK
  <2>5. PathInv'
    BY <1>2, PathKept DEF Published
  <2> QED BY <2>3, <2>4, <2>5 DEF Inv
<1> QED BY <1>2, <1>7, <1>8

(* Sync() up to the renaming, one system call at a time.                   *)
LEMMA SyncSteps ==
  ASSUME Inv, SyncBlock \/ SyncIndex \/ SyncHeader
  PROVE  Inv'
<1>1. /\ block \in Seq(Row) /\ tmp \in File /\ tmp.rows \in Seq(Row) /\ tmp.ends \in Seq(Nat)
      /\ accepted \in Seq(Row)
  BY DEF Inv, TypeOK, File
<1>2. UNCHANGED <<block, path, survivors, accepted, tables>>
  BY DEF SyncBlock, SyncIndex, SyncHeader
<1>3. phase' \in {"flushed", "indexed", "headed", "empty"}
  BY DEF SyncBlock, SyncIndex, SyncHeader
<1>4. PathInv'
  BY <1>2, <1>3, PathKept DEF Published
<1>5. CASE SyncBlock
  <2>1. phase = "building" /\ phase' = "flushed" /\ tmp' = WriteBlock(tmp)
    BY <1>5 DEF SyncBlock
  <2>2. /\ accepted = tmp.rows \o block /\ SortedRows(accepted)
        /\ IndexCovers(tmp.ends, Len(tmp.rows))
    BY <2>1 DEF Inv, TmpInv
  <2>3. /\ tmp' \in File /\ tmp'.rows = accepted
        /\ IndexCovers(tmp'.ends, Len(tmp'.rows))
    BY <2>1, <2>2, WriteBlockFacts DEF Inv
  <2>4. TypeOK'
    BY <1>2, <2>1, <2>3 DEF Inv, TypeOK, Phases
  <2>5. TmpInv'
    BY <1>2, <2>1, <2>2, <2>3 DEF TmpInv, WellFormed
  <2> QED BY <1>4, <2>4, <2>5 DEF Inv
<1>6. CASE SyncIndex
  <2>1. phase = "flushed" /\ tmp.rows = accepted /\ WellFormed(tmp.rows, tmp.ends)
    BY <1>6 DEF SyncIndex, Inv, TmpInv
  <2>2. CASE tmp.ends = <<>>
    <3>1. phase' = "empty" /\ UNCHANGED tmp
      BY <1>6, <2>2 DEF SyncIndex
    <3>2. accepted = <<>>
      <4>1. Len(accepted) = 0
        BY <2>1, <2>2 DEF WellFormed, IndexCovers
      <4> QED BY <1>1, <4>1
    <3>3. TypeOK' /\ TmpInv'
      BY <1>2, <3>1, <3>2 DEF Inv, TypeOK, TmpInv, Phases
    <3> QED BY <1>4, <3>3 DEF Inv
  <2>3. CASE tmp.ends # <<>>
    <3>1. phase' = "indexed" /\ tmp' = [tmp EXCEPT !.state = "indexed"]
      BY <1>6, <2>3 DEF SyncIndex
    <3>2. tmp' \in File /\ tmp'.rows = tmp.rows /\ tmp'.ends = tmp.ends
      BY <1>1, <3>1 DEF File
    <3>3. TypeOK'
      BY <1>2, <3>1, <3>2 DEF Inv, TypeOK, Phases
    <3>4. TmpInv'
      BY <1>2, <2>1, <3>1, <3>2 DEF TmpInv
    <3> QED BY <1>4, <3>3, <3>4 DEF Inv
  <2> QED BY <2>2, <2>3
<1>7. CASE SyncHeader
  <2>1. /\ phase = "indexed" /\ tmp.rows = accepted /\ WellFormed(tmp.rows, tmp.ends)
        /\ phase' = "headed" /\ tmp' = [tmp EXCEPT !.state = "complete"]
    BY <1>7 DEF SyncHeader, Inv, TmpInv
  <2>2. /\ tmp' \in File /\ tmp'.rows = tmp.rows /\ tmp'.ends = tmp.ends
        /\ tmp'.state = "complete"
    BY <1>1, <2>1 DEF File
  <2>3. TypeOK'
    BY <1>2, <2>1, <2>2 DEF Inv, TypeOK, Phases
  <2>4. TmpInv'
    BY <1>2, <2>1, <2>2 DEF TmpInv
  <2> QED BY <1>4, <2>3, <2>4 DEF Inv
<1> QED BY <1>5, <1>6, <1>7

(* CommitFile: the renaming puts a complete file at the final path, and    *)
(* fsync rules out its torn form.                                          *)
LEMMA CommitSteps ==
  ASSUME Inv, SyncRename \/ SyncFile
  PROVE  Inv'
<1>1. /\ tmp \in File /\ path \in File /\ survivors \subseteq File
      /\ path \in survivors /\ CommittedIsComplete
  BY DEF Inv, TypeOK, PathInv
<1>2. CASE SyncRename
  <2>1. /\ phase = "headed" /\ phase' = "renamed" /\ path' = tmp /\ tmp' = NoFile
        /\ survivors' = survivors \cup {tmp, Torn(tmp)}
        /\ UNCHANGED <<block, accepted, tables>>
    BY <1>2 DEF SyncRename
  <2>2. /\ tmp.rows = accepted /\ WellFormed(tmp.rows, tmp.ends)
        /\ tmp.state = "complete"
    BY <2>1 DEF Inv, TmpInv
  <2>3. Torn(tmp) \in File /\ Torn(tmp).state = "torn" /\ NoFile \in File
    BY <1>1, FileShapes
  <2>4. TypeOK'
    BY <1>1, <2>1, <2>3 DEF Inv, TypeOK, Phases
  <2>5. TmpInv'
    BY <2>1 DEF TmpInv
  <2>6. CommittedIsComplete'
    BY <1>1, <2>1, <2>2, <2>3 DEF CommittedIsComplete
  <2>7. PathInv'
    BY <2>1, <2>2, <2>6 DEF PathInv, Published
  <2> QED BY <2>4, <2>5, <2>7 DEF Inv
<1>3. CASE SyncFile
  <2>1. /\ phase = "renamed" /\ phase' = "committed"
        /\ UNCHANGED <<block, tmp, path, accepted, tables>>
        /\ survivors' = IF NoFSync THEN survivors ELSE survivors \ {Torn(path)}
    BY <1>3 DEF SyncFile
  <2>2. path.rows = accepted /\ path.state = "complete"
    BY <2>1 DEF Inv, PathInv, Published
  <2>3. Torn(path) # path
    BY <1>1, <2>2, FileShapes
  <2>4. survivors' \subseteq survivors /\ path \in survivors'
    BY <1>1, <2>1, <2>3
  <2>5. NoFSync = FALSE => Torn(path) \notin survivors'
    BY <2>1
  <2>6. TypeOK'
    BY <2>1, <2>4 DEF Inv, TypeOK, Phases
  <2>7. TmpInv'
    BY <2>1 DEF TmpInv
  <2>8. CommittedIsComplete'
    BY <1>1, <2>1, <2>4 DEF CommittedIsComplete
  <2>9. Torn(path)' = Torn(path)
    BY <2>1 DEF Torn
  <2>10. PathInv'
    BY <2>1, <2>2, <2>4, <2>5, <2>8, <2>9 DEF PathInv, Published
  <2> QED BY <2>6, <2>7, <2>10 DEF Inv
<1> QED BY <1>2, <1>3

(* Calls that leave the disk alone: opening the file for reading, a call   *)
(* that fails, a table object that goes away, a new one.                   *)
LEMMA OtherSteps ==
  ASSUME Inv, Create \/ SyncOpen \/ IoError \/ Refusal \/ Close \/ Kill
  PROVE  Inv'
<1>1. UNCHANGED <<path, survivors>>
  BY DEF Create, SyncOpen, IoError, Refusal, RefuseRow, Close, Kill
<1>2. NoFile \in File /\ <<>> \in Seq(Row) /\ <<>> \in Seq(Nat)
  BY FileShapes
<1>3. CASE Create
  <2>1. /\ phase' = "building" /\ block' = <<>> /\ accepted' = <<>>
        /\ tmp' = [state |-> "open", rows |-> <<>>, ends |-> <<>>]
        /\ tables < MaxTables /\ tables' = tables + 1
    BY <1>3 DEF Create
  <2>2. /\ tmp' \in File /\ tmp'.state = "open" /\ tmp'.rows = <<>> /\ tmp'.ends = <<>>
    BY <1>2, <2>1 DEF File
  <2>3. TypeOK'
    <3>1. tables' \in 0..MaxTables
      BY <2>1, BuilderAssumption DEF Inv, TypeOK
    <3> QED BY <1>1, <1>2, <2>1, <2>2, <3>1 DEF Inv, TypeOK, Phases
  <2>4. IndexCovers(<<>>, Len(<<>>)) /\ SortedRows(<<>>) /\ <<>> \o <<>> = <<>>
    BY DEF IndexCovers, SortedRows
  <2>5. TmpInv'
    BY <2>1, <2>2, <2>4 DEF TmpInv
  <2>6. PathInv'
    BY <1>1, <2>1, PathKept DEF Published
  <2> QED BY <2>3, <2>5, <2>6 DEF Inv
<1>4. CASE SyncOpen
  <2>1. /\ phase \in {"committed", "empty"} /\ phase' \in {"reading", "failed"}
        /\ phase = "committed" => phase' = "reading"
        /\ tmp' = NoFile /\ UNCHANGED <<block, accepted, tables>>
    BY <1>4 DEF SyncOpen
  <2>2. TypeOK'
    BY <1>1, <1>2, <2>1 DEF Inv, TypeOK, Phases
  <2>3. TmpInv'
    BY <2>1 DEF TmpInv
  <2>4. CASE phase = "empty"
    <3>1. accepted' = <<>>
      BY <2>1, <2>4 DEF Inv, TmpInv
    <3>2. PathInv'
      BY <1>1, <2>1, <3>1, PathKept DEF Published
    <3> QED BY <2>2, <2>3, <3>2 DEF Inv
  <2>5. CASE phase = "committed"
    <3>1. Published /\ phase # "renamed"
      BY <2>5 DEF Published
    <3>2. CommittedIsComplete'
      BY <1>1 DEF Inv, PathInv, CommittedIsComplete
    <3>3. Torn(path)' = Torn(path)
      BY <1>1 DEF Torn
    <3>4. PathInv'
      BY <1>1, <2>1, <3>1, <3>2, <3>3 DEF Inv, PathInv
    <3> QED BY <2>2, <2>3, <3>4 DEF Inv
  <2> QED BY <2>1, <2>4, <2>5
<1>5. CASE IoError \/ Refusal
  <2>1. phase' \in {"failed", "refused"} /\ UNCHANGED <<block, tmp, accepted, tables>>
    BY <1>5 DEF IoError, Refusal, RefuseRow
  <2>2. TypeOK' /\ TmpInv'
    BY <1>1, <2>1 DEF Inv, TypeOK, TmpInv, Phases
  <2>3. PathInv'
    BY <1>1, <2>1, PathKept DEF Published
  <2> QED BY <2>2, <2>3 DEF Inv
<1>6. CASE Close \/ Kill
  <2>1. Gone
    BY <1>6 DEF Close, Kill
  <2>2. TypeOK' /\ TmpInv'
    BY <1>1, <1>2, <2>1 DEF Gone, Inv, TypeOK, TmpInv, Phases
  <2>3. PathInv'
    BY <1>1, <2>1, PathKept DEF Published, Gone
  <2> QED BY <2>2, <2>3 DEF Inv
<1> QED BY <1>3, <1>4, <1>5, <1>6

(* The loss of power, and the kernel's writing back.                       *)
LEMMA DiskSteps ==
  ASSUME Inv, PowerLoss \/ WriteBack
  PROVE  Inv'
<1>1. /\ path \in survivors /\ survivors \subseteq File /\ CommittedIsComplete
      /\ path \in File
  BY DEF Inv, TypeOK, PathInv
<1>2. path' \in survivors /\ survivors' = {path'}
  BY <1>1 DEF PowerLoss, WriteBack
<1>3. CommittedIsComplete'
  BY <1>1, <1>2 DEF CommittedIsComplete
<1>4. path' \in File /\ survivors' \subseteq File
  BY <1>1, <1>2
<1>5. CASE PowerLoss
  <2>1. Gone
    BY <1>5 DEF PowerLoss
  <2>2. NoFile \in File /\ <<>> \in Seq(Row)
    BY FileShapes
  <2>3. TypeOK' /\ TmpInv'
    BY <1>4, <2>1, <2>2 DEF Gone, Inv, TypeOK, TmpInv, Phases
  <2>4. PathInv'
    BY <1>2, <1>3, <2>1 DEF PathInv, Gone, Published
  <2> QED BY <2>3, <2>4 DEF Inv
<1>6. CASE WriteBack
  <2>1. UNCHANGED <<phase, block, tmp, path, accepted, tables>>
    BY <1>6 DEF WriteBack
  <2>2. TypeOK' /\ TmpInv'
    BY <1>4, <2>1 DEF Inv, TypeOK, TmpInv
  <2>3. (Published => path.rows = accepted /\ path.state = "complete") /\ (Published' = Published)
    BY <2>1 DEF Inv, PathInv, Published
  <2>4. path.state = "complete" => Torn(path) # path
    BY <1>1, FileShapes
  <2>5. Torn(path)' = Torn(path)
    BY <2>1 DEF Torn
  <2>6. PathInv'
    BY <1>2, <1>3, <2>1, <2>3, <2>4, <2>5 DEF PathInv
  <2> QED BY <2>2, <2>6 DEF Inv
<1> QED BY <1>5, <1>6
-----------------------------------------------------------------------------
(* The inductive invariant holds of every behaviour, crashes included.     *)
THEOREM BuilderInvariant == Spec => []Inv
<1>1. Init => Inv
  <2> SUFFICES ASSUME Init PROVE Inv
    OBVIOUS
  <2>1. NoFile \in File /\ <<>> \in Seq(Row) /\ NoFile.state = "absent"
    BY FileShapes DEF NoFile
  <2>2. TypeOK /\ TmpInv
    BY <2>1, BuilderAssumption DEF Init, TypeOK, TmpInv, Phases
  <2>3. PathInv
    BY <2>1 DEF Init, PathInv, Published, CommittedIsComplete
  <2> QED BY <2>2, <2>3 DEF Inv
<1>2. Inv /\ [Next]_vars => Inv'
  <2> SUFFICES ASSUME Inv, [Next]_vars PROVE Inv'
    OBVIOUS
  <2>1. CASE \E r \in Row : InsertRow(r)
    BY <2>1, InsertStep
  <2>2. CASE SyncBlock \/ SyncIndex \/ SyncHeader
    BY <2>2, SyncSteps
  <2>3. CASE SyncRename \/ SyncFile
    BY <2>3, CommitSteps
  <2>4. CASE Create \/ SyncOpen \/ IoError \/ Refusal \/ Close \/ Kill
    BY <2>4, OtherSteps
  <2>5. CASE PowerLoss \/ WriteBack
    BY <2>5, DiskSteps
  <2>6. CASE UNCHANGED vars
    BY <2>6 DEF vars, Inv, TypeOK, TmpInv, PathInv, Published, CommittedIsComplete, Torn
  <2> QED BY <2>1, <2>2, <2>3, <2>4, <2>5, <2>6 DEF Next, Refusal
<1> QED BY <1>1, <1>2, PTL DEF Spec

(* The builder's state keeps its shape through failures and crashes.       *)
THEOREM BuilderTypeCorrect == Spec => []TypeOK
<1>1. Inv => TypeOK
  BY DEF Inv
<1> QED BY <1>1, BuilderInvariant, PTL

(* Whatever call fails, whenever the process dies or power is lost, a file *)
(* at the final path is finished, sorted across blocks and fully indexed.  *)
THEOREM PathNamesCompleteFiles == Spec => []CommittedIsComplete
<1>1. Inv => CommittedIsComplete
  BY DEF Inv, PathInv
<1> QED BY <1>1, BuilderInvariant, PTL

(* The file that Sync() renames holds the rows InsertRow took, in order,   *)
(* wherever the block limits have cut them.                                *)
THEOREM NoRowIsLost == Spec => []NothingLost
<1>1. Inv => NothingLost
  BY DEF Inv, PathInv, Published, NothingLost
<1> QED BY <1>1, BuilderInvariant, PTL

(* A Sync() that returned, with fsync on, has made this table durable.     *)
THEOREM SyncMakesDurable == Spec => []SyncIsDurable
<1>1. Inv => SyncIsDurable
  <2>1. NoFSync \in BOOLEAN
    BY BuilderAssumption
  <2> QED BY <2>1 DEF Inv, PathInv, Published, SyncIsDurable
<1> QED BY <1>1, BuilderInvariant, PTL
-----------------------------------------------------------------------------
(* A set of natural numbers has a least one.                               *)
LEMMA LeastNat ==
  ASSUME NEW T, T \subseteq Nat, T # {}
  PROVE  \E x \in T : \A y \in T : x <= y
<1> DEFINE R == OpToRel(<, Nat)
<1>1. IsWellFoundedOn(R, Nat)
  BY NatLessThanWellFounded
<1>2. PICK x \in T : \A y \in T : ~(<<y, x>> \in R)
  <2> HIDE DEF R
  <2> QED BY <1>1, WFMin
<1>3. ASSUME NEW y \in T PROVE x <= y
  <2>1. x \in Nat /\ y \in Nat
    OBVIOUS
  <2>2. ~(y < x)
    BY <1>2, <2>1 DEF OpToRel
  <2> QED BY <2>1, <2>2
<1> QED BY <1>3

(* A row takes some bytes, and a large one more than a block may have.     *)
LEMMA RowBytesFacts ==
  ASSUME NEW r \in Row
  PROVE  RowBytes(r) \in Nat /\ (Large(r) => RowBytes(r) > kBlockSizeMax)
<1>1. r.size \in Nat
  BY FormatAssumption DEF Row
<1>2. VarintSpace(KeySize) = 1
  BY SMT DEF VarintSpace, KeySize
<1>3. VarintSpace(r.size) \in Nat /\ (r.size >= 16384 => VarintSpace(r.size) >= 3)
  BY <1>1, SMT DEF VarintSpace
<1> HIDE DEF VarintSpace
<1> QED BY <1>1, <1>2, <1>3, SMT DEF RowBytes, Large, EntrySize, kEntrySizeLimit, kBlockSizeMax, KeySize

(* The running sum of the rows' bytes, which ByteEnds defines by recursion *)
(* on the number of rows, exists.                                          *)
SumUpto(rows, k, g) ==
  g[0] = 0 /\ \A i \in 1..k : g[i] = g[i - 1] + RowBytes(rows[i])

LEMMA SumExists ==
  ASSUME NEW rows \in Seq(Row), NEW k \in 0..Len(rows)
  PROVE  \E g \in [0..k -> Nat] : SumUpto(rows, k, g)
<1> DEFINE T == {j \in 0..Len(rows) : ~ \E g \in [0..j -> Nat] : SumUpto(rows, j, g)}
<1> SUFFICES ASSUME T # {} PROVE FALSE
  OBVIOUS
<1>0. Len(rows) \in Nat /\ T \subseteq Nat
  OBVIOUS
<1>1. PICK j \in T : \A y \in T : j <= y
  <2> HIDE DEF T
  <2> QED BY <1>0, LeastNat
<1>2. CASE j = 0
  <2> DEFINE g == [i \in 0..0 |-> 0]
  <2>1. g \in [0..0 -> Nat] /\ SumUpto(rows, 0, g)
    BY DEF SumUpto
  <2> QED BY <1>1, <1>2, <2>1
<1>3. CASE j # 0
  <2>1. j - 1 \in 0..Len(rows) /\ ~(j <= j - 1) /\ j \in 1..Len(rows) /\ j \in Nat
    BY <1>0, <1>1, <1>3
  <2>2. PICK g \in [0 .. j - 1 -> Nat] : SumUpto(rows, j - 1, g)
    BY <1>1, <2>1
  <2>3. RowBytes(rows[j]) \in Nat
    <3>1. rows[j] \in Row
      BY <2>1
    <3> QED BY <3>1, RowBytesFacts
  <2> HIDE DEF T
  <2> DEFINE h == [i \in 0..j |-> IF i = j THEN g[j - 1] + RowBytes(rows[j]) ELSE g[i]]
  <2>4. /\ h[j] = g[j - 1] + RowBytes(rows[j]) /\ \A i \in 0 .. j - 1 : h[i] = g[i]
        /\ g[j - 1] \in Nat
    BY <2>1
  <2>5. h \in [0..j -> Nat]
    BY <2>1, <2>3
  <2> HIDE DEF h
  <2>6. \A i \in 1..j : i = j \/ i \in 1 .. j - 1
    BY <2>1
  <2>7. \A i \in 1 .. j - 1 : i \in 0 .. j - 1 /\ i - 1 \in 0 .. j - 1
    BY <2>1
  <2>8. 0 \in 0 .. j - 1 /\ j - 1 \in 0 .. j - 1
    BY <2>1
  <2>9. SumUpto(rows, j, h)
    BY <2>2, <2>4, <2>6, <2>7, <2>8 DEF SumUpto
  <2> QED BY <1>1, <2>5, <2>9 DEF T
<1> QED BY <1>2, <1>3

LEMMA ByteEndsFacts ==
  ASSUME NEW rows \in Seq(Row)
  PROVE  /\ ByteEnds(rows)[0] = 0
         /\ \A i \in 1..Len(rows) : ByteEnds(rows)[i] = ByteEnds(rows)[i - 1] + RowBytes(rows[i])
<1> DEFINE n == Len(rows)
           IsSum(f) == f = [i \in 0..n |-> IF i = 0 THEN 0 ELSE f[i - 1] + RowBytes(rows[i])]
<1>0. n \in Nat
  OBVIOUS
<1>1. \E f : IsSum(f)
  <2>1. PICK g \in [0..n -> Nat] : SumUpto(rows, n, g)
    BY <1>0, SumExists
  <2> HIDE DEF n
  <2>2. ASSUME NEW i \in 0..n
        PROVE  g[i] = IF i = 0 THEN 0 ELSE g[i - 1] + RowBytes(rows[i])
    BY <1>0, <2>1 DEF SumUpto
  <2>3. g = [i \in 0..n |-> g[i]]
    OBVIOUS
  <2>4. IsSum(g)
    BY <2>2, <2>3
  <2> QED BY <2>4
<1>2. ByteEnds(rows) = CHOOSE f : IsSum(f)
  BY DEF ByteEnds
<1>3. IsSum(ByteEnds(rows))
  <2> HIDE DEF IsSum
  <2> QED BY <1>1, <1>2
<1> HIDE DEF n
<1>4. \A i \in 0..n : ByteEnds(rows)[i] =
        IF i = 0 THEN 0 ELSE ByteEnds(rows)[i - 1] + RowBytes(rows[i])
  <2> DEFINE f == ByteEnds(rows)
  <2>1. f = [i \in 0..n |-> IF i = 0 THEN 0 ELSE f[i - 1] + RowBytes(rows[i])]
    BY <1>3
  <2> HIDE DEF f
  <2>2. \A i \in 0..n : f[i] = IF i = 0 THEN 0 ELSE f[i - 1] + RowBytes(rows[i])
    BY <2>1
  <2> QED BY <2>2 DEF f
<1>5. 0 \in 0..n /\ \A i \in 1..n : i \in 0..n /\ i # 0
  BY <1>0
<1> QED BY <1>4, <1>5 DEF n

(* EstimateSize is a number, and counts at least the last row.             *)
LEMMA EstimateFacts ==
  ASSUME NEW rows \in Seq(Row)
  PROVE  /\ EstimateSize(rows) \in Nat
         /\ rows = <<>> => EstimateSize(rows) = 0
         /\ rows # <<>> => EstimateSize(rows) >= RowBytes(rows[Len(rows)])
<1> DEFINE n == Len(rows)
           f == ByteEnds(rows)
           T == {i \in 0..n : f[i] \notin Nat}
<1>1. n \in Nat /\ (rows = <<>> => n = 0) /\ (rows # <<>> => n \in 1..n)
  OBVIOUS
<1>2. f[0] = 0 /\ \A i \in 1..n : f[i] = f[i - 1] + RowBytes(rows[i])
  BY ByteEndsFacts
<1>3. \A i \in 1..n : RowBytes(rows[i]) \in Nat
  BY RowBytesFacts
<1> HIDE DEF n, f
<1>4. ASSUME T # {} PROVE FALSE
  <2>1. PICK j \in T : \A y \in T : j <= y
    <3>1. T \subseteq Nat
      BY <1>1
    <3> HIDE DEF T
    <3> QED BY <1>4, <3>1, LeastNat
  <2>2. j # 0 /\ j \in 1..n /\ j - 1 \in 0..n /\ ~(j <= j - 1)
    BY <1>1, <1>2, <2>1
  <2>3. f[j - 1] \in Nat
    BY <2>1, <2>2
  <2>4. f[j] \in Nat
    BY <1>2, <1>3, <2>2, <2>3
  <2> QED BY <2>1, <2>4
<1>5. \A i \in 0..n : f[i] \in Nat
  BY <1>4
<1>6. EstimateSize(rows) = f[n]
  BY DEF EstimateSize, n, f
<1>7. n \in 0..n /\ (n # 0 => n - 1 \in 0..n)
  BY <1>1
<1>8. rows # <<>> => f[n] >= RowBytes(rows[n])
  <2> SUFFICES ASSUME rows # <<>> PROVE f[n] >= RowBytes(rows[n])
    OBVIOUS
  <2>1. n \in 1..n /\ n # 0
    BY <1>1
  <2>2. f[n] = f[n - 1] + RowBytes(rows[n]) /\ RowBytes(rows[n]) \in Nat
    BY <1>2, <1>3, <2>1
  <2>3. f[n - 1] \in Nat
    BY <1>5, <1>7, <2>1
  <2> QED BY <2>2, <2>3
<1> QED BY <1>1, <1>2, <1>5, <1>6, <1>7, <1>8 DEF n

LEMMA BlockBounds ==
  ASSUME NEW f, NEW a \in Nat, NEW x \in Nat, NEW y \in Nat,
         BlockStart(f.ends, a) = x, f.ends[a + 1] = y
  PROVE  RowsOfBlock(f, a + 1) = SubSeq(f.rows, x + 1, y)
<1>1. a + 1 - 1 = a
  OBVIOUS
<1> QED BY <1>1 DEF RowsOfBlock

(* File g is file f with the block s added.                                *)
Added(f, g, s) ==
  g.rows = f.rows \o s /\ g.ends = Append(f.ends, Len(f.rows) + Len(s))

(* A block added to a file leaves the blocks before it as they were.       *)
LEMMA AddBlock ==
  ASSUME NEW f \in File, NEW g \in File, NEW s \in Seq(Row), s # <<>>,
         IndexCovers(f.ends, Len(f.rows)), Added(f, g, s)
  PROVE  /\ Len(g.ends) = Len(f.ends) + 1 /\ RowsOfBlock(g, Len(g.ends)) = s
         /\ \A b \in 1..Len(f.ends) :
              /\ RowsOfBlock(g, b) = RowsOfBlock(f, b) /\ g.ends[b] = f.ends[b]
              /\ b < Len(f.ends) => g.rows[f.ends[b] + 1] = f.rows[f.ends[b] + 1]
              /\ b = Len(f.ends) => g.rows[f.ends[b] + 1] = s[1]
<1> DEFINE R == f.rows
           E == f.ends
           n == Len(R)
           k == Len(s)
           m == Len(E)
<1>1. R \in Seq(Row) /\ E \in Seq(Nat) /\ n \in Nat /\ k \in Nat /\ k > 0 /\ m \in Nat
  BY DEF File
<1>2. /\ Len(g.ends) = m + 1 /\ g.ends[m + 1] = n + k
      /\ \A b \in 1..m : g.ends[b] = E[b]
  BY <1>1, AppendProperties DEF Added
<1>3. /\ \A i \in 1 .. n + k : g.rows[i] = IF i <= n THEN R[i] ELSE s[i - n]
  BY <1>1, ConcatProperties DEF Added
<1>4. /\ \A b \in 1..m : E[b] \in 1..n /\ BlockStart(E, b - 1) < E[b]
      /\ n = IF E = <<>> THEN 0 ELSE E[m]
  BY DEF IndexCovers
<1>5. /\ \A a \in 1..n, c \in 1..n : SubSeq(g.rows, a, c) = SubSeq(R, a, c)
      /\ SubSeq(g.rows, n + 1, n + k) = s
  <2>1. n + 1 \in n + 1 .. n + k /\ n + k \in n + 1 .. n + k /\ n + 1 - n = 1 /\ n + k - n = k
    BY <1>1
  <2>2. SubSeq(R \o s, n + 1, n + k) = SubSeq(s, n + 1 - n, n + k - n)
    BY <1>1, <2>1, SubSeqOfConcat2
  <2>3. SubSeq(s, 1, k) = s
    BY SubSeqFull
  <2>4. \A a \in 1..n, c \in 1..n : SubSeq(R \o s, a, c) = SubSeq(R, a, c)
    BY <1>1, SubSeqOfConcat1
  <2> QED BY <2>1, <2>2, <2>3, <2>4 DEF Added
<1> HIDE DEF R, E, n, k, m
<1>6. RowsOfBlock(g, m + 1) = s
  <2>1. BlockStart(g.ends, m) = n
    BY <1>1, <1>2, <1>4 DEF BlockStart, m
  <2>2. g.ends[m + 1] = n + k
    BY <1>2
  <2>3. RowsOfBlock(g, m + 1) = SubSeq(g.rows, n + 1, n + k)
    <3>1. n + k \in Nat
      BY <1>1
    <3> QED BY <1>1, <2>1, <2>2, <3>1, BlockBounds
  <2> QED BY <1>5, <2>3
<1>7. ASSUME NEW b \in 1..m
      PROVE  RowsOfBlock(g, b) = RowsOfBlock(f, b)
  <2>1. BlockStart(g.ends, b - 1) = BlockStart(E, b - 1)
    BY <1>1, <1>2 DEF BlockStart
  <2>2. BlockStart(E, b - 1) \in Nat
    BY <1>1, <1>4 DEF BlockStart
  <2>3. BlockStart(E, b - 1) + 1 \in 1..n /\ E[b] \in 1..n
    <3>1. E[b] \in 1..n /\ BlockStart(E, b - 1) < E[b]
      BY <1>4
    <3>2. \A x \in Nat, y \in 1..n : x < y => x + 1 \in 1..n
      BY <1>1
    <3> QED BY <2>2, <3>1, <3>2
  <2> QED BY <1>2, <1>5, <2>1, <2>3 DEF RowsOfBlock, R, E
<1>8. ASSUME NEW b \in 1..m, b < m
      PROVE  g.rows[E[b] + 1] = R[E[b] + 1]
  <2>1. b + 1 \in 1..m /\ b + 1 - 1 = b /\ b # 0
    BY <1>1, <1>8
  <2>2. E[b] < E[b + 1] /\ E[b] \in 1..n /\ E[b + 1] \in 1..n
    <3>1. BlockStart(E, b + 1 - 1) = E[b]
      BY <2>1 DEF BlockStart
    <3> QED BY <1>4, <2>1, <3>1
  <2>3. E[b] + 1 \in 1 .. n + k /\ E[b] + 1 <= n
    <3>1. \A x \in 1..n, y \in 1..n : x < y => x + 1 \in 1 .. n + k /\ x + 1 <= n
      BY <1>1
    <3> QED BY <2>2, <3>1
  <2> QED BY <1>3, <2>3
<1>9. ASSUME NEW b \in 1..m, b = m
      PROVE  g.rows[E[b] + 1] = s[1]
  <2>1. E[b] = n
    BY <1>1, <1>4, <1>9 DEF m
  <2>2. n + 1 \in 1 .. n + k /\ ~(n + 1 <= n) /\ n + 1 - n = 1
    BY <1>1
  <2>3. \A x \in 1 .. n + k : ~(x <= n) => g.rows[x] = s[x - n]
    BY <1>3
  <2> QED BY <1>1, <2>1, <2>2, <2>3
<1> QED BY <1>2, <1>6, <1>7, <1>8, <1>9 DEF R, E, n, k, m

(* A block that is not full takes one more row.                            *)
LEMMA FitsAppend ==
  ASSUME NEW s \in Seq(Row), NEW r \in Row, Fits(s), ~IsFull(s, r)
  PROVE  Fits(Append(s, r))
<1> DEFINE t == Append(s, r)
           k == Len(s)
<1>1. k \in Nat /\ Len(t) = k + 1 /\ t[k + 1] = r /\ \A i \in 1..k : t[i] = s[i]
  BY AppendProperties
<1>2. k >= 1 => SubSeq(t, 1, k) = s
  <2> SUFFICES ASSUME k >= 1 PROVE SubSeq(t, 1, k) = s
    OBVIOUS
  <2>1. t = s \o <<r>> /\ <<r>> \in Seq(Row)
    BY AppendIsConcat
  <2>2. 1 \in 1..k /\ k \in 1..k
    BY <1>1
  <2>3. SubSeq(s \o <<r>>, 1, k) = SubSeq(s, 1, k)
    BY <2>1, <2>2, SubSeqOfConcat1
  <2> QED BY <2>1, <2>3, SubSeqFull
<1>3. /\ EstimateSize(s) \in Nat
      /\ s # <<>> => EstimateSize(s) >= RowBytes(s[k])
  BY EstimateFacts
<1>4. /\ EstimateSize(s) <= kBlockSizeMax
      /\ Large(r) => EstimateSize(s) <= kBlockSizeMin
  <2>1. kBlockSizeMax \in Nat /\ kBlockSizeMin \in Nat
    BY SMT DEF kBlockSizeMax, kBlockSizeMin
  <2> QED BY <1>3, <2>1 DEF IsFull
<1>5. ASSUME NEW i \in 1..k, Large(s[i]) PROVE FALSE
  <2>1. i = k /\ s # <<>> /\ s[k] \in Row
    BY <1>5 DEF Fits
  <2>2. RowBytes(s[k]) \in Nat /\ RowBytes(s[k]) > kBlockSizeMax
    BY <1>5, <2>1, RowBytesFacts
  <2>3. kBlockSizeMax \in Nat
    BY SMT DEF kBlockSizeMax
  <2> QED BY <1>3, <1>4, <2>1, <2>2, <2>3
<1> HIDE DEF t, k
<1>6. k + 1 - 1 = k /\ (k + 1 > 1 => k >= 1) /\ \A i \in 1 .. k + 1 : i \in 1..k \/ i = k + 1
  BY <1>1
<1>7. Len(t) > 1 => EstimateSize(SubSeq(t, 1, Len(t) - 1)) <= kBlockSizeMax
  <2>1. Len(t) - 1 = k /\ (Len(t) > 1 => k >= 1)
    BY <1>1, <1>6
  <2> QED BY <1>2, <1>4, <2>1
<1>8. ASSUME NEW i \in 1..Len(t), Large(t[i])
      PROVE  i = Len(t) /\ (i > 1 => EstimateSize(SubSeq(t, 1, i - 1)) <= kBlockSizeMin)
  <2>1. i = k + 1
    BY <1>1, <1>5, <1>6, <1>8
  <2>2. i - 1 = k /\ (i > 1 => k >= 1) /\ t[i] = r /\ i = Len(t)
    BY <1>1, <1>6, <2>1
  <2> QED BY <1>2, <1>4, <1>8, <2>2
<1> QED BY <1>7, <1>8 DEF Fits, t

(* A block of one row.                                                     *)
LEMMA FitsOne ==
  ASSUME NEW r \in Row
  PROVE  Fits(<<r>>)
BY DEF Fits

(* While rows are inserted, the block in memory is one that could be       *)
(* written, and its first row is the one that closed the block before it.  *)
BlockInv ==
  phase = "building" =>
    /\ Fits(block)
    /\ tmp.ends # <<>> =>
         block # <<>> /\ IsFull(RowsOfBlock(tmp, Len(tmp.ends)), block[1])

SizedInv == BlocksSized /\ BlockInv

(* Writing the block keeps the file's blocks at their sizes.               *)
LEMMA WriteSized ==
  ASSUME Inv, SizedInv, phase = "building"
  PROVE  /\ Sized(WriteBlock(tmp))
         /\ block # <<>> =>
              /\ WriteBlock(tmp).ends # <<>>
              /\ RowsOfBlock(WriteBlock(tmp), Len(WriteBlock(tmp).ends)) = block
<1>1. /\ TypeOK /\ IndexCovers(tmp.ends, Len(tmp.rows))
      /\ block \in Seq(Row) /\ tmp \in File /\ tmp.rows \in Seq(Row) /\ tmp.ends \in Seq(Nat)
  BY DEF Inv, TypeOK, TmpInv, File
<1>2. CASE block = <<>>
  BY <1>2 DEF WriteBlock, SizedInv, BlocksSized
<1>3. CASE block # <<>>
  <2> DEFINE g == WriteBlock(tmp)
             m == Len(tmp.ends)
  <2>1. g \in File /\ g.rows = tmp.rows \o block
    BY <1>1, WriteBlockFacts
  <2>2. g.ends = Append(tmp.ends, Len(tmp.rows) + Len(block))
    BY <1>1, <1>3 DEF WriteBlock, File
  <2> HIDE DEF g
  <2>3. /\ Len(g.ends) = m + 1 /\ RowsOfBlock(g, Len(g.ends)) = block
        /\ \A b \in 1..m :
             /\ RowsOfBlock(g, b) = RowsOfBlock(tmp, b) /\ g.ends[b] = tmp.ends[b]
             /\ b < m => g.rows[tmp.ends[b] + 1] = tmp.rows[tmp.ends[b] + 1]
             /\ b = m => g.rows[tmp.ends[b] + 1] = block[1]
    <3>1. Added(tmp, g, block)
      BY <2>1, <2>2 DEF Added
    <3> QED BY <1>1, <1>3, <2>1, <3>1, AddBlock
  <2>4. m \in Nat /\ g.ends # <<>> /\ (m # 0 => tmp.ends # <<>>)
    BY <1>1, <2>3
  <2>5. /\ Fits(block)
        /\ m # 0 => IsFull(RowsOfBlock(tmp, m), block[1])
    BY <2>4 DEF SizedInv, BlockInv
  <2>6. \A b \in 1..m :
          /\ Fits(RowsOfBlock(tmp, b))
          /\ b < m => IsFull(RowsOfBlock(tmp, b), tmp.rows[tmp.ends[b] + 1])
    BY DEF SizedInv, BlocksSized, Sized
  <2> HIDE DEF m
  <2>7. ASSUME NEW b \in 1..Len(g.ends)
        PROVE  /\ Fits(RowsOfBlock(g, b))
               /\ b < Len(g.ends) => IsFull(RowsOfBlock(g, b), g.rows[g.ends[b] + 1])
    <3>1. CASE b = m + 1
      <4>1. b = Len(g.ends) /\ ~(b < Len(g.ends))
        BY <2>3, <2>4, <3>1
      <4> QED BY <2>3, <2>5, <4>1
    <3>2. CASE b \in 1..m
      <4>1. b < m \/ (b = m /\ m # 0)
        BY <2>4, <3>2
      <4> QED BY <2>3, <2>5, <2>6, <3>2, <4>1
    <3> QED BY <2>3, <2>4, <3>1, <3>2
  <2>8. Sized(g)
    BY <2>7 DEF Sized
  <2> QED BY <2>3, <2>4, <2>8 DEF g
<1> QED BY <1>2, <1>3

(* A file without blocks, and a file that only changes its state.          *)
LEMMA SizedKept ==
  /\ \A f : f.ends = <<>> => Sized(f)
  /\ \A f, g : (f.rows = g.rows /\ f.ends = g.ends /\ Sized(f)) => Sized(g)
<1>1. \A f : f.ends = <<>> => Sized(f)
  BY DEF Sized
<1>2. \A f, g : (f.rows = g.rows /\ f.ends = g.ends) =>
        \A b : RowsOfBlock(f, b) = RowsOfBlock(g, b)
  BY DEF RowsOfBlock
<1>3. \A f, g : (f.rows = g.rows /\ f.ends = g.ends /\ Sized(f)) => Sized(g)
  BY <1>2 DEF Sized
<1> QED BY <1>1, <1>3

LEMMA SizedInsert ==
  ASSUME Inv, SizedInv, NEW r \in Row, InsertRow(r)
  PROVE  SizedInv'
<1>1. block \in Seq(Row) /\ phase = "building" /\ phase' = "building"
  BY DEF Inv, TypeOK, InsertRow
<1>2. CASE MustClose(r)
  <2>1. tmp' = WriteBlock(tmp) /\ block' = <<r>>
    BY <1>2 DEF InsertRow
  <2>2. IsFull(block, r)
    BY <1>2 DEF MustClose, IsFull, Large
  <2>3. block # <<>>
    <3>1. SUFFICES ASSUME block = <<>> PROVE FALSE
      OBVIOUS
    <3>2. EstimateSize(block) = 0
      BY <1>1, <3>1, EstimateFacts
    <3>3. ~(0 > kBlockSizeMax) /\ ~(0 > kBlockSizeMin)
      BY SMT DEF kBlockSizeMax, kBlockSizeMin
    <3> QED BY <2>2, <3>2, <3>3 DEF IsFull
  <2>4. /\ Sized(tmp') /\ tmp'.ends # <<>>
        /\ RowsOfBlock(tmp', Len(tmp'.ends)) = block
    BY <1>1, <2>1, <2>3, WriteSized
  <2>5. Fits(block') /\ block' # <<>> /\ block'[1] = r
    BY <2>1, FitsOne
  <2> QED BY <2>2, <2>4, <2>5 DEF SizedInv, BlocksSized, BlockInv
<1>3. CASE ~MustClose(r)
  <2>1. tmp' = tmp /\ block' = Append(block, r)
    BY <1>3 DEF InsertRow
  <2>2. ~IsFull(block, r)
    BY <1>3 DEF MustClose, IsFull, Large
  <2>3. Fits(block)
    BY <1>1 DEF SizedInv, BlockInv
  <2>4. Fits(block')
    BY <1>1, <2>1, <2>2, <2>3, FitsAppend
  <2>5. block' # <<>> /\ (block # <<>> => block'[1] = block[1])
    BY <1>1, <2>1
  <2> QED BY <1>1, <2>1, <2>4, <2>5 DEF SizedInv, BlocksSized, BlockInv
<1> QED BY <1>2, <1>3

LEMMA SizedOther ==
  ASSUME Inv, SizedInv,
         Create \/ SyncBlock \/ SyncIndex \/ SyncHeader \/ SyncRename \/ SyncFile \/ SyncOpen
           \/ IoError \/ Refusal \/ Close \/ Kill \/ PowerLoss \/ WriteBack \/ UNCHANGED vars
  PROVE  SizedInv'
<1>0. tmp \in File /\ NoFile.ends = <<>>
  BY DEF Inv, TypeOK, NoFile
<1>1. CASE Create
  <2>1. tmp'.ends = <<>> /\ block' = <<>>
    BY <1>1 DEF Create
  <2>2. Sized(tmp')
    BY <2>1, SizedKept
  <2>3. Fits(<<>>)
    BY DEF Fits
  <2> QED BY <2>1, <2>2, <2>3 DEF SizedInv, BlocksSized, BlockInv
<1>2. CASE SyncBlock
  <2>1. tmp' = WriteBlock(tmp) /\ phase = "building" /\ phase' # "building"
    BY <1>2 DEF SyncBlock
  <2>2. Sized(tmp')
    BY <2>1, WriteSized
  <2> QED BY <2>1, <2>2 DEF SizedInv, BlocksSized, BlockInv
<1>3. CASE SyncIndex \/ SyncHeader
  <2>1. phase' # "building" /\ tmp'.rows = tmp.rows /\ tmp'.ends = tmp.ends
    BY <1>0, <1>3 DEF SyncIndex, SyncHeader, File
  <2>2. Sized(tmp')
    BY <2>1, SizedKept DEF SizedInv, BlocksSized
  <2> QED BY <2>1, <2>2 DEF SizedInv, BlocksSized, BlockInv
<1>4. CASE SyncRename \/ SyncOpen \/ Close \/ Kill \/ PowerLoss
  <2>1. phase' # "building" /\ tmp' = NoFile
    BY <1>4 DEF SyncRename, SyncOpen, Close, Kill, PowerLoss, Gone
  <2>2. Sized(tmp')
    BY <1>0, <2>1, SizedKept
  <2> QED BY <2>1, <2>2 DEF SizedInv, BlocksSized, BlockInv
<1>5. CASE SyncFile \/ IoError \/ Refusal
  <2>1. phase' # "building" /\ tmp' = tmp
    BY <1>5 DEF SyncFile, IoError, Refusal, RefuseRow
  <2> QED BY <2>1 DEF SizedInv, BlocksSized, BlockInv
<1>6. CASE WriteBack \/ UNCHANGED vars
  <2>1. phase' = phase /\ tmp' = tmp /\ block' = block
    BY <1>6 DEF WriteBack, vars
  <2> QED BY <2>1 DEF SizedInv, BlocksSized, BlockInv
<1> QED BY <1>1, <1>2, <1>3, <1>4, <1>5, <1>6

(* Every block in the file was closed by the row that took it over a limit *)
(* and by no earlier one, for rows and values of any sizes.                *)
THEOREM BlocksCloseAtLimits == Spec => []BlocksSized
<1>1. Init => SizedInv
  <2> SUFFICES ASSUME Init PROVE SizedInv
    OBVIOUS
  <2>1. tmp.ends = <<>> /\ phase # "building"
    BY DEF Init, NoFile
  <2> QED BY <2>1, SizedKept DEF SizedInv, BlocksSized, BlockInv
<1>2. Inv /\ SizedInv /\ [Next]_vars => SizedInv'
  BY SizedInsert, SizedOther DEF Next, Refusal
<1>3. SizedInv => BlocksSized
  BY DEF SizedInv
<1> QED BY <1>1, <1>2, <1>3, BuilderInvariant, PTL DEF Spec
-----------------------------------------------------------------------------
(* The sorting builder.                                                    *)

(* The entry e leads to the row in s and has the first bytes of its key.   *)
EntryFits(s, e, row) == Leads(s, e, row) /\ e.prefix = PrefixOf(row.key)

RawRow == [key : Seq(Int), value : Seq(Int)]
RawEntry == [offset : Nat, key_size : Nat, value_size : Nat, prefix : Seq(Int)]

SortTypes ==
  /\ file \in Seq(Int) /\ buffered \in Seq(Int)
  /\ index_ \in Seq(RawEntry) /\ offset_ \in Nat /\ key_size_max_ \in Nat
  /\ unsorted \in Seq(RawRow) /\ added \in Seq(RawRow)

(* Until they are sorted, the entries are those of the rows one by one.    *)
Adding ==
  /\ Len(index_) = Len(unsorted) /\ Len(file \o buffered) = offset_ /\ added = <<>>
  /\ \A n \in 1..Len(index_) : /\ EntryFits(file \o buffered, index_[n], unsorted[n])
                               /\ index_[n].key_size <= key_size_max_

Flushed ==
  /\ Len(index_) = Len(unsorted) /\ added = <<>>
  /\ \A n \in 1..Len(index_) : EntryFits(file, index_[n], unsorted[n])

(* The order p is that of the keys, and of the rows among equal keys.      *)
OrderedBy(p) ==
  \A n, m \in 1..Len(unsorted) : n < m =>
    /\ ~Less(unsorted[p[m]].key, unsorted[p[n]].key)
    /\ unsorted[p[n]].key = unsorted[p[m]].key => p[n] < p[m]

(* Then they are in one order of the rows, of which the first ones have    *)
(* been handed on.                                                         *)
SortedBy(p) ==
  /\ OrderedBy(p)
  /\ \A n \in 1..Len(index_) : EntryFits(file, index_[n], unsorted[p[n]])
  /\ \A n \in 1..Len(added) : added[n] = unsorted[p[n]]

SortInv ==
  /\ SortTypes
  /\ sorting = "adding" => Adding
  /\ sorting = "flushed" => Flushed
  /\ sorting \in {"sorted", "built"} =>
       /\ Len(index_) = Len(unsorted) /\ Len(added) <= Len(index_)
       /\ \E p \in Orders(Len(unsorted)) : SortedBy(p)
  /\ sorting = "built" => Len(added) = Len(index_)
  /\ BuildSucceeds
-----------------------------------------------------------------------------
(* No two keys are each below the other.                                   *)
LEMMA LessAsymmetric ==
  ASSUME NEW a \in Seq(Int), NEW b \in Seq(Int), Less(a, b), Less(b, a)
  PROVE  FALSE
<1>1. PICK n \in 0..Len(a) :
        /\ n < Len(b) /\ \A k \in 1..n : a[k] = b[k]
        /\ n < Len(a) => a[n + 1] < b[n + 1]
  BY DEF Less
<1>2. PICK m \in 0..Len(b) :
        /\ m < Len(a) /\ \A k \in 1..m : b[k] = a[k]
        /\ m < Len(b) => b[m + 1] < a[m + 1]
  BY DEF Less
<1>3. Len(a) \in Nat /\ Len(b) \in Nat /\ n \in Nat /\ m \in Nat
  BY LenProperties
<1>4. CASE n < m
  <2>1. n + 1 \in 1..m /\ n < Len(a) /\ n + 1 \in 1..Len(a) /\ n + 1 \in 1..Len(b)
    BY <1>1, <1>2, <1>3, <1>4
  <2>2. a[n + 1] \in Int /\ b[n + 1] \in Int
    BY <2>1, ElementOfSeq
  <2> QED BY <1>1, <1>2, <2>1, <2>2
<1>5. CASE m < n
  <2>1. m + 1 \in 1..n /\ m < Len(b) /\ m + 1 \in 1..Len(a) /\ m + 1 \in 1..Len(b)
    BY <1>1, <1>2, <1>3, <1>5
  <2>2. a[m + 1] \in Int /\ b[m + 1] \in Int
    BY <2>1, ElementOfSeq
  <2> QED BY <1>1, <1>2, <2>1, <2>2
<1>6. CASE n = m
  <2>1. n < Len(a) /\ m < Len(b) /\ n + 1 \in 1..Len(a) /\ n + 1 \in 1..Len(b)
    BY <1>1, <1>2, <1>3, <1>6
  <2>2. a[n + 1] \in Int /\ b[n + 1] \in Int
    BY <2>1, ElementOfSeq
  <2> QED BY <1>1, <1>2, <1>6, <2>1, <2>2
<1> QED BY <1>3, <1>4, <1>5, <1>6

(* The first bytes of a key.                                               *)
LEMMA PrefixFacts ==
  ASSUME NEW a \in Seq(Int), SortingAssumption
  PROVE  /\ PrefixOf(a) \in Seq(Int)
         /\ Len(PrefixOf(a)) = IF Len(a) < PrefixSize THEN Len(a) ELSE PrefixSize
         /\ \A k \in 1..Len(PrefixOf(a)) : PrefixOf(a)[k] = a[k]
<1>1. Len(a) \in Nat /\ PrefixSize \in Nat /\ PrefixSize > 0
  BY LenProperties DEF SortingAssumption
<1>2. CASE Len(a) < PrefixSize
  BY <1>1, <1>2 DEF PrefixOf
<1>3. CASE ~(Len(a) < PrefixSize)
  <2>1. /\ 1 \in 1..(Len(a) + 1) /\ PrefixSize \in 1..Len(a) /\ PrefixSize \in 0..Len(a)
        /\ PrefixSize - 1 + 1 = PrefixSize /\ 1 <= PrefixSize
    BY <1>1, <1>3
  <2>2. PrefixOf(a) = SubSeq(a, 1, PrefixSize)
    BY <1>3 DEF PrefixOf
  <2>3. /\ SubSeq(a, 1, PrefixSize) \in Seq(Int)
        /\ Len(SubSeq(a, 1, PrefixSize)) = PrefixSize
        /\ \A k \in 1..PrefixSize : SubSeq(a, 1, PrefixSize)[k] = a[k]
    BY <1>1, <2>1
  <2> QED BY <1>3, <2>2, <2>3
<1> QED BY <1>2, <1>3

(* Where the first bytes differ they tell the order of the keys.           *)
LEMMA PrefixTells ==
  ASSUME NEW a \in Seq(Int), NEW b \in Seq(Int), SortingAssumption,
         PrefixOf(a) # PrefixOf(b)
  PROVE  Less(PrefixOf(a), PrefixOf(b)) <=> Less(a, b)
<1> DEFINE x == PrefixOf(a)
           y == PrefixOf(b)
<1>1. /\ x \in Seq(Int) /\ Len(x) = IF Len(a) < PrefixSize THEN Len(a) ELSE PrefixSize
      /\ \A k \in 1..Len(x) : x[k] = a[k]
  BY PrefixFacts
<1>2. /\ y \in Seq(Int) /\ Len(y) = IF Len(b) < PrefixSize THEN Len(b) ELSE PrefixSize
      /\ \A k \in 1..Len(y) : y[k] = b[k]
  BY PrefixFacts
<1>3. /\ Len(a) \in Nat /\ Len(b) \in Nat /\ Len(x) \in Nat /\ Len(y) \in Nat
      /\ PrefixSize \in Nat
  BY <1>1, <1>2, LenProperties DEF SortingAssumption
<1>4. /\ Len(x) <= Len(a) /\ Len(y) <= Len(b) /\ Len(x) <= PrefixSize /\ Len(y) <= PrefixSize
      /\ Len(x) < PrefixSize => Len(x) = Len(a)
  BY <1>1, <1>2, <1>3
<1>5. x # y
  OBVIOUS
<1> HIDE DEF x, y
<1>6. ASSUME Less(x, y) PROVE Less(a, b)
  <2>1. PICK n \in 0..Len(x) :
          /\ n < Len(y) /\ \A k \in 1..n : x[k] = y[k]
          /\ n < Len(x) => x[n + 1] < y[n + 1]
    BY <1>6 DEF Less
  <2>2. n \in 0..Len(a) /\ n < Len(b) /\ n \in Nat
    BY <1>3, <1>4, <2>1
  <2>3. ASSUME NEW k \in 1..n PROVE a[k] = b[k]
    <3>1. k \in 1..Len(x) /\ k \in 1..Len(y)
      BY <1>3, <2>1, <2>2
    <3> QED BY <1>1, <1>2, <2>1, <3>1
  <2>4. ASSUME n < Len(a) PROVE a[n + 1] < b[n + 1]
    <3>1. n <= Len(x) /\ n < Len(y)
      BY <1>3, <2>1
    <3>2. n < Len(x)
      BY <1>3, <1>4, <2>2, <2>4, <3>1
    <3>3. n + 1 \in 1..Len(x) /\ n + 1 \in 1..Len(y)
      BY <1>3, <2>2, <3>1, <3>2
    <3> QED BY <1>1, <1>2, <2>1, <3>2, <3>3
  <2> QED BY <2>2, <2>3, <2>4 DEF Less
<1>7. ASSUME Less(a, b) PROVE Less(x, y)
  <2>1. PICK n \in 0..Len(a) :
          /\ n < Len(b) /\ \A k \in 1..n : a[k] = b[k]
          /\ n < Len(a) => a[n + 1] < b[n + 1]
    BY <1>7 DEF Less
  <2>2. n \in Nat
    BY <1>3
  <2>3. n < PrefixSize
    <3>1. SUFFICES ASSUME n >= PrefixSize PROVE FALSE
      BY <1>3, <2>2
    <3>2. Len(x) = PrefixSize /\ Len(y) = PrefixSize
      BY <1>1, <1>2, <1>3, <2>1, <2>2, <3>1
    <3>3. ASSUME NEW k \in 1..Len(x) PROVE x[k] = y[k]
      <4>1. k \in 1..n /\ k \in 1..Len(y)
        BY <1>3, <2>2, <3>1, <3>2
      <4> QED BY <1>1, <1>2, <2>1, <4>1
    <3>4. Len(x) = Len(y)
      BY <3>2
    <3> QED BY <1>1, <1>2, <1>5, <3>3, <3>4, SeqEqual
  <2>4. n \in 0..Len(x) /\ n < Len(y)
    BY <1>1, <1>2, <1>3, <2>1, <2>2, <2>3
  <2>5. ASSUME NEW k \in 1..n PROVE x[k] = y[k]
    <3>1. k \in 1..Len(x) /\ k \in 1..Len(y)
      BY <1>3, <2>2, <2>4
    <3> QED BY <1>1, <1>2, <2>1, <3>1
  <2>6. ASSUME n < Len(x) PROVE x[n + 1] < y[n + 1]
    <3>1. n < Len(a) /\ n + 1 \in 1..Len(x) /\ n + 1 \in 1..Len(y)
      BY <1>3, <1>4, <2>2, <2>4, <2>6
    <3> QED BY <1>1, <1>2, <2>1, <3>1
  <2> QED BY <2>4, <2>5, <2>6 DEF Less
<1> QED BY <1>6, <1>7 DEF x, y

(* What is in the file is read from it.                                    *)
LEMMA ReadHeld ==
  ASSUME file \in Seq(Int), NEW at \in Nat, NEW x \in Seq(Int), Holds(file, at, x)
  PROVE  InFile(at, Len(x)) /\ Read(at, Len(x)) = x
<1>1. Len(file) \in Nat /\ Len(x) \in Nat
  BY LenProperties
<1>2. /\ at + Len(x) <= Len(file)
      /\ \A k \in 1..Len(x) : file[at + k] = x[k]
  BY DEF Holds
<1> DEFINE y == SubSeq(file, at + 1, at + Len(x))
<1>3. y \in Seq(Int) /\ Len(y) = Len(x) /\ \A k \in 1..Len(x) : y[k] = file[at + k]
  <2>1. CASE Len(x) = 0
    BY <1>1, <1>2, <2>1
  <2>2. CASE Len(x) # 0
    <3>1. at + 1 \in 1..Len(file) /\ at + Len(x) \in at..Len(file) /\ at + 1 <= at + Len(x)
      BY <1>1, <1>2, <2>2
    <3>2. y \in Seq(Int) /\ Len(y) = Len(x)
      BY <1>1, <1>2, <2>2, <3>1
    <3>3. ASSUME NEW k \in 1..Len(x) PROVE y[k] = file[at + k]
      <4>1. k \in 1..(at + Len(x) - (at + 1) + 1) /\ at + 1 + k - 1 = at + k
        BY <1>1
      <4> QED BY <1>1, <3>1, <4>1
    <3> QED BY <3>2, <3>3
  <2> QED BY <2>1, <2>2
<1> HIDE DEF y
<1>4. y = x
  <2>1. \A k \in 1..Len(y) : y[k] = x[k]
    BY <1>2, <1>3
  <2> QED BY <1>3, <2>1, SeqEqual
<1> QED BY <1>2, <1>4 DEF InFile, Read, y

(* What is held stays held when something is appended.                     *)
LEMMA HeldLonger ==
  ASSUME NEW s \in Seq(Int), NEW t \in Seq(Int), NEW at \in Nat, NEW x \in Seq(Int),
         Holds(s, at, x)
  PROVE  Holds(s \o t, at, x)
<1>1. Len(s) \in Nat /\ Len(t) \in Nat /\ Len(x) \in Nat /\ Len(s \o t) = Len(s) + Len(t)
  BY LenProperties
<1>2. at + Len(x) <= Len(s) /\ \A k \in 1..Len(x) : s[at + k] = x[k]
  BY DEF Holds
<1>3. ASSUME NEW k \in 1..Len(x) PROVE (s \o t)[at + k] = x[k]
  <2>1. at + k \in 1..Len(s)
    BY <1>1, <1>2
  <2>2. (s \o t)[at + k] = s[at + k]
    BY <1>1, <2>1, ConcatProperties
  <2> QED BY <1>2, <2>2
<1>4. at + Len(x) <= Len(s \o t)
  BY <1>1, <1>2
<1> QED BY <1>3, <1>4 DEF Holds

(* What is appended is held where the rest ended.                          *)
LEMMA HeldAtEnd ==
  ASSUME NEW s \in Seq(Int), NEW x \in Seq(Int)
  PROVE  Holds(s \o x, Len(s), x)
<1>1. Len(s) \in Nat /\ Len(x) \in Nat /\ Len(s \o x) = Len(s) + Len(x)
  BY LenProperties
<1>2. ASSUME NEW k \in 1..Len(x) PROVE (s \o x)[Len(s) + k] = x[k]
  <2>1. Len(s) + k \in 1..(Len(s) + Len(x)) /\ ~(Len(s) + k <= Len(s)) /\ Len(s) + k - Len(s) = k
    BY <1>1
  <2> QED BY <1>1, <2>1, ConcatProperties
<1> QED BY <1>1, <1>2 DEF Holds

(* Comparing two entries is comparing the keys that they lead to.          *)
LEMMA ComparesKeys ==
  ASSUME SortingAssumption, file \in Seq(Int),
         NEW e \in RawEntry, NEW f \in RawEntry, NEW a \in RawRow, NEW b \in RawRow,
         EntryFits(file, e, a), EntryFits(file, f, b)
  PROVE  Compare(e, f) <=> Less(a.key, b.key)
<1>1. /\ e.prefix = PrefixOf(a.key) /\ f.prefix = PrefixOf(b.key)
      /\ e.key_size = Len(a.key) /\ f.key_size = Len(b.key)
      /\ Holds(file, e.offset, a.key) /\ Holds(file, f.offset, b.key)
      /\ e.offset \in Nat /\ f.offset \in Nat
      /\ a.key \in Seq(Int) /\ b.key \in Seq(Int)
  BY DEF EntryFits, Leads, RawEntry, RawRow
<1>2. Read(e.offset, e.key_size) = a.key /\ Read(f.offset, f.key_size) = b.key
  BY <1>1, ReadHeld
<1>3. CASE e.prefix = f.prefix
  BY <1>2, <1>3 DEF Compare
<1>4. CASE e.prefix # f.prefix
  <2>1. Compare(e, f) <=> Less(PrefixOf(a.key), PrefixOf(b.key))
    BY <1>1, <1>4 DEF Compare
  <2>2. Less(PrefixOf(a.key), PrefixOf(b.key)) <=> Less(a.key, b.key)
    BY <1>1, <1>4, PrefixTells
  <2> QED BY <2>1, <2>2
<1> QED BY <1>3, <1>4

(* An entry that fits its row stays so when something is appended.         *)
LEMMA FitsLonger ==
  ASSUME NEW s \in Seq(Int), NEW t \in Seq(Int), NEW e \in RawEntry, NEW row \in RawRow,
         EntryFits(s, e, row)
  PROVE  EntryFits(s \o t, e, row)
<1>1. /\ e.prefix = PrefixOf(row.key)
      /\ e.key_size = Len(row.key) /\ e.value_size = Len(row.value)
      /\ Holds(s, e.offset, row.key) /\ Holds(s, e.offset + e.key_size, row.value)
      /\ e.offset \in Nat /\ e.key_size \in Nat /\ row.key \in Seq(Int) /\ row.value \in Seq(Int)
  BY DEF EntryFits, Leads, RawEntry, RawRow
<1>2. e.offset + e.key_size \in Nat
  BY <1>1
<1>3. Holds(s \o t, e.offset, row.key)
  BY <1>1, HeldLonger
<1>4. Holds(s \o t, e.offset + e.key_size, row.value)
  BY <1>1, <1>2, HeldLonger
<1> QED BY <1>1, <1>3, <1>4 DEF EntryFits, Leads

(* Joining three pieces.                                                   *)
LEMMA JoinAssociative ==
  \A s, t, u \in Seq(Int) : s \o (t \o u) = (s \o t) \o u
<1> TAKE s, t, u \in Seq(Int)
<1> DEFINE x == s \o (t \o u)
           y == (s \o t) \o u
<1>1. Len(s) \in Nat /\ Len(t) \in Nat /\ Len(u) \in Nat
  BY LenProperties
<1>2. /\ t \o u \in Seq(Int) /\ Len(t \o u) = Len(t) + Len(u)
      /\ s \o t \in Seq(Int) /\ Len(s \o t) = Len(s) + Len(t)
  BY <1>1
<1>3. /\ x \in Seq(Int) /\ Len(x) = Len(s) + Len(t) + Len(u)
      /\ y \in Seq(Int) /\ Len(y) = Len(s) + Len(t) + Len(u)
  BY <1>1, <1>2
<1>4. ASSUME NEW k \in 1..Len(x) PROVE x[k] = y[k]
  <2>1. k \in Nat /\ k >= 1 /\ k <= Len(s) + Len(t) + Len(u)
    BY <1>1, <1>3
  <2>2. CASE k <= Len(s)
    BY <1>1, <1>2, <2>1, <2>2
  <2>3. CASE k > Len(s) /\ k <= Len(s) + Len(t)
    BY <1>1, <1>2, <2>1, <2>3
  <2>4. CASE k > Len(s) + Len(t)
    BY <1>1, <1>2, <2>1, <2>4
  <2> QED BY <1>1, <2>1, <2>2, <2>3, <2>4
<1>5. Len(x) = Len(y) /\ x \in Seq(Int) /\ y \in Seq(Int)
  BY <1>3
<1> HIDE DEF x, y
<1>6. x = y
  BY <1>4, <1>5, SeqEqual
<1> QED BY <1>6 DEF x, y

(* A row is added.                                                         *)
LEMMA SortAdd ==
  ASSUME SortingAssumption, SortInv,
         NEW key \in RawKeys, NEW value \in RawValues, Add(key, value)
  PROVE  SortInv'
<1>1. /\ key \in Seq(Int) /\ value \in Seq(Int) /\ Len(key) \in Nat /\ Len(value) \in Nat
      /\ PrefixOf(key) \in Seq(Int)
  BY PrefixFacts, LenProperties DEF SortingAssumption
<1>2. SortTypes /\ Adding /\ sorting = "adding"
  BY DEF SortInv, Add
<1>3. /\ index_' = Append(index_, EntryOf(key, value))
      /\ offset_' = offset_ + Len(key) + Len(value)
      /\ key_size_max_' = IF key_size_max_ < Len(key) THEN Len(key) ELSE key_size_max_
      /\ WriteEntryData(key, value) /\ file' = file /\ added' = added
  BY DEF Add, AddEntry
<1> DEFINE e == EntryOf(key, value)
           row == [key |-> key, value |-> value]
           all == file \o buffered
<1>4. e \in RawEntry /\ row \in RawRow
  BY <1>1, <1>2 DEF EntryOf, RawEntry, RawRow, SortTypes
<1>5. /\ index_' \in Seq(RawEntry) /\ offset_' \in Nat /\ key_size_max_' \in Nat
      /\ file' \in Seq(Int) /\ added' \in Seq(RawRow)
  BY <1>1, <1>2, <1>3, <1>4 DEF SortTypes
<1>6. CASE sorting' = "fwrite_failed" /\ UNCHANGED <<buffered, unsorted>>
  <2>1. SortTypes'
    BY <1>2, <1>5, <1>6 DEF SortTypes
  <2> QED BY <2>1, <1>6 DEF SortInv, BuildSucceeds
<1>7. CASE /\ buffered' = buffered \o key \o value
           /\ unsorted' = Append(unsorted, row)
           /\ sorting' = sorting
  <2>1. SortTypes'
    BY <1>1, <1>2, <1>4, <1>5, <1>7 DEF SortTypes
  <2>2. /\ all \in Seq(Int) /\ buffered \in Seq(Int) /\ file \in Seq(Int)
        /\ Len(all) \in Nat /\ Len(all) = offset_
    BY <1>2 DEF SortTypes, Adding
  <2>3. /\ all \o key \in Seq(Int) /\ Len(all \o key) = offset_ + Len(key)
        /\ (all \o key) \o value \in Seq(Int)
        /\ Len((all \o key) \o value) = offset_ + Len(key) + Len(value)
    BY <1>1, <2>2
  <2>4. file' \o buffered' = (all \o key) \o value
    <3>1. file \o (buffered \o key) = all \o key
      <4>1. buffered \in Seq(Int) /\ key \in Seq(Int) /\ file \in Seq(Int)
        BY <1>1, <2>2
      <4> HIDE DEF e, row, all
      <4>2. file \o (buffered \o key) = (file \o buffered) \o key
        BY <4>1, JoinAssociative
      <4> QED BY <4>2 DEF all
    <3>2. buffered \o key \in Seq(Int)
      BY <1>1, <2>2
    <3>3. file \o ((buffered \o key) \o value) = (file \o (buffered \o key)) \o value
      <4> DEFINE w == buffered \o key
      <4>1. w \in Seq(Int) /\ value \in Seq(Int) /\ file \in Seq(Int)
        BY <1>1, <2>2, <3>2
      <4> HIDE DEF e, row, all, w
      <4>2. file \o (w \o value) = (file \o w) \o value
        BY <4>1, JoinAssociative
      <4> QED BY <4>2 DEF w
    <3> QED BY <1>3, <1>7, <3>1, <3>3
  <2> HIDE DEF all
  <2>5. EntryFits((all \o key) \o value, e, row)
    <3>1. Holds(all \o key, Len(all), key)
      BY <1>1, <2>2, HeldAtEnd
    <3>2. Holds((all \o key) \o value, Len(all), key)
      BY <1>1, <2>2, <2>3, <3>1, HeldLonger
    <3>3. Holds((all \o key) \o value, Len(all \o key), value)
      BY <1>1, <2>3, HeldAtEnd
    <3>4. /\ e.offset = offset_ /\ e.key_size = Len(key) /\ e.value_size = Len(value)
          /\ e.prefix = PrefixOf(key) /\ row.key = key /\ row.value = value
      BY DEF EntryOf
    <3> HIDE DEF e, row
    <3> QED BY <2>2, <2>3, <3>2, <3>3, <3>4 DEF EntryFits, Leads
  <2>6. /\ Len(index_) \in Nat /\ Len(index_) = Len(unsorted)
        /\ Len(index_') = Len(index_) + 1 /\ Len(unsorted') = Len(index_) + 1
        /\ \A n \in 1..Len(index_) : index_'[n] = index_[n] /\ unsorted'[n] = unsorted[n]
        /\ index_'[Len(index_) + 1] = e /\ unsorted'[Len(index_) + 1] = row
    <3> HIDE DEF e, row
    <3> USE DEF e
    <3>1. index_ \in Seq(RawEntry) /\ unsorted \in Seq(RawRow) /\ Len(index_) = Len(unsorted)
      BY <1>2 DEF SortTypes, Adding
    <3>2. Len(index_) \in Nat
      BY <3>1, LenProperties
    <3>3. /\ index_' = Append(index_, e) /\ unsorted' = Append(unsorted, row)
      BY <1>3, <1>7
    <3> HIDE DEF e
    <3> QED BY <1>4, <3>1, <3>2, <3>3, AppendProperties
  <2>7. ASSUME NEW n \in 1..Len(index_')
        PROVE  /\ EntryFits((all \o key) \o value, index_'[n], unsorted'[n])
               /\ index_'[n].key_size <= key_size_max_'
    <3>1. CASE n = Len(index_) + 1
      <4>1. e.key_size = Len(key)
        BY DEF EntryOf
      <4>2. Len(key) <= key_size_max_' /\ key_size_max_ \in Nat
        BY <1>1, <1>2, <1>3 DEF SortTypes
      <4> HIDE DEF e, row
      <4> QED BY <2>5, <2>6, <3>1, <4>1, <4>2
    <3>2. CASE n # Len(index_) + 1
      <4> HIDE DEF e, row
      <4>1. n \in 1..Len(index_)
        BY <2>6, <3>2
      <4>2. /\ EntryFits(all, index_[n], unsorted[n]) /\ index_[n].key_size <= key_size_max_
            /\ index_[n] \in RawEntry /\ unsorted[n] \in RawRow /\ key_size_max_ \in Nat
        BY <1>2, <2>6, <4>1 DEF Adding, SortTypes, all
      <4>3. EntryFits(all \o key, index_[n], unsorted[n])
        BY <1>1, <2>2, <4>2, FitsLonger
      <4>4. EntryFits((all \o key) \o value, index_[n], unsorted[n])
        BY <1>1, <2>3, <4>2, <4>3, FitsLonger
      <4>5. index_[n].key_size \in Nat
        BY <4>2 DEF RawEntry
      <4>6. key_size_max_ <= key_size_max_' /\ key_size_max_' \in Nat
        BY <1>1, <1>3, <4>2
      <4>7. index_[n].key_size <= key_size_max_'
        BY <4>2, <4>5, <4>6
      <4> QED BY <2>6, <4>1, <4>4, <4>7
    <3> QED BY <3>1, <3>2
  <2>8. Adding'
    <3>1. Len(file' \o buffered') = offset_' /\ added' = <<>>
      BY <1>2, <1>3, <2>3, <2>4 DEF Adding
    <3>2. Len(index_') = Len(unsorted')
      BY <2>6
    <3> HIDE DEF e, row
    <3> QED BY <2>4, <2>7, <3>1, <3>2 DEF Adding
  <2> QED BY <1>2, <1>7, <2>1, <2>8 DEF SortInv, BuildSucceeds
<1> QED BY <1>3, <1>6, <1>7 DEF WriteEntryData

(* The stream writes what it held back, for itself or because it is told.  *)
LEMMA SortWrites ==
  ASSUME SortInv, Spill \/ FlushEntryData
  PROVE  SortInv'
<1>1. SortTypes /\ Adding /\ sorting = "adding"
  BY DEF SortInv, Spill, FlushEntryData
<1>2. /\ UNCHANGED <<index_, offset_, key_size_max_, unsorted, added>>
      /\ \/ file' = file \o buffered /\ buffered' = <<>> /\ sorting' \in {"adding", "flushed"}
         \/ UNCHANGED <<file, buffered>> /\ sorting' = "fflush_failed"
  BY <1>1 DEF Spill, FlushEntryData
<1>3. SortTypes'
  <2>1. file \o buffered \in Seq(Int) /\ <<>> \in Seq(Int)
    BY <1>1 DEF SortTypes
  <2>2. file' \in Seq(Int) /\ buffered' \in Seq(Int)
    BY <1>1, <1>2, <2>1 DEF SortTypes
  <2> QED BY <1>1, <1>2, <2>2 DEF SortTypes
<1>4. CASE UNCHANGED <<file, buffered>> /\ sorting' = "fflush_failed"
  BY <1>3, <1>4 DEF SortInv, BuildSucceeds
<1>5. CASE file' = file \o buffered /\ buffered' = <<>> /\ sorting' \in {"adding", "flushed"}
  <2>1. file' \o buffered' = file'
    <3>1. \A x \in Seq(Int) : x \o <<>> = x
      BY ConcatEmptySeq
    <3>2. file' \in Seq(Int)
      BY <1>3 DEF SortTypes
    <3> QED BY <1>5, <3>1, <3>2
  <2>2. Adding'
    <3>1. file' \o buffered' = file \o buffered
      BY <1>5, <2>1
    <3> QED BY <1>1, <1>2, <3>1 DEF Adding
  <2>3. Flushed'
    BY <2>1, <2>2 DEF Adding, Flushed
  <2> QED BY <1>3, <1>5, <2>2, <2>3 DEF SortInv, BuildSucceeds
<1> QED BY <1>2, <1>4, <1>5

(* The entries are put into the order of their keys: they lead to rows     *)
(* that are in the file, so no comparison reads too far.                   *)
LEMMA SortSorts ==
  ASSUME SortingAssumption, SortInv, SortEntries
  PROVE  SortInv'
<1>1. SortTypes /\ Flushed /\ sorting = "flushed"
  BY DEF SortInv, SortEntries
<1>2. /\ index_ \in Seq(RawEntry) /\ unsorted \in Seq(RawRow) /\ file \in Seq(Int)
      /\ Len(index_) \in Nat /\ Len(index_) = Len(unsorted) /\ added = <<>>
      /\ \A n \in 1..Len(index_) : EntryFits(file, index_[n], unsorted[n])
  BY <1>1, LenProperties DEF SortTypes, Flushed
<1>3. \A n \in 1..Len(index_) : index_[n] \in RawEntry /\ unsorted[n] \in RawRow
  BY <1>2, ElementOfSeq
<1>4. ~ReadsTooFar
  <2>1. ASSUME NEW n \in 1..Len(index_) PROVE InFile(index_[n].offset, index_[n].key_size)
    <3>1. /\ index_[n].offset \in Nat /\ unsorted[n].key \in Seq(Int)
          /\ index_[n].key_size = Len(unsorted[n].key)
          /\ Holds(file, index_[n].offset, unsorted[n].key)
      BY <1>2, <1>3 DEF RawEntry, RawRow, EntryFits, Leads
    <3> QED BY <1>2, <3>1, ReadHeld
  <2> QED BY <2>1 DEF ReadsTooFar
<1>5. /\ sorting' = "sorted" /\ UNCHANGED <<file, buffered, offset_, key_size_max_, unsorted, added>>
      /\ \E p \in Orders(Len(index_)) :
           /\ \A n, m \in 1..Len(index_) : n < m => Before(p[n], p[m])
           /\ index_' = [n \in 1..Len(index_) |-> index_[p[n]]]
  BY <1>4 DEF SortEntries
<1>6. PICK p \in Orders(Len(index_)) :
           /\ \A n, m \in 1..Len(index_) : n < m => Before(p[n], p[m])
           /\ index_' = [n \in 1..Len(index_) |-> index_[p[n]]]
  BY <1>5
<1>7. p \in [1..Len(index_) -> 1..Len(index_)]
  BY DEF Orders
<1>8. /\ index_' \in Seq(RawEntry) /\ Len(index_') = Len(index_)
      /\ \A n \in 1..Len(index_) : index_'[n] = index_[p[n]]
  <2>1. index_' \in [1..Len(index_) -> RawEntry]
    BY <1>3, <1>6, <1>7
  <2>2. index_' \in Seq(RawEntry)
    <3>1. \A n \in Nat : [1..n -> RawEntry] \subseteq Seq(RawEntry)
      BY SeqDef
    <3> QED BY <1>2, <2>1, <3>1
  <2>3. DOMAIN index_' = 1..Len(index_)
    BY <2>1
  <2>4. Len(index_') = Len(index_)
    BY <1>2, <2>2, <2>3, LenProperties
  <2> QED BY <1>6, <2>2, <2>4
<1>9. SortTypes'
  BY <1>1, <1>5, <1>8 DEF SortTypes
<1>10. OrderedBy(p)
  <2>1. SUFFICES ASSUME NEW n \in 1..Len(unsorted), NEW m \in 1..Len(unsorted), n < m
        PROVE  /\ ~Less(unsorted[p[m]].key, unsorted[p[n]].key)
               /\ unsorted[p[n]].key = unsorted[p[m]].key => p[n] < p[m]
    BY DEF OrderedBy
  <2>2. /\ p[n] \in 1..Len(index_) /\ p[m] \in 1..Len(index_) /\ Before(p[n], p[m])
    BY <1>2, <1>6, <1>7, <2>1
  <2> DEFINE e == index_[p[n]]
             f == index_[p[m]]
             a == unsorted[p[n]]
             b == unsorted[p[m]]
  <2>3. /\ e \in RawEntry /\ f \in RawEntry /\ a \in RawRow /\ b \in RawRow
        /\ EntryFits(file, e, a) /\ EntryFits(file, f, b)
    BY <1>2, <1>3, <2>2
  <2>4. Compare(e, f) \/ (~Compare(f, e) /\ p[n] < p[m])
    BY <2>2 DEF Before
  <2> HIDE DEF e, f, a, b
  <2>5. (Compare(e, f) <=> Less(a.key, b.key)) /\ (Compare(f, e) <=> Less(b.key, a.key))
    BY <1>2, <2>3, ComparesKeys
  <2>6. a.key \in Seq(Int) /\ b.key \in Seq(Int)
    BY <2>3 DEF RawRow
  <2>7. CASE Less(a.key, b.key)
    <3>1. ~Less(b.key, a.key)
      BY <2>6, <2>7, LessAsymmetric
    <3>2. a.key # b.key
      BY <2>7, <3>1
    <3> QED BY <3>1, <3>2 DEF a, b
  <2>8. CASE ~Less(b.key, a.key) /\ p[n] < p[m]
    BY <2>8 DEF a, b
  <2> QED BY <2>4, <2>5, <2>7, <2>8
<1>11. /\ \A n \in 1..Len(index_) : EntryFits(file, index_[p[n]], unsorted[p[n]])
  BY <1>2, <1>7
<1>12. SortedBy(p)'
  <2>1. OrderedBy(p)'
    BY <1>5, <1>10 DEF OrderedBy
  <2>2. \A n \in 1..Len(index_') : EntryFits(file', index_'[n], unsorted'[p[n]])
    BY <1>5, <1>8, <1>11
  <2>3. \A n \in 1..Len(added') : added'[n] = unsorted'[p[n]]
    BY <1>2, <1>5
  <2> QED BY <2>1, <2>2, <2>3 DEF SortedBy
<1>13. /\ Len(index_') = Len(unsorted') /\ Len(added') <= Len(index_')
       /\ \E q \in Orders(Len(unsorted')) : SortedBy(q)'
  BY <1>2, <1>5, <1>8, <1>12
<1> QED BY <1>5, <1>9, <1>13 DEF SortInv, BuildSucceeds

(* A row is read back and handed on.                                       *)
LEMMA SortHandsOn ==
  ASSUME SortInv, AddSorted
  PROVE  SortInv'
<1>1. /\ SortTypes /\ sorting = "sorted" /\ Len(added) < Len(index_)
      /\ Len(index_) = Len(unsorted)
      /\ \E p \in Orders(Len(unsorted)) : SortedBy(p)
  BY DEF SortInv, AddSorted
<1>2. PICK p \in Orders(Len(unsorted)) : SortedBy(p)
  BY <1>1
<1>3. /\ index_ \in Seq(RawEntry) /\ unsorted \in Seq(RawRow) /\ added \in Seq(RawRow)
      /\ file \in Seq(Int) /\ Len(index_) \in Nat /\ Len(added) \in Nat
      /\ p \in [1..Len(index_) -> 1..Len(index_)]
  BY <1>1, <1>2, LenProperties DEF SortTypes, Orders
<1> DEFINE k == Len(added) + 1
           e == index_[k]
           want == unsorted[p[k]]
           row == [key |-> Read(e.offset, e.key_size),
                   value |-> Read(e.offset + e.key_size, e.value_size)]
<1>4. k \in 1..Len(index_) /\ p[k] \in 1..Len(unsorted)
  BY <1>1, <1>3
<1>5. e \in RawEntry /\ want \in RawRow /\ EntryFits(file, e, want)
  BY <1>1, <1>2, <1>3, <1>4, ElementOfSeq DEF SortedBy
<1>6. /\ \/ ~InFile(e.offset, e.key_size + e.value_size)
         \/ added # <<>> /\ Less(row.key, added[Len(added)].key)
         \/ added' = Append(added, row) /\ UNCHANGED sorting
      /\ UNCHANGED <<file, buffered, index_, offset_, key_size_max_, unsorted>>
  BY DEF AddSorted
<1>7. row = want /\ InFile(e.offset, e.key_size + e.value_size)
  <2> HIDE DEF e, want
  <2>1. /\ e.offset \in Nat /\ e.key_size \in Nat /\ e.value_size \in Nat
        /\ want.key \in Seq(Int) /\ want.value \in Seq(Int)
        /\ e.key_size = Len(want.key) /\ e.value_size = Len(want.value)
        /\ Holds(file, e.offset, want.key) /\ Holds(file, e.offset + e.key_size, want.value)
    BY <1>5 DEF RawEntry, RawRow, EntryFits, Leads
  <2>2. Read(e.offset, e.key_size) = want.key
    BY <1>3, <2>1, ReadHeld
  <2>3. e.offset + e.key_size \in Nat
    BY <2>1
  <2>4. /\ Read(e.offset + e.key_size, e.value_size) = want.value
        /\ InFile(e.offset + e.key_size, e.value_size)
    BY <1>3, <2>1, <2>3, ReadHeld
  <2>5. want = [key |-> want.key, value |-> want.value]
    BY <1>5 DEF RawRow
  <2>6. InFile(e.offset, e.key_size + e.value_size)
    <3>1. \A x, y, z \in Nat : x + (y + z) = (x + y) + z
      OBVIOUS
    <3>2. e.offset + (e.key_size + e.value_size) = (e.offset + e.key_size) + e.value_size
      BY <2>1, <3>1, Zenon
    <3> QED BY <2>4, <3>2 DEF InFile
  <2> QED BY <2>2, <2>4, <2>5, <2>6
<1> HIDE DEF row
<1>8. ~(added # <<>> /\ Less(row.key, added[Len(added)].key))
  <2>1. SUFFICES ASSUME added # <<>> PROVE ~Less(row.key, added[Len(added)].key)
    OBVIOUS
  <2>2. Len(added) # 0
    BY <1>3, <2>1, EmptySeq
  <2>3. Len(added) \in 1..Len(unsorted) /\ k \in 1..Len(unsorted) /\ Len(added) < k
        /\ Len(added) \in 1..Len(added)
    BY <1>1, <1>3, <2>2
  <2>4. added[Len(added)] = unsorted[p[Len(added)]]
    BY <1>2, <2>3 DEF SortedBy
  <2>5. ~Less(unsorted[p[k]].key, unsorted[p[Len(added)]].key)
    <3> HIDE DEF k
    <3> QED BY <1>2, <2>3 DEF SortedBy, OrderedBy
  <2> QED BY <1>7, <2>4, <2>5
<1>9. added' = Append(added, want) /\ sorting' = sorting
  BY <1>6, <1>7, <1>8
<1>10. /\ added' \in Seq(RawRow) /\ Len(added') = k
       /\ \A n \in 1..Len(added) : added'[n] = added[n]
       /\ added'[k] = want
  <2> HIDE DEF want
  <2> QED BY <1>3, <1>5, <1>9, AppendProperties
<1>11. SortTypes'
  BY <1>1, <1>6, <1>10 DEF SortTypes
<1>12. SortedBy(p)'
  <2>1. OrderedBy(p)'
    BY <1>2, <1>6 DEF SortedBy, OrderedBy
  <2>2. \A n \in 1..Len(index_') : EntryFits(file', index_'[n], unsorted'[p[n]])
    BY <1>2, <1>6 DEF SortedBy
  <2>3. ASSUME NEW n \in 1..Len(added') PROVE added'[n] = unsorted'[p[n]]
    <3>1. CASE n = k
      BY <1>6, <1>10, <3>1
    <3>2. CASE n # k
      <4>1. n \in 1..Len(added)
        BY <1>3, <1>10, <3>2
      <4> QED BY <1>2, <1>6, <1>10, <4>1 DEF SortedBy
    <3> QED BY <3>1, <3>2
  <2> QED BY <2>1, <2>2, <2>3 DEF SortedBy
<1>13. /\ Len(index_') = Len(unsorted') /\ Len(added') <= Len(index_')
       /\ \E q \in Orders(Len(unsorted')) : SortedBy(q)'
  <2>1. Len(added') <= Len(index_')
    BY <1>3, <1>4, <1>6, <1>10
  <2>2. p \in Orders(Len(unsorted'))
    BY <1>6
  <2> QED BY <1>1, <1>6, <1>12, <2>1, <2>2
<1> QED BY <1>1, <1>9, <1>11, <1>13 DEF SortInv, BuildSucceeds

(* The invariant of the sorting builder.                                   *)
THEOREM SortingInvariant ==
  SortSpec => []SortInv
<1>1. SortInit => SortInv
  <2>1. SUFFICES ASSUME SortInit PROVE SortInv
    OBVIOUS
  <2>2. /\ file = <<>> /\ buffered = <<>> /\ index_ = <<>> /\ offset_ = 0
        /\ key_size_max_ = 0 /\ unsorted = <<>> /\ added = <<>> /\ sorting = "adding"
    BY <2>1 DEF SortInit
  <2>3. SortTypes
    BY <2>2 DEF SortTypes
  <2>4. file \o buffered = <<>>
    <3>1. \A x \in Seq(Int) : x \o <<>> = x
      BY ConcatEmptySeq
    <3> QED BY <2>2, <2>3, <3>1 DEF SortTypes
  <2>5. Adding
    BY <2>2, <2>4 DEF Adding
  <2> QED BY <2>2, <2>3, <2>5 DEF SortInv, BuildSucceeds
<1>2. SortInv /\ [SortNext]_sortVars => SortInv'
  <2>1. SUFFICES ASSUME SortInv, [SortNext]_sortVars PROVE SortInv'
    OBVIOUS
  <2>2. ASSUME NEW key \in RawKeys, NEW value \in RawValues, Add(key, value) PROVE SortInv'
    BY <2>1, <2>2, SortAdd, SortingAssumption
  <2>3. CASE Spill \/ FlushEntryData
    BY <2>1, <2>3, SortWrites
  <2>4. CASE SortEntries
    BY <2>1, <2>4, SortSorts, SortingAssumption
  <2>5. CASE AddSorted
    BY <2>1, <2>5, SortHandsOn
  <2>6. CASE Built
    <3>1. /\ sorting = "sorted" /\ sorting' = "built" /\ Len(added) = Len(index_)
          /\ UNCHANGED <<file, buffered, index_, offset_, key_size_max_, unsorted, added>>
      BY <2>6 DEF Built
    <3> QED BY <2>1, <3>1 DEF SortInv, SortTypes, SortedBy, OrderedBy, BuildSucceeds
  <2>7. CASE UNCHANGED sortVars
    <3>1. /\ UNCHANGED <<file, buffered, index_, offset_, key_size_max_, unsorted, added>>
          /\ UNCHANGED sorting
      BY <2>7 DEF sortVars
    <3> QED BY <2>1, <3>1
            DEF SortInv, SortTypes, Adding, Flushed, SortedBy, OrderedBy, BuildSucceeds
  <2> QED BY <2>1, <2>2, <2>3, <2>4, <2>5, <2>6, <2>7 DEF SortNext
<1> QED BY <1>1, <1>2, PTL DEF SortSpec

(* Rows in any order are built into a table of exactly these rows by key,  *)
(* those of one key as they came, for all keys and values, any number of   *)
(* rows and any size of the part of a key that is kept in memory; no error *)
(* stops it but one of writing.                                            *)
THEOREM SortingIsStable ==
  SortSpec => []SortsStably
<1>1. SortInv => SortsStably
  <2>1. SUFFICES ASSUME SortInv PROVE SortsStably
    OBVIOUS
  <2>2. EntriesLeadToRows
    BY <2>1 DEF SortInv, Adding, EntriesLeadToRows, EntryFits
  <2>3. BuildSucceeds
    BY <2>1 DEF SortInv
  <2>4. BuildsStably
    <3>1. SUFFICES ASSUME sorting = "built"
          PROVE  /\ Len(added) = Len(unsorted)
                 /\ \E p \in Orders(Len(unsorted)) :
                      /\ \A n \in 1..Len(added) : added[n] = unsorted[p[n]]
                      /\ \A n, m \in 1..Len(added) : n < m =>
                           /\ ~Less(added[m].key, added[n].key)
                           /\ added[n].key = added[m].key => p[n] < p[m]
      BY DEF BuildsStably
    <3>2. Len(added) = Len(unsorted) /\ \E p \in Orders(Len(unsorted)) : SortedBy(p)
      BY <2>1, <3>1 DEF SortInv
    <3>3. PICK p \in Orders(Len(unsorted)) : SortedBy(p)
      BY <3>2
    <3>4. \A n \in 1..Len(added) : added[n] = unsorted[p[n]]
      BY <3>3 DEF SortedBy
    <3>5. ASSUME NEW n \in 1..Len(added), NEW m \in 1..Len(added), n < m
          PROVE  /\ ~Less(added[m].key, added[n].key)
                 /\ added[n].key = added[m].key => p[n] < p[m]
      <4>1. added[n] = unsorted[p[n]] /\ added[m] = unsorted[p[m]]
        BY <3>4
      <4>2. n \in 1..Len(unsorted) /\ m \in 1..Len(unsorted)
        BY <3>2
      <4> QED BY <3>3, <3>5, <4>1, <4>2 DEF SortedBy, OrderedBy
    <3> QED BY <3>2, <3>4, <3>5
  <2> QED BY <2>2, <2>3, <2>4 DEF SortsStably
<1> QED BY <1>1, SortingInvariant, PTL
=============================================================================
