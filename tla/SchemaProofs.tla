---------------------------- MODULE SchemaProofs ----------------------------
(***************************************************************************)
(* Proofs about loading a schema, for all schema files and any number of   *)
(* statements and failures; and about SELECT, for all selections, fields   *)
(* and summary tables that do not overlap.                                 *)
(***************************************************************************)
EXTENDS SchemaLoad, SelectFields, SequenceTheorems, FiniteSetTheorems, WellFoundedInduction, TLAPS

LineTypes == {"summary", "summary-override", "index", "#"}
Known(n) == \A k \in 1..n : file[k].type \in LineTypes

(* The lines that this attempt to load, or the one that succeeded, has     *)
(* been through.                                                           *)
LinesRead == IF doing = "Load" THEN at ELSE IF loaded_ THEN Len(file) ELSE 0

LoadTypes ==
  /\ file \in Seq([type : STRING, path : Nat])
  /\ summary_tables \in Seq(Nat) /\ summary_override_tables \in Seq(Nat)
  /\ index_table_paths_ \in Seq(Nat) /\ index_tables_ \in Seq(Nat)
  /\ loaded_ \in BOOLEAN /\ doing \in {"idle", "Load", "IndexTables", "running"}
  /\ at \in Nat /\ failures \in Nat

(* What these lines name is at the end of the lists.                       *)
ListsEnd ==
  /\ LinesRead <= Len(file) /\ Known(LinesRead)
  /\ EndsWith(summary_tables, "summary", LinesRead)
  /\ EndsWith(summary_override_tables, "summary-override", LinesRead)
  /\ EndsWith(index_table_paths_, "index", LinesRead)

(* If nothing has failed, nothing is in front of it.                       *)
Clean == failures = 0 /\ Known(Len(file))
ListsFit ==
  Clean => /\ Len(summary_tables) = Count("summary", LinesRead)
           /\ Len(summary_override_tables) = Count("summary-override", LinesRead)
           /\ Len(index_table_paths_) = Count("index", LinesRead)

(* What any attempt has appended comes behind all that the file lists      *)
(* before it.                                                              *)
ListsStart ==
  /\ StartsWith(summary_tables, "summary")
  /\ StartsWith(summary_override_tables, "summary-override")
  /\ StartsWith(index_table_paths_, "index")
  /\ StartsWith(index_tables_, "index")

(* The last tables of the index are those of the first n paths.            *)
EndsWithPaths(n) ==
  /\ Len(index_tables_) >= n
  /\ \A j \in 1..n : index_tables_[Len(index_tables_) - n + j] = index_table_paths_[j]
Complete == EndsWithPaths(Len(index_table_paths_))

OpenedInv ==
  /\ doing = "Load" => ~loaded_
  /\ ~loaded_ => index_tables_ = <<>>
  /\ doing \in {"IndexTables", "running"} => loaded_
  /\ doing = "IndexTables" =>
       at <= Len(index_table_paths_) /\ EndsWithPaths(at)

(* If nothing has failed, the paths were opened one by one, and all before *)
(* the first statement ran.                                                *)
OpenedFit ==
  Clean =>
    /\ Len(index_tables_) <= Len(index_table_paths_)
    /\ \A j \in 1..Len(index_tables_) : index_tables_[j] = index_table_paths_[j]
    /\ doing = "IndexTables" =>
         \/ Len(index_tables_) = at
         \/ Len(index_tables_) = Len(index_table_paths_) /\ at = 0
    /\ loaded_ /\ doing # "IndexTables" => Len(index_tables_) = Len(index_table_paths_)

(* One failure leaves either all tables or fewer than there are paths, so  *)
(* that the numbers tell.                                                  *)
NumbersTell ==
  MaxFailures <= 1 =>
    /\ doing = "running" => Complete
    /\ loaded_ /\ (doing = "IndexTables" => at = 0) =>
         Complete \/ Len(index_tables_) < Len(index_table_paths_)

LoadInv ==
  LoadTypes /\ ListsEnd /\ ListsFit /\ ListsStart /\ OpenedInv /\ OpenedFit /\ NumbersTell
-----------------------------------------------------------------------------
(* Counting lines one by one.                                              *)
LEMMA CountFacts ==
  ASSUME NEW type, NEW n \in Nat
  PROVE  /\ Count(type, n) \in Nat /\ Count(type, 0) = 0
         /\ Count(type, n + 1) = IF file[n + 1].type = type THEN Count(type, n) + 1
                                                            ELSE Count(type, n)
         /\ \A k \in 1..n : file[k].type = type => Count(type, k) \in 1..Count(type, n)
<1> DEFINE lines(m) == {k \in 1..m : file[k].type = type}
<1>1. ASSUME NEW m \in Nat PROVE IsFiniteSet(lines(m)) /\ Cardinality(lines(m)) \in Nat
  <2>1. IsFiniteSet(1..m)
    BY FS_Interval
  <2>2. IsFiniteSet(lines(m))
    BY <2>1, FS_Subset
  <2> QED BY <2>2, FS_CardinalityType
<1>2. \A m : Count(type, m) = Cardinality(lines(m))
  BY DEF Count
<1>3. Count(type, 0) = 0
  <2>1. lines(0) = {}
    OBVIOUS
  <2> QED BY <1>2, <2>1, FS_EmptySet
<1>4. ASSUME file[n + 1].type = type PROVE Count(type, n + 1) = Count(type, n) + 1
  <2>1. lines(n + 1) = lines(n) \cup {n + 1} /\ n + 1 \notin lines(n)
    BY <1>4
  <2> HIDE DEF lines
  <2>2. Cardinality(lines(n) \cup {n + 1}) = Cardinality(lines(n)) + 1
    BY <1>1, <2>1, FS_AddElement
  <2>3. Count(type, n + 1) = Cardinality(lines(n + 1)) /\ Count(type, n) = Cardinality(lines(n))
    BY <1>2
  <2> QED BY <2>1, <2>2, <2>3
<1>5. ASSUME file[n + 1].type # type PROVE Count(type, n + 1) = Count(type, n)
  <2>1. lines(n + 1) = lines(n)
    BY <1>5
  <2> HIDE DEF lines
  <2>2. Count(type, n + 1) = Cardinality(lines(n + 1)) /\ Count(type, n) = Cardinality(lines(n))
    BY <1>2
  <2> QED BY <2>1, <2>2
<1>6. ASSUME NEW k \in 1..n, file[k].type = type PROVE Count(type, k) \in 1..Count(type, n)
  <2>1. lines(k) \subseteq lines(n) /\ k \in lines(k) /\ k \in Nat
    BY <1>6
  <2>2. lines(k) # {}
    BY <2>1
  <2>3. /\ IsFiniteSet(lines(k)) /\ IsFiniteSet(lines(n))
        /\ Cardinality(lines(k)) \in Nat /\ Cardinality(lines(n)) \in Nat
    BY <1>1, <2>1
  <2> HIDE DEF lines
  <2>4. Cardinality(lines(k)) <= Cardinality(lines(n))
    BY <2>1, <2>3, FS_Subset
  <2>5. Cardinality(lines(k)) # 0
    BY <2>2, <2>3, FS_EmptySet
  <2> QED BY <1>2, <2>3, <2>4, <2>5
<1>7. Count(type, n) \in Nat
  BY <1>1, <1>2
<1> QED BY <1>3, <1>4, <1>5, <1>6, <1>7

(* No line has been read.                                                  *)
LEMMA EndsStart ==
  ASSUME NEW list \in Seq(Nat), NEW type
  PROVE  EndsWith(list, type, 0)
<1>1. Count(type, 0) = 0 /\ Len(list) \in Nat
  BY CountFacts, LenProperties
<1> QED BY <1>1 DEF EndsWith

(* A line of another type is read.                                         *)
LEMMA EndsKept ==
  ASSUME NEW list \in Seq(Nat), NEW type, NEW n \in Nat,
         EndsWith(list, type, n), file[n + 1].type # type
  PROVE  EndsWith(list, type, n + 1)
<1>1. Count(type, n + 1) = Count(type, n)
  BY CountFacts
<1>2. ASSUME NEW k \in 1 .. n + 1, file[k].type = type PROVE k \in 1..n
  <2>1. k # n + 1
    BY <1>2
  <2> QED BY <2>1
<1> QED BY <1>1, <1>2 DEF EndsWith

(* A line of the type is read.                                             *)
LEMMA EndsLonger ==
  ASSUME NEW list \in Seq(Nat), NEW type, NEW n \in Nat,
         EndsWith(list, type, n), file[n + 1].type = type, file[n + 1].path \in Nat
  PROVE  EndsWith(Append(list, file[n + 1].path), type, n + 1)
<1> DEFINE new == Append(list, file[n + 1].path)
           c == Count(type, n)
<1>1. /\ c \in Nat /\ Count(type, n + 1) = c + 1
      /\ \A k \in 1..n : file[k].type = type => Count(type, k) \in 1..c
  BY CountFacts
<1>2. /\ Len(list) \in Nat /\ Len(list) >= c
      /\ \A k \in 1..n : file[k].type = type => list[Len(list) - c + Count(type, k)] = file[k].path
  BY LenProperties DEF EndsWith
<1>3. /\ Len(new) = Len(list) + 1 /\ \A m \in 1..Len(list) : new[m] = list[m]
      /\ new[Len(list) + 1] = file[n + 1].path
  BY <1>2, AppendProperties
<1> HIDE DEF new, c
<1>4. Len(new) >= Count(type, n + 1) /\ Len(new) - Count(type, n + 1) = Len(list) - c
  BY <1>1, <1>2, <1>3
<1>5. ASSUME NEW k \in 1 .. n + 1, file[k].type = type
      PROVE  new[Len(list) - c + Count(type, k)] = file[k].path
  <2>1. CASE k = n + 1
    <3>1. Len(list) - c + Count(type, k) = Len(list) + 1
      BY <1>1, <1>2, <2>1
    <3> QED BY <1>3, <2>1, <3>1
  <2>2. CASE k # n + 1
    <3>1. k \in 1..n
      BY <2>2
    <3>2. Count(type, k) \in 1..c
      BY <1>1, <1>5, <3>1
    <3>3. Len(list) - c + Count(type, k) \in 1..Len(list)
      BY <1>1, <1>2, <3>2
    <3>4. list[Len(list) - c + Count(type, k)] = file[k].path
      BY <1>2, <1>5, <3>1
    <3> QED BY <1>3, <3>3, <3>4
  <2> QED BY <2>1, <2>2
<1> QED BY <1>4, <1>5 DEF EndsWith, new

(* What the lines name is all in a list that ends with it.                 *)
LEMMA EndsHolds ==
  ASSUME NEW list \in Seq(Nat), NEW type, NEW n \in Nat, EndsWith(list, type, n),
         NEW k \in 1..n, file[k].type = type
  PROVE  \E j \in 1..Len(list) : list[j] = file[k].path
<1> DEFINE c == Count(type, n)
           j == Len(list) - c + Count(type, k)
<1>1. Len(list) \in Nat
  BY LenProperties
<1>2. c \in Nat /\ Count(type, k) \in 1..c
  BY CountFacts
<1>3. Len(list) >= c /\ list[j] = file[k].path
  BY DEF EndsWith
<1> HIDE DEF c
<1>4. j \in 1..Len(list)
  BY <1>1, <1>2, <1>3
<1> QED BY <1>3, <1>4

(* A table is appended, behind all that the file lists before it.          *)
LEMMA StartsLonger ==
  ASSUME NEW list \in Seq(Nat), NEW type, NEW x \in Nat, StartsWith(list, type),
         NEW k \in 1..Len(file), file[k].type = type, file[k].path = x,
         \A j \in 1 .. k - 1 : file[j].type = type => \E q \in 1..Len(list) : list[q] = file[j].path
  PROVE  StartsWith(Append(list, x), type)
<1> DEFINE new == Append(list, x)
           len == Len(list)
           behind(s, p, m) ==
             /\ file[m].type = type /\ s[p] = file[m].path
             /\ \A j \in 1 .. m - 1 :
                  file[j].type = type => \E q \in 1 .. p - 1 : s[q] = file[j].path
<1>1. /\ len \in Nat /\ Len(new) = len + 1 /\ new[len + 1] = x
      /\ \A q \in 1..len : new[q] = list[q]
  BY AppendProperties, LenProperties
<1> HIDE DEF new
<1>2. ASSUME NEW p \in 1 .. len + 1 PROVE \E m \in 1..Len(file) : behind(new, p, m)
  <2>1. CASE p = len + 1
    <3>1. p - 1 = len
      BY <1>1, <2>1
    <3>2. behind(new, p, k)
      BY <1>1, <2>1, <3>1
    <3> QED BY <3>2
  <2>2. CASE p # len + 1
    <3>1. p \in 1..len /\ (1 .. p - 1) \subseteq 1..len
      BY <1>1, <2>2
    <3>2. PICK m \in 1..Len(file) : behind(list, p, m)
      BY <3>1 DEF StartsWith
    <3>3. behind(new, p, m)
      BY <1>1, <3>1, <3>2
    <3> QED BY <3>3
  <2> QED BY <2>1, <2>2
<1> QED BY <1>1, <1>2 DEF StartsWith, new

(* Steps that leave the lists alone, and read no line.                     *)
LEMMA ListsKept ==
  ASSUME LoadInv, LinesRead' = LinesRead, failures' >= failures, failures' \in Nat,
         UNCHANGED <<file, summary_tables, summary_override_tables, index_table_paths_>>
  PROVE  /\ ListsEnd' /\ ListsFit' /\ (Clean' => Clean)
         /\ index_tables_' = index_tables_ \/ StartsWith(index_tables_', "index") => ListsStart'
<1>1. ListsEnd /\ ListsFit /\ ListsStart /\ failures \in Nat
  BY DEF LoadInv, LoadTypes
<1>2. ListsEnd'
  BY <1>1 DEF ListsEnd, Known, EndsWith, Count
<1>3. index_tables_' = index_tables_ \/ StartsWith(index_tables_', "index") => ListsStart'
  <2>1. file' = file /\ StartsWith(index_tables_, "index")
    BY <1>1 DEF ListsStart
  <2>2. ASSUME NEW list, NEW type PROVE StartsWith(list, type)
               <=> \A p \in 1..Len(list) : \E k \in 1..Len(file') :
                     /\ file'[k].type = type /\ list[p] = file'[k].path
                     /\ \A j \in 1 .. k - 1 : file'[j].type = type =>
                          \E q \in 1 .. p - 1 : list[q] = file'[j].path
    BY <2>1 DEF StartsWith
  <2>3. /\ StartsWith(summary_tables', "summary")
        /\ StartsWith(summary_override_tables', "summary-override")
        /\ StartsWith(index_table_paths_', "index")
    BY <1>1 DEF ListsStart
  <2>4. CASE StartsWith(index_tables_', "index")
    BY <2>2, <2>3, <2>4 DEF ListsStart, StartsWith
  <2>5. CASE index_tables_' = index_tables_
    BY <2>1, <2>4, <2>5
  <2> QED BY <2>4, <2>5
<1>4. Clean' => Clean
  BY <1>1 DEF Clean, Known
<1>5. ListsFit'
  BY <1>1, <1>4 DEF ListsFit, Count
<1> QED BY <1>2, <1>3, <1>4, <1>5

(* An attempt to load fails: nothing is left of it but what is in front of *)
(* the next one's.                                                         *)
LEMMA LoadFails ==
  ASSUME LoadInv, doing = "Load", Throw, loaded_' = loaded_, index_tables_' = index_tables_,
         UNCHANGED <<file, summary_tables, summary_override_tables, index_table_paths_>>,
         failures' \in Nat, ~Clean'
  PROVE  LoadInv'
<1>1. LoadTypes /\ ListsEnd /\ ListsStart /\ OpenedInv /\ doing' = "idle" /\ at' = 0
  BY DEF LoadInv, Throw
<1>2. LoadTypes'
  BY <1>1 DEF LoadTypes
<1>3. loaded_' = FALSE
  BY <1>1 DEF OpenedInv, LoadTypes
<1>4. LinesRead' = 0
  BY <1>1, <1>3 DEF LinesRead
<1>5. ListsEnd'
  <2>1. /\ EndsWith(summary_tables, "summary", 0) /\ EndsWith(index_table_paths_, "index", 0)
        /\ EndsWith(summary_override_tables, "summary-override", 0)
    BY <1>1, EndsStart DEF LoadTypes
  <2>2. 0 <= Len(file') /\ Known(0)'
    BY <1>2, LenProperties DEF LoadTypes, Known
  <2> QED BY <1>4, <2>1, <2>2 DEF ListsEnd, EndsWith, Count
<1>6. ListsStart'
  BY <1>1 DEF ListsStart, StartsWith
<1>7. OpenedInv'
  BY <1>1, <1>3 DEF OpenedInv
<1>8. ListsFit' /\ OpenedFit'
  BY DEF ListsFit, OpenedFit
<1>9. NumbersTell'
  BY <1>1, <1>3 DEF NumbersTell
<1> QED BY <1>2, <1>5, <1>6, <1>7, <1>8, <1>9 DEF LoadInv

(* A line is read.                                                         *)
LEMMA LoadReads ==
  ASSUME LoadInv, LoadLine
  PROVE  LoadInv'
<1>1. /\ LoadTypes /\ ListsEnd /\ ListsFit /\ ListsStart /\ OpenedInv /\ OpenedFit
      /\ doing = "Load" /\ at < Len(file) /\ loaded_ = FALSE
      /\ UNCHANGED <<file, index_tables_, loaded_, failures, statements>>
  BY DEF LoadInv, LoadLine, OpenedInv, LoadTypes
<1> DEFINE type == file[at + 1].type
           path == file[at + 1].path
<1>2. /\ at \in Nat /\ Len(file) \in Nat /\ at + 1 \in 1..Len(file) /\ at + 1 <= Len(file)
      /\ path \in Nat
  <2>1. at \in Nat /\ Len(file) \in Nat /\ at + 1 \in 1..Len(file)
    BY <1>1, LenProperties DEF LoadTypes
  <2>2. file[at + 1] \in [type : STRING, path : Nat]
    BY <1>1, <2>1, ElementOfSeq DEF LoadTypes
  <2> QED BY <2>1, <2>2
<1>3. /\ summary_tables' =
           IF type = "summary" THEN Append(summary_tables, path) ELSE summary_tables
      /\ summary_override_tables' =
           IF type = "summary-override" THEN Append(summary_override_tables, path)
           ELSE summary_override_tables
      /\ index_table_paths_' =
           IF type = "index" THEN Append(index_table_paths_, path) ELSE index_table_paths_
      /\ type \in LineTypes => at' = at + 1 /\ doing' = "Load"
      /\ type \notin LineTypes => Throw
  BY <1>1 DEF LoadLine, LineTypes
<1>4. CASE type \notin LineTypes
  <2>1. Throw /\ UNCHANGED <<summary_tables, summary_override_tables, index_table_paths_>>
    BY <1>3, <1>4 DEF LineTypes
  <2>2. ~Clean'
    BY <1>1, <1>2, <1>4 DEF Clean, Known
  <2>3. failures' \in Nat
    BY <1>1 DEF LoadTypes
  <2> QED BY <1>1, <2>1, <2>2, <2>3, LoadFails
<1>5. CASE type \in LineTypes
  <2>1. at' = at + 1 /\ doing' = "Load" /\ doing' # "IndexTables" /\ doing' # "running"
    BY <1>3, <1>5
  <2> HIDE DEF type, path
  <2>2. /\ summary_tables \in Seq(Nat) /\ summary_override_tables \in Seq(Nat)
        /\ index_table_paths_ \in Seq(Nat)
        /\ summary_tables' \in Seq(Nat) /\ summary_override_tables' \in Seq(Nat)
        /\ index_table_paths_' \in Seq(Nat)
    BY <1>1, <1>2, <1>3 DEF LoadTypes
  <2>3. LoadTypes'
    BY <1>1, <1>2, <2>1, <2>2 DEF LoadTypes
  <2>4. LinesRead = at /\ LinesRead' = at + 1
    BY <1>1, <2>1 DEF LinesRead
  <2>5. /\ EndsWith(summary_tables, "summary", at)
        /\ EndsWith(summary_override_tables, "summary-override", at)
        /\ EndsWith(index_table_paths_, "index", at) /\ Known(at)
    BY <1>1, <2>4 DEF ListsEnd
  <2>6. EndsWith(summary_tables', "summary", at + 1)
    <3>1. CASE type = "summary"
      BY <1>2, <1>3, <2>2, <2>5, <3>1, EndsLonger DEF type, path
    <3>2. CASE type # "summary"
      BY <1>2, <1>3, <2>2, <2>5, <3>2, EndsKept DEF type
    <3> QED BY <3>1, <3>2
  <2>7. EndsWith(summary_override_tables', "summary-override", at + 1)
    <3>1. CASE type = "summary-override"
      BY <1>2, <1>3, <2>2, <2>5, <3>1, EndsLonger DEF type, path
    <3>2. CASE type # "summary-override"
      BY <1>2, <1>3, <2>2, <2>5, <3>2, EndsKept DEF type
    <3> QED BY <3>1, <3>2
  <2>8. EndsWith(index_table_paths_', "index", at + 1)
    <3>1. CASE type = "index"
      BY <1>2, <1>3, <2>2, <2>5, <3>1, EndsLonger DEF type, path
    <3>2. CASE type # "index"
      BY <1>2, <1>3, <2>2, <2>5, <3>2, EndsKept DEF type
    <3> QED BY <3>1, <3>2
  <2>9. Known(at + 1)
    <3>1. ASSUME NEW k \in 1 .. at + 1 PROVE file[k].type \in LineTypes
      <4>1. CASE k = at + 1
        BY <1>5, <4>1 DEF type
      <4>2. CASE k # at + 1
        <5>1. k \in 1..at
          BY <1>2, <4>2
        <5> QED BY <2>5, <5>1 DEF Known
      <4> QED BY <4>1, <4>2
    <3> QED BY <3>1 DEF Known
  <2>10. ListsEnd'
    <3>1. EndsWith(summary_tables, "summary", LinesRead)'
      BY <1>1, <2>4, <2>6 DEF EndsWith, Count
    <3>2. EndsWith(summary_override_tables, "summary-override", LinesRead)'
      BY <1>1, <2>4, <2>7 DEF EndsWith, Count
    <3>3. EndsWith(index_table_paths_, "index", LinesRead)'
      BY <1>1, <2>4, <2>8 DEF EndsWith, Count
    <3>4. Known(LinesRead)' /\ LinesRead' <= Len(file')
      BY <1>1, <1>2, <2>4, <2>9 DEF Known
    <3> QED BY <3>1, <3>2, <3>3, <3>4 DEF ListsEnd
  <2>11. ListsFit'
    <3>1. SUFFICES ASSUME Clean'
          PROVE  /\ Len(summary_tables') = Count("summary", at + 1)
                 /\ Len(summary_override_tables') = Count("summary-override", at + 1)
                 /\ Len(index_table_paths_') = Count("index", at + 1)
      BY <1>1, <2>4 DEF ListsFit, Count
    <3>2. Clean
      BY <1>1, <3>1 DEF Clean, Known
    <3>3. /\ Len(summary_tables) = Count("summary", at)
          /\ Len(summary_override_tables) = Count("summary-override", at)
          /\ Len(index_table_paths_) = Count("index", at)
      BY <1>1, <2>4, <3>2 DEF ListsFit
    <3>4. \A list \in Seq(Nat) : Len(Append(list, path)) = Len(list) + 1
      BY <1>2, AppendProperties
    <3>5. \A t : Count(t, at + 1) = IF type = t THEN Count(t, at) + 1 ELSE Count(t, at)
      BY <1>2, CountFacts DEF type
    <3>6. Len(summary_tables') = Count("summary", at + 1)
      BY <1>3, <2>2, <3>3, <3>4, <3>5
    <3>7. Len(summary_override_tables') = Count("summary-override", at + 1)
      BY <1>3, <2>2, <3>3, <3>4, <3>5
    <3>8. Len(index_table_paths_') = Count("index", at + 1)
      BY <1>3, <2>2, <3>3, <3>4, <3>5
    <3> QED BY <3>6, <3>7, <3>8
  <2>12. ListsStart'
    <3>1. ASSUME NEW list \in Seq(Nat), NEW t, EndsWith(list, t, at), StartsWith(list, t), type = t
          PROVE  StartsWith(Append(list, path), t)
      <4>1. \A j \in 1..at : file[j].type = t => \E q \in 1..Len(list) : list[q] = file[j].path
        BY <1>2, <3>1, EndsHolds
      <4>2. at + 1 - 1 = at
        BY <1>2
      <4> QED BY <1>2, <3>1, <4>1, <4>2, StartsLonger DEF type, path
    <3>2. /\ StartsWith(summary_tables, "summary")
          /\ StartsWith(summary_override_tables, "summary-override")
          /\ StartsWith(index_table_paths_, "index") /\ StartsWith(index_tables_, "index")
      BY <1>1 DEF ListsStart
    <3>3. StartsWith(summary_tables', "summary")
      <4>1. CASE type = "summary"
        BY <1>3, <2>2, <2>5, <3>1, <3>2, <4>1
      <4>2. CASE type # "summary"
        BY <1>3, <3>2, <4>2
      <4> QED BY <4>1, <4>2
    <3>4. StartsWith(summary_override_tables', "summary-override")
      <4>1. CASE type = "summary-override"
        BY <1>3, <2>2, <2>5, <3>1, <3>2, <4>1
      <4>2. CASE type # "summary-override"
        BY <1>3, <3>2, <4>2
      <4> QED BY <4>1, <4>2
    <3>5. StartsWith(index_table_paths_', "index")
      <4>1. CASE type = "index"
        BY <1>3, <2>2, <2>5, <3>1, <3>2, <4>1
      <4>2. CASE type # "index"
        BY <1>3, <3>2, <4>2
      <4> QED BY <4>1, <4>2
    <3> QED BY <1>1, <3>2, <3>3, <3>4, <3>5 DEF ListsStart, StartsWith
  <2>13. index_tables_ = <<>> /\ index_tables_' = <<>>
    BY <1>1 DEF OpenedInv
  <2>14. OpenedInv'
    BY <1>1, <2>1, <2>13 DEF OpenedInv
  <2>15. OpenedFit'
    <3>1. Len(index_tables_') = 0 /\ Len(index_table_paths_') \in Nat
      BY <2>2, <2>13, LenProperties
    <3>2. Len(index_tables_') <= Len(index_table_paths_') /\ 1..Len(index_tables_') = {}
      BY <3>1
    <3> QED BY <1>1, <2>1, <3>2 DEF OpenedFit
  <2>16. NumbersTell'
    BY <1>1, <2>1 DEF NumbersTell
  <2> QED BY <2>3, <2>10, <2>11, <2>12, <2>14, <2>15, <2>16 DEF LoadInv
<1> QED BY <1>4, <1>5

(* A statement begins or ends, or Load() returns.                          *)
LEMMA LoadTurns ==
  ASSUME LoadInv, Begin \/ EndLoad \/ End
  PROVE  LoadInv'
<1>1. /\ LoadTypes /\ ListsEnd /\ OpenedInv /\ OpenedFit /\ NumbersTell
      /\ at' = 0 /\ UNCHANGED <<file, failures>>
      /\ UNCHANGED <<summary_tables, summary_override_tables, index_table_paths_, index_tables_>>
      /\ \/ doing = "idle" /\ doing' = "IndexTables" /\ loaded_ /\ loaded_'
         \/ doing = "idle" /\ doing' = "Load" /\ ~loaded_ /\ ~loaded_'
         \/ /\ doing = "Load" /\ doing' = "IndexTables" /\ ~loaded_ /\ loaded_'
            /\ at = Len(file)
         \/ doing = "running" /\ doing' = "idle" /\ loaded_ /\ loaded_'
      /\ loaded_' \in BOOLEAN
  <2>1. /\ LoadTypes /\ ListsEnd /\ OpenedInv /\ OpenedFit /\ NumbersTell
        /\ loaded_ \in BOOLEAN /\ (doing = "Load" => ~loaded_) /\ (doing = "running" => loaded_)
    BY DEF LoadInv, LoadTypes, OpenedInv
  <2>2. CASE Begin
    BY <2>1, <2>2 DEF Begin, tables
  <2>3. CASE EndLoad
    BY <2>1, <2>3 DEF EndLoad, tables
  <2>4. CASE End
    BY <2>1, <2>4 DEF End, tables
  <2> QED BY <2>2, <2>3, <2>4
<1>2. LinesRead' = LinesRead
  BY <1>1 DEF LinesRead
<1>3. LoadTypes'
  BY <1>1 DEF LoadTypes
<1>4. failures' >= failures /\ failures' \in Nat
  BY <1>1 DEF LoadTypes
<1>5. ListsEnd' /\ ListsFit' /\ ListsStart' /\ (Clean' => Clean)
  BY <1>1, <1>2, <1>4, ListsKept
<1>6. Len(index_table_paths_) \in Nat /\ Len(index_tables_) \in Nat
  BY <1>1, LenProperties DEF LoadTypes
<1>7. OpenedInv'
  <2>1. at' <= Len(index_table_paths_') /\ EndsWithPaths(at)'
    BY <1>1, <1>6 DEF EndsWithPaths
  <2> QED BY <1>1, <2>1 DEF OpenedInv
<1>8. OpenedFit'
  <2>1. ~loaded_ => Len(index_tables_) = 0
    BY <1>1 DEF OpenedInv
  <2> QED BY <1>1, <1>5, <1>6, <2>1 DEF OpenedFit
<1>9. NumbersTell'
  <2>1. Complete' <=> Complete
    BY <1>1 DEF Complete, EndsWithPaths
  <2>2. CASE loaded_
    BY <1>1, <2>1, <2>2 DEF NumbersTell
  <2>3. CASE ~loaded_
    <3>1. Len(index_tables_) = 0
      BY <1>1, <2>3 DEF OpenedInv
    <3>2. Len(index_table_paths_) = 0 => Complete
      BY <1>6 DEF Complete, EndsWithPaths
    <3>3. Complete \/ Len(index_tables_) < Len(index_table_paths_)
      BY <1>6, <3>1, <3>2
    <3> QED BY <1>1, <2>1, <2>3, <3>3 DEF NumbersTell
  <2> QED BY <2>2, <2>3
<1> QED BY <1>3, <1>5, <1>7, <1>8, <1>9 DEF LoadInv

(* A table of the index is opened.                                         *)
LEMMA LoadOpens ==
  ASSUME LoadInv, OpenIndex
  PROVE  LoadInv'
<1>1. /\ LoadTypes /\ ListsEnd /\ ListsStart /\ OpenedInv /\ OpenedFit
      /\ doing = "IndexTables" /\ Due /\ at < Len(index_table_paths_) /\ loaded_
      /\ index_tables_' = Append(index_tables_, index_table_paths_[at + 1]) /\ at' = at + 1
      /\ UNCHANGED <<file, summary_tables, summary_override_tables, index_table_paths_>>
      /\ loaded_' = loaded_ /\ doing' = doing /\ failures' = failures
  BY DEF LoadInv, OpenIndex, OpenedInv
<1> DEFINE path == index_table_paths_[at + 1]
           len == Len(index_tables_)
<1>2. /\ at \in Nat /\ Len(index_table_paths_) \in Nat /\ len \in Nat
      /\ at + 1 \in 1..Len(index_table_paths_) /\ path \in Nat /\ index_tables_ \in Seq(Nat)
  BY <1>1, LenProperties, ElementOfSeq DEF LoadTypes
<1>3. /\ index_tables_' \in Seq(Nat) /\ Len(index_tables_') = len + 1
      /\ \A n \in 1..len : index_tables_'[n] = index_tables_[n]
      /\ index_tables_'[len + 1] = path
  <2> HIDE DEF path
  <2>1. index_tables_' = Append(index_tables_, path)
    BY <1>1 DEF path
  <2> QED BY <1>2, <2>1, AppendProperties
<1> HIDE DEF len
<1>4. LoadTypes'
  BY <1>1, <1>2, <1>3 DEF LoadTypes
<1>5. LinesRead' = LinesRead /\ failures' >= failures /\ failures' \in Nat
  BY <1>1 DEF LinesRead, LoadTypes
<1>6. StartsWith(index_tables_', "index")
  <2>1. PICK k \in 1..Len(file) :
          /\ file[k].type = "index" /\ path = file[k].path
          /\ \A j \in 1 .. k - 1 : file[j].type = "index" =>
               \E q \in 1 .. at + 1 - 1 : index_table_paths_[q] = file[j].path
    BY <1>1, <1>2 DEF ListsStart, StartsWith
  <2>2. ASSUME NEW j \in 1 .. k - 1, file[j].type = "index"
        PROVE  \E q \in 1..len : index_tables_[q] = file[j].path
    <3>1. PICK q \in 1..at : index_table_paths_[q] = file[j].path
      BY <1>2, <2>1, <2>2
    <3>2. len >= at /\ index_tables_[len - at + q] = index_table_paths_[q]
      BY <1>1 DEF OpenedInv, EndsWithPaths, len
    <3>3. len - at + q \in 1..len
      BY <1>2, <3>2
    <3> QED BY <3>1, <3>2, <3>3
  <2>3. StartsWith(index_tables_, "index")
    BY <1>1 DEF ListsStart
  <2> HIDE DEF path
  <2>4. StartsWith(Append(index_tables_, path), "index")
    BY <1>2, <2>1, <2>2, <2>3, StartsLonger DEF len
  <2> QED BY <1>1, <2>4 DEF path
<1>7. ListsEnd' /\ ListsFit' /\ ListsStart' /\ (Clean' => Clean)
  BY <1>1, <1>5, <1>6, ListsKept
<1>8. OpenedInv'
  <2>1. len >= at /\ \A j \in 1..at : index_tables_[len - at + j] = index_table_paths_[j]
    BY <1>1 DEF OpenedInv, EndsWithPaths, len
  <2>2. at + 1 <= Len(index_table_paths_) /\ len + 1 >= at + 1 /\ len + 1 - (at + 1) = len - at
    BY <1>1, <1>2, <2>1
  <2>3. ASSUME NEW j \in 1 .. at + 1 PROVE index_tables_'[len - at + j] = index_table_paths_[j]
    <3>1. CASE j = at + 1
      <4>1. len - at + j = len + 1
        BY <1>2, <3>1
      <4> QED BY <1>3, <3>1, <4>1
    <3>2. CASE j # at + 1
      <4>1. j \in 1..at
        BY <1>2, <3>2
      <4>2. len - at + j \in 1..len
        BY <1>2, <2>1, <4>1
      <4> QED BY <1>3, <2>1, <4>1, <4>2
    <3> QED BY <3>1, <3>2
  <2>4. EndsWithPaths(at)'
    <3>1. Len(index_tables_') = len + 1 /\ at' = at + 1
      BY <1>1, <1>3
    <3>2. Len(index_tables_') >= at' /\ Len(index_tables_') - at' = len - at
      BY <1>2, <2>2, <3>1
    <3>3. \A j \in 1..at' : index_tables_'[len - at + j] = index_table_paths_'[j]
      BY <1>1, <2>3, <3>1
    <3> QED BY <3>2, <3>3 DEF EndsWithPaths
  <2> QED BY <1>1, <2>2, <2>4 DEF OpenedInv
<1>9. OpenedFit'
  <2>1. SUFFICES ASSUME Clean' PROVE /\ len + 1 <= Len(index_table_paths_) /\ len = at
                                     /\ \A j \in 1 .. len + 1 : index_tables_'[j] = index_table_paths_[j]
    BY <1>1, <1>3 DEF OpenedFit
  <2>2. /\ len = at \/ (len = Len(index_table_paths_) /\ at = 0)
        /\ \A j \in 1..len : index_tables_[j] = index_table_paths_[j]
    BY <1>1, <1>7, <2>1 DEF OpenedFit, len
  <2>3. len = at
    BY <1>1, <1>2, <2>2 DEF Due, len
  <2>4. ASSUME NEW j \in 1 .. len + 1 PROVE index_tables_'[j] = index_table_paths_[j]
    <3>1. CASE j = len + 1
      BY <1>3, <2>3, <3>1
    <3>2. CASE j # len + 1
      <4>1. j \in 1..len
        BY <1>2, <3>2
      <4> QED BY <1>3, <2>2, <4>1
    <3> QED BY <3>1, <3>2
  <2>5. len + 1 <= Len(index_table_paths_)
    BY <1>1, <1>2, <2>3
  <2> QED BY <2>3, <2>4, <2>5
<1>10. NumbersTell'
  <2>1. at' # 0 /\ doing' = "IndexTables"
    BY <1>1, <1>2
  <2> QED BY <2>1 DEF NumbersTell
<1> QED BY <1>4, <1>7, <1>8, <1>9, <1>10 DEF LoadInv

(* IndexTables() returns, because all paths were opened or because there   *)
(* are as many tables as paths.                                            *)
LEMMA LoadReturns ==
  ASSUME LoadInv, IndexTablesReturns
  PROVE  LoadInv'
<1>1. /\ LoadTypes /\ ListsEnd /\ OpenedInv /\ OpenedFit /\ NumbersTell
      /\ doing = "IndexTables" /\ doing' = "running" /\ loaded_
      /\ Due => at = Len(index_table_paths_)
      /\ UNCHANGED <<file, summary_tables, summary_override_tables, index_table_paths_>>
      /\ index_tables_' = index_tables_
      /\ loaded_' = loaded_ /\ at' = at /\ failures' = failures
  BY DEF LoadInv, IndexTablesReturns, OpenedInv, tables
<1>2. LoadTypes'
  BY <1>1 DEF LoadTypes
<1>3. LinesRead' = LinesRead /\ failures' >= failures /\ failures' \in Nat
  BY <1>1 DEF LinesRead, LoadTypes
<1>4. ListsEnd' /\ ListsFit' /\ ListsStart' /\ (Clean' => Clean)
  BY <1>1, <1>3, ListsKept
<1>5. /\ at \in Nat /\ Len(index_table_paths_) \in Nat /\ Len(index_tables_) \in Nat
  BY <1>1, LenProperties DEF LoadTypes
<1>6. OpenedInv'
  BY <1>1 DEF OpenedInv
<1>7. OpenedFit'
  <2>1. ASSUME Clean PROVE Len(index_tables_) = Len(index_table_paths_)
    <3>1. CASE Due
      BY <1>1, <1>5, <2>1, <3>1 DEF OpenedFit
    <3>2. CASE ~Due
      BY <3>2 DEF Due
    <3> QED BY <3>1, <3>2
  <2> QED BY <1>1, <1>4, <2>1 DEF OpenedFit
<1>8. MaxFailures <= 1 => Complete
  <2>1. CASE Due
    BY <1>1, <2>1 DEF OpenedInv, Complete
  <2>2. CASE ~Due
    <3>1. at = 0 /\ Len(index_tables_) = Len(index_table_paths_)
      BY <1>5, <2>2 DEF Due
    <3>2. ~(Len(index_tables_) < Len(index_table_paths_))
      BY <1>5, <3>1
    <3> QED BY <1>1, <3>1, <3>2 DEF NumbersTell
  <2> QED BY <2>1, <2>2
<1>9. NumbersTell'
  BY <1>1, <1>8 DEF NumbersTell, Complete, EndsWithPaths
<1> QED BY <1>2, <1>4, <1>6, <1>7, <1>9 DEF LoadInv

(* A table cannot be opened.                                               *)
LEMMA LoadOpenFails ==
  ASSUME SchemaAssumption, LoadInv, OpenFails
  PROVE  LoadInv'
<1>1. /\ LoadTypes /\ ListsEnd /\ OpenedInv /\ OpenedFit /\ Throw
      /\ failures < MaxFailures /\ failures' = failures + 1
      /\ \/ doing = "Load"
         \/ doing = "IndexTables" /\ Due /\ at < Len(index_table_paths_)
      /\ UNCHANGED <<file, summary_tables, summary_override_tables, index_table_paths_>>
      /\ index_tables_' = index_tables_ /\ loaded_' = loaded_
  BY DEF LoadInv, OpenFails, tables
<1>2. /\ failures' \in Nat /\ failures' >= failures /\ failures' # 0
      /\ failures \in Nat /\ MaxFailures \in Nat
      /\ at \in Nat /\ Len(index_table_paths_) \in Nat /\ Len(index_tables_) \in Nat
  BY <1>1, LenProperties DEF LoadTypes, SchemaAssumption
<1>3. ~Clean'
  BY <1>2 DEF Clean
<1>4. CASE doing = "Load"
  BY <1>1, <1>2, <1>3, <1>4, LoadFails
<1>5. CASE doing = "IndexTables" /\ Due /\ at < Len(index_table_paths_)
  <2>1. loaded_ /\ doing' = "idle" /\ at' = 0
    BY <1>1, <1>5 DEF OpenedInv, Throw
  <2>2. LoadTypes'
    BY <1>1, <1>2, <2>1 DEF LoadTypes
  <2>3. LinesRead' = LinesRead
    BY <1>1, <1>5, <2>1 DEF LinesRead
  <2>4. ListsEnd' /\ ListsFit' /\ ListsStart'
    BY <1>1, <1>2, <2>3, ListsKept
  <2>5. OpenedInv'
    BY <1>1, <2>1 DEF OpenedInv
  <2>6. OpenedFit'
    BY <1>3 DEF OpenedFit
  <2>7. ASSUME MaxFailures <= 1 PROVE Len(index_tables_) < Len(index_table_paths_)
    <3>1. failures = 0
      BY <1>1, <1>2, <2>7
    <3>2. Clean
      BY <1>1, <1>5, <2>1, <3>1 DEF Clean, ListsEnd, LinesRead
    <3>3. \/ Len(index_tables_) = at
          \/ Len(index_tables_) = Len(index_table_paths_) /\ at = 0
      BY <1>1, <1>5, <3>2 DEF OpenedFit
    <3>4. Len(index_tables_) = at
      BY <1>2, <1>5, <3>3 DEF Due
    <3> QED BY <1>2, <1>5, <3>4
  <2>8. NumbersTell'
    BY <1>1, <2>1, <2>7 DEF NumbersTell
  <2> QED BY <2>2, <2>4, <2>5, <2>6, <2>8 DEF LoadInv
<1> QED BY <1>1, <1>4, <1>5

(* The invariant of the schema.                                            *)
THEOREM SchemaInvariant ==
  LoadSpec => []LoadInv
<1>1. LoadInit => LoadInv
  <2>1. SUFFICES ASSUME LoadInit PROVE LoadInv
    OBVIOUS
  <2>2. /\ file \in SchemaFiles /\ summary_tables = <<>> /\ summary_override_tables = <<>>
        /\ index_table_paths_ = <<>> /\ index_tables_ = <<>>
        /\ loaded_ = FALSE /\ doing = "idle" /\ at = 0 /\ failures = 0
    BY <2>1 DEF LoadInit
  <2>3. LoadTypes
    <3>1. file \in Seq([type : STRING, path : Nat])
      BY <2>2, SchemaAssumption DEF SchemaAssumption
    <3>2. /\ summary_tables \in Seq(Nat) /\ summary_override_tables \in Seq(Nat)
          /\ index_table_paths_ \in Seq(Nat) /\ index_tables_ \in Seq(Nat)
      BY <2>2
    <3>3. at \in Nat /\ failures \in Nat
      BY <2>2
    <3>4. loaded_ \in BOOLEAN /\ doing \in {"idle", "Load", "IndexTables", "running"}
      BY <2>2
    <3> QED BY <3>1, <3>2, <3>3, <3>4 DEF LoadTypes
  <2>4. LinesRead = 0
    BY <2>2 DEF LinesRead
  <2>5. ListsEnd
    <3>1. /\ EndsWith(summary_tables, "summary", 0) /\ EndsWith(index_table_paths_, "index", 0)
          /\ EndsWith(summary_override_tables, "summary-override", 0)
      BY <2>3, EndsStart DEF LoadTypes
    <3>2. 0 <= Len(file) /\ Known(0)
      BY <2>3, LenProperties DEF LoadTypes, Known
    <3> QED BY <2>4, <3>1, <3>2 DEF ListsEnd
  <2>6. ListsFit
    <3>1. \A t : Count(t, 0) = 0
      BY CountFacts
    <3>2. Len(summary_tables) = 0 /\ Len(summary_override_tables) = 0 /\ Len(index_table_paths_) = 0
      BY <2>2
    <3> QED BY <2>4, <3>1, <3>2 DEF ListsFit
  <2>7. ListsStart /\ OpenedInv /\ OpenedFit /\ NumbersTell
    <3>1. Len(index_table_paths_) = 0 /\ Len(index_tables_) = 0
      BY <2>2
    <3>2. Len(summary_tables) = 0 /\ Len(summary_override_tables) = 0
      BY <2>2
    <3>3. ListsStart
      BY <3>1, <3>2 DEF ListsStart, StartsWith
    <3> QED BY <2>2, <3>1, <3>3 DEF OpenedInv, OpenedFit, NumbersTell
  <2> QED BY <2>3, <2>5, <2>6, <2>7 DEF LoadInv
<1>2. LoadInv /\ [LoadNext]_loadVars => LoadInv'
  <2>1. SUFFICES ASSUME LoadInv, [LoadNext]_loadVars PROVE LoadInv'
    OBVIOUS
  <2>2. CASE LoadLine
    BY <2>1, <2>2, LoadReads
  <2>3. CASE Begin \/ EndLoad \/ End
    BY <2>1, <2>3, LoadTurns
  <2>4. CASE OpenIndex
    BY <2>1, <2>4, LoadOpens
  <2>5. CASE IndexTablesReturns
    BY <2>1, <2>5, LoadReturns
  <2>6. CASE OpenFails
    BY <2>1, <2>6, LoadOpenFails, SchemaAssumption
  <2>7. CASE UNCHANGED loadVars
    <3>1. /\ UNCHANGED <<file, summary_tables, summary_override_tables, index_table_paths_>>
          /\ UNCHANGED <<index_tables_, loaded_, doing, at, failures>>
      BY <2>7 DEF loadVars, tables
    <3>2. LinesRead' = LinesRead
      BY <3>1 DEF LinesRead
    <3>3. LoadTypes' /\ failures' >= failures /\ failures' \in Nat
      BY <2>1, <3>1 DEF LoadInv, LoadTypes
    <3>4. ListsEnd' /\ ListsFit' /\ ListsStart' /\ (Clean' => Clean)
      BY <2>1, <3>1, <3>2, <3>3, ListsKept
    <3>5. OpenedInv' /\ NumbersTell'
      BY <2>1, <3>1 DEF LoadInv, OpenedInv, NumbersTell, Complete, EndsWithPaths
    <3>6. OpenedFit'
      BY <2>1, <3>1, <3>4 DEF LoadInv, OpenedFit
    <3> QED BY <3>3, <3>4, <3>5, <3>6 DEF LoadInv
  <2> QED BY <2>1, <2>2, <2>3, <2>4, <2>5, <2>6, <2>7 DEF LoadNext
<1> QED BY <1>1, <1>2, PTL DEF LoadSpec

(* However often opening a table fails, a schema that is loaded has its    *)
(* summary and override tables in the file's order, from the front and at  *)
(* the end; and where nothing failed every table was opened once, in the   *)
(* order of the file.                                                      *)
THEOREM SummariesAnswerAsFile ==
  LoadSpec => [](SummariesAnswer /\ OpenedOnce)
<1>1. LoadInv => SummariesAnswer /\ OpenedOnce
  <2>1. SUFFICES ASSUME LoadInv PROVE SummariesAnswer /\ OpenedOnce
    OBVIOUS
  <2>2. LoadTypes /\ ListsEnd /\ ListsFit /\ ListsStart /\ OpenedInv /\ OpenedFit
    BY <2>1 DEF LoadInv
  <2>3. SummariesAnswer
    <3>1. ASSUME loaded_ PROVE LinesRead = Len(file)
      BY <2>2, <3>1 DEF OpenedInv, LinesRead
    <3> QED BY <2>2, <3>1 DEF SummariesAnswer, AnswersAsFile, ListsEnd, ListsStart
  <2>4. ASSUME failures = 0, doing = "running"
        PROVE  /\ Exactly(summary_tables, "summary")
               /\ Exactly(summary_override_tables, "summary-override")
               /\ Exactly(index_tables_, "index")
    <3>1. loaded_ /\ LinesRead = Len(file)
      BY <2>2, <2>4 DEF OpenedInv, LinesRead
    <3>2. Clean
      BY <2>2, <2>4, <3>1 DEF Clean, ListsEnd
    <3>3. /\ Exactly(summary_tables, "summary")
          /\ Exactly(summary_override_tables, "summary-override")
          /\ Exactly(index_table_paths_, "index")
      BY <2>2, <3>1, <3>2 DEF ListsEnd, ListsFit, Exactly
    <3>4. /\ Len(index_tables_) = Len(index_table_paths_)
          /\ \A j \in 1..Len(index_tables_) : index_tables_[j] = index_table_paths_[j]
      BY <2>2, <2>4, <3>1, <3>2 DEF OpenedFit
    <3>5. index_tables_ = index_table_paths_
      BY <2>2, <3>4, SeqEqual DEF LoadTypes
    <3> QED BY <3>3, <3>5
  <2> QED BY <2>3, <2>4 DEF OpenedOnce
<1> QED BY <1>1, SchemaInvariant, PTL

(* Statements get the answers of a schema that was loaded at once, for any *)
(* schema file and any number of statements, as long as opening a table    *)
(* has failed once at most; with a second failure the numbers of paths and *)
(* tables may agree by accident, and TLC shows that they do.               *)
THEOREM SchemaIsReady ==
  ASSUME MaxFailures <= 1
  PROVE  LoadSpec => []SchemaReady
<1>1. LoadInv => IndexAnswers
  <2>1. SUFFICES ASSUME LoadInv, doing = "running"
        PROVE  EndsWith(index_tables_, "index", Len(file)) /\ StartsWith(index_tables_, "index")
    BY DEF IndexAnswers, AnswersAsFile
  <2>2. LoadTypes /\ ListsEnd /\ ListsStart /\ OpenedInv /\ Complete
    BY <2>1 DEF LoadInv, NumbersTell
  <2>3. LinesRead = Len(file)
    BY <2>1, <2>2 DEF OpenedInv, LinesRead
  <2> DEFINE c == Count("index", Len(file))
             m == Len(index_table_paths_)
             n == Len(index_tables_)
  <2>4. /\ m >= c
        /\ \A k \in 1..Len(file) : file[k].type = "index" =>
             index_table_paths_[m - c + Count("index", k)] = file[k].path
    BY <2>2, <2>3 DEF ListsEnd, EndsWith
  <2>5. /\ m \in Nat /\ n \in Nat /\ Len(file) \in Nat
    BY <2>2, LenProperties DEF LoadTypes
  <2>6. /\ c \in Nat
        /\ \A k \in 1..Len(file) : file[k].type = "index" => Count("index", k) \in 1..c
    BY <2>5, CountFacts
  <2>7. n >= m /\ \A j \in 1..m : index_tables_[n - m + j] = index_table_paths_[j]
    BY <2>2 DEF Complete, EndsWithPaths
  <2> HIDE DEF c, m, n
  <2>8. ASSUME NEW k \in 1..Len(file), file[k].type = "index"
        PROVE  index_tables_[n - c + Count("index", k)] = file[k].path
    <3> DEFINE j == m - c + Count("index", k)
    <3>1. Count("index", k) \in 1..c /\ index_table_paths_[j] = file[k].path
      BY <2>4, <2>6, <2>8
    <3>2. j \in 1..m /\ n - m + j = n - c + Count("index", k)
      BY <2>4, <2>5, <2>6, <3>1
    <3> QED BY <2>7, <3>1, <3>2
  <2>9. n >= c
    BY <2>4, <2>5, <2>6, <2>7
  <2>10. EndsWith(index_tables_, "index", Len(file))
    BY <2>8, <2>9 DEF EndsWith, c, n
  <2> QED BY <2>2, <2>10 DEF ListsStart
<1>2. SummariesAnswer /\ OpenedOnce /\ IndexAnswers => SchemaReady
  BY DEF SchemaReady
<1> QED BY <1>1, <1>2, SchemaInvariant, SummariesAnswerAsFile, PTL
-----------------------------------------------------------------------------
(* SELECT.                                                                 *)

ScoredOffset == [offset : Nat, score : Int]

(* The first c values of a document are those of the first c fields.       *)
HasValues(n, c) ==
  /\ Len(values[n]) = c
  /\ \A f \in 1..c : values[n][f] = Field(fields[f], selection[n].offset)

OutputLine == [table : 1..Len(Bases), row : Int, values : Seq(Seq(Int))]

SelectTypes ==
  /\ Walkable(selection)
  /\ fields \in Seq(Seq(ScoredOffset)) /\ \A f \in 1..Len(fields) : Walkable(fields[f])
  /\ values \in [1..Len(selection) -> Seq(Seq(Int))]
  /\ field \in Nat \ {0} /\ i \in Nat \ {0} /\ vi \in Nat \ {0}
  /\ output \in Seq(OutputLine)
  /\ selectPhase \in {"values", "output", "returned", "thrown"}

(* What the walk has passed is below the documents that are left.          *)
Passed ==
  field <= Len(fields) =>
    /\ vi <= Len(fields[field]) + 1
    /\ \A m \in 1 .. vi - 1, n \in i..Len(selection) :
         fields[field][m].offset < selection[n].offset

WalkInv ==
  /\ output = <<>> /\ field <= Len(fields) + 1 /\ i <= Len(selection) + 1
  /\ field > Len(fields) => i = 1
  /\ \A n \in 1..Len(selection) : HasValues(n, IF n < i THEN field ELSE field - 1)
  /\ Passed

OutputInv ==
  /\ \A n \in 1..Len(selection) : HasValues(n, Len(fields))
  /\ i = Len(output) + 1 /\ Len(output) <= Len(selection)
  /\ \A n \in 1..Len(output) :
       /\ output[n].values = values[n]
       /\ Bases[output[n].table] + output[n].row = selection[n].offset
  /\ selectPhase = "returned" => Len(output) = Len(selection)
  /\ selectPhase = "thrown" =>
       \E n \in 1..Len(selection) : \A t \in 1..Len(Bases) :
         selection[n].offset \notin Bases[t] .. Bases[t] + Sizes[t] - 1

SelectInv ==
  /\ SelectTypes
  /\ selectPhase = "values" => WalkInv
  /\ selectPhase # "values" => OutputInv
-----------------------------------------------------------------------------
(* A predicate that holds for some number holds for a least one.           *)
LEMMA LeastNat ==
  ASSUME NEW T, T \subseteq Nat, T # {}
  PROVE  \E x \in T : \A y \in T : x <= y
<1> DEFINE R == OpToRel(<, Nat)
<1>1. IsWellFoundedOn(R, Nat)
  BY NatLessThanWellFounded
<1>2. PICK x \in T : \A y \in T : ~(<<y, x>> \in R)
  <2> HIDE DEF R
  <2> QED BY <1>1, WFMin
<1>3. ASSUME NEW y \in T PROVE x <= y
  <2>1. x \in Nat /\ y \in Nat
    OBVIOUS
  <2>2. ~(y < x)
    BY <1>2, <2>1 DEF OpToRel
  <2> QED BY <2>1, <2>2
<1> QED BY <1>3

(* Where the walk stops is the value of the field.                         *)
LEMMA WalkFinds ==
  ASSUME NEW list, Walkable(list), NEW x \in Nat, NEW v \in 1 .. Len(list) + 1,
         \A m \in 1 .. v - 1 : list[m].offset < x,
         v <= Len(list) => list[v].offset >= x
  PROVE  ValueAt(list, v, x) = Field(list, x) /\ Field(list, x) \in Seq(Int)
<1>1. /\ list \in Seq(ScoredOffset) /\ Len(list) \in Nat
      /\ \A n, m \in 1..Len(list) : n < m => list[n].offset < list[m].offset
  BY LenProperties DEF Walkable, ScoredOffset
<1>2. ASSUME NEW n \in 1..Len(list) PROVE list[n].offset \in Nat /\ list[n].score \in Int
  <2>1. list[n] \in ScoredOffset
    BY <1>1, ElementOfSeq
  <2> QED BY <2>1 DEF ScoredOffset
<1> DEFINE of == {n \in 1..Len(list) : list[n].offset = x}
<1>3. Field(list, x) = IF of = {} THEN NaN
                       ELSE Value(IF AllZero(list) THEN 1 ELSE list[CHOOSE n \in of : TRUE].score)
  BY DEF Field
<1>4. CASE v > Len(list)
  <2>1. ASSUME NEW n \in 1..Len(list) PROVE list[n].offset # x
    <3>1. n \in 1 .. v - 1
      BY <1>1, <1>4
    <3>2. list[n].offset < x /\ list[n].offset \in Nat
      BY <1>2, <3>1
    <3> QED BY <3>2
  <2>2. of = {}
    BY <2>1
  <2>3. ValueAt(list, v, x) = NaN
    BY <1>4 DEF ValueAt
  <2> QED BY <1>3, <2>2, <2>3 DEF NaN
<1>5. CASE v <= Len(list) /\ list[v].offset > x
  <2>1. ASSUME NEW n \in 1..Len(list) PROVE list[n].offset # x
    <3>1. list[n].offset \in Nat /\ list[v].offset \in Nat /\ v \in 1..Len(list)
      BY <1>1, <1>2, <1>5
    <3>2. CASE n < v
      <4>1. n \in 1 .. v - 1
        BY <1>1, <3>2
      <4> QED BY <3>1, <4>1
    <3>3. CASE n = v
      BY <1>5, <3>1, <3>3
    <3>4. CASE n > v
      <4>1. list[v].offset < list[n].offset
        BY <1>1, <3>1, <3>4
      <4> QED BY <1>5, <3>1, <4>1
    <3> QED BY <1>1, <3>1, <3>2, <3>3, <3>4
  <2>2. of = {}
    BY <2>1
  <2>3. ValueAt(list, v, x) = NaN
    BY <1>5 DEF ValueAt
  <2> QED BY <1>3, <2>2, <2>3 DEF NaN
<1>6. CASE v <= Len(list) /\ ~(list[v].offset > x)
  <2>1. v \in 1..Len(list) /\ list[v].offset \in Nat
    BY <1>1, <1>2, <1>6
  <2>2. list[v].offset >= x
    BY <2>1
  <2>3. list[v].offset = x
    BY <1>6, <2>1, <2>2
  <2>4. ASSUME NEW n \in of PROVE n = v
    <3>1. n \in 1..Len(list) /\ list[n].offset = x
      OBVIOUS
    <3>2. ~(n < v) /\ ~(v < n)
      <4>1. \A a \in Nat : ~(a < a)
        OBVIOUS
      <4> QED BY <1>1, <2>1, <2>3, <3>1, <4>1
    <3> QED BY <1>1, <2>1, <3>1, <3>2
  <2>5. of = {v}
    BY <2>1, <2>3, <2>4
  <2>6. (CHOOSE n \in of : TRUE) = v
    BY <2>5
  <2>7. ~(v > Len(list))
    BY <1>1, <2>1
  <2>8. ValueAt(list, v, x) = Value(IF AllZero(list) THEN 1 ELSE list[v].score)
    BY <1>6, <2>7 DEF ValueAt
  <2>9. list[v].score \in Int
    BY <1>2, <2>1
  <2> HIDE DEF of
  <2>10. Field(list, x) = Value(IF AllZero(list) THEN 1 ELSE list[v].score)
    BY <1>3, <2>5, <2>6
  <2> DEFINE score == IF AllZero(list) THEN 1 ELSE list[v].score
  <2>11. score \in Int
    BY <2>9
  <2>12. ValueAt(list, v, x) = Value(score) /\ Field(list, x) = Value(score)
    BY <2>8, <2>10
  <2> HIDE DEF score
  <2>13. Value(score) \in Seq(Int)
    BY <2>11 DEF Value
  <2> QED BY <2>12, <2>13
<1> QED BY <1>1, <1>4, <1>5, <1>6

(* Every address is looked up in a table.                                  *)
LEMMA TableFacts ==
  ASSUME SelectAssumption, NEW x \in Nat
  PROVE  /\ TableOf(x) \in 1..Len(Bases)
         /\ \A t \in 1..Len(Bases) :
              x \in Bases[t] .. Bases[t] + Sizes[t] - 1 => TableOf(x) = t
<1>1. /\ Len(Bases) \in Nat /\ Len(Bases) > 0
      /\ \A t \in 1..Len(Bases) : Bases[t] \in Nat /\ Sizes[t] \in Nat
      /\ \A t, u \in 1..Len(Bases) : t < u => Bases[t] + Sizes[t] <= Bases[u]
  BY LenProperties, ElementOfSeq DEF SelectAssumption
<1> DEFINE below == {t \in 2..Len(Bases) : Bases[t] <= x}
<1>2. TableOf(x) = IF below = {} THEN 1 ELSE CHOOSE t \in below : \A u \in below : u <= t
  BY DEF TableOf
<1>3. ASSUME below # {} PROVE \E t \in below : \A u \in below : u <= t
  <2> DEFINE S == {Len(Bases) - t : t \in below}
  <2>1. \A t \in below : Len(Bases) - t \in Nat
    BY <1>1
  <2>2. S \in SUBSET Nat /\ S # {}
    <3> HIDE DEF below
    <3> QED BY <1>3, <2>1
  <2>3. PICK n \in S : \A m \in S : n <= m
    BY <2>2, LeastNat
  <2>4. PICK t \in below : n = Len(Bases) - t
    BY <2>3
  <2>5. ASSUME NEW u \in below PROVE u <= t
    <3>1. Len(Bases) - t <= Len(Bases) - u
      BY <2>3, <2>4
    <3>2. t \in Nat /\ u \in Nat
      BY <1>1
    <3> QED BY <1>1, <3>1, <3>2
  <2> QED BY <2>4, <2>5
<1>4. TableOf(x) \in 1..Len(Bases)
  <2>1. CASE below = {}
    BY <1>1, <1>2, <2>1
  <2>2. CASE below # {}
    <3>1. (CHOOSE t \in below : \A u \in below : u <= t) \in below
      BY <1>3, <2>2
    <3>2. below \subseteq 1..Len(Bases)
      BY <1>1
    <3> HIDE DEF below
    <3> QED BY <1>2, <2>2, <3>1, <3>2
  <2> QED BY <2>1, <2>2
<1>5. ASSUME NEW t \in 1..Len(Bases), x \in Bases[t] .. Bases[t] + Sizes[t] - 1
      PROVE  TableOf(x) = t
  <2>1. Bases[t] \in Nat /\ Sizes[t] \in Nat /\ Bases[t] <= x /\ x < Bases[t] + Sizes[t]
    BY <1>1, <1>5
  <2>2. ASSUME NEW u \in below PROVE u <= t
    <3>1. SUFFICES ASSUME t < u PROVE FALSE
      BY <1>1
    <3>2. u \in 1..Len(Bases) /\ Bases[u] \in Nat /\ Bases[u] <= x
      BY <1>1
    <3>3. Bases[t] + Sizes[t] <= Bases[u]
      BY <1>1, <3>1, <3>2
    <3> QED BY <2>1, <3>2, <3>3
  <2>3. CASE t = 1
    <3>1. below = {}
      BY <1>1, <2>2, <2>3
    <3> QED BY <1>2, <2>3, <3>1
  <2>4. CASE t # 1
    <3>1. t \in below
      BY <1>1, <2>1, <2>4
    <3>2. below \subseteq Nat
      BY <1>1
    <3> HIDE DEF below
    <3>3. ASSUME NEW w \in below, \A u \in below : u <= w PROVE w = t
      <4>1. t <= w /\ w <= t /\ w \in Nat /\ t \in Nat
        BY <2>2, <3>1, <3>2, <3>3
      <4> QED BY <4>1
    <3>4. (CHOOSE w \in below : \A u \in below : u <= w) = t
      BY <2>2, <3>1, <3>3
    <3> QED BY <1>2, <3>1, <3>4
  <2> QED BY <2>3, <2>4
<1> QED BY <1>4, <1>5

(* A value is added to a document.                                         *)
LEMMA SelectAdds ==
  ASSUME SelectInv, AddValue
  PROVE  SelectInv'
<1>1. SelectTypes /\ WalkInv /\ selectPhase = "values"
  BY DEF SelectInv, AddValue
<1>2. /\ field \in Nat /\ i \in Nat /\ vi \in Nat /\ field > 0 /\ i > 0 /\ vi > 0
      /\ Len(selection) \in Nat /\ Len(fields) \in Nat
      /\ field \in 1..Len(fields) /\ i \in 1..Len(selection)
      /\ values \in [1..Len(selection) -> Seq(Seq(Int))]
  BY <1>1, LenProperties DEF SelectTypes, AddValue, Walkable
<1> DEFINE list == fields[field]
           x == selection[i].offset
<1>3. Walkable(list) /\ Len(list) \in Nat
  <2>1. Walkable(list)
    BY <1>1, <1>2 DEF SelectTypes
  <2> QED BY <2>1, LenProperties DEF Walkable
<1>4. \A n \in 1..Len(selection) : selection[n].offset \in Nat
  <2>1. selection \in Seq(ScoredOffset)
    BY <1>1 DEF SelectTypes, Walkable, ScoredOffset
  <2>2. \A n \in 1..Len(selection) : selection[n] \in ScoredOffset
    BY <2>1, ElementOfSeq
  <2> QED BY <2>2 DEF ScoredOffset
<1>5. PICK v \in vi .. Len(list) + 1 :
        /\ StopsAt(list, v, x)
        /\ vi' = v
        /\ values' = [values EXCEPT ![i] = Append(@, ValueAt(list, v, x))]
  BY DEF AddValue
<1>6. i' = i + 1 /\ UNCHANGED <<selection, fields, field, output, selectPhase>>
  BY DEF AddValue
<1>7. v \in Nat /\ v > 0 /\ v \in 1 .. Len(list) + 1 /\ vi <= v
  BY <1>2, <1>3
<1>8. \A m \in 1 .. v - 1 : list[m].offset < x
  <2>1. ASSUME NEW m \in 1 .. v - 1 PROVE list[m].offset < x
    <3>1. CASE m < vi
      <4>1. m \in 1 .. vi - 1 /\ i \in i..Len(selection) /\ field <= Len(fields)
        BY <1>2, <1>7, <3>1
      <4> QED BY <1>1, <4>1 DEF WalkInv, Passed
    <3>2. CASE ~(m < vi)
      <4>1. m \in vi .. v - 1
        BY <1>2, <1>7, <3>2
      <4> QED BY <1>5, <4>1 DEF StopsAt
    <3> QED BY <3>1, <3>2
  <2> QED BY <2>1
<1> DEFINE new == ValueAt(list, v, x)
<1>9. new = Field(list, x) /\ new \in Seq(Int)
  <2>1. x \in Nat
    BY <1>2, <1>4
  <2>2. v <= Len(list) => list[v].offset >= x
    BY <1>5 DEF StopsAt
  <2> HIDE DEF list, x
  <2>3. ValueAt(list, v, x) = Field(list, x) /\ Field(list, x) \in Seq(Int)
    BY <1>3, <1>7, <1>8, <2>1, <2>2, WalkFinds
  <2> QED BY <2>3
<1>10. HasValues(i, field - 1)
  <2>1. ~(i < i)
    BY <1>2
  <2>2. HasValues(i, IF i < i THEN field ELSE field - 1)
    BY <1>1, <1>2 DEF WalkInv
  <2> QED BY <2>1, <2>2
<1>11. /\ values[i] \in Seq(Seq(Int)) /\ Len(values[i]) = field - 1
       /\ Len(Append(values[i], new)) = field
       /\ \A f \in 1 .. field - 1 : Append(values[i], new)[f] = values[i][f]
       /\ Append(values[i], new)[field] = new
       /\ Append(values[i], new) \in Seq(Seq(Int))
  <2>1. values[i] \in Seq(Seq(Int)) /\ Len(values[i]) = field - 1
    BY <1>2, <1>10 DEF HasValues
  <2> HIDE DEF new
  <2>2. field - 1 + 1 = field
    BY <1>2
  <2> QED BY <1>9, <2>1, <2>2, AppendProperties
<1>12. /\ values' \in [1..Len(selection) -> Seq(Seq(Int))]
       /\ values'[i] = Append(values[i], new)
       /\ \A n \in 1..Len(selection) : n # i => values'[n] = values[n]
  <2> HIDE DEF new
  <2>1. values' = [values EXCEPT ![i] = Append(values[i], new)]
    BY <1>5 DEF new
  <2> QED BY <1>2, <1>11, <2>1
<1>13. SelectTypes'
  <2>1. i' \in Nat \ {0} /\ vi' \in Nat \ {0}
    BY <1>2, <1>5, <1>6, <1>7
  <2>2. values' \in [1..Len(selection') -> Seq(Seq(Int))]
    BY <1>6, <1>12
  <2> QED BY <1>1, <1>6, <2>1, <2>2 DEF SelectTypes, Walkable
<1> HIDE DEF new
<1>14. ASSUME NEW n \in 1..Len(selection')
       PROVE  HasValues(n, IF n < i THEN field ELSE field - 1)'
  <2>1. CASE n = i
    <3>1. n < i'
      BY <1>2, <1>6, <2>1
    <3>2. ASSUME NEW f \in 1..field PROVE values'[n][f] = Field(fields[f], selection[n].offset)
      <4>1. CASE f = field
        BY <1>9, <1>11, <1>12, <2>1, <4>1
      <4>2. CASE f # field
        <5>1. f \in 1 .. field - 1
          BY <1>2, <4>2
        <5>2. values[i][f] = Field(fields[f], selection[i].offset)
          BY <1>10, <5>1 DEF HasValues
        <5> QED BY <1>11, <1>12, <2>1, <5>1, <5>2
      <4> QED BY <4>1, <4>2
    <3>3. Len(values'[n]) = field
      BY <1>11, <1>12, <2>1
    <3> QED BY <1>6, <3>1, <3>2, <3>3 DEF HasValues
  <2>2. CASE n # i
    <3>1. n \in 1..Len(selection) /\ values'[n] = values[n]
      BY <1>6, <1>12, <2>2
    <3>2. (n < i') <=> (n < i)
      BY <1>2, <1>6, <2>2, <3>1
    <3>3. HasValues(n, IF n < i THEN field ELSE field - 1)
      BY <1>1, <3>1 DEF WalkInv
    <3> QED BY <1>6, <3>1, <3>2, <3>3 DEF HasValues
  <2> QED BY <2>1, <2>2
<1>15. Passed'
  <2>1. vi' <= Len(list) + 1
    BY <1>3, <1>5, <1>7
  <2>2. ASSUME NEW m \in 1 .. v - 1, NEW n \in i + 1 .. Len(selection)
        PROVE  list[m].offset < selection[n].offset
    <3>1. /\ list[m].offset < x /\ n \in 1..Len(selection) /\ i < n
          /\ m \in 1..Len(list)
      BY <1>2, <1>3, <1>7, <1>8
    <3>2. x < selection[n].offset
      BY <1>1, <1>2, <3>1 DEF SelectTypes, Walkable
    <3>3. x \in Nat /\ selection[n].offset \in Nat
      BY <1>2, <1>4, <3>1
    <3>4. list[m].offset \in Nat
      <4>1. list \in Seq(ScoredOffset)
        BY <1>3 DEF Walkable, ScoredOffset
      <4>2. list[m] \in ScoredOffset
        BY <3>1, <4>1, ElementOfSeq
      <4> QED BY <4>2 DEF ScoredOffset
    <3> HIDE DEF list, x
    <3> QED BY <3>1, <3>2, <3>3, <3>4
  <2> QED BY <1>5, <1>6, <2>1, <2>2 DEF Passed
<1>16. WalkInv'
  <2>1. output' = <<>> /\ field' <= Len(fields') + 1
    BY <1>1, <1>6 DEF WalkInv
  <2>2. i' <= Len(selection') + 1 /\ ~(field' > Len(fields'))
    BY <1>2, <1>6
  <2> QED BY <1>14, <1>15, <2>1, <2>2 DEF WalkInv
<1> QED BY <1>1, <1>6, <1>13, <1>16 DEF SelectInv

(* The next field, and the first document to print.                        *)
LEMMA SelectGoesOn ==
  ASSUME SelectInv, NextField \/ StartOutput
  PROVE  SelectInv'
<1>1. SelectTypes /\ WalkInv /\ selectPhase = "values"
  BY DEF SelectInv, NextField, StartOutput
<1>2. /\ field \in Nat /\ i \in Nat /\ field > 0
      /\ Len(selection) \in Nat /\ Len(fields) \in Nat
  BY <1>1, LenProperties DEF SelectTypes, Walkable
<1>3. CASE NextField
  <2>1. /\ field <= Len(fields) /\ i > Len(selection)
        /\ field' = field + 1 /\ i' = 1 /\ vi' = 1
        /\ UNCHANGED <<selection, fields, values, output, selectPhase>>
    BY <1>3 DEF NextField
  <2>2. SelectTypes'
    BY <1>1, <1>2, <2>1 DEF SelectTypes, Walkable
  <2>3. ASSUME NEW n \in 1..Len(selection')
        PROVE  HasValues(n, IF n < i THEN field ELSE field - 1)'
    <3>1. n \in 1..Len(selection) /\ n < i /\ ~(n < i') /\ field' - 1 = field
      BY <1>2, <2>1
    <3>2. HasValues(n, IF n < i THEN field ELSE field - 1)
      BY <1>1, <3>1 DEF WalkInv
    <3>3. HasValues(n, field)
      BY <3>1, <3>2
    <3> QED BY <2>1, <3>1, <3>3 DEF HasValues
  <2>4. Passed'
    <3>1. 1 .. vi' - 1 = {} /\ vi' = 1
      BY <2>1
    <3>2. ASSUME field' <= Len(fields') PROVE vi' <= Len(fields'[field']) + 1
      <4>1. field' \in 1..Len(fields')
        BY <1>2, <2>1, <3>2
      <4>2. Len(fields'[field']) \in Nat
        BY <2>2, <4>1, LenProperties DEF SelectTypes, Walkable
      <4> QED BY <2>1, <4>2
    <3> QED BY <3>1, <3>2 DEF Passed
  <2>5. WalkInv'
    <3>1. output' = <<>>
      BY <1>1, <2>1 DEF WalkInv
    <3>2. field' <= Len(fields') + 1 /\ i' <= Len(selection') + 1 /\ i' = 1
      BY <1>2, <2>1
    <3> QED BY <2>3, <2>4, <3>1, <3>2 DEF WalkInv
  <2> QED BY <1>1, <2>1, <2>2, <2>5 DEF SelectInv
<1>4. CASE StartOutput
  <2>1. /\ field > Len(fields) /\ selectPhase' = "output" /\ i' = 1
        /\ UNCHANGED <<selection, fields, values, field, vi, output>>
    BY <1>4 DEF StartOutput
  <2>2. SelectTypes'
    BY <1>1, <2>1 DEF SelectTypes, Walkable
  <2>3. i = 1 /\ field = Len(fields) + 1 /\ output = <<>>
    BY <1>1, <1>2, <2>1 DEF WalkInv
  <2>4. ASSUME NEW n \in 1..Len(selection') PROVE HasValues(n, Len(fields))'
    <3>1. n \in 1..Len(selection) /\ ~(n < i) /\ field - 1 = Len(fields)
      BY <1>2, <2>1, <2>3
    <3>2. HasValues(n, IF n < i THEN field ELSE field - 1)
      BY <1>1, <3>1 DEF WalkInv
    <3>3. HasValues(n, Len(fields))
      BY <3>1, <3>2
    <3> QED BY <2>1, <3>3 DEF HasValues
  <2>5. Len(output') = 0 /\ i' = Len(output') + 1 /\ Len(output') <= Len(selection')
    BY <1>2, <2>1, <2>3
  <2>6. OutputInv'
    BY <2>1, <2>4, <2>5 DEF OutputInv
  <2> QED BY <2>1, <2>2, <2>6 DEF SelectInv
<1> QED BY <1>3, <1>4

(* A line is printed, or its document is not in the table.                 *)
LEMMA SelectPrints ==
  ASSUME SelectAssumption, SelectInv, PrintRow
  PROVE  SelectInv'
<1>1. /\ SelectTypes /\ OutputInv /\ selectPhase = "output" /\ i <= Len(selection)
      /\ UNCHANGED <<selection, fields, values, field, vi>>
  BY DEF SelectInv, PrintRow
<1>2. /\ i \in 1..Len(selection) /\ Len(selection) \in Nat /\ i \in Nat
      /\ output \in Seq(OutputLine) /\ Len(output) \in Nat
      /\ values \in [1..Len(selection) -> Seq(Seq(Int))]
  BY <1>1, LenProperties DEF SelectTypes, Walkable
<1> DEFINE x == selection[i].offset
           line == [table |-> TableOf(x), row |-> Within(x), values |-> values[i]]
<1>3. x \in Nat
  <2>1. selection \in Seq(ScoredOffset)
    BY <1>1 DEF SelectTypes, Walkable, ScoredOffset
  <2>2. selection[i] \in ScoredOffset
    BY <1>2, <2>1, ElementOfSeq
  <2> QED BY <2>2 DEF ScoredOffset
<1>4. /\ TableOf(x) \in 1..Len(Bases)
      /\ \A t \in 1..Len(Bases) :
           x \in Bases[t] .. Bases[t] + Sizes[t] - 1 => TableOf(x) = t
  BY <1>3, TableFacts
<1>5. /\ Bases[TableOf(x)] \in Nat /\ Sizes[TableOf(x)] \in Nat
      /\ Within(x) = x - Bases[TableOf(x)]
  BY <1>4, ElementOfSeq DEF SelectAssumption, Within
<1>6. line \in OutputLine
  <2>1. Within(x) \in Int
    BY <1>3, <1>5
  <2>2. values[i] \in Seq(Seq(Int))
    BY <1>2
  <2> HIDE DEF x
  <2> QED BY <1>4, <2>1, <2>2 DEF OutputLine
<1>7. CASE Within(x) \in 0 .. Sizes[TableOf(x)] - 1
  <2>1. output' = Append(output, line) /\ i' = i + 1 /\ selectPhase' = selectPhase
    BY <1>7 DEF PrintRow
  <2>2. line.values = values[i] /\ line.table = TableOf(x) /\ line.row = Within(x)
    OBVIOUS
  <2>3. Bases[line.table] + line.row = x
    BY <1>3, <1>5, <2>2
  <2> HIDE DEF line
  <2>4. /\ output' \in Seq(OutputLine) /\ Len(output') = Len(output) + 1
        /\ \A n \in 1..Len(output) : output'[n] = output[n]
        /\ output'[Len(output) + 1] = line
    BY <1>2, <1>6, <2>1, AppendProperties
  <2>5. i = Len(output) + 1 /\ i' = Len(output') + 1 /\ Len(output') <= Len(selection')
    <3>1. i = Len(output) + 1
      BY <1>1 DEF OutputInv
    <3> QED BY <1>1, <1>2, <2>1, <2>4, <3>1
  <2>6. SelectTypes'
    <3>1. i' \in Nat \ {0}
      BY <1>2, <2>1
    <3>2. Walkable(selection)' /\ \A f \in 1..Len(fields') : Walkable(fields[f])'
      BY <1>1 DEF SelectTypes, Walkable
    <3>3. output' \in Seq(OutputLine)
      BY <2>4
    <3> QED BY <1>1, <2>1, <3>1, <3>2, <3>3 DEF SelectTypes, OutputLine
  <2>7. ASSUME NEW n \in 1..Len(output')
        PROVE  /\ output'[n].values = values'[n]
               /\ Bases[output'[n].table] + output'[n].row = selection'[n].offset
    <3>1. CASE n = i
      BY <1>1, <2>2, <2>3, <2>4, <2>5, <3>1
    <3>2. CASE n # i
      <4>1. n \in 1..Len(output)
        BY <1>2, <2>4, <2>5, <3>2
      <4>2. /\ output[n].values = values[n]
            /\ Bases[output[n].table] + output[n].row = selection[n].offset
        BY <1>1, <4>1 DEF OutputInv
      <4> QED BY <1>1, <2>4, <4>1, <4>2
    <3> QED BY <3>1, <3>2
  <2>8. \A n \in 1..Len(selection') : HasValues(n, Len(fields))'
    BY <1>1 DEF OutputInv, HasValues
  <2>9. OutputInv'
    BY <1>1, <2>1, <2>5, <2>7, <2>8 DEF OutputInv
  <2> QED BY <1>1, <2>1, <2>6, <2>9 DEF SelectInv
<1>8. CASE ~(Within(x) \in 0 .. Sizes[TableOf(x)] - 1)
  <2>1. selectPhase' = "thrown" /\ UNCHANGED <<output, i>>
    BY <1>8 DEF PrintRow
  <2>2. ASSUME NEW t \in 1..Len(Bases), x \in Bases[t] .. Bases[t] + Sizes[t] - 1
        PROVE  FALSE
    <3>1. t = TableOf(x)
      BY <1>4, <2>2
    <3>2. x \in Bases[TableOf(x)] .. Bases[TableOf(x)] + Sizes[TableOf(x)] - 1
      BY <2>2, <3>1
    <3> HIDE DEF x, line
    <3>3. \A w, y, z \in Nat : w \in y .. y + z - 1 => w - y \in 0 .. z - 1
      OBVIOUS
    <3> QED BY <1>3, <1>5, <1>8, <3>2, <3>3
  <2>3. SelectTypes'
    BY <1>1, <2>1 DEF SelectTypes, Walkable
  <2>4. OutputInv'
    <3>1. \E n \in 1..Len(selection) : \A t \in 1..Len(Bases) :
            selection[n].offset \notin Bases[t] .. Bases[t] + Sizes[t] - 1
      BY <1>2, <2>2
    <3> QED BY <1>1, <2>1, <3>1 DEF OutputInv, HasValues
  <2> QED BY <2>1, <2>3, <2>4 DEF SelectInv
<1> QED BY <1>7, <1>8

(* The invariant of SELECT.                                                *)
THEOREM SelectInvariant ==
  SelectSpec => []SelectInv
<1>1. SelectInit => SelectInv
  <2>1. SUFFICES ASSUME SelectInit PROVE SelectInv
    OBVIOUS
  <2>2. /\ selection \in Selections /\ fields \in FieldLists
        /\ values = [n \in 1..Len(selection) |-> <<>>]
        /\ field = 1 /\ i = 1 /\ vi = 1 /\ output = <<>> /\ selectPhase = "values"
    BY <2>1 DEF SelectInit
  <2>3. /\ Walkable(selection) /\ fields \in Seq(Seq(ScoredOffset))
        /\ \A f \in 1..Len(fields) : Walkable(fields[f])
    BY <2>2, SelectAssumption DEF SelectAssumption, ScoredOffset
  <2>4. Len(selection) \in Nat /\ Len(fields) \in Nat
    BY <2>3, LenProperties DEF Walkable
  <2>5. values \in [1..Len(selection) -> Seq(Seq(Int))]
    BY <2>2
  <2>6. output \in Seq(OutputLine)
    BY <2>2
  <2>7. SelectTypes
    BY <2>2, <2>3, <2>5, <2>6 DEF SelectTypes
  <2>8. ASSUME NEW n \in 1..Len(selection)
        PROVE  HasValues(n, IF n < i THEN field ELSE field - 1)
    <3>1. ~(n < i) /\ field - 1 = 0 /\ Len(values[n]) = 0 /\ 1..0 = {}
      BY <2>2, <2>4
    <3> QED BY <3>1 DEF HasValues
  <2>9. Passed
    <3>1. vi = 1 /\ 1 .. vi - 1 = {}
      BY <2>2
    <3>2. ASSUME field <= Len(fields) PROVE vi <= Len(fields[field]) + 1
      <4>1. field \in 1..Len(fields)
        BY <2>2, <2>4, <3>2
      <4>2. Len(fields[field]) \in Nat
        BY <2>3, <4>1, LenProperties DEF Walkable
      <4> QED BY <2>2, <4>2
    <3> QED BY <3>1, <3>2 DEF Passed
  <2>10. WalkInv
    <3>1. field <= Len(fields) + 1 /\ i <= Len(selection) + 1 /\ i = 1 /\ output = <<>>
      BY <2>2, <2>4
    <3> QED BY <2>8, <2>9, <3>1 DEF WalkInv
  <2> QED BY <2>2, <2>7, <2>10 DEF SelectInv
<1>2. SelectInv /\ [SelectNext]_selectVars => SelectInv'
  <2>1. SUFFICES ASSUME SelectInv, [SelectNext]_selectVars PROVE SelectInv'
    OBVIOUS
  <2>2. CASE AddValue
    BY <2>1, <2>2, SelectAdds
  <2>3. CASE NextField \/ StartOutput
    BY <2>1, <2>3, SelectGoesOn
  <2>4. CASE PrintRow
    BY <2>1, <2>4, SelectPrints, SelectAssumption
  <2>5. CASE EndOutput
    <3>1. /\ selectPhase = "output" /\ i > Len(selection) /\ selectPhase' = "returned"
          /\ UNCHANGED <<selection, fields, values, field, i, vi, output>>
      BY <2>5 DEF EndOutput
    <3>2. SelectTypes /\ OutputInv
      BY <2>1, <3>1 DEF SelectInv
    <3>3. Len(output) = Len(selection)
      <4>1. /\ Len(output) \in Nat /\ Len(selection) \in Nat
            /\ i = Len(output) + 1 /\ Len(output) <= Len(selection)
        BY <3>2, LenProperties DEF SelectTypes, Walkable, OutputInv
      <4> QED BY <3>1, <4>1
    <3>4. SelectTypes'
      BY <3>1, <3>2 DEF SelectTypes, Walkable
    <3>5. OutputInv'
      BY <3>1, <3>2, <3>3 DEF OutputInv, HasValues
    <3> QED BY <3>1, <3>4, <3>5 DEF SelectInv
  <2>6. CASE UNCHANGED selectVars
    <3>1. UNCHANGED <<selection, fields, values, field, i, vi, output, selectPhase>>
      BY <2>6 DEF selectVars
    <3> QED BY <2>1, <3>1
            DEF SelectInv, SelectTypes, Walkable, WalkInv, Passed, OutputInv, HasValues
  <2> QED BY <2>1, <2>2, <2>3, <2>4, <2>5, <2>6 DEF SelectNext
<1> QED BY <1>1, <1>2, PTL DEF SelectSpec

(* SELECT prints every document once and in order, with its own value in   *)
(* every field, for any selection, any fields and any summary tables that  *)
(* do not overlap; it only stops early at an address that is in no table.  *)
THEOREM SelectIsExact ==
  SelectSpec => []SelectsFields
<1>1. SelectInv => SelectsFields
  <2>1. SUFFICES ASSUME SelectInv PROVE SelectsFields
    OBVIOUS
  <2>2. CASE selectPhase = "values"
    <3>1. SelectTypes /\ output = <<>>
      BY <2>1, <2>2 DEF SelectInv, WalkInv
    <3>2. Len(output) = 0 /\ 1..Len(output) = {} /\ Len(selection) \in Nat
      BY <3>1, LenProperties DEF SelectTypes, Walkable
    <3> QED BY <2>2, <3>2 DEF SelectsFields, SelectsOwnValues, PrintsSelection
  <2>3. CASE selectPhase # "values"
    <3>1. SelectTypes /\ OutputInv
      BY <2>1, <2>3 DEF SelectInv
    <3>2. Len(output) \in Nat /\ Len(selection) \in Nat /\ Len(output) <= Len(selection)
      BY <3>1, LenProperties DEF SelectTypes, Walkable, OutputInv
    <3>3. ASSUME NEW n \in 1..Len(output)
          PROVE  output[n].values = [f \in 1..Len(fields) |-> Field(fields[f], selection[n].offset)]
      <4>1. n \in 1..Len(selection)
        BY <3>2
      <4>2. HasValues(n, Len(fields)) /\ output[n].values = values[n]
        BY <3>1, <4>1 DEF OutputInv
      <4>3. values[n] \in Seq(Seq(Int))
        BY <3>1, <4>1 DEF SelectTypes
      <4>4. DOMAIN values[n] = 1..Len(fields) /\ values[n] = [f \in DOMAIN values[n] |-> values[n][f]]
        BY <4>2, <4>3 DEF HasValues
      <4> QED BY <4>2, <4>4 DEF HasValues
    <3>4. PrintsSelection
      BY <3>1 DEF OutputInv, PrintsSelection
    <3> QED BY <3>3, <3>4 DEF SelectsFields, SelectsOwnValues
  <2> QED BY <2>2, <2>3
<1> QED BY <1>1, SelectInvariant, PTL
=============================================================================
