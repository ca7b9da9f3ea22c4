--------------------------- MODULE LevelDBProofs ---------------------------
(***************************************************************************)
(* Proofs about the LevelDB backend.  LevelDBPublish: for any set of       *)
(* programs, any intermediate names, tables of any length and any bound on *)
(* the attempts.  LevelDBCursor: for any set of sorted tables and any keys *)
(* looked for.                                                             *)
(***************************************************************************)
EXTENDS LevelDBCursor, LevelDBPublish, TLAPS, WellFoundedInduction

-----------------------------------------------------------------------------
(* Publishing.                                                             *)

Publishing == {"link", "intermediate", "rename"}

(* A program at work has a file, which is complete once it is published.   *)
FileInv ==
  /\ \A p \in Programs : step[p] \in Publishing \cup {"open"} => Mine(p) \in File
  /\ \A p \in Programs : step[p] \in Publishing => footer[Mine(p)]

(* Files are in order at any time, and a name, final or intermediate, is   *)
(* only ever given to a complete one.                                      *)
NamedInv ==
  /\ \A f \in File : Sorted(written[f])
  /\ path /= None => footer[path]
  /\ \A n \in Names : named[n] /= None => footer[named[n]]

(* A program about to rename has a name, which is its file's.              *)
RenameInv ==
  \A p \in Programs : step[p] = "rename" => name[p] \in Names /\ named[name[p]] = Mine(p)

PublishInv == PublishTypeOK /\ FileInv /\ NamedInv /\ RenameInv /\ NamesAccountedFor

(* What tells files apart: their programs, and each from no file at all.   *)
LEMMA FilesDiffer ==
  /\ \A p, q \in Programs : Mine(p) = Mine(q) => p = q
  /\ None \notin File
  /\ \A p \in Programs : Mine(p) /= None
BY DEF Mine, None, File

(* A key after the last keeps a table in order.                            *)
LEMMA AddKeepsOrder ==
  ASSUME PublishAssumption, NEW s \in Seq(WrittenKeys), Sorted(s),
         NEW key \in WrittenKeys, s /= <<>> => s[Len(s)] < key
  PROVE  Sorted(Append(s, key)) /\ Append(s, key) \in Seq(WrittenKeys)
<1> USE DEF Sorted
<1> DEFINE t == Append(s, key)
<1>0. Len(s) \in Nat /\ Len(t) = Len(s) + 1 /\ t[Len(s) + 1] = key
      /\ \A i \in 1..Len(s) : t[i] = s[i] /\ s[i] \in WrittenKeys
  OBVIOUS
<1>1. Len(s) \in Nat /\ Len(t) = Len(s) + 1 /\ t[Len(s) + 1] = key
      /\ \A i \in 1..Len(s) : t[i] = s[i] /\ s[i] \in Int
  <2>1. WrittenKeys \subseteq Int
    BY DEF PublishAssumption
  <2> HIDE DEF t
  <2> QED BY <1>0, <2>1
<1>2. ASSUME NEW i \in 1..Len(t), NEW j \in 1..Len(t), i < j PROVE t[i] < t[j]
  <2>1. CASE j \in 1..Len(s)
    BY <1>1, <1>2, <2>1
  <2>2. CASE j = Len(s) + 1
    <3>1. i \in 1..Len(s) /\ Len(s) \in 1..Len(s) /\ s /= <<>>
      BY <1>1, <1>2, <2>2
    <3>2. s[i] <= s[Len(s)]
      BY <1>1, <3>1
    <3>3. s[i] \in Int /\ s[Len(s)] \in Int /\ key \in Int
      BY <1>1, <3>1 DEF PublishAssumption
    <3> QED BY <1>1, <2>2, <3>1, <3>2, <3>3
  <2>3. j \in 1..Len(s) \/ j = Len(s) + 1
    BY <1>1
  <2> QED BY <2>1, <2>2, <2>3
<1> QED BY <1>2

(* A step of p that gives no intermediate name: p goes on or ends, perhaps *)
(* with its file at the path, and leaves its intermediate name, if it has  *)
(* one, to the orphans.                                                    *)
Moves(p) ==
  /\ step' \in [Programs -> {"idle", "open", "link", "intermediate", "rename",
                           "returned", "thrown", "killed"}]
  /\ \A q \in Programs : q /= p => step'[q] = step[q]
  /\ step'[p] \notin {"open", "rename"}
  /\ step'[p] \in Publishing => step[p] \in Publishing \cup {"open"} /\ footer'[Mine(p)]
  /\ \A f \in File : footer[f] => footer'[f]
  /\ footer' \in [File -> BOOLEAN]
  /\ path' /= path => path' = Mine(p) /\ step[p] \in Publishing
  /\ step[p] = "rename" => name[p] \in orphans'
  /\ orphans \subseteq orphans' /\ orphans' \subseteq Names
  /\ UNCHANGED <<named, written, built, tries, name>>

(* Every step of every program keeps the invariant.                        *)
LEMMA PublishStep ==
  ASSUME PublishAssumption, PublishInv, [PublishNext]_(publishVars) PROVE PublishInv'
<1> USE DEF PublishInv
<1>0. /\ path \in File \cup {None} /\ named \in [Names -> File \cup {None}]
      /\ written \in [File -> Seq(WrittenKeys)] /\ footer \in [File -> BOOLEAN]
      /\ step \in [Programs -> {"idle", "open", "link", "intermediate", "rename",
                              "returned", "thrown", "killed"}]
      /\ built \in [Programs -> 0..MaxTables]
      /\ DOMAIN name = Programs /\ DOMAIN tries = Programs
      /\ MaxTables \in Nat /\ kMaxAttempts \in Nat /\ orphans \subseteq Names
  BY DEF PublishTypeOK, PublishAssumption
<1>1. ASSUME NEW p \in Programs, Create(p) PROVE PublishInv'
  <2>1. /\ built[p] + 1 \in 1..MaxTables /\ built' = [built EXCEPT ![p] = @ + 1]
        /\ step' = [step EXCEPT ![p] = "open"] /\ step[p] \notin Publishing
        /\ name' = [name EXCEPT ![p] = None] /\ tries' = [tries EXCEPT ![p] = 0]
        /\ UNCHANGED <<path, named, written, footer, orphans>>
    BY <1>0, <1>1 DEF Create, Goto, Publishing
  <2>2. PublishTypeOK'
    BY <1>0, <2>1 DEF PublishTypeOK
  <2>3. /\ \A q \in Programs : q /= p => Mine(q)' = Mine(q) /\ step'[q] = step[q]
        /\ Mine(p)' \in File /\ step'[p] = "open"
    BY <1>0, <2>1 DEF Mine, File
  <2>4. FileInv' /\ NamedInv'
    <3>1. step'[p] \notin Publishing
      BY <2>3 DEF Publishing
    <3>2. FileInv'
      BY <2>1, <2>3, <3>1 DEF FileInv
    <3>3. NamedInv'
      BY <2>1 DEF NamedInv
    <3> QED BY <3>2, <3>3
  <2>5. \A q \in Programs : step'[q] = "rename" => q /= p /\ name'[q] = name[q]
    BY <1>0, <2>1, <2>3
  <2>6. RenameInv'
    BY <2>1, <2>3, <2>5 DEF RenameInv
  <2>7. NamesAccountedFor'
    BY <1>0, <2>1, <2>3 DEF NamesAccountedFor, None, Publishing
  <2> QED BY <2>2, <2>4, <2>6, <2>7
<1>2. ASSUME NEW p \in Programs, Moves(p) PROVE PublishInv'
  <2> USE DEF Moves
  <2>1. \A q \in Programs : Mine(q)' = Mine(q)
    BY <1>2 DEF Mine
  <2>2. \A q \in Programs : q /= p => step'[q] = step[q]
    BY <1>2
  <2>3. PublishTypeOK'
    <3>1. path' \in File \cup {None}
      BY <1>0, <1>2 DEF FileInv, None, File
    <3> QED BY <1>0, <1>2, <3>1 DEF PublishTypeOK, File, None
  <2>4. FileInv'
    BY <1>0, <1>2, <2>1, <2>2 DEF FileInv, File, Publishing
  <2>5. NamedInv'
    <3>1. path' /= None => footer'[path']
      BY <1>0, <1>2 DEF FileInv, NamedInv
    <3>2. \A n \in Names : named[n] /= None => named[n] \in File
      BY <1>0
    <3> QED BY <1>2, <3>1, <3>2 DEF NamedInv, Sorted, File, None
  <2>6. RenameInv'
    BY <1>2, <2>1, <2>2 DEF RenameInv
  <2>7. NamesAccountedFor'
    BY <1>2, <2>2 DEF NamesAccountedFor, None
  <2> QED BY <2>3, <2>4, <2>5, <2>6, <2>7
<1>3. ASSUME NEW p \in Programs, Finish(p) PROVE PublishInv'
  <2>1. Mine(p) \in File
    BY <1>3 DEF Finish, FileInv
  <2>2. CASE footer' = [footer EXCEPT ![Mine(p)] = TRUE] /\ Goto(p, "link")
    <3>1. /\ step' = [step EXCEPT ![p] = "link"] /\ step[p] = "open"
          /\ UNCHANGED <<path, named, written, built, tries, name, orphans>>
      BY <1>0, <1>3, <2>2 DEF Finish, Goto
    <3>2. /\ footer' \in [File -> BOOLEAN] /\ footer'[Mine(p)]
          /\ \A f \in File : footer[f] => footer'[f]
      BY <1>0, <2>1, <2>2
    <3>3. Moves(p)
      BY <1>0, <3>1, <3>2 DEF Moves
    <3> QED BY <1>2, <3>3
  <2>3. CASE Goto(p, "thrown") /\ UNCHANGED footer
    <3>1. /\ step' = [step EXCEPT ![p] = "thrown"] /\ step[p] = "open"
          /\ UNCHANGED <<path, named, written, footer, built, tries, name, orphans>>
      BY <1>0, <1>3, <2>3 DEF Finish, Goto
    <3>2. Moves(p)
      BY <1>0, <3>1 DEF Moves, Publishing
    <3> QED BY <1>2, <3>2
  <2> QED BY <1>3, <2>2, <2>3 DEF Finish
<1>4. ASSUME NEW p \in Programs, LinkPath(p) PROVE PublishInv'
  <2>1. footer[Mine(p)] /\ step[p] \in Publishing /\ step[p] /= "rename"
    BY <1>4 DEF LinkPath, FileInv, Publishing
  <2>2. CASE path = None
    <3>1. Moves(p)
      BY <1>0, <1>4, <2>1, <2>2 DEF Moves, LinkPath, Goto, Publishing
    <3> QED BY <1>2, <3>1
  <2>3. CASE path /= None
    <3>1. Moves(p)
      BY <1>0, <1>4, <2>1, <2>3 DEF Moves, LinkPath, Goto, Publishing
    <3> QED BY <1>2, <3>1
  <2> QED BY <2>2, <2>3
<1>5. ASSUME NEW p \in Programs, GiveUp(p) PROVE PublishInv'
  <2>1. Moves(p)
    BY <1>0, <1>5 DEF Moves, GiveUp, Goto, Publishing
  <2> QED BY <1>2, <2>1
<1>6. ASSUME NEW p \in Programs, SyscallFails(p) \/ Kill(p) PROVE PublishInv'
  <2>1. step[p] = "rename" => name[p] \in Names
    BY DEF RenameInv
  <2>2. orphans' = orphans \cup Abandons(p)
    BY <1>6 DEF SyscallFails, Kill
  <2>3. /\ step[p] = "rename" => name[p] \in orphans'
        /\ orphans \subseteq orphans' /\ orphans' \subseteq Names
    BY <2>1, <2>2 DEF Abandons, PublishTypeOK
  <2>4. UNCHANGED <<path, named, written, footer, built, tries, name>>
    BY <1>6 DEF SyscallFails, Kill
  <2>5. step' = [step EXCEPT ![p] = "thrown"] \/ step' = [step EXCEPT ![p] = "killed"]
    BY <1>0, <1>6 DEF SyscallFails, Kill, Goto
  <2>6. Moves(p)
    BY <1>0, <2>3, <2>4, <2>5 DEF Moves, Publishing
  <2> QED BY <1>2, <2>6
<1>7. ASSUME NEW p \in Programs, Rename(p) PROVE PublishInv'
  <2>1. /\ name[p] \in Names /\ named[name[p]] = Mine(p) /\ Mine(p) \in File
        /\ footer[Mine(p)] /\ path' = Mine(p)
        /\ named' = [named EXCEPT ![name[p]] = None]
        /\ step' = [step EXCEPT ![p] = "returned"]
        /\ UNCHANGED <<written, footer, built, tries, name, orphans>>
    BY <1>7 DEF Rename, Goto, RenameInv, FileInv, Publishing
  <2>2. /\ \A q \in Programs : Mine(q)' = Mine(q) /\ (q /= p => step'[q] = step[q])
        /\ step'[p] = "returned"
    BY <1>0, <2>1 DEF Mine
  <2>3. PublishTypeOK'
    BY <1>0, <2>1 DEF PublishTypeOK, File, None
  <2>4. FileInv'
    BY <2>1, <2>2 DEF FileInv, File, Publishing
  <2>5. NamedInv'
    BY <1>0, <2>1 DEF NamedInv, Sorted, File, None
  <2>6. \A q \in Programs : step[q] = "rename" /\ q /= p => name[q] /= name[p]
    BY <2>1, FilesDiffer DEF RenameInv
  <2>7. RenameInv'
    BY <1>0, <2>1, <2>2, <2>6 DEF RenameInv
  <2>8. NamesAccountedFor'
    BY <1>0, <2>1, <2>2 DEF NamesAccountedFor, None
  <2> QED BY <2>3, <2>4, <2>5, <2>7, <2>8
<1>8. ASSUME NEW p \in Programs, NEW key \in WrittenKeys, Add(p, key) PROVE PublishInv'
  <2>1. Mine(p) \in File /\ step[p] = "open"
    BY <1>8 DEF Add, FileInv
  <2>2. CASE ~InOrder(p, key)
    <3>1. /\ step' = [step EXCEPT ![p] = "thrown"] /\ step[p] = "open"
          /\ UNCHANGED <<path, named, written, footer, built, tries, name, orphans>>
      BY <1>0, <1>8, <2>2 DEF Add, Goto
    <3>2. Moves(p)
      BY <1>0, <3>1 DEF Moves, Publishing
    <3> QED BY <1>2, <3>2
  <2>3. CASE InOrder(p, key)
    <3> DEFINE f == Mine(p)
               s == written[f]
    <3>1. /\ written' = [written EXCEPT ![f] = Append(s, key)]
          /\ UNCHANGED <<path, named, footer, step, built, tries, name, orphans>>
      BY <1>8, <2>3 DEF Add
    <3>2. s \in Seq(WrittenKeys) /\ Sorted(s) /\ (s /= <<>> => s[Len(s)] < key)
      BY <1>0, <2>1, <2>3 DEF InOrder, PrevKey, NamedInv
    <3>3. Sorted(Append(s, key)) /\ Append(s, key) \in Seq(WrittenKeys)
      <4> HIDE DEF s
      <4> QED BY <3>2, AddKeepsOrder
    <3>4. /\ \A g \in File : written'[g] = IF g = f THEN Append(s, key) ELSE written[g]
          /\ written' \in [File -> Seq(WrittenKeys)]
      BY <1>0, <2>1, <3>1, <3>3
    <3>5. PublishTypeOK'
      BY <3>1, <3>4 DEF PublishTypeOK, File, None
    <3>6. \A g \in File : Sorted(written'[g])
      BY <3>3, <3>4 DEF NamedInv
    <3>7. FileInv' /\ NamedInv' /\ RenameInv' /\ NamesAccountedFor'
      BY <3>1, <3>6 DEF FileInv, NamedInv, RenameInv, NamesAccountedFor, Mine,
                        File, None, Sorted
    <3> QED BY <3>5, <3>7
  <2> QED BY <2>2, <2>3
<1>9. ASSUME NEW p \in Programs, NEW n \in Names, LinkIntermediate(p, n) PROVE PublishInv'
  <2>1. Mine(p) \in File /\ footer[Mine(p)] /\ step[p] = "intermediate"
    BY <1>9 DEF LinkIntermediate, FileInv, Publishing
  <2>2. CASE named[n] /= None
    <3>1. UNCHANGED <<path, named, written, footer, step, built, name, orphans>>
          /\ tries' = [tries EXCEPT ![p] = @ + 1] /\ tries[p] < kMaxAttempts
      BY <1>9, <2>2 DEF LinkIntermediate
    <3>2. PublishTypeOK'
      BY <1>0, <3>1 DEF PublishTypeOK, File, None
    <3> QED BY <3>1, <3>2 DEF FileInv, NamedInv, RenameInv, NamesAccountedFor, Mine,
                              File, None, Sorted
  <2>3. CASE named[n] = None
    <3>1. /\ named' = [named EXCEPT ![n] = Mine(p)]
          /\ name' = [name EXCEPT ![p] = n] /\ step' = [step EXCEPT ![p] = "rename"]
          /\ UNCHANGED <<path, written, footer, built, tries, orphans>>
      BY <1>9, <2>3 DEF LinkIntermediate, Goto
    <3>2. PublishTypeOK'
      BY <1>0, <2>1, <3>1 DEF PublishTypeOK, File, None
    <3>3. /\ \A q \in Programs : Mine(q)' = Mine(q)
          /\ \A q \in Programs : q /= p => step'[q] = step[q] /\ name'[q] = name[q]
          /\ step'[p] = "rename" /\ name'[p] = n
      BY <1>0, <3>1 DEF Mine
    <3>4. FileInv'
      <4>1. ASSUME NEW q \in Programs, step'[q] \in Publishing \cup {"open"}
            PROVE  /\ Mine(q) \in File
                   /\ step'[q] \in Publishing => footer[Mine(q)]
        BY <2>1, <3>3, <4>1 DEF FileInv, Publishing
      <4> QED BY <3>1, <3>3, <4>1 DEF FileInv, File, Publishing
    <3>5. NamedInv'
      BY <1>0, <2>1, <3>1 DEF NamedInv, Sorted, File, None
    <3>6. \A q \in Programs : step[q] = "rename" => name[q] /= n
      BY <2>3, FilesDiffer DEF RenameInv
    <3>7. RenameInv'
      <4>1. ASSUME NEW q \in Programs, step'[q] = "rename"
            PROVE  name'[q] \in Names /\ named'[name'[q]] = Mine(q)
        <5>1. CASE q = p
          BY <1>0, <3>1, <3>3, <5>1
        <5>2. CASE q /= p
          BY <1>0, <3>1, <3>3, <3>6, <4>1, <5>2 DEF RenameInv
        <5> QED BY <5>1, <5>2
      <4> QED BY <3>3, <4>1 DEF RenameInv
    <3>8. NamesAccountedFor'
      BY <1>0, <2>1, <3>1, <3>3 DEF NamesAccountedFor, None
    <3> QED BY <3>2, <3>4, <3>5, <3>7, <3>8
  <2> QED BY <2>2, <2>3
<1>10. CASE UNCHANGED publishVars
  BY <1>10 DEF publishVars, PublishTypeOK, FileInv, NamedInv, RenameInv, NamesAccountedFor,
               Mine, File, None, Sorted
<1> QED BY <1>1, <1>3, <1>4, <1>5, <1>6, <1>7, <1>8, <1>9, <1>10 DEF PublishNext

LEMMA PublishStarts == ASSUME PublishAssumption, PublishInit PROVE PublishInv
<1> USE DEF PublishInit, PublishAssumption
<1>1. PublishTypeOK
  BY DEF PublishTypeOK
<1>2. FileInv /\ NamedInv /\ RenameInv /\ NamesAccountedFor
  BY DEF FileInv, NamedInv, RenameInv, NamesAccountedFor, Sorted, Publishing
<1> QED BY <1>1, <1>2 DEF PublishInv

(* The path of a table never names an unfinished or unsorted file, a       *)
(* program renames no file but its own, and names are left behind only by  *)
(* programs that failed or were killed: for any number of programs, killed *)
(* or failing between any two steps.                                       *)
THEOREM PublishingIsSafe ==
  PublishSpec => []PublishesSafely
<1>1. PublishInit => PublishInv
  BY PublishAssumption, PublishStarts
<1>2. PublishInv /\ [PublishNext]_(publishVars) => PublishInv'
  BY PublishAssumption, PublishStep
<1>3. PublishInv => PublishesSafely
  BY DEF PublishInv, NamedInv, RenameInv, PublishesSafely, PathIsComplete,
         RenamesItsOwn, PublishTypeOK
<1> QED BY <1>1, <1>2, <1>3, PTL DEF PublishSpec

(* Replacing a table leaves no moment without one at the path.             *)
THEOREM PathIsNeverEmptied ==
  PublishSpec => PathStaysNamed
<1>1. PublishInit => PublishInv
  BY PublishAssumption, PublishStarts
<1>2. PublishInv /\ [PublishNext]_(publishVars) => PublishInv'
  BY PublishAssumption, PublishStep
<1>3. PublishInv /\ [PublishNext]_(publishVars) => [path /= None => path' /= None]_path
  <2> SUFFICES ASSUME PublishInv, [PublishNext]_(publishVars), path /= None, path' /= path
               PROVE  path' /= None
    OBVIOUS
  <2>1. PICK p \in Programs : LinkPath(p) \/ Rename(p)
    BY DEF PublishNext, publishVars, Create, Finish, GiveUp, SyscallFails, Kill, Add,
           LinkIntermediate
  <2>2. path' = Mine(p)
    BY <2>1 DEF LinkPath, Rename, PublishInv, RenameInv
  <2> QED BY <2>2, FilesDiffer
<1> QED BY <1>1, <1>2, <1>3, PTL DEF PublishSpec, PathStaysNamed

-----------------------------------------------------------------------------
(* Reading.                                                                *)

(* A set of natural numbers has a least element.                           *)
LEMMA LeastNat ==
  ASSUME NEW T, T \subseteq Nat, T # {}
  PROVE  \E x \in T : \A y \in T : x <= y
<1> DEFINE R == OpToRel(<, Nat)
<1>1. IsWellFoundedOn(R, Nat)
  BY NatLessThanWellFounded
<1>2. PICK x \in T : \A y \in T : ~(<<y, x>> \in R)
  <2> HIDE DEF R
  <2> QED BY <1>1, WFMin
<1>3. ASSUME NEW y \in T PROVE x <= y
  <2>1. x \in Nat /\ y \in Nat
    OBVIOUS
  <2>2. ~(y < x)
    BY <1>2, <2>1 DEF OpToRel
  <2> QED BY <2>1, <2>2
<1> QED BY <1>3

(* The tables are sorted sequences of integers.                            *)
LEMMA TableFacts ==
  ASSUME LevelDBAssumption, keys \in LevelDBTables
  PROVE  /\ keys \in Seq(Int) /\ N \in Nat
         /\ \A i \in 1..N : keys[i] \in Int
         /\ \A i, j \in 1..N : i < j => keys[i] < keys[j]
<1>1. keys \in Seq(Int)
  BY DEF LevelDBAssumption
<1> QED BY <1>1 DEF LevelDBAssumption, N

(* Where Seek() lands: on the first row that is not before the key, or     *)
(* behind the last.                                                        *)
LEMMA LowerBoundFacts ==
  ASSUME LevelDBAssumption, keys \in LevelDBTables, NEW key \in Int
  PROVE  /\ LowerBound(key) \in 1 .. N + 1
         /\ \A j \in 1 .. LowerBound(key) - 1 : keys[j] < key
         /\ LowerBound(key) <= N => keys[LowerBound(key)] >= key
<1> DEFINE Lands(i) == /\ \A j \in 1 .. i - 1 : keys[j] < key
                       /\ i <= N => keys[i] >= key
           T == {i \in 1 .. N + 1 : i <= N => keys[i] >= key}
<1>0. N \in Nat /\ \A i \in 1..N : keys[i] \in Int
  BY TableFacts
<1>1. T \subseteq Nat /\ N + 1 \in T
  BY <1>0
<1>2. PICK i \in T : \A y \in T : i <= y
  <2> HIDE DEF T
  <2> QED BY <1>1, LeastNat
<1>3. ASSUME NEW j \in 1 .. i - 1 PROVE keys[j] < key
  <2>1. j \in 1..N /\ j \notin T
    BY <1>0, <1>2
  <2> QED BY <1>0, <2>1
<1>4. i \in 1 .. N + 1 /\ Lands(i)
  BY <1>3
<1>5. \E k \in 1 .. N + 1 : Lands(k)
  BY <1>4
<1>6. LowerBound(key) = CHOOSE k \in 1 .. N + 1 : Lands(k)
  BY DEF LowerBound
<1>7. LowerBound(key) \in 1 .. N + 1 /\ Lands(LowerBound(key))
  <2> HIDE DEF Lands
  <2> QED BY <1>5, <1>6
<1> QED BY <1>7

(* Every call leaves the flags in step with the iterator.                  *)
LEMMA FlagsStep ==
  ASSUME LevelDBAssumption, FlagsFollowIterator, [CursorNext]_cursorVars
  PROVE  FlagsFollowIterator'
<1> USE DEF LevelDBCall
<1>0. N \in Nat /\ keys \in LevelDBTables /\ it \in 1 .. N + 1
      /\ need_seek \in BOOLEAN /\ eof \in BOOLEAN
      /\ (eof <=> ~Valid(it)) /\ (need_seek => Valid(it))
  BY TableFacts DEF FlagsFollowIterator, CursorTypeOK
(* What is left to show of a call.                                         *)
<1> DEFINE Lands(b, e) == /\ it' \in 1 .. N + 1 /\ UNCHANGED keys
                          /\ eof' = e /\ e \in BOOLEAN /\ (e <=> ~Valid(it'))
                          /\ need_seek' = b /\ b \in BOOLEAN /\ (b => Valid(it'))
                          /\ lastCall'.op \in {"Open", "SeekToFirst", "SeekToKey", "Skip", "ReadRow"}
                          /\ rowRet' \in {"none", "true", "false", "thrown"} /\ rowGot' \in 0..N
<1>a. ASSUME NEW b, NEW e, Lands(b, e) PROVE FlagsFollowIterator'
  <2>1. N' = N /\ (Valid(it)' <=> Valid(it'))
    BY <1>a DEF N, Valid
  <2>2. CursorTypeOK'
    BY <1>0, <1>a, <2>1 DEF CursorTypeOK
  <2>3. (eof <=> ~Valid(it))' /\ (need_seek => Valid(it))' /\ rowRet' /= "undefined"
    BY <1>a, <2>1
  <2> QED BY <2>2, <2>3 DEF FlagsFollowIterator
<1>1. ASSUME NEW i \in 1 .. N + 1 PROVE From(i) \subseteq i .. N + 1
  BY <1>0 DEF From
<1>2. CASE LevelDBSeekToFirst
  <2>1. it' \in 1 .. N + 1 /\ UNCHANGED keys
    BY <1>0, <1>1, <1>2 DEF LevelDBSeekToFirst
  <2>2. Lands(FALSE, ~Valid(it'))
    BY <1>0, <1>2, <2>1 DEF LevelDBSeekToFirst
  <2> QED BY <1>a, <2>2
<1>3. ASSUME NEW key \in SoughtKeys, LevelDBSeekToKey(key) PROVE FlagsFollowIterator'
  <2>1. LowerBound(key) \in 1 .. N + 1
    BY <1>0, LowerBoundFacts DEF LevelDBAssumption
  <2>2. it' \in 1 .. N + 1 /\ UNCHANGED keys
    BY <1>0, <1>1, <1>3, <2>1 DEF LevelDBSeekToKey
  <2>3. Lands(FALSE, ~Valid(it'))
    BY <1>0, <1>3, <2>2 DEF LevelDBSeekToKey
  <2> QED BY <1>a, <2>3
<1>4. ASSUME NEW n \in 0..MaxLevelDBSkip, LevelDBSkip(n) PROVE FlagsFollowIterator'
  <2>0. n \in Nat
    BY DEF LevelDBAssumption
  <2>1. PICK m \in (IF MayFail /\ n > 0 THEN 0 .. N + 1 - it ELSE {0}) :
          LET q == SkipFrom(it + m, need_seek, n)
          IN  /\ it' = q.it /\ need_seek' = q.need /\ eof' = q.eof
              /\ lastCall' = LevelDBCall("Skip", n)
              /\ rowRet' = q.ret /\ rowGot' = 0 /\ UNCHANGED keys
    BY <1>4 DEF LevelDBSkip
  <2>2. m \in Nat /\ it + m \in 1 .. N + 1 /\ (n = 0 => m = 0)
    BY <1>0, <2>0, <2>1
  <2>3. CASE it + m + n <= N \/ n = 0
    <3>1. /\ it' = it + m + n /\ need_seek' = need_seek /\ eof' = ~Valid(it + m)
          /\ rowRet' = "true"
      BY <2>1, <2>3 DEF SkipFrom
    <3>2. Valid(it') <=> Valid(it + m)
      BY <1>0, <2>0, <2>2, <2>3, <3>1 DEF Valid
    <3>3. need_seek => Valid(it')
      BY <1>0, <2>0, <2>2, <2>3, <3>1 DEF Valid
    <3>4. it' \in 1 .. N + 1
      BY <1>0, <2>0, <2>2, <2>3, <3>1
    <3>5. Lands(need_seek, ~Valid(it + m))
      BY <1>0, <2>1, <3>1, <3>2, <3>3, <3>4
    <3> QED BY <1>a, <3>5
  <2>4. CASE ~(it + m + n <= N \/ n = 0)
    <3>1. /\ it' = N + 1 /\ need_seek' = FALSE /\ eof' = TRUE
          /\ rowRet' \in {"true", "false"}
      BY <2>1, <2>4 DEF SkipFrom
    <3>2. Lands(FALSE, TRUE)
      BY <1>0, <2>1, <3>1 DEF Valid
    <3> QED BY <1>a, <3>2
  <2> QED BY <2>3, <2>4
<1>5. CASE LevelDBReadRow
  <2>1. PICK i \in (IF need_seek THEN From(it + 1) ELSE {it}) :
          /\ it' = i /\ lastCall' = LevelDBCall("ReadRow", 0)
          /\ eof' = (eof \/ (need_seek /\ ~Valid(i)))
          /\ need_seek' = ~eof'
          /\ rowRet' = (CASE eof' -> "false" [] Valid(i) -> "true" [] OTHER -> "undefined")
          /\ rowGot' = IF rowRet' = "true" THEN i ELSE 0
          /\ UNCHANGED keys
    BY <1>5 DEF LevelDBReadRow
  <2>2. i \in 1 .. N + 1
    BY <1>0, <1>1, <2>1 DEF Valid
  <2>3. (eof \/ (need_seek /\ ~Valid(i))) <=> ~Valid(i)
    BY <1>0, <2>1
  <2>4. eof' = ~Valid(i) /\ need_seek' = Valid(i)
    BY <1>0, <2>1, <2>3 DEF Valid
  <2>5. rowRet' = IF Valid(i) THEN "true" ELSE "false"
    BY <2>1, <2>4
  <2>6. Lands(Valid(i), ~Valid(i))
    BY <1>0, <2>1, <2>2, <2>4, <2>5 DEF Valid
  <2> QED BY <1>a, <2>6
<1>6. CASE UNCHANGED cursorVars
  BY <1>6 DEF cursorVars, Valid, N, FlagsFollowIterator, CursorTypeOK
<1> QED BY <1>2, <1>3, <1>4, <1>5, <1>6 DEF CursorNext

LEMMA FlagsInit == ASSUME LevelDBAssumption, CursorInit PROVE FlagsFollowIterator
<1> USE DEF LevelDBCall
<1>1. N \in Nat /\ it \in 1 .. N + 1 /\ eof = ~Valid(it)
  <2>1. N \in Nat /\ it \in From(1) /\ eof = ~Valid(it)
    BY TableFacts DEF CursorInit
  <2> QED BY <2>1 DEF From
<1>2. CursorTypeOK
  <2>1. eof \in BOOLEAN
    BY <1>1
  <2>2. /\ keys \in LevelDBTables /\ need_seek = FALSE
        /\ lastCall = LevelDBCall("Open", 0) /\ rowRet = "none" /\ rowGot = 0
    BY DEF CursorInit
  <2>3. need_seek \in BOOLEAN
    BY <2>2
  <2>4. it \in 1 .. N + 1 /\ rowGot \in 0..N
    BY <1>1, <2>2
  <2> QED BY <2>1, <2>2, <2>3, <2>4 DEF CursorTypeOK
<1> QED BY <1>1, <1>2 DEF CursorInit, FlagsFollowIterator

(* The LevelDB iterator is moved and read only where it stands on a row,   *)
(* unreadable blocks or not: eof_ and need_seek_ follow it through any     *)
(* sequence of calls.                                                      *)
THEOREM FlagsAreInStep ==
  CursorSpec => []FlagsFollowIterator
<1>1. CursorInit => FlagsFollowIterator
  BY LevelDBAssumption, FlagsInit
<1>2. FlagsFollowIterator /\ [CursorNext]_cursorVars => FlagsFollowIterator'
  BY LevelDBAssumption, FlagsStep
<1> QED BY <1>1, <1>2, PTL DEF CursorSpec

(* The table that the cursor of ca-table.h moves in.                       *)
LEMMA CursorFacts ==
  ASSUME LevelDBAssumption, FlagsFollowIterator
  PROVE  LET rowsOf == [i \in 1..N |-> [key |-> keys[i]]]
             fileOf == [rows |-> rowsOf, at |-> [i \in 0..N |-> i]]
         IN  /\ LevelDBRows!NumRows(fileOf) = N
             /\ \A i \in 1..N : fileOf.rows[i].key = keys[i]
             /\ LevelDBPos \in 0..N
<1> DEFINE rowsOf == [i \in 1..N |-> [key |-> keys[i]]]
           fileOf == [rows |-> rowsOf, at |-> [i \in 0..N |-> i]]
<1>1. N \in Nat /\ it \in 1 .. N + 1
  BY TableFacts DEF FlagsFollowIterator, CursorTypeOK
<1>2. fileOf.rows = rowsOf
  OBVIOUS
<1>3. Len(rowsOf) = N
  BY <1>1
<1>4. LevelDBRows!NumRows(fileOf) = N
  BY <1>2, <1>3 DEF LevelDBRows!NumRows
<1>5. \A i \in 1..N : fileOf.rows[i].key = keys[i]
  BY <1>2
<1>6. LevelDBPos \in 0..N
  BY <1>1 DEF LevelDBPos, FlagsFollowIterator, Valid
<1> QED BY <1>4, <1>5, <1>6

(* A step of the LevelDB table, where every block can be read, is a step   *)
(* of the cursor, or one of the two that ca-table.h does not allow for.    *)
LEMMA CursorStep ==
  ASSUME LevelDBAssumption, MayFail = FALSE, FlagsFollowIterator, FlagsFollowIterator', CursorNext
  PROVE  \/ LevelDBRows!SeekToFirst
         \/ \E key \in SoughtKeys : LevelDBRows!SeekToKey(key)
         \/ \E n \in 0..MaxLevelDBSkip : LevelDBRows!Skip(n)
         \/ LevelDBRows!ReadRow
         \/ SkipOneTooMany
         \/ SeekToFirstOfNone
<1> DEFINE fileOf == [rows |-> [i \in 1..N |-> [key |-> keys[i]]],
                      at |-> [i \in 0..N |-> i]]
           Gives(x) == /\ rowRet' = x /\ [key |-> rowGot', value |-> rowGot'] = LevelDBRows!NoRow
                       /\ fileOf' = fileOf
<1>0. /\ N \in Nat /\ keys \in LevelDBTables /\ it \in 1 .. N + 1
      /\ need_seek \in BOOLEAN /\ eof \in BOOLEAN
      /\ (eof <=> it = N + 1) /\ (need_seek => it \in 1..N)
      /\ LevelDBRows!NumRows(fileOf) = N
      /\ \A i \in 1..N : fileOf.rows[i].key = keys[i]
  <2>1. /\ keys \in LevelDBTables /\ it \in 1 .. N + 1
        /\ need_seek \in BOOLEAN /\ eof \in BOOLEAN
        /\ (eof <=> ~(it \in 1..N)) /\ (need_seek => it \in 1..N)
    BY DEF FlagsFollowIterator, CursorTypeOK, Valid
  <2>2. N \in Nat
    BY <2>1, TableFacts
  <2>3. ~(it \in 1..N) <=> it = N + 1
    BY <2>1, <2>2
  <2>4. /\ LevelDBRows!NumRows(fileOf) = N
        /\ \A i \in 1..N : fileOf.rows[i].key = keys[i]
    BY CursorFacts
  <2> QED BY <2>1, <2>2, <2>3, <2>4
<1>1. UNCHANGED keys
  <2>1. CASE LevelDBSeekToFirst
    BY <2>1 DEF LevelDBSeekToFirst
  <2>2. ASSUME NEW key \in SoughtKeys, LevelDBSeekToKey(key) PROVE UNCHANGED keys
    BY <2>2 DEF LevelDBSeekToKey
  <2>3. ASSUME NEW n \in 0..MaxLevelDBSkip, LevelDBSkip(n) PROVE UNCHANGED keys
    BY <2>3 DEF LevelDBSkip
  <2>4. CASE LevelDBReadRow
    BY <2>4 DEF LevelDBReadRow
  <2> QED BY <2>1, <2>2, <2>3, <2>4 DEF CursorNext
<1>2. N' = N /\ fileOf' = fileOf
  BY <1>1 DEF N
<1>3. ASSUME rowGot' = 0 PROVE [key |-> rowGot', value |-> rowGot'] = LevelDBRows!NoRow
  BY <1>3 DEF LevelDBRows!NoRow
<1>4. LevelDBPos = (IF eof THEN N ELSE IF need_seek THEN it ELSE it - 1)
      /\ LevelDBPos' = (IF eof' THEN N ELSE IF need_seek' THEN it' ELSE it' - 1)
  BY <1>2 DEF LevelDBPos
<1> HIDE DEF fileOf
<1> USE DEF LevelDBCall, LevelDBRows!Call
<1>5. CASE LevelDBSeekToFirst
  <2>1. /\ it' = 1 /\ need_seek' = FALSE /\ rowGot' = 0
        /\ lastCall' = LevelDBCall("SeekToFirst", 0)
        /\ eof' = ~Valid(1) /\ rowRet' = IF eof' THEN "thrown" ELSE "none"
    BY <1>5 DEF LevelDBSeekToFirst, From
  <2>2. CASE N = 0
    <3>1. eof /\ ~Valid(1)
      BY <1>0, <2>2 DEF Valid
    <3>2. eof' /\ rowRet' = "thrown"
      BY <2>1, <3>1
    <3>3. LevelDBPos' = LevelDBPos
      BY <1>4, <3>1, <3>2
    <3> QED BY <2>1, <2>2, <3>2, <3>3 DEF SeekToFirstOfNone
  <2>3. CASE N # 0
    <3>1. ~eof' /\ LevelDBPos' = 0 /\ rowRet' = "none"
      BY <1>0, <1>4, <2>1, <2>3 DEF Valid
    <3> QED BY <1>2, <1>3, <2>1, <3>1 DEF LevelDBRows!SeekToFirst, LevelDBRows!Returns, fileOf
  <2> QED BY <2>2, <2>3
<1>6. ASSUME NEW key \in SoughtKeys, LevelDBSeekToKey(key)
      PROVE  LevelDBRows!SeekToKey(key)
  <2> DEFINE k == LowerBound(key)
  <2>0. key \in Int
    BY DEF LevelDBAssumption
  <2>1. /\ k \in 1 .. N + 1 /\ \A j \in 1 .. k - 1 : keys[j] < key
        /\ k <= N => keys[k] >= key
    BY <1>0, <2>0, LowerBoundFacts
  <2>2. /\ it' = k /\ need_seek' = FALSE /\ rowGot' = 0
        /\ lastCall' = LevelDBCall("SeekToKey", key)
        /\ eof' = ~Valid(k)
        /\ rowRet' = IF Valid(k) /\ keys[k] = key THEN "true" ELSE "false"
    BY <1>6 DEF LevelDBSeekToKey, From
  <2> HIDE DEF k
  <2>3. LevelDBPos' = k - 1
    BY <1>0, <1>4, <2>1, <2>2 DEF Valid
  <2>4. \A i \in 1 .. k - 1 : fileOf.rows[i].key < key
    <3>1. \A i \in 1 .. k - 1 : i \in 1..N
      BY <1>0, <2>1
    <3> QED BY <1>0, <2>1, <3>1
  <2>5. k - 1 < N => key <= fileOf.rows[(k - 1) + 1].key
    <3>1. ASSUME k - 1 < N PROVE key <= fileOf.rows[(k - 1) + 1].key
      <4>1. k \in 1..N /\ (k - 1) + 1 = k /\ keys[k] \in Int
        BY <1>0, <2>1, <3>1, TableFacts
      <4> QED BY <1>0, <2>0, <2>1, <4>1
    <3> QED BY <3>1
  <2>6. (Valid(k) /\ keys[k] = key) <=> \E i \in 1..N : fileOf.rows[i].key = key
    <3>1. ASSUME NEW i \in 1..N, keys[i] = key PROVE Valid(k) /\ keys[k] = key
      <4>1. ~(i \in 1 .. k - 1)
        BY <2>0, <2>1, <3>1
      <4>2. k <= i
        BY <1>0, <2>1, <4>1
      <4>3. ~(k < i)
        BY <1>0, <2>0, <2>1, <3>1, TableFacts
      <4> QED BY <1>0, <2>1, <3>1, <4>2, <4>3 DEF Valid
    <3> QED BY <1>0, <3>1 DEF Valid
  <2>7. rowRet' = IF \E i \in 1..N : fileOf.rows[i].key = key THEN "true" ELSE "false"
    BY <2>2, <2>6
  <2>8. Gives(IF \E i \in 1..N : fileOf.rows[i].key = key THEN "true" ELSE "false")
    BY <1>2, <1>3, <2>2, <2>7
  <2>9. /\ LevelDBPos' \in 0..LevelDBRows!NumRows(fileOf)
        /\ \A i \in 1..LevelDBPos' : fileOf.rows[i].key < key
        /\ LevelDBPos' < LevelDBRows!NumRows(fileOf) => key <= fileOf.rows[LevelDBPos' + 1].key
    BY <1>0, <2>1, <2>3, <2>4, <2>5
  <2>10. LevelDBRows!SeekToKey(key)
    BY <1>0, <2>2, <2>8, <2>9 DEF LevelDBRows!SeekToKey, LevelDBRows!Returns, fileOf
  <2> QED BY <2>2, <2>10
<1>7. ASSUME NEW n \in 0..MaxLevelDBSkip, LevelDBSkip(n)
      PROVE  SkipOneTooMany \/ LevelDBRows!Skip(n)
  <2>0. n \in Nat
    BY DEF LevelDBAssumption
  <2>1. LET q == SkipFrom(it + 0, need_seek, n)
        IN  /\ it' = q.it /\ need_seek' = q.need /\ eof' = q.eof
            /\ lastCall' = LevelDBCall("Skip", n) /\ rowRet' = q.ret /\ rowGot' = 0
    BY <1>7 DEF LevelDBSkip
  <2>2. it + 0 = it
    BY <1>0
  <2>a. ASSUME LevelDBPos + n <= N, LevelDBPos' = LevelDBPos + n, rowRet' = "true" PROVE LevelDBRows!Skip(n)
    BY <1>0, <1>2, <1>3, <2>1, <2>a DEF LevelDBRows!Skip, LevelDBRows!Returns, fileOf
  <2>b. ASSUME LevelDBPos + n > N, LevelDBPos' = N, rowRet' = "false" PROVE LevelDBRows!Skip(n)
    BY <1>0, <1>2, <1>3, <2>1, <2>b DEF LevelDBRows!Skip, LevelDBRows!Returns, fileOf
  <2>3. CASE it + n <= N \/ n = 0
    <3>1. /\ it' = it + n /\ need_seek' = need_seek /\ eof' = ~Valid(it) /\ rowRet' = "true"
      BY <2>1, <2>2, <2>3 DEF SkipFrom
    <3>2. eof' = eof
      BY <1>0, <3>1 DEF Valid
    <3>3. LevelDBPos' = LevelDBPos + n /\ LevelDBPos + n <= N
      BY <1>0, <1>4, <2>0, <2>3, <3>1, <3>2
    <3> QED BY <2>1, <2>a, <3>1, <3>3
  <2>4. CASE ~(it + n <= N \/ n = 0)
    <3>1. /\ eof' = TRUE
          /\ rowRet' = IF it + n = N + 1 THEN "true" ELSE "false"
      BY <2>1, <2>2, <2>4 DEF SkipFrom
    <3>2. LevelDBPos' = N
      BY <1>4, <3>1
    <3>3. CASE it + n # N + 1
      <4>0. it \in Nat /\ N \in Nat /\ n \in Nat /\ LevelDBPos >= it - 1 /\ LevelDBPos \in Nat
        BY <1>0, <1>4, <2>0
      <4>1. LevelDBPos + n > N
        BY <2>4, <3>3, <4>0
      <4> QED BY <2>1, <2>b, <3>1, <3>2, <3>3, <4>1
    <3>4. CASE it + n = N + 1 /\ ~need_seek
      <4>0. it \in Nat /\ N \in Nat /\ n \in Nat /\ n # 0
        BY <1>0, <2>0, <2>4
      <4>1. ~eof /\ LevelDBPos + n = N
        <5>1. it <= N
          BY <3>4, <4>0
        <5>2. ~eof
          BY <1>0, <5>1
        <5>3. LevelDBPos = it - 1
          BY <1>4, <3>4, <5>2
        <5> QED BY <3>4, <4>0, <5>2, <5>3
      <4> QED BY <1>0, <2>0, <2>1, <2>a, <3>1, <3>2, <3>4, <4>1
    <3>5. CASE it + n = N + 1 /\ need_seek
      <4>1. rowRet' = "true" /\ eof' /\ lastCall' = LevelDBCall("Skip", n) /\ rowGot' = 0
        BY <2>1, <3>1, <3>5
      <4>2. LevelDBPos + n = N + 1
        BY <1>0, <1>4, <3>5
      <4> QED BY <1>1, <3>2, <3>5, <4>1, <4>2 DEF SkipOneTooMany
    <3> QED BY <1>0, <3>3, <3>4, <3>5
  <2> QED BY <2>3, <2>4
<1>8. CASE LevelDBReadRow
  <2>1. PICK i \in (IF need_seek THEN {it + 1} ELSE {it}) :
          /\ it' = i /\ lastCall' = LevelDBCall("ReadRow", 0)
          /\ eof' = (eof \/ (need_seek /\ ~Valid(i)))
          /\ need_seek' = ~eof'
          /\ rowRet' = (CASE eof' -> "false" [] Valid(i) -> "true" [] OTHER -> "undefined")
          /\ rowGot' = IF rowRet' = "true" THEN i ELSE 0
    BY <1>8 DEF LevelDBReadRow, From
  <2>2. CASE eof'
    <3>1. eof \/ it = N
      BY <1>0, <2>1, <2>2 DEF Valid
    <3>2. LevelDBPos = N /\ LevelDBPos' = N /\ rowRet' = "false" /\ rowGot' = 0
      BY <1>0, <1>4, <2>1, <2>2, <3>1 DEF Valid
    <3> QED BY <1>0, <1>2, <1>3, <2>1, <3>2 DEF LevelDBRows!ReadRow, LevelDBRows!Returns, fileOf
  <2>3. CASE ~eof'
    <3>1. ~eof /\ Valid(i)
      BY <1>0, <2>1, <2>3 DEF Valid
    <3>2. rowRet' = "true" /\ rowGot' = i /\ LevelDBPos' = i /\ LevelDBPos = i - 1
      <4>1. rowRet' = "true" /\ need_seek'
        BY <2>1, <2>3, <3>1
      <4>2. rowGot' = i /\ LevelDBPos' = i
        BY <1>4, <2>1, <2>3, <4>1
      <4>3. LevelDBPos = i - 1
        BY <1>0, <1>4, <2>1, <3>1
      <4> QED BY <4>1, <4>2, <4>3
    <3>3. LevelDBPos < N /\ LevelDBPos' = LevelDBPos + 1 /\ rowGot' = LevelDBPos + 1
      BY <1>0, <3>1, <3>2 DEF Valid
    <3> QED BY <1>0, <1>2, <2>1, <3>2, <3>3 DEF LevelDBRows!ReadRow, fileOf
  <2> QED BY <2>2, <2>3
<1> QED BY <1>5, <1>6, <1>7, <1>8 DEF CursorNext

(* A LevelDB table whose blocks can be read is one sequence of rows with a *)
(* cursor in it, whatever calls are made in whatever order; in particular  *)
(* Skip() after ReadRow(), where the iterator is a row behind the cursor.  *)
THEOREM LevelDBImplementsCursor ==
  ASSUME MayFail = FALSE PROVE CursorSpec => LevelDBReadsAsOneTable
<1> DEFINE A == \/ LevelDBRows!SeekToFirst
                \/ \E key \in SoughtKeys : LevelDBRows!SeekToKey(key)
                \/ \E n \in 0..MaxLevelDBSkip : LevelDBRows!Skip(n)
                \/ LevelDBRows!ReadRow
                \/ SkipOneTooMany
                \/ SeekToFirstOfNone
<1>1. FlagsFollowIterator /\ FlagsFollowIterator' /\ [CursorNext]_cursorVars => [A]_cursorVars
  BY LevelDBAssumption, CursorStep
<1>2. CursorSpec => [][A]_cursorVars
  <2> HIDE DEF A
  <2> QED BY <1>1, FlagsAreInStep, PTL DEF CursorSpec
<1> QED BY <1>2 DEF LevelDBReadsAsOneTable
=============================================================================
