---------------------------- MODULE MergeProofs ----------------------------
(***************************************************************************)
(* Proofs about merging tables, for any number of tables of any lengths:   *)
(* the heap is sound and what the callback gets is what GroupedMerge says. *)
(***************************************************************************)
EXTENDS Merge, SequenceTheorems, WellFoundedInduction, TLAPS

(* Where the heap has a hole: nowhere if none of its functions runs.       *)
HoleAt == IF call = "none" THEN 0 ELSE hole

(* A heap h with a hole at i, or without if i is 0: entries are ordered    *)
(* wherever the hole is not concerned, and across it.                      *)
HoleOrder(h, i) ==
  /\ \A j \in 2..Len(h) :
       (j # i /\ Parent(j) # i) => h[Parent(j)].key <= h[j].key
  /\ i > 1 => \A j \in 2..Len(h) : Parent(j) = i => h[Parent(i)].key <= h[j].key

(* Entry e may be put in a hole at i as far as what is below is concerned. *)
AboveAll(h, i, e) == \A j \in 2..Len(h) : Parent(j) = i => e.key <= h[j].key

(* The last entry of a pop is in the array while a place is sought for it, *)
(* and the top entry is not larger.                                        *)
PopInv ==
  /\ hole # 1 /\ hole # Len(heap) /\ entry = heap[Len(heap)]
  /\ heap[1].key <= entry.key

OrderInv ==
  /\ HoleOrder(heap, HoleAt)
  /\ call # "none" =>
       /\ hole \in 1..Len(heap)
       /\ ~down => AboveAll(heap, hole, entry)
       /\ (call = "pop" /\ ~down) => PopInv
  /\ phase # "undefined"
  /\ call = "push" => ~down

(* The entries of heap h, which has a hole at i.                           *)
EntriesOf(h, i) == {h[j] : j \in (1..Len(h)) \ {i}}
Distinct(h, i) ==
  \A j, k \in (1..Len(h)) \ {i} : h[j].table = h[k].table => j = k

(* The entries that stand for rows read and not handed on.                 *)
Carried == call \in {"push", "replace_top"}
Cursors == EntriesOf(heap, HoleAt) \cup (IF Carried THEN {entry} ELSE {})

IsCursor(e) ==
  /\ e.table \in 1..filled
  /\ e.row \in 1..Len(input[e.table]) /\ e.row = read[e.table]
  /\ e.key = input[e.table][e.row]

CursorInv ==
  /\ Distinct(heap, HoleAt)
  /\ Carried => \A e \in EntriesOf(heap, HoleAt) : e.table # entry.table
  /\ \A e \in Cursors : IsCursor(e)
  /\ \A t \in 1..filled : HasRow(t) => \E e \in Cursors : e.table = t
  /\ \A t \in 1..filled : TableIsSorted(t)
  /\ \A t \in Tables : t > filled => read[t] = 0

(* Row r of table t has been handed to callback_wrapper.                   *)
Delivered(t, r) ==
  r <= read[t] /\ \A e \in Cursors : ~(e.table = t /\ e.row = r)

Seen == ToSet(data) \cup Grouped!RowsGiven

(* The rows of one table are in their order.                               *)
RowsInOrder(d) ==
  \A i, j \in 1..Len(d) : i < j => d[i][1] # d[j][1] \/ d[i][2] < d[j][2]

GroupInv ==
  phase = "running" =>
    /\ Seen \subseteq Grouped!AllRows
    /\ \A row \in Grouped!AllRows : row \in Seen <=> Delivered(row[1], row[2])
    /\ \A row \in ToSet(data) : Grouped!KeyOf(row) = current_key
    /\ RowsInOrder(data)
    /\ \A g \in 1..Len(groups) :
         /\ groups[g].key < current_key
         /\ \A row \in ToSet(groups[g].data) : Grouped!KeyOf(row) = groups[g].key
    /\ data = <<>> => groups = <<>>
    /\ data # <<>> => filled = Len(input) /\ \A e \in Cursors : current_key <= e.key

MergeInv == TypeOK /\ OrderInv /\ CursorInv /\ GroupInv
-----------------------------------------------------------------------------
(* A set of natural numbers has a least one.                               *)
LEMMA LeastNat ==
  ASSUME NEW T, T \subseteq Nat, T # {}
  PROVE  \E x \in T : \A y \in T : x <= y
<1> DEFINE R == OpToRel(<, Nat)
<1>1. IsWellFoundedOn(R, Nat)
  BY NatLessThanWellFounded
<1>2. PICK x \in T : \A y \in T : ~(<<y, x>> \in R)
  <2> HIDE DEF R
  <2> QED BY <1>1, WFMin
<1>3. ASSUME NEW y \in T PROVE x <= y
  <2>1. x \in Nat /\ y \in Nat
    OBVIOUS
  <2>2. ~(y < x)
    BY <1>2, <2>1 DEF OpToRel
  <2> QED BY <2>1, <2>2
<1> QED BY <1>3

(* Parents come before their children, which are two.                      *)
LEMMA ParentFacts ==
  /\ \A i \in Nat : i >= 2 => Parent(i) \in Nat /\ Parent(i) >= 1 /\ Parent(i) < i
  /\ \A i \in Nat : \A p \in Nat : (Parent(i) = p) <=> (i = 2 * p \/ i = 2 * p + 1)
<1>1. ASSUME NEW i \in Nat, i >= 2
      PROVE  Parent(i) \in Nat /\ Parent(i) >= 1 /\ Parent(i) < i
  BY <1>1, SMT DEF Parent
<1>2. ASSUME NEW i \in Nat, NEW p \in Nat
      PROVE  (Parent(i) = p) <=> (i = 2 * p \/ i = 2 * p + 1)
  <2>1. i \div 2 = p => i = 2 * p \/ i = 2 * p + 1
    BY SMT
  <2>2. i = 2 * p => i \div 2 = p
    BY SMT
  <2>3. i = 2 * p + 1 => i \div 2 = p
    BY SMT
  <2> QED BY <2>1, <2>2, <2>3 DEF Parent
<1> HIDE DEF Parent
<1>3. \A i \in Nat : i >= 2 => Parent(i) \in Nat /\ Parent(i) >= 1 /\ Parent(i) < i
  BY <1>1
<1>4. \A i \in Nat : \A p \in Nat : (Parent(i) = p) <=> (i = 2 * p \/ i = 2 * p + 1)
  BY <1>2
<1> QED BY <1>3, <1>4

(* Keys are numbers.                                                       *)
LEMMA KeysAreNumbers ==
  ASSUME NEW h \in Seq(Entry)
  PROVE  /\ Len(h) \in Nat /\ DOMAIN h = 1..Len(h)
         /\ \A j \in 1..Len(h) : h[j] \in Entry /\ h[j].key \in Nat
<1>1. Len(h) \in Nat /\ DOMAIN h = 1..Len(h)
  OBVIOUS
<1>2. ASSUME NEW j \in 1..Len(h) PROVE h[j] \in Entry /\ h[j].key \in Nat
  <2>1. h[j] \in Entry
    OBVIOUS
  <2> QED BY <2>1 DEF Entry
<1> QED BY <1>1, <1>2

(* A heap in which one entry is replaced.                                  *)
LEMMA ExceptFacts ==
  ASSUME NEW h \in Seq(Entry), NEW i \in 1..Len(h), NEW e \in Entry
  PROVE  /\ [h EXCEPT ![i] = e] \in Seq(Entry) /\ Len([h EXCEPT ![i] = e]) = Len(h)
         /\ [h EXCEPT ![i] = e][i] = e
         /\ \A j \in 1..Len(h) : j # i => [h EXCEPT ![i] = e][j] = h[j]
OBVIOUS

(* The smaller child moves up and the hole down.                           *)
LEMMA DownOrder ==
  ASSUME NEW h \in Seq(Entry), NEW i \in 1..Len(h), HoleOrder(h, i),
         NEW c \in 2..Len(h), Parent(c) = i, AboveAll(h, i, h[c])
  PROVE  HoleOrder([h EXCEPT ![i] = h[c]], c)
<1> DEFINE g == [h EXCEPT ![i] = h[c]]
           n == Len(h)
<1>1. /\ n \in Nat /\ c \in 1..n /\ i # c
      /\ \A j \in 1..n : h[j].key \in Nat
  BY KeysAreNumbers, ParentFacts
<1>2. /\ Len(g) = n /\ g[i] = h[c]
      /\ \A j \in 1..n : j # i => g[j] = h[j]
  BY <1>1, KeysAreNumbers, ExceptFacts
<1>3. \A j \in 2..n : j \in 1..n /\ Parent(j) \in 1..n
  BY <1>1, ParentFacts
<1> HIDE DEF g, n
<1>4. ASSUME NEW j \in 2..n, j # c, Parent(j) # c
      PROVE  g[Parent(j)].key <= g[j].key
  <2>1. CASE j = i
    <3>1. i > 1 /\ Parent(j) # i
      BY <1>1, <2>1, ParentFacts
    <3> QED BY <1>2, <1>3, <2>1, <3>1 DEF HoleOrder, n
  <2>2. CASE j # i /\ Parent(j) = i
    BY <1>2, <1>3, <2>2 DEF AboveAll, n
  <2>3. CASE j # i /\ Parent(j) # i
    BY <1>2, <1>3, <2>3 DEF HoleOrder, n
  <2> QED BY <2>1, <2>2, <2>3
<1>5. ASSUME NEW j \in 2..n, Parent(j) = c
      PROVE  g[Parent(c)].key <= g[j].key
  <2>1. j # i /\ c # i
    BY <1>1, <1>5, ParentFacts
  <2>2. h[c].key <= h[j].key
    BY <1>5, <2>1 DEF HoleOrder, n
  <2> QED BY <1>2, <1>3, <2>1, <2>2
<1> QED BY <1>2, <1>4, <1>5 DEF HoleOrder, g, n

(* An ancestor larger than entry e moves down and the hole up.             *)
LEMMA UpOrder ==
  ASSUME NEW h \in Seq(Entry), NEW i \in 2..Len(h), HoleOrder(h, i),
         NEW e \in Entry, e.key < h[Parent(i)].key
  PROVE  /\ HoleOrder([h EXCEPT ![i] = h[Parent(i)]], Parent(i))
         /\ AboveAll([h EXCEPT ![i] = h[Parent(i)]], Parent(i), e)
<1> DEFINE g == [h EXCEPT ![i] = h[Parent(i)]]
           n == Len(h)
           p == Parent(i)
<1>1. /\ n \in Nat /\ i \in 1..n /\ p \in 1..n /\ p < i
      /\ \A j \in 1..n : h[j].key \in Nat
      /\ e.key \in Nat
  <2>1. n \in Nat /\ \A j \in 1..n : h[j].key \in Nat
    BY KeysAreNumbers
  <2>2. i \in 1..n /\ p \in 1..n /\ p < i
    BY <2>1, ParentFacts
  <2>3. e.key \in Nat
    BY DEF Entry
  <2> QED BY <2>1, <2>2, <2>3
<1>2. /\ Len(g) = n /\ g[i] = h[p]
      /\ \A j \in 1..n : j # i => g[j] = h[j]
  BY <1>1, KeysAreNumbers, ExceptFacts
<1>3. \A j \in 2..n : j \in 1..n /\ Parent(j) \in 1..n /\ Parent(j) < j
  BY <1>1, ParentFacts
<1>4. Parent(i) = p /\ e.key < h[p].key
  OBVIOUS
<1> HIDE DEF g, n, p
<1>5. p > 1 => h[Parent(p)].key <= h[p].key /\ Parent(p) \in 1..n /\ Parent(p) # i
  <2>1. p > 1 => p \in 2..n /\ p # i /\ Parent(p) # i
    BY <1>1, <1>3
  <2> QED BY <1>3, <2>1 DEF HoleOrder, n
<1>6. ASSUME NEW j \in 2..n, j # p, Parent(j) # p
      PROVE  g[Parent(j)].key <= g[j].key
  <2>1. j # i
    BY <1>4, <1>6
  <2>2. CASE Parent(j) = i
    <3>1. i > 1
      BY <1>1
    <3>2. h[Parent(i)].key <= h[j].key
      BY <2>2, <3>1 DEF HoleOrder, n
    <3> QED BY <1>2, <1>3, <1>4, <2>1, <2>2, <3>2
  <2>3. CASE Parent(j) # i
    BY <1>2, <1>3, <2>1, <2>3 DEF HoleOrder, n
  <2> QED BY <2>2, <2>3
<1>7. ASSUME NEW j \in 2..n, Parent(j) = p
      PROVE  h[p].key <= g[j].key
  <2>1. CASE j = i
    <3>1. g[j] = h[p] /\ h[p].key \in Nat
      BY <1>1, <1>2, <2>1
    <3>2. \A x \in Nat : x <= x
      OBVIOUS
    <3> QED BY <3>1, <3>2
  <2>2. CASE j # i
    <3>1. Parent(j) # i
      BY <1>1, <1>7
    <3>2. h[p].key <= h[j].key
      BY <1>7, <2>2, <3>1 DEF HoleOrder, n
    <3> QED BY <1>2, <1>3, <2>2, <3>2
  <2> QED BY <2>1, <2>2
<1>8. \A j \in 2..n : g[j].key \in Nat
  <2>1. ASSUME NEW j \in 2..n PROVE g[j].key \in Nat
    BY <1>1, <1>2, <1>3
  <2> QED BY <2>1
<1>9. ASSUME NEW j \in 2..n, Parent(j) = p, p > 1
      PROVE  g[Parent(p)].key <= g[j].key
  <2>1. g[Parent(p)].key = h[Parent(p)].key /\ h[Parent(p)].key \in Nat /\ h[p].key \in Nat
    BY <1>1, <1>2, <1>5, <1>9
  <2>2. h[Parent(p)].key <= h[p].key /\ h[p].key <= g[j].key /\ g[j].key \in Nat
    BY <1>5, <1>7, <1>8, <1>9
  <2> QED BY <2>1, <2>2
<1>10. ASSUME NEW j \in 2..n, Parent(j) = p
       PROVE  e.key <= g[j].key
  <2>1. h[p].key <= g[j].key /\ g[j].key \in Nat /\ h[p].key \in Nat
    BY <1>1, <1>7, <1>8, <1>10
  <2> QED BY <1>1, <1>4, <2>1
<1>11. HoleOrder(g, p)
  BY <1>2, <1>6, <1>9 DEF HoleOrder
<1>12. AboveAll(g, p, e)
  BY <1>2, <1>10 DEF AboveAll
<1> QED BY <1>11, <1>12 DEF g, p

(* An entry that is in its place closes the hole.                          *)
LEMMA FillOrder ==
  ASSUME NEW h \in Seq(Entry), NEW i \in 1..Len(h), HoleOrder(h, i),
         NEW e \in Entry, AboveAll(h, i, e),
         i > 1 => h[Parent(i)].key <= e.key
  PROVE  HoleOrder([h EXCEPT ![i] = e], 0)
<1> DEFINE g == [h EXCEPT ![i] = e]
           n == Len(h)
<1>1. n \in Nat
  OBVIOUS
<1>2. /\ Len(g) = n /\ g[i] = e
      /\ \A j \in 1..n : j # i => g[j] = h[j]
  BY ExceptFacts
<1>3. \A j \in 2..n : j \in 1..n /\ Parent(j) \in 1..n /\ Parent(j) < j /\ Parent(j) # j
  BY <1>1, ParentFacts
<1> HIDE DEF g, n
<1>4. ASSUME NEW j \in 2..n
      PROVE  g[Parent(j)].key <= g[j].key
  <2>1. CASE j = i
    <3>1. i > 1
      BY <1>1, <2>1
    <3> QED BY <1>2, <1>3, <2>1, <3>1
  <2>2. CASE j # i /\ Parent(j) = i
    BY <1>2, <1>3, <2>2 DEF AboveAll, n
  <2>3. CASE j # i /\ Parent(j) # i
    BY <1>2, <1>3, <2>3 DEF HoleOrder, n
  <2> QED BY <2>1, <2>2, <2>3
<1>5. ~(0 > 1)
  OBVIOUS
<1> QED BY <1>2, <1>4, <1>5 DEF HoleOrder, g

(* What the last entry leaves behind.                                      *)
LEMMA FrontFacts ==
  ASSUME NEW S, NEW h \in Seq(S), h # <<>>
  PROVE  /\ Front(h) \in Seq(S) /\ Len(h) \in Nat /\ Len(h) >= 1
         /\ Len(Front(h)) = Len(h) - 1
         /\ \A j \in 1 .. Len(h) - 1 : Front(h)[j] = h[j]
         /\ Last(h) = h[Len(h)]
<1>1. Len(h) \in Nat /\ Len(h) >= 1
  OBVIOUS
<1>2. 1 \in Int /\ Len(h) - 1 \in Int /\ \A j \in 1 .. Len(h) - 1 : h[j] \in S
  BY <1>1
<1> DEFINE g == SubSeq(h, 1, Len(h) - 1)
<1>3. /\ g \in Seq(S)
      /\ Len(g) = IF 1 <= Len(h) - 1 THEN Len(h) - 1 - 1 + 1 ELSE 0
      /\ \A j \in 1 .. Len(h) - 1 - 1 + 1 : g[j] = h[1 + j - 1]
  BY <1>2, SubSeqProperties
<1> HIDE DEF g
<1>4. Len(h) - 1 - 1 + 1 = Len(h) - 1 /\ \A j \in 1 .. Len(h) - 1 : 1 + j - 1 = j
  BY <1>1
<1>5. Len(g) = Len(h) - 1
  <2>1. \A n \in Nat : n >= 1 => (IF 1 <= n - 1 THEN n - 1 - 1 + 1 ELSE 0) = n - 1
    OBVIOUS
  <2>2. Len(g) = IF 1 <= Len(h) - 1 THEN Len(h) - 1 - 1 + 1 ELSE 0
    BY <1>3
  <2> QED BY <1>1, <2>1, <2>2
<1>6. ASSUME NEW j \in 1 .. Len(h) - 1 PROVE g[j] = h[j]
  <2>1. j \in 1 .. Len(h) - 1 - 1 + 1
    BY <1>4
  <2>2. g[j] = h[1 + j - 1]
    BY <1>3, <2>1
  <2> QED BY <1>1, <2>2
<1> QED BY <1>1, <1>3, <1>5, <1>6 DEF Front, Last, g

(* The last place goes, whether it holds an entry or the hole.             *)
LEMMA FrontOrder ==
  ASSUME NEW h \in Seq(Entry), h # <<>>, NEW i, i = 0 \/ i = Len(h), HoleOrder(h, i)
  PROVE  HoleOrder(Front(h), 0)
<1> DEFINE g == Front(h)
           n == Len(h)
<1>1. /\ n \in Nat /\ n >= 1 /\ Len(g) = n - 1
      /\ \A j \in 1 .. n - 1 : g[j] = h[j]
  BY FrontFacts
<1> HIDE DEF g
<1>2. ASSUME NEW j \in 2 .. n - 1
      PROVE  g[Parent(j)].key <= g[j].key
  <2>1. j \in 1 .. n - 1 /\ j \in 2..n /\ Parent(j) \in 1 .. n - 1 /\ j # n /\ Parent(j) # n
        /\ j # 0 /\ Parent(j) # 0
    BY <1>1, ParentFacts
  <2>2. h[Parent(j)].key <= h[j].key
    BY <2>1 DEF HoleOrder
  <2> QED BY <1>1, <2>1, <2>2
<1>3. ~(0 > 1)
  OBVIOUS
<1> QED BY <1>1, <1>2, <1>3 DEF HoleOrder, g

(* A place behind the last entry is a hole in a heap that is one longer.   *)
LEMMA PushOrder ==
  ASSUME NEW h \in Seq(Entry), HoleOrder(h, 0), NEW e \in Entry
  PROVE  /\ HoleOrder(Append(h, e), Len(h) + 1)
         /\ AboveAll(Append(h, e), Len(h) + 1, e)
<1> DEFINE g == Append(h, e)
           n == Len(h)
<1>1. /\ n \in Nat /\ Len(g) = n + 1
      /\ \A j \in 1..n : g[j] = h[j]
  BY AppendProperties
<1> HIDE DEF g
<1>2. \A j \in 2 .. n + 1 : Parent(j) \in 1..n /\ Parent(j) # n + 1 /\ Parent(j) # 0
  BY <1>1, ParentFacts
<1>3. ASSUME NEW j \in 2 .. n + 1, j # n + 1
      PROVE  g[Parent(j)].key <= g[j].key
  <2>1. j \in 2..n /\ j \in 1..n /\ j # 0
    BY <1>1, <1>3
  <2>2. h[Parent(j)].key <= h[j].key
    BY <1>2, <2>1 DEF HoleOrder
  <2> QED BY <1>1, <1>2, <2>1, <2>2
<1>4. HoleOrder(g, n + 1)
  BY <1>1, <1>2, <1>3 DEF HoleOrder
<1>5. AboveAll(g, n + 1, e)
  BY <1>1, <1>2 DEF AboveAll
<1> QED BY <1>4, <1>5 DEF g

(* The top entry leaves.                                                   *)
LEMMA TopOrder ==
  ASSUME NEW h \in Seq(Entry), HoleOrder(h, 0)
  PROVE  HoleOrder(h, 1)
<1>1. \A j \in 2..Len(h) : Parent(j) # 0 /\ j # 0
  BY ParentFacts
<1>2. ~(1 > 1)
  OBVIOUS
<1> QED BY <1>1, <1>2 DEF HoleOrder

(* No entry is smaller than the one at the top, if there is no hole or one *)
(* that nothing is below.                                                  *)
LEMMA TopIsLeast ==
  ASSUME NEW h \in Seq(Entry), NEW i \in Nat, HoleOrder(h, i), i # 1,
         i = 0 \/ 2 * i > Len(h)
  PROVE  \A j \in 1..Len(h) : j # i => h[1].key <= h[j].key
<1> DEFINE n == Len(h)
           T == {j \in 1..n : j # i /\ ~(h[1].key <= h[j].key)}
<1>1. n \in Nat /\ \A j \in 1..n : h[j].key \in Nat
  BY KeysAreNumbers
<1> HIDE DEF n
<1>2. SUFFICES ASSUME T # {} PROVE FALSE
  BY DEF n
<1>3. PICK j \in T : \A y \in T : j <= y
  <2>1. T \subseteq Nat
    BY <1>1
  <2> HIDE DEF T
  <2> QED BY <1>2, <2>1, LeastNat
<1>4. j \in 1..n /\ j # i /\ ~(h[1].key <= h[j].key)
  BY <1>3
<1>5. j # 1 /\ j \in 2..n
  <2>1. j = 1 => h[1].key <= h[j].key
    BY <1>1, <1>4
  <2> QED BY <1>1, <1>4, <2>1
<1>6. Parent(j) \in 1..n /\ Parent(j) < j /\ Parent(j) # i
  <2>1. Parent(j) \in 1..n /\ Parent(j) < j
    BY <1>1, <1>5, ParentFacts
  <2>2. Parent(j) = i => j = 2 * i \/ j = 2 * i + 1
    BY <1>4, ParentFacts
  <2>3. ASSUME Parent(j) = i PROVE FALSE
    <3>1. i # 0
      BY <1>1, <2>1, <2>3
    <3>2. 2 * i > n
      BY <3>1 DEF n
    <3> QED BY <1>1, <1>4, <2>2, <2>3, <3>2
  <2> QED BY <2>1, <2>3
<1>7. h[1].key <= h[Parent(j)].key
  <2>1. ~(j <= Parent(j))
    BY <1>1, <1>4, <1>6
  <2>2. Parent(j) \notin T
    BY <1>3, <2>1
  <2> QED BY <1>6, <2>2
<1>8. h[Parent(j)].key <= h[j].key
  BY <1>4, <1>5, <1>6 DEF HoleOrder, n
<1>9. h[1].key \in Nat /\ h[j].key \in Nat /\ h[Parent(j)].key \in Nat
  BY <1>1, <1>4, <1>6
<1> QED BY <1>4, <1>7, <1>8, <1>9
-----------------------------------------------------------------------------
(* The same entries are there when one of them moves into the hole.        *)
LEMMA ShiftEntries ==
  ASSUME NEW h \in Seq(Entry), NEW i \in 1..Len(h), NEW c \in 1..Len(h), i # c
  PROVE  /\ EntriesOf([h EXCEPT ![i] = h[c]], c) = EntriesOf(h, i)
         /\ Distinct(h, i) => Distinct([h EXCEPT ![i] = h[c]], c)
<1> DEFINE g == [h EXCEPT ![i] = h[c]]
           n == Len(h)
<1>1. /\ Len(g) = n /\ g[i] = h[c]
      /\ \A j \in 1..n : j # i => g[j] = h[j]
  BY KeysAreNumbers, ExceptFacts
<1> HIDE DEF g, n
<1>2. i \in 1..n /\ c \in 1..n
  BY DEF n
<1>3. EntriesOf(g, c) = EntriesOf(h, i)
  <2>1. EntriesOf(g, c) \subseteq EntriesOf(h, i)
    BY <1>1, <1>2 DEF EntriesOf, n
  <2>2. EntriesOf(h, i) \subseteq EntriesOf(g, c)
    BY <1>1, <1>2 DEF EntriesOf, n
  <2> QED BY <2>1, <2>2
<1>4. Distinct(h, i) => Distinct(g, c)
  BY <1>1, <1>2 DEF Distinct, n
<1> QED BY <1>3, <1>4 DEF g

(* An entry put in the hole is one more.                                   *)
LEMMA FillEntries ==
  ASSUME NEW h \in Seq(Entry), NEW i \in 1..Len(h), NEW e \in Entry
  PROVE  /\ EntriesOf([h EXCEPT ![i] = e], 0) = EntriesOf(h, i) \cup {e}
         /\ (Distinct(h, i) /\ \A f \in EntriesOf(h, i) : f.table # e.table)
              => Distinct([h EXCEPT ![i] = e], 0)
<1> DEFINE g == [h EXCEPT ![i] = e]
           n == Len(h)
<1>1. /\ Len(g) = n /\ g[i] = e
      /\ \A j \in 1..n : j # i => g[j] = h[j]
  BY ExceptFacts
<1>2. n \in Nat
  OBVIOUS
<1> HIDE DEF g, n
<1>3. i \in 1..n /\ (1..n) \ {0} = 1..n
  BY <1>2 DEF n
<1>4. EntriesOf(g, 0) = EntriesOf(h, i) \cup {e}
  <2>1. EntriesOf(g, 0) \subseteq EntriesOf(h, i) \cup {e}
    BY <1>1, <1>3 DEF EntriesOf, n
  <2>2. EntriesOf(h, i) \cup {e} \subseteq EntriesOf(g, 0)
    BY <1>1, <1>3 DEF EntriesOf, n
  <2> QED BY <2>1, <2>2
<1>5. ASSUME Distinct(h, i), \A f \in EntriesOf(h, i) : f.table # e.table
      PROVE  Distinct(g, 0)
  <2>1. \A j \in 1..n : j # i => g[j].table # e.table
    BY <1>1, <1>5 DEF EntriesOf, n
  <2> QED BY <1>1, <1>3, <1>5, <2>1 DEF Distinct, n
<1> QED BY <1>4, <1>5 DEF g

(* The last place goes with the hole, or with the entry the hole has got.  *)
LEMMA FrontEntries ==
  ASSUME NEW h \in Seq(Entry), NEW i \in 1..Len(h)
  PROVE  /\ i = Len(h) =>
              /\ EntriesOf(Front(h), 0) = EntriesOf(h, i)
              /\ Distinct(h, i) => Distinct(Front(h), 0)
         /\ i # Len(h) => LET g == [h EXCEPT ![i] = h[Len(h)]] IN
              /\ EntriesOf(Front(g), 0) = EntriesOf(h, i)
              /\ Distinct(h, i) => Distinct(Front(g), 0)
<1>1. Len(h) \in Nat /\ h # <<>> /\ Len(h) \in 1..Len(h)
  OBVIOUS
<1>2. ASSUME NEW f \in Seq(Entry), Len(f) = Len(h)
      PROVE  /\ EntriesOf(Front(f), 0) = EntriesOf(f, Len(f))
             /\ Distinct(f, Len(f)) => Distinct(Front(f), 0)
  <2> DEFINE n == Len(f)
             g == Front(f)
  <2>1. n \in Nat /\ n >= 1 /\ Len(g) = n - 1 /\ \A j \in 1 .. n - 1 : g[j] = f[j]
    BY <1>1, <1>2, FrontFacts
  <2> HIDE DEF n, g
  <2>2. (1..n) \ {n} = 1 .. n - 1 /\ (1 .. n - 1) \ {0} = 1 .. n - 1
    BY <2>1
  <2>3. EntriesOf(g, 0) = {g[j] : j \in 1 .. n - 1} /\ EntriesOf(f, n) = {f[j] : j \in 1 .. n - 1}
    BY <2>1, <2>2 DEF EntriesOf, n
  <2>4. EntriesOf(g, 0) = EntriesOf(f, n)
    BY <2>1, <2>3
  <2>5. Distinct(f, n) => Distinct(g, 0)
    BY <2>1, <2>2 DEF Distinct, n
  <2> QED BY <2>4, <2>5 DEF n, g
<1>3. CASE i = Len(h)
  BY <1>2, <1>3
<1>4. CASE i # Len(h)
  <2> DEFINE g == [h EXCEPT ![i] = h[Len(h)]]
  <2>1. /\ EntriesOf(g, Len(h)) = EntriesOf(h, i)
        /\ Distinct(h, i) => Distinct(g, Len(h))
    BY <1>1, <1>4, ShiftEntries
  <2>2. g \in Seq(Entry) /\ Len(g) = Len(h)
    BY <1>1, KeysAreNumbers, ExceptFacts
  <2> HIDE DEF g
  <2>3. /\ EntriesOf(Front(g), 0) = EntriesOf(g, Len(h))
        /\ Distinct(g, Len(h)) => Distinct(Front(g), 0)
    BY <1>2, <2>2
  <2>4. EntriesOf(Front(g), 0) = EntriesOf(h, i) /\ (Distinct(h, i) => Distinct(Front(g), 0))
    BY <2>1, <2>3
  <2> QED BY <1>4, <2>4 DEF g
<1> QED BY <1>3, <1>4

LEMMA PushEntries ==
  ASSUME NEW h \in Seq(Entry), NEW e \in Entry
  PROVE  /\ EntriesOf(Append(h, e), Len(h) + 1) = EntriesOf(h, 0)
         /\ Distinct(h, 0) => Distinct(Append(h, e), Len(h) + 1)
<1> DEFINE n == Len(h)
           g == Append(h, e)
<1>1. n \in Nat /\ Len(g) = n + 1 /\ \A j \in 1..n : g[j] = h[j]
  BY AppendProperties
<1> HIDE DEF n, g
<1>2. (1 .. n + 1) \ {n + 1} = 1..n /\ (1..n) \ {0} = 1..n
  BY <1>1
<1>3. EntriesOf(h, 0) = {h[j] : j \in 1..n} /\ EntriesOf(g, n + 1) = {g[j] : j \in 1..n}
  BY <1>1, <1>2 DEF EntriesOf, n
<1>4. EntriesOf(g, n + 1) = EntriesOf(h, 0)
  BY <1>1, <1>3
<1>5. Distinct(h, 0) => Distinct(g, n + 1)
  BY <1>1, <1>2 DEF Distinct, n
<1> QED BY <1>4, <1>5 DEF n, g

LEMMA TopEntries ==
  ASSUME NEW h \in Seq(Entry), h # <<>>
  PROVE  /\ EntriesOf(h, 0) = EntriesOf(h, 1) \cup {h[1]}
         /\ Distinct(h, 0) =>
              Distinct(h, 1) /\ \A f \in EntriesOf(h, 1) : f.table # h[1].table
<1> DEFINE n == Len(h)
<1>1. n \in Nat /\ 1 \in 1..n /\ (1..n) \ {0} = 1..n
  OBVIOUS
<1> HIDE DEF n
<1>2. EntriesOf(h, 0) = EntriesOf(h, 1) \cup {h[1]}
  <2>1. EntriesOf(h, 0) \subseteq EntriesOf(h, 1) \cup {h[1]}
    BY <1>1 DEF EntriesOf, n
  <2>2. EntriesOf(h, 1) \cup {h[1]} \subseteq EntriesOf(h, 0)
    BY <1>1 DEF EntriesOf, n
  <2> QED BY <2>1, <2>2
<1>3. ASSUME Distinct(h, 0)
      PROVE  Distinct(h, 1) /\ \A f \in EntriesOf(h, 1) : f.table # h[1].table
  BY <1>1, <1>3 DEF Distinct, EntriesOf, n
<1> QED BY <1>2, <1>3
-----------------------------------------------------------------------------
(* The loops choose the smaller child.                                     *)
LEMMA SmallerChildFacts ==
  ASSUME TypeOK, hole \in 1..Len(heap), 2 * hole <= Len(heap)
  PROVE  /\ SmallerChild \in 2..Len(heap) /\ SmallerChild \in 1..Len(heap)
         /\ Parent(SmallerChild) = hole /\ SmallerChild # hole
         /\ AboveAll(heap, hole, heap[SmallerChild])
<1> DEFINE n == Len(heap)
           c == SmallerChild
<1>1. n \in Nat /\ hole \in Nat /\ hole >= 1 /\ \A j \in 1..n : heap[j].key \in Nat
  BY KeysAreNumbers DEF TypeOK
<1>2. c \in {2 * hole, 2 * hole + 1} /\ c <= n /\ c \in Nat
  BY <1>1 DEF SmallerChild
<1>3. c \in 2..n /\ c \in 1..n /\ c # hole
  BY <1>1, <1>2
<1>4. Parent(c) = hole
  BY <1>1, <1>2, ParentFacts
<1>5. ASSUME NEW j \in 2..n, Parent(j) = hole
      PROVE  heap[c].key <= heap[j].key
  <2>1. j = 2 * hole \/ j = 2 * hole + 1
    BY <1>1, <1>5, ParentFacts
  <2>2. 2 * hole \in 1..n /\ heap[2 * hole].key \in Nat
    BY <1>1
  <2>3. CASE 2 * hole + 1 <= n
    <3>1. 2 * hole + 1 \in 1..n
      BY <1>1, <2>3
    <3>2. heap[2 * hole + 1].key \in Nat
      BY <1>1, <3>1
    <3>3. CASE heap[2 * hole + 1].key < heap[2 * hole].key
      <4>1. c = 2 * hole + 1
        BY <2>3, <3>3 DEF SmallerChild
      <4> HIDE DEF c
      <4> QED BY <2>1, <2>2, <3>2, <3>3, <4>1
    <3>4. CASE ~(heap[2 * hole + 1].key < heap[2 * hole].key)
      <4>1. c = 2 * hole
        BY <3>4 DEF SmallerChild
      <4> HIDE DEF c
      <4> QED BY <2>1, <2>2, <3>2, <3>4, <4>1
    <3> QED BY <3>3, <3>4
  <2>4. CASE ~(2 * hole + 1 <= n)
    <3>1. c = 2 * hole /\ j = 2 * hole
      BY <1>1, <2>1, <2>4 DEF SmallerChild
    <3> HIDE DEF c
    <3> QED BY <2>2, <3>1
  <2> QED BY <2>3, <2>4
<1> HIDE DEF c
<1>6. AboveAll(heap, hole, heap[c])
  BY <1>5 DEF AboveAll
<1> QED BY <1>3, <1>4, <1>6 DEF c
-----------------------------------------------------------------------------
(* What a step of the heap's functions leaves as it is: it only moves the  *)
(* entries about.                                                          *)
OthersCarried == Carried => \A e \in EntriesOf(heap, HoleAt) : e.table # entry.table

SameCursors ==
  /\ UNCHANGED <<input, read, filled, current_key, data, groups, phase>>
  /\ Cursors' = Cursors
  /\ Distinct(heap, HoleAt)' /\ OthersCarried'

(* An entry moves into the hole, on the way down or up.                    *)
LEMMA MoveKeepsCursors ==
  ASSUME MergeInv, call # "none", NEW c \in 1..Len(heap), c # hole, MoveIntoHole(c),
         UNCHANGED <<input, read, filled, call, down, entry, wrapperVars, phase>>
  PROVE  /\ TypeOK' /\ SameCursors
         /\ heap' = [heap EXCEPT ![hole] = heap[c]] /\ Len(heap') = Len(heap)
         /\ HoleAt = hole /\ HoleAt' = c /\ hole' \in 1..Len(heap')
<1>1. heap' = [heap EXCEPT ![hole] = heap[c]] /\ hole' = c
  BY DEF MoveIntoHole
<1>2. /\ UNCHANGED <<input, read, filled, current_key, data, groups, phase>>
      /\ call' = call /\ down' = down /\ entry' = entry
  BY DEF wrapperVars
<1>3. heap \in Seq(Entry) /\ hole \in 1..Len(heap) /\ Len(heap) \in Nat
  BY DEF MergeInv, TypeOK, OrderInv
<1>4. heap' \in Seq(Entry) /\ Len(heap') = Len(heap)
  BY <1>1, <1>3, KeysAreNumbers, ExceptFacts
<1>5. HoleAt = hole /\ HoleAt' = c
  BY <1>1, <1>2 DEF HoleAt
<1>6. hole' \in Nat
  BY <1>1, <1>3
<1>7. TypeOK'
  BY <1>2, <1>4, <1>6 DEF MergeInv, TypeOK, Tables
<1>8. EntriesOf(heap', c) = EntriesOf(heap, hole) /\ (Distinct(heap, hole) => Distinct(heap', c))
  BY <1>1, <1>3, ShiftEntries
<1>9. EntriesOf(heap, HoleAt)' = EntriesOf(heap', c) /\ Distinct(heap, HoleAt)' = Distinct(heap', c)
  BY <1>5 DEF EntriesOf, Distinct
<1>10. Distinct(heap, hole) /\ OthersCarried
  BY <1>5 DEF MergeInv, CursorInv, OthersCarried
<1>11. Carried' = Carried
  BY <1>2 DEF Carried
<1>12. Cursors' = Cursors
  BY <1>2, <1>5, <1>8, <1>9, <1>11 DEF Cursors
<1>13. OthersCarried'
  BY <1>2, <1>5, <1>8, <1>9, <1>10, <1>11 DEF OthersCarried
<1>14. SameCursors
  BY <1>2, <1>8, <1>9, <1>10, <1>12, <1>13 DEF SameCursors
<1> QED BY <1>1, <1>4, <1>5, <1>7, <1>14

LEMMA HoleDownStep ==
  ASSUME MergeInv, HoleDown
  PROVE  TypeOK' /\ OrderInv' /\ SameCursors
<1>1. /\ call # "none" /\ down /\ MoveIntoHole(SmallerChild)
      /\ UNCHANGED <<input, read, filled, call, down, entry, wrapperVars, phase>>
      /\ phase = "running" /\ phase' = "running"
  BY DEF HoleDown
<1>2. /\ SmallerChild \in 2..Len(heap) /\ SmallerChild \in 1..Len(heap)
      /\ Parent(SmallerChild) = hole /\ SmallerChild # hole
      /\ AboveAll(heap, hole, heap[SmallerChild])
      /\ hole \in 1..Len(heap)
  BY <1>1, SmallerChildFacts DEF HoleDown, MergeInv, OrderInv
<1> DEFINE c == SmallerChild
<1> HIDE DEF c
<1>3. /\ TypeOK' /\ SameCursors
      /\ heap' = [heap EXCEPT ![hole] = heap[c]] /\ Len(heap') = Len(heap)
      /\ HoleAt = hole /\ HoleAt' = c /\ hole' \in 1..Len(heap')
  BY <1>1, <1>2, MoveKeepsCursors DEF c
<1>4. heap \in Seq(Entry) /\ HoleOrder(heap, hole)
  BY <1>3 DEF MergeInv, TypeOK, OrderInv
<1>5. HoleOrder(heap', c)
  BY <1>2, <1>3, <1>4, DownOrder DEF c
<1>6. HoleOrder(heap, HoleAt)'
  BY <1>3, <1>5 DEF HoleOrder
<1>7. call' = call /\ down' = down
  BY <1>1
<1>8. call = "push" => ~down
  BY DEF MergeInv, OrderInv
<1>9. OrderInv'
  BY <1>1, <1>3, <1>6, <1>7, <1>8 DEF OrderInv
<1> QED BY <1>3, <1>9

LEMMA HoleUpStep ==
  ASSUME MergeInv, HoleUp
  PROVE  TypeOK' /\ OrderInv' /\ SameCursors
<1>1. /\ call # "none" /\ ~down /\ MoveIntoHole(Parent(hole))
      /\ UNCHANGED <<input, read, filled, call, down, entry, wrapperVars, phase>>
      /\ phase = "running" /\ phase' = "running"
      /\ hole > 1 /\ entry.key < heap[Parent(hole)].key
  BY DEF HoleUp, BelongsAbove
<1>2. /\ hole \in 1..Len(heap) /\ Len(heap) \in Nat /\ heap \in Seq(Entry) /\ entry \in Entry
      /\ AboveAll(heap, hole, entry) /\ (call = "pop" => PopInv)
      /\ HoleOrder(heap, HoleAt)
  BY <1>1 DEF MergeInv, TypeOK, OrderInv
<1> DEFINE p == Parent(hole)
<1>3. p \in 1..Len(heap) /\ p < hole /\ p # hole /\ hole \in 2..Len(heap)
  BY <1>1, <1>2, ParentFacts
<1>4. /\ TypeOK' /\ SameCursors
      /\ heap' = [heap EXCEPT ![hole] = heap[p]] /\ Len(heap') = Len(heap)
      /\ HoleAt = hole /\ HoleAt' = p /\ hole' \in 1..Len(heap')
  BY <1>1, <1>3, MoveKeepsCursors
<1>5. HoleOrder(heap', p) /\ AboveAll(heap', p, entry)
  BY <1>1, <1>2, <1>3, <1>4, UpOrder
<1>6. call' = call /\ down' = down /\ entry' = entry /\ hole' = p
  BY <1>1 DEF MoveIntoHole
<1> HIDE DEF p
<1>7. HoleOrder(heap, HoleAt)'
  BY <1>4, <1>5 DEF HoleOrder
<1>8. AboveAll(heap, hole, entry)'
  BY <1>5, <1>6 DEF AboveAll
<1>9. ASSUME call = "pop" PROVE PopInv'
  <2>1. PopInv
    BY <1>2, <1>9
  <2>2. heap[1].key \in Nat /\ entry.key \in Nat /\ heap[1].key <= entry.key
    <3>1. 1 \in 1..Len(heap)
      BY <1>2, <1>3
    <3>2. heap[1].key \in Nat
      BY <1>2, <3>1, KeysAreNumbers
    <3>3. entry.key \in Nat
      BY <1>2 DEF Entry
    <3> QED BY <2>1, <3>2, <3>3 DEF PopInv
  <2>3. p # 1
    BY <1>1, <2>2 DEF p
  <2>4. p # Len(heap)
    BY <1>2, <1>3
  <2>5. /\ 1 \in 1..Len(heap) /\ 1 # hole /\ Len(heap) \in 1..Len(heap) /\ Len(heap) # hole
    BY <1>2, <1>3, <2>1 DEF PopInv
  <2>6. heap'[1] = heap[1] /\ heap'[Len(heap)] = heap[Len(heap)]
    BY <1>2, <1>3, <1>4, <2>5, KeysAreNumbers, ExceptFacts
  <2> QED BY <1>4, <1>6, <2>1, <2>3, <2>4, <2>6 DEF PopInv
<1>10. OrderInv'
  BY <1>1, <1>4, <1>6, <1>7, <1>8, <1>9 DEF OrderInv
<1> QED BY <1>4, <1>10

(* A function of the heap returns: the array has no hole.                  *)
LEMMA CallEnds ==
  ASSUME MergeInv, call # "none", call' = "none", phase' # "undefined",
         UNCHANGED <<input, read, filled, hole, entry, wrapperVars, phase>>,
         down' \in BOOLEAN, heap' \in Seq(Entry), HoleOrder(heap', 0),
         EntriesOf(heap', 0) = Cursors, Distinct(heap', 0)
  PROVE  TypeOK' /\ OrderInv' /\ SameCursors
<1>1. /\ UNCHANGED <<input, read, filled, current_key, data, groups, phase>>
      /\ hole' = hole /\ entry' = entry
  BY DEF wrapperVars
<1>2. HoleAt' = 0 /\ ~Carried'
  BY DEF HoleAt, Carried
<1>3. TypeOK'
  BY <1>1 DEF MergeInv, TypeOK, Tables
<1>4. EntriesOf(heap, HoleAt)' = EntriesOf(heap', 0) /\ Distinct(heap, HoleAt)' = Distinct(heap', 0)
      /\ HoleOrder(heap, HoleAt)' = HoleOrder(heap', 0)
  BY <1>2 DEF EntriesOf, Distinct, HoleOrder
<1>5. Cursors' = Cursors
  BY <1>2, <1>4 DEF Cursors
<1>6. OrderInv'
  BY <1>1, <1>4 DEF OrderInv
<1>7. SameCursors
  BY <1>1, <1>2, <1>4, <1>5 DEF SameCursors, OthersCarried
<1> QED BY <1>3, <1>6, <1>7

LEMMA HoleAtBottomStep ==
  ASSUME MergeInv, HoleAtBottom
  PROVE  TypeOK' /\ OrderInv' /\ SameCursors
<1>1. /\ call # "none" /\ down /\ 2 * hole > Len(heap) /\ down' = FALSE
      /\ UNCHANGED <<input, read, filled, hole, wrapperVars, phase>>
      /\ phase = "running" /\ phase' = "running"
  BY DEF HoleAtBottom
<1>2. /\ hole \in 1..Len(heap) /\ Len(heap) \in Nat /\ heap \in Seq(Entry) /\ entry \in Entry
      /\ HoleOrder(heap, HoleAt) /\ HoleAt = hole /\ Distinct(heap, HoleAt) /\ OthersCarried
      /\ heap # <<>> /\ Len(heap) \in 1..Len(heap)
  BY <1>1 DEF MergeInv, TypeOK, OrderInv, CursorInv, OthersCarried, HoleAt
<1>3. CASE call = "pop" /\ hole = Len(heap)
  <2>1. heap' = Front(heap) /\ call' = "none" /\ entry' = entry
    BY <1>3 DEF HoleAtBottom
  <2>2. heap' \in Seq(Entry)
    BY <1>2, <2>1, FrontFacts
  <2>3. HoleOrder(heap', 0)
    BY <1>2, <1>3, <2>1, FrontOrder
  <2>4. EntriesOf(heap', 0) = EntriesOf(heap, hole) /\ Distinct(heap', 0)
    BY <1>2, <1>3, <2>1, FrontEntries
  <2>5. EntriesOf(heap', 0) = Cursors
    BY <1>2, <1>3, <2>4 DEF Cursors, Carried
  <2> QED BY <1>1, <2>1, <2>2, <2>3, <2>4, <2>5, CallEnds
<1>4. CASE ~(call = "pop" /\ hole = Len(heap))
  <2>1. heap' = heap /\ call' = call /\ entry' = IF call = "pop" THEN Last(heap) ELSE entry
    BY <1>4 DEF HoleAtBottom
  <2>2. UNCHANGED <<input, read, filled, current_key, data, groups, phase>> /\ hole' = hole
    BY <1>1 DEF wrapperVars
  <2>3. Last(heap) = heap[Len(heap)] /\ Last(heap) \in Entry
    BY <1>2, FrontFacts, KeysAreNumbers
  <2>4. TypeOK'
    <3>1. entry' \in Entry
      BY <1>2, <2>1, <2>3
    <3> QED BY <1>1, <2>1, <2>2, <3>1 DEF MergeInv, TypeOK, Tables
  <2>5. HoleAt' = HoleAt
    BY <2>1, <2>2 DEF HoleAt
  <2>6. /\ EntriesOf(heap, HoleAt)' = EntriesOf(heap, HoleAt)
        /\ Distinct(heap, HoleAt)' = Distinct(heap, HoleAt)
        /\ HoleOrder(heap, HoleAt)' = HoleOrder(heap, HoleAt)
    BY <2>1, <2>5 DEF EntriesOf, Distinct, HoleOrder
  <2>7. Carried' = Carried /\ (Carried => entry' = entry)
    BY <2>1 DEF Carried
  <2>8. Cursors' = Cursors /\ OthersCarried'
    BY <1>2, <2>6, <2>7 DEF Cursors, OthersCarried
  <2>9. SameCursors
    BY <1>2, <2>2, <2>6, <2>8 DEF SameCursors
  <2>10. AboveAll(heap', hole', entry')
    <3>1. \A j \in 2..Len(heap) : Parent(j) # hole
      <4>1. ASSUME NEW j \in 2..Len(heap), Parent(j) = hole PROVE FALSE
        <5>1. j = 2 * hole \/ j = 2 * hole + 1
          BY <1>2, <4>1, ParentFacts
        <5> QED BY <1>1, <1>2, <5>1
      <4> QED BY <4>1
    <3> QED BY <2>1, <2>2, <3>1 DEF AboveAll
  <2>11. ASSUME call = "pop" PROVE PopInv'
    <3>1. entry' = heap[Len(heap)] /\ hole # Len(heap)
      BY <1>4, <2>1, <2>3, <2>11
    <3>2. hole # 1
      BY <1>1, <1>2, <3>1
    <3>3. heap[1].key <= heap[Len(heap)].key
      BY <1>1, <1>2, <3>1, <3>2, TopIsLeast
    <3> QED BY <2>1, <2>2, <3>1, <3>2, <3>3 DEF PopInv
  <2>12. OrderInv'
    <3>1. AboveAll(heap, hole, entry)'
      BY <2>10 DEF AboveAll
    <3> QED BY <1>1, <1>2, <2>1, <2>2, <2>6, <2>11, <3>1 DEF OrderInv
  <2> QED BY <2>4, <2>9, <2>12
<1> QED BY <1>3, <1>4

LEMMA FillHoleStep ==
  ASSUME MergeInv, FillHole
  PROVE  TypeOK' /\ OrderInv' /\ SameCursors
<1> DEFINE full == [heap EXCEPT ![hole] = entry]
<1>1. /\ call # "none" /\ ~down /\ ~BelongsAbove /\ call' = "none"
      /\ heap' = (IF call = "pop" THEN Front(full) ELSE full)
      /\ phase' = (IF call = "pop" /\ hole = 1 THEN "undefined" ELSE phase)
      /\ UNCHANGED <<input, read, filled, hole, down, entry, wrapperVars>>
      /\ phase = "running"
  BY DEF FillHole
<1>2. /\ hole \in 1..Len(heap) /\ Len(heap) \in Nat /\ heap \in Seq(Entry) /\ entry \in Entry
      /\ HoleOrder(heap, hole) /\ HoleAt = hole /\ Distinct(heap, hole) /\ OthersCarried
      /\ AboveAll(heap, hole, entry) /\ (call = "pop" => PopInv)
      /\ heap # <<>> /\ Len(heap) \in 1..Len(heap)
      /\ down \in BOOLEAN /\ down' \in BOOLEAN
  BY <1>1 DEF MergeInv, TypeOK, OrderInv, CursorInv, OthersCarried, HoleAt
<1>3. phase' = "running"
  BY <1>1, <1>2 DEF PopInv
<1>4. UNCHANGED <<input, read, filled, hole, entry, wrapperVars, phase>>
  BY <1>1, <1>3
<1>5. full \in Seq(Entry) /\ Len(full) = Len(heap) /\ full # <<>>
  <2>1. full \in Seq(Entry) /\ Len(full) = Len(heap)
    BY <1>2, ExceptFacts
  <2> HIDE DEF full
  <2> QED BY <1>2, <2>1
<1>6. HoleOrder(full, 0)
  <2>1. hole > 1 => heap[Parent(hole)].key <= entry.key
    <3> SUFFICES ASSUME hole > 1 PROVE heap[Parent(hole)].key <= entry.key
      OBVIOUS
    <3>1. ~(entry.key < heap[Parent(hole)].key)
      BY <1>1 DEF BelongsAbove
    <3>2. Parent(hole) \in 1..Len(heap)
      BY <1>2, ParentFacts
    <3>3. heap[Parent(hole)].key \in Nat /\ entry.key \in Nat
      BY <1>2, <3>2, KeysAreNumbers DEF Entry
    <3> QED BY <3>1, <3>3
  <2> QED BY <1>2, <2>1, FillOrder
<1>7. CASE call = "pop"
  <2>1. heap' = Front(full) /\ hole # Len(heap) /\ entry = heap[Len(heap)]
    BY <1>1, <1>2, <1>7 DEF PopInv
  <2>2. EntriesOf(heap', 0) = EntriesOf(heap, hole) /\ Distinct(heap', 0)
    BY <1>2, <2>1, FrontEntries
  <2> HIDE DEF full
  <2>3. heap' \in Seq(Entry)
    BY <1>5, <2>1, FrontFacts
  <2>4. HoleOrder(heap', 0)
    BY <1>5, <1>6, <2>1, FrontOrder
  <2>5. EntriesOf(heap', 0) = Cursors
    BY <1>2, <1>7, <2>2 DEF Cursors, Carried
  <2> QED BY <1>1, <1>2, <1>3, <1>4, <2>2, <2>3, <2>4, <2>5, CallEnds
<1>8. CASE call # "pop"
  <2>1. heap' = full /\ Carried
    BY <1>1, <1>8 DEF Carried, MergeInv, TypeOK
  <2>2. EntriesOf(full, 0) = EntriesOf(heap, hole) \cup {entry} /\ Distinct(full, 0)
    <3>1. \A f \in EntriesOf(heap, hole) : f.table # entry.table
      BY <1>2, <2>1 DEF OthersCarried
    <3>2. heap \in Seq(Entry) /\ hole \in 1..Len(heap) /\ entry \in Entry /\ Distinct(heap, hole)
      BY <1>2
    <3>3. /\ EntriesOf(full, 0) = EntriesOf(heap, hole) \cup {entry}
          /\ (Distinct(heap, hole) /\ \A f \in EntriesOf(heap, hole) : f.table # entry.table)
               => Distinct(full, 0)
      BY <3>2, FillEntries
    <3> QED BY <3>1, <3>2, <3>3
  <2> HIDE DEF full
  <2>3. EntriesOf(heap', 0) = Cursors
    BY <1>2, <2>1, <2>2 DEF Cursors
  <2> QED BY <1>1, <1>2, <1>3, <1>4, <1>5, <1>6, <2>1, <2>2, <2>3, CallEnds
<1> QED BY <1>7, <1>8

(* The heap's functions keep the invariant.                                *)
LEMMA HeapSteps ==
  ASSUME MergeInv, HeapStep
  PROVE  MergeInv' /\ UNCHANGED <<input, groups, phase>>
<1>1. TypeOK' /\ OrderInv' /\ SameCursors
  BY HoleDownStep, HoleAtBottomStep, HoleUpStep, FillHoleStep DEF HeapStep
<1>2. /\ UNCHANGED <<input, read, filled, current_key, data, groups, phase>>
      /\ Cursors' = Cursors
  BY <1>1 DEF SameCursors
<1>3. CursorInv'
  <2>1. \A e : IsCursor(e)' <=> IsCursor(e)
    BY <1>2 DEF IsCursor
  <2> QED BY <1>1, <1>2, <2>1
          DEF MergeInv, CursorInv, SameCursors, OthersCarried, HasRow, TableIsSorted, Tables
<1>4. GroupInv'
  <2>1. \A t, r : Delivered(t, r)' <=> Delivered(t, r)
    BY <1>2 DEF Delivered
  <2>2. Grouped!AllRows' = Grouped!AllRows /\ Grouped!RowsGiven' = Grouped!RowsGiven /\ Seen' = Seen
    BY <1>2 DEF Grouped!AllRows, Grouped!RowsGiven, Seen
  <2>3. \A row : Grouped!KeyOf(row)' = Grouped!KeyOf(row)
    BY <1>2 DEF Grouped!KeyOf
  <2> QED BY <1>2, <2>1, <2>2, <2>3 DEF MergeInv, GroupInv
<1> QED BY <1>1, <1>2, <1>3, <1>4 DEF MergeInv
-----------------------------------------------------------------------------
(* What ReadRow gives is a row of its table.                               *)
LEMMA NextEntryFacts ==
  ASSUME TypeOK, NEW t \in Tables, HasRow(t), ReadRow(t)
  PROVE  /\ NextEntry(t) \in Entry /\ NextEntry(t).table = t
         /\ NextEntry(t).row = read[t] + 1 /\ read[t] \in Nat
         /\ NextEntry(t).row \in 1..Len(input[t])
         /\ NextEntry(t).key = input[t][NextEntry(t).row]
         /\ read' = [read EXCEPT ![t] = read[t] + 1] /\ read'[t] = read[t] + 1
         /\ \A u \in Tables : u # t => read'[u] = read[u]
<1>1. /\ input \in Seq(Seq(Nat)) /\ Tables = 1..Len(input) /\ input[t] \in Seq(Nat)
      /\ read \in [Tables -> Nat] /\ read[t] \in Nat /\ Len(input[t]) \in Nat
      /\ read[t] < Len(input[t]) /\ t \in Nat
  BY DEF TypeOK, HasRow, Tables
<1>2. read[t] + 1 \in 1..Len(input[t])
  BY <1>1
<1>3. input[t][read[t] + 1] \in Nat
  BY <1>1, <1>2
<1>4. read' = [read EXCEPT ![t] = read[t] + 1]
  BY DEF ReadRow
<1>5. read'[t] = read[t] + 1 /\ \A u \in Tables : u # t => read'[u] = read[u]
  BY <1>1, <1>4
<1> QED BY <1>1, <1>2, <1>3, <1>4, <1>5 DEF NextEntry, Entry

LEMMA AllRowsFacts ==
  /\ \A row \in Grouped!AllRows :
       /\ row[1] \in Tables /\ row[2] \in 1..Len(input[row[1]])
       /\ row = <<row[1], row[2]>>
  /\ \A t \in Tables : \A r \in 1..Len(input[t]) : <<t, r>> \in Grouped!AllRows
BY DEF Grouped!AllRows, Tables

(* Sets of a sequence's elements.                                          *)
LEMMA ToSetFacts ==
  ASSUME NEW S, NEW s \in Seq(S), NEW x \in S
  PROVE  /\ ToSet(Append(s, x)) = ToSet(s) \cup {x}
         /\ s = <<>> => ToSet(s) = {}
         /\ \A i \in 1..Len(s) : s[i] \in ToSet(s)
<1> DEFINE n == Len(s)
           t == Append(s, x)
<1>1. /\ n \in Nat /\ t \in Seq(S) /\ Len(t) = n + 1
      /\ \A i \in 1..n : t[i] = s[i]
      /\ t[n + 1] = x
  BY AppendProperties
<1>2. DOMAIN s = 1..n /\ DOMAIN t = 1 .. n + 1
  BY <1>1
<1> HIDE DEF n, t
<1>3. 1 .. n + 1 = (1..n) \cup {n + 1}
  BY <1>1
<1>4. ToSet(t) = ToSet(s) \cup {x}
  BY <1>1, <1>2, <1>3 DEF ToSet
<1>5. s = <<>> => ToSet(s) = {}
  BY DEF ToSet
<1>6. \A i \in 1..n : s[i] \in ToSet(s)
  BY <1>2 DEF ToSet
<1> QED BY <1>4, <1>5, <1>6 DEF n, t

Group == [key : Nat, data : Seq(Nat \X Nat)]
RowsOf(gs) == UNION {ToSet(gs[g].data) : g \in 1..Len(gs)}

LEMMA RowsOfFacts ==
  ASSUME NEW gs \in Seq(Group), NEW x \in Group
  PROVE  /\ RowsOf(Append(gs, x)) = RowsOf(gs) \cup ToSet(x.data)
         /\ gs = <<>> => RowsOf(gs) = {}
<1> DEFINE n == Len(gs)
           t == Append(gs, x)
<1>1. /\ n \in Nat /\ Len(t) = n + 1
      /\ \A i \in 1..n : t[i] = gs[i]
      /\ t[n + 1] = x
  BY AppendProperties
<1> HIDE DEF n, t
<1>3. 1 .. n + 1 = (1..n) \cup {n + 1}
  BY <1>1
<1>4. RowsOf(t) \subseteq RowsOf(gs) \cup ToSet(x.data)
  BY <1>1, <1>3 DEF RowsOf, n
<1>5. RowsOf(gs) \cup ToSet(x.data) \subseteq RowsOf(t)
  BY <1>1, <1>3 DEF RowsOf, n
<1>6. gs = <<>> => RowsOf(gs) = {}
  BY DEF RowsOf
<1> QED BY <1>4, <1>5, <1>6 DEF t

(* Appending and taking the last off again.                                *)
LEMMA FrontOfAppend ==
  ASSUME NEW S, NEW s \in Seq(S), NEW x \in S
  PROVE  Len(Append(s, x)) = Len(s) + 1 /\ Front(Append(s, x)) = s /\ Last(Append(s, x)) = x
<1> DEFINE t == Append(s, x)
           f == Front(t)
<1>1. /\ t \in Seq(S) /\ t # <<>> /\ Len(s) \in Nat /\ Len(t) = Len(s) + 1
      /\ \A i \in 1..Len(s) : t[i] = s[i]
      /\ t[Len(s) + 1] = x
  BY AppendProperties
<1> HIDE DEF t
<1>2. /\ f \in Seq(S) /\ Len(f) = Len(t) - 1
      /\ \A j \in 1 .. Len(t) - 1 : f[j] = t[j]
      /\ Last(t) = t[Len(t)]
  BY <1>1, FrontFacts
<1> HIDE DEF f
<1>3. Len(t) - 1 = Len(s)
  BY <1>1
<1>4. Len(f) = Len(s) /\ \A j \in 1..Len(s) : f[j] = s[j]
  BY <1>1, <1>2, <1>3
<1>5. f = s
  BY <1>2, <1>4, SeqEqual
<1> QED BY <1>1, <1>2, <1>5 DEF t, f
-----------------------------------------------------------------------------
(* Before the second loop nothing has been handed on.                      *)
LEMMA NothingYet ==
  ASSUME MergeInv, phase = "running", filled < Len(input)
  PROVE  /\ data = <<>> /\ groups = <<>> /\ Seen = {}
         /\ \A row \in Grouped!AllRows : ~Delivered(row[1], row[2])
<1>1. filled # Len(input)
  <2>1. filled \in Nat /\ Len(input) \in Nat
    BY DEF MergeInv, TypeOK
  <2> QED BY <2>1
<1>2. data = <<>> /\ groups = <<>>
  BY <1>1 DEF MergeInv, GroupInv
<1>3. Seen = {}
  <2>1. ToSet(data) = {}
    BY <1>2 DEF ToSet
  <2>2. Grouped!RowsGiven = {}
    BY <1>2 DEF Grouped!RowsGiven
  <2> QED BY <2>1, <2>2 DEF Seen
<1>4. \A row \in Grouped!AllRows : ~Delivered(row[1], row[2])
  BY <1>3 DEF MergeInv, GroupInv
<1> QED BY <1>2, <1>3, <1>4

(* GroupInv goes on while nothing is handed on.                            *)
LEMMA GroupsNotBegun ==
  ASSUME MergeInv, phase = "running", filled < Len(input), UNCHANGED <<input, wrapperVars, phase>>,
         \A t \in Tables : \A r \in 1..Len(input[t]) : Delivered(t, r)' => Delivered(t, r)
  PROVE  GroupInv'
<1>1. /\ data = <<>> /\ groups = <<>> /\ Seen = {}
      /\ \A row \in Grouped!AllRows : ~Delivered(row[1], row[2])
  BY NothingYet
<1>2. UNCHANGED <<input, current_key, data, groups, phase>>
  BY DEF wrapperVars
<1>3. Grouped!AllRows' = Grouped!AllRows /\ Grouped!RowsGiven' = Grouped!RowsGiven /\ Seen' = Seen
  BY <1>2 DEF Grouped!AllRows, Grouped!RowsGiven, Seen
<1>4. \A row \in Grouped!AllRows : ~Delivered(row[1], row[2])'
  BY <1>1, AllRowsFacts
<1>5. ToSet(data) = {} /\ Len(data) = 0 /\ Len(groups) = 0
  BY <1>1 DEF ToSet
<1>6. ToSet(data)' = {} /\ RowsInOrder(data)' /\ data' = <<>> /\ groups' = <<>>
      /\ \A g \in 1..Len(groups') : FALSE
  BY <1>1, <1>2, <1>5 DEF RowsInOrder
<1>7. Seen' = {}
  BY <1>1, <1>3
<1> QED BY <1>3, <1>4, <1>6, <1>7 DEF GroupInv

LEMMA FillStep ==
  ASSUME MergeInv, Fill
  PROVE  MergeInv' /\ UNCHANGED <<input, groups>> /\ phase' \in {phase, "thrown"}
<1> DEFINE t == filled + 1
<1>1. /\ phase = "running" /\ call = "none" /\ filled < Len(input)
      /\ UNCHANGED <<input, wrapperVars>>
  BY DEF Fill
<1>2. UNCHANGED <<input, current_key, data, groups>>
  BY <1>1 DEF wrapperVars
<1>3. /\ TypeOK /\ OrderInv /\ CursorInv /\ GroupInv
      /\ heap \in Seq(Entry) /\ input \in Seq(Seq(Nat)) /\ Tables = 1..Len(input)
      /\ filled \in Nat /\ Len(input) \in Nat /\ t \in Tables /\ t \in 0..Len(input)
      /\ t > filled /\ read \in [Tables -> Nat]
  BY <1>1 DEF MergeInv, TypeOK, Tables
<1>4. read[t] = 0 /\ \A u \in 1..t : u = t \/ u \in 1..filled
  BY <1>3 DEF CursorInv
<1> HIDE DEF t
<1>5. CASE ~TableIsSorted(t)
  <2>1. phase' = "thrown" /\ UNCHANGED <<read, filled, heapVars>>
    BY <1>5 DEF Fill, t
  <2>2. UNCHANGED <<read, filled, heap, call, hole, down, entry>>
    BY <2>1 DEF heapVars
  <2>3. TypeOK'
    BY <1>2, <1>3, <2>1, <2>2 DEF TypeOK, Tables
  <2>4. HoleAt' = HoleAt /\ Carried' = Carried /\ Cursors' = Cursors
    BY <2>2 DEF HoleAt, Carried, Cursors, EntriesOf
  <2>5. OrderInv'
    BY <1>3, <2>1, <2>2, <2>4 DEF OrderInv, HoleOrder, AboveAll, PopInv
  <2>6. CursorInv'
    BY <1>2, <1>3, <2>2, <2>4
       DEF CursorInv, Distinct, EntriesOf, IsCursor, HasRow, TableIsSorted, Tables
  <2>7. GroupInv'
    BY <2>1 DEF GroupInv
  <2> QED BY <1>2, <2>1, <2>3, <2>5, <2>6, <2>7 DEF MergeInv
<1>6. CASE TableIsSorted(t)
  <2>1. /\ filled' = t /\ ReadRow(t) /\ phase' = phase
        /\ IF HasRow(t) THEN CA_merge_heap_push(NextEntry(t)) ELSE UNCHANGED heapVars
    BY <1>6 DEF Fill, t
  <2>2. \A u \in 1..t : TableIsSorted(u)'
    BY <1>2, <1>3, <1>4, <1>6 DEF CursorInv, TableIsSorted
  <2>3. filled' \in 0..Len(input') /\ \A u \in Tables' : u > filled' => u > filled /\ u # t
    BY <1>2, <1>3, <2>1 DEF Tables, t
  <2>4. CASE ~HasRow(t)
    <3>1. UNCHANGED <<read, heap, call, hole, down, entry>>
      BY <2>1, <2>4 DEF ReadRow, heapVars
    <3>2. TypeOK'
      BY <1>2, <1>3, <2>1, <2>3, <3>1 DEF TypeOK, Tables
    <3>3. HoleAt' = HoleAt /\ Carried' = Carried /\ Cursors' = Cursors
      BY <3>1 DEF HoleAt, Carried, Cursors, EntriesOf
    <3>4. OrderInv'
      BY <1>3, <2>1, <3>1, <3>3 DEF OrderInv, HoleOrder, AboveAll, PopInv
    <3>5. \A e \in Cursors : IsCursor(e)'
      <4>1. 1..filled \subseteq 1..filled'
        BY <1>3, <2>1 DEF t
      <4> QED BY <1>2, <1>3, <3>1, <4>1 DEF CursorInv, IsCursor
    <3>6. \A u \in 1..filled' : HasRow(u)' => \E e \in Cursors : e.table = u
      BY <1>2, <1>3, <1>4, <2>1, <2>4, <3>1 DEF CursorInv, HasRow
    <3>7. Distinct(heap, HoleAt)' /\ (Carried => \A e \in EntriesOf(heap, HoleAt) : e.table # entry.table)'
      BY <1>3, <3>1, <3>3 DEF CursorInv, Distinct, EntriesOf
    <3>8. \A u \in Tables' : u > filled' => read'[u] = 0
      BY <1>2, <1>3, <2>3, <3>1 DEF CursorInv, Tables
    <3>9. CursorInv'
      BY <2>1, <2>2, <3>3, <3>5, <3>6, <3>7, <3>8 DEF CursorInv
    <3>10. \A u \in Tables : \A r \in 1..Len(input[u]) : Delivered(u, r)' => Delivered(u, r)
      BY <3>1, <3>3 DEF Delivered
    <3>11. GroupInv'
      BY <1>1, <2>1, <3>10, GroupsNotBegun
    <3> QED BY <1>2, <2>1, <3>2, <3>4, <3>9, <3>11 DEF MergeInv
  <2>5. CASE HasRow(t)
    <3>0. PICK e : e = NextEntry(t)
      OBVIOUS
    <3> DEFINE n == Len(heap)
    <3>1. /\ heap' = Append(heap, e) /\ call' = "push" /\ hole' = n + 1
          /\ down' = FALSE /\ entry' = e
      BY <2>1, <2>5, <3>0 DEF CA_merge_heap_push
    <3>2. /\ e \in Entry /\ e.table = t /\ e.row = 1 /\ e.row \in 1..Len(input[t])
          /\ e.key = input[t][e.row]
          /\ read' = [read EXCEPT ![t] = 1] /\ read'[t] = 1
          /\ \A u \in Tables : u # t => read'[u] = read[u]
      BY <1>3, <1>4, <2>1, <2>5, <3>0, NextEntryFacts
    <3>3. n \in Nat /\ heap' \in Seq(Entry) /\ Len(heap') = n + 1
      BY <1>3, <3>1, <3>2, AppendProperties
    <3>4. HoleAt = 0 /\ ~Carried /\ Cursors = EntriesOf(heap, 0) /\ HoleAt' = n + 1 /\ Carried'
      BY <1>1, <3>1 DEF HoleAt, Carried, Cursors
    <3>5. EntriesOf(heap', n + 1) = Cursors /\ Distinct(heap', n + 1)
      BY <1>3, <3>1, <3>2, <3>4, PushEntries DEF CursorInv
    <3>6. EntriesOf(heap, HoleAt)' = Cursors /\ Distinct(heap, HoleAt)' /\ Cursors' = Cursors \cup {e}
      <4>1. EntriesOf(heap, HoleAt)' = EntriesOf(heap', n + 1) /\ Distinct(heap, HoleAt)' = Distinct(heap', n + 1)
        BY <3>4 DEF EntriesOf, Distinct
      <4> QED BY <3>1, <3>4, <3>5, <4>1 DEF Cursors
    <3>7. TypeOK'
      <4>1. Tables' = Tables /\ read' \in [Tables -> Nat]
        BY <1>2, <1>3, <3>2 DEF Tables
      <4>2. \A u \in Tables : read'[u] \in 0..Len(input[u])
        <5>1. 1 \in 0..Len(input[t])
          BY <3>2
        <5> QED BY <1>3, <3>2, <5>1 DEF TypeOK
      <4>3. n + 1 \in Nat
        BY <3>3
      <4> QED BY <1>2, <1>3, <2>1, <2>3, <3>1, <3>2, <3>3, <4>1, <4>2, <4>3 DEF TypeOK
    <3>8. OrderInv'
      <4>1. HoleOrder(heap', n + 1) /\ AboveAll(heap', n + 1, e)
        BY <1>3, <3>1, <3>2, <3>4, PushOrder DEF OrderInv
      <4>2. HoleOrder(heap, HoleAt)' /\ AboveAll(heap, hole, entry)'
        BY <3>1, <3>4, <4>1 DEF HoleOrder, AboveAll
      <4>3. n + 1 \in 1 .. n + 1
        BY <3>3
      <4> QED BY <1>1, <2>1, <3>1, <3>3, <4>2, <4>3 DEF OrderInv
    <3>9. \A f \in Cursors : f.table \in 1..filled /\ f.table # t /\ IsCursor(f)'
      <4>1. \A u \in 1..filled : u \in 1..t /\ u \in Tables /\ u # t
        BY <1>3 DEF t
      <4> QED BY <1>2, <1>3, <2>1, <3>2, <4>1 DEF CursorInv, IsCursor
    <3>10. IsCursor(e)'
      <4>1. t \in 1..t
        BY <1>3
      <4> QED BY <1>2, <2>1, <3>2, <4>1 DEF IsCursor
    <3>11. \A u \in 1..filled' : HasRow(u)' => \E f \in Cursors' : f.table = u
      <4> TAKE u \in 1..filled'
      <4>1. CASE u = t
        BY <3>2, <3>6, <4>1
      <4>2. CASE u # t
        <5>1. u \in 1..filled
          BY <1>4, <2>1, <4>2
        <5>2. u \in Tables
          BY <1>3, <5>1 DEF t
        <5> QED BY <1>2, <1>3, <3>2, <3>6, <4>2, <5>1, <5>2 DEF CursorInv, HasRow
      <4> QED BY <4>1, <4>2
    <3>12. \A u \in Tables' : u > filled' => read'[u] = 0
      BY <1>2, <1>3, <2>3, <3>2 DEF CursorInv, Tables
    <3>13. CursorInv'
      BY <2>1, <2>2, <3>1, <3>2, <3>6, <3>9, <3>10, <3>11, <3>12 DEF CursorInv
    <3>14. \A u \in Tables : \A r \in 1..Len(input[u]) : Delivered(u, r)' => Delivered(u, r)
      <4> TAKE u \in Tables
      <4> TAKE r \in 1..Len(input[u])
      <4>1. CASE u = t
        <5>1. ~(r <= 1) \/ r = 1
          OBVIOUS
        <5> QED BY <3>2, <3>6, <4>1, <5>1 DEF Delivered
      <4>2. CASE u # t
        BY <3>2, <3>6, <4>2 DEF Delivered
      <4> QED BY <4>1, <4>2
    <3>15. GroupInv'
      BY <1>1, <2>1, <3>14, GroupsNotBegun
    <3> QED BY <1>2, <2>1, <3>7, <3>8, <3>13, <3>15 DEF MergeInv
  <2> QED BY <2>4, <2>5
<1> QED BY <1>5, <1>6
-----------------------------------------------------------------------------
(* A row that was not handed on has no smaller key than some entry: tables *)
(* are sorted, and have an entry as long as they have rows.                *)
LEMMA RowsLeft ==
  ASSUME MergeInv, phase = "running", filled = Len(input),
         NEW row \in Grouped!AllRows, row \notin Seen
  PROVE  Grouped!KeyOf(row) \in Nat /\ \E e \in Cursors : e.key <= Grouped!KeyOf(row)
<1> DEFINE t == row[1]
           r == row[2]
<1>1. t \in Tables /\ r \in 1..Len(input[t]) /\ ~Delivered(t, r)
  BY AllRowsFacts DEF MergeInv, GroupInv
<1>2. Grouped!KeyOf(row) = input[t][r]
  BY DEF Grouped!KeyOf
<1> HIDE DEF t, r
<1>3. /\ input[t] \in Seq(Nat) /\ Len(input[t]) \in Nat /\ t \in 1..filled
      /\ read[t] \in Nat /\ \A i \in 1..Len(input[t]) : input[t][i] \in Nat
  <2>1. input \in Seq(Seq(Nat)) /\ read \in [Tables -> Nat] /\ Tables = 1..filled
    BY DEF MergeInv, TypeOK, Tables
  <2>2. input[t] \in Seq(Nat) /\ t \in 1..filled /\ read[t] \in Nat
    BY <1>1, <2>1
  <2> QED BY <2>2
<1>4. CASE r <= read[t]
  <2>1. PICK e \in Cursors : e.table = t /\ e.row = r
    BY <1>1, <1>4 DEF Delivered
  <2>2. e.key = input[t][r]
    BY <2>1 DEF MergeInv, CursorInv, IsCursor
  <2>3. input[t][r] \in Nat
    BY <1>1, <1>3
  <2> QED BY <1>2, <2>2, <2>3
<1>5. CASE ~(r <= read[t])
  <2>1. read[t] < r /\ HasRow(t)
    BY <1>1, <1>3, <1>5 DEF HasRow
  <2>2. PICK e \in Cursors : e.table = t
    BY <1>3, <2>1 DEF MergeInv, CursorInv
  <2>3. e.row = read[t] /\ e.row \in 1..Len(input[t]) /\ e.key = input[t][e.row]
    BY <2>2 DEF MergeInv, CursorInv, IsCursor
  <2>4. TableIsSorted(t)
    BY <1>3 DEF MergeInv, CursorInv
  <2>5. input[t][e.row] <= input[t][r]
    BY <1>1, <2>1, <2>3, <2>4 DEF TableIsSorted
  <2> QED BY <1>1, <1>2, <1>3, <2>3, <2>5
<1> QED BY <1>4, <1>5

(* GroupedMerge's operators on sequences are those used here.              *)
LEMMA SameOperators ==
  \A s : Grouped!ToSet(s) = ToSet(s) /\ Grouped!Front(s) = Front(s) /\ Grouped!Last(s) = Last(s)
BY DEF Grouped!ToSet, ToSet, Grouped!Front, Front, Grouped!Last, Last

LEMMA RowsGivenFacts == Grouped!RowsGiven = RowsOf(groups) /\ Grouped!RowsGiven' = RowsOf(groups')
BY DEF Grouped!RowsGiven, RowsOf, Grouped!ToSet, ToSet

(* The rows gathered are a whole group if all rows left have larger keys.  *)
LEMMA GroupIsWhole ==
  ASSUME MergeInv, phase = "running", data # <<>>,
         groups' = Append(groups, [key |-> current_key, data |-> data]), input' = input,
         \A row \in Grouped!AllRows :
           row \notin Seen => Grouped!KeyOf(row) \in Nat /\ current_key < Grouped!KeyOf(row)
  PROVE  Grouped!Emit
<1> DEFINE g == [key |-> current_key, data |-> data]
<1>1. /\ groups \in Seq(Group) /\ g \in Group /\ current_key \in Nat
      /\ g.key = current_key /\ g.data = data
  BY DEF MergeInv, TypeOK, Group
<1> HIDE DEF g
<1>2. Len(groups') = Len(groups) + 1 /\ Front(groups') = groups /\ Last(groups') = g
  BY <1>1, FrontOfAppend DEF g
<1>3. /\ Seen \subseteq Grouped!AllRows
      /\ \A row \in ToSet(data) : Grouped!KeyOf(row) = current_key
      /\ RowsInOrder(data)
      /\ \A k \in 1..Len(groups) :
           /\ groups[k].key < current_key
           /\ \A row \in ToSet(groups[k].data) : Grouped!KeyOf(row) = groups[k].key
  BY DEF MergeInv, GroupInv
<1>4. \A k \in 1..Len(groups) : groups[k].key \in Nat
  <2> TAKE k \in 1..Len(groups)
  <2>1. groups[k] \in Group
    BY <1>1
  <2> QED BY <2>1 DEF Group
<1>5. \A row \in Grouped!RowsGiven :
        Grouped!KeyOf(row) < current_key /\ Grouped!KeyOf(row) # current_key
  <2> TAKE row \in Grouped!RowsGiven
  <2>1. PICK k \in 1..Len(groups) : row \in ToSet(groups[k].data)
    BY RowsGivenFacts DEF RowsOf
  <2>2. Grouped!KeyOf(row) = groups[k].key /\ groups[k].key < current_key /\ groups[k].key \in Nat
    BY <1>3, <1>4, <2>1
  <2> QED BY <1>1, <2>2
<1>6. \A row \in Grouped!AllRows : row \in ToSet(data) \/ row \in Grouped!RowsGiven \/ row \notin Seen
  BY DEF Seen
<1>7. ToSet(data) = {row \in Grouped!AllRows : Grouped!KeyOf(row) = current_key}
  <2>1. ToSet(data) \subseteq Grouped!AllRows
    BY <1>3 DEF Seen
  <2>2. ASSUME NEW row \in Grouped!AllRows, Grouped!KeyOf(row) = current_key
        PROVE  row \in ToSet(data)
    <3>1. row \notin Grouped!RowsGiven
      BY <1>5, <2>2
    <3>2. row \in Seen
      BY <1>1, <2>2
    <3> QED BY <3>1, <3>2 DEF Seen
  <2> QED BY <1>3, <2>1, <2>2
<1>8. \A row \in Grouped!AllRows \ Grouped!RowsGiven : current_key <= Grouped!KeyOf(row)
  <2> TAKE row \in Grouped!AllRows \ Grouped!RowsGiven
  <2>1. CASE row \in ToSet(data)
    BY <1>1, <1>3, <2>1
  <2>2. CASE row \notin Seen
    BY <1>1, <2>2
  <2> QED BY <1>6, <2>1, <2>2
<1>9. Grouped!WholeGroup(g)
  <2>1. Grouped!ToSet(g.data) = {row \in Grouped!AllRows : Grouped!KeyOf(row) = g.key}
    BY <1>1, <1>7, SameOperators
  <2>2. RowsInOrder(g.data)
    BY <1>1, <1>3
  <2> QED BY <2>1, <2>2 DEF Grouped!WholeGroup, RowsInOrder
<1>10. Grouped!Front(groups') = groups /\ Grouped!Last(groups') = g
  BY <1>2, SameOperators
<1> QED BY <1>1, <1>2, <1>3, <1>8, <1>9, <1>10 DEF Grouped!Emit

(* The heap's top is handed on: no row that is left is smaller.            *)
AtTop == phase = "running" /\ call = "none" /\ filled = Len(input) /\ heap # <<>>

LEMMA TopFacts ==
  ASSUME MergeInv, AtTop
  PROVE  /\ heap \in Seq(Entry) /\ heap[1] \in Entry /\ heap[1].key \in Nat
         /\ HoleAt = 0 /\ ~Carried /\ Cursors = EntriesOf(heap, 1) \cup {heap[1]}
         /\ IsCursor(heap[1]) /\ heap[1].table \in Tables
         /\ \A e \in Cursors : heap[1].key <= e.key /\ e.key \in Nat
         /\ Distinct(heap, 1) /\ \A e \in EntriesOf(heap, 1) : e.table # heap[1].table
         /\ \A row \in Grouped!AllRows :
              row \notin Seen => Grouped!KeyOf(row) \in Nat /\ heap[1].key <= Grouped!KeyOf(row)
<1>1. /\ heap \in Seq(Entry) /\ heap # <<>> /\ call = "none" /\ phase = "running"
      /\ filled = Len(input) /\ 1 \in 1..Len(heap)
  BY DEF MergeInv, TypeOK, AtTop
<1>2. heap[1] \in Entry /\ heap[1].key \in Nat
  BY <1>1, KeysAreNumbers
<1>3. HoleAt = 0 /\ ~Carried
  BY <1>1 DEF HoleAt, Carried
<1>4. Cursors = EntriesOf(heap, 0)
  BY <1>3 DEF Cursors
<1>5. /\ EntriesOf(heap, 0) = EntriesOf(heap, 1) \cup {heap[1]}
      /\ Distinct(heap, 1) /\ \A e \in EntriesOf(heap, 1) : e.table # heap[1].table
  BY <1>1, <1>3, TopEntries DEF MergeInv, CursorInv
<1>6. IsCursor(heap[1])
  BY <1>4, <1>5 DEF MergeInv, CursorInv
<1>7. heap[1].table \in Tables
  BY <1>1, <1>6 DEF IsCursor, Tables, MergeInv, TypeOK
<1>8. \A e \in Cursors : heap[1].key <= e.key /\ e.key \in Nat
  <2>1. \A j \in 1..Len(heap) : j # 0 => heap[1].key <= heap[j].key
    BY <1>1, <1>3, TopIsLeast DEF MergeInv, OrderInv
  <2>2. \A j \in 1..Len(heap) : j # 0 /\ heap[j].key \in Nat
    BY <1>1, KeysAreNumbers
  <2> QED BY <1>4, <2>1, <2>2 DEF EntriesOf
<1>9. ASSUME NEW row \in Grouped!AllRows, row \notin Seen
      PROVE  Grouped!KeyOf(row) \in Nat /\ heap[1].key <= Grouped!KeyOf(row)
  <2>1. Grouped!KeyOf(row) \in Nat
    BY <1>1, <1>9, RowsLeft
  <2>2. PICK e \in Cursors : e.key <= Grouped!KeyOf(row)
    BY <1>1, <1>9, RowsLeft
  <2>3. heap[1].key <= e.key /\ e.key \in Nat
    BY <1>8
  <2> QED BY <1>2, <2>1, <2>2, <2>3
<1> QED BY <1>1, <1>2, <1>3, <1>4, <1>5, <1>6, <1>7, <1>8, <1>9

(* What callback_wrapper hands to the callback is the next group.          *)
LEMMA CallbackEmits ==
  ASSUME MergeInv, AtTop, CallbackWrapper(heap[1]), input' = input
  PROVE  Grouped!Emit \/ groups' = groups
<1>1. CASE heap[1].key # current_key /\ data # <<>>
  <2>1. groups' = Append(groups, [key |-> current_key, data |-> data])
    BY <1>1 DEF CallbackWrapper
  <2>2. phase = "running" /\ call = "none" /\ heap[1].key \in Nat /\ heap[1] \in Cursors
    BY TopFacts DEF AtTop
  <2>3. current_key < heap[1].key /\ current_key \in Nat
    <3>1. current_key <= heap[1].key /\ current_key \in Nat
      BY <1>1, <2>2 DEF MergeInv, GroupInv, TypeOK
    <3> QED BY <1>1, <2>2, <3>1
  <2>4. \A row \in Grouped!AllRows :
          row \notin Seen => Grouped!KeyOf(row) \in Nat /\ current_key < Grouped!KeyOf(row)
    <3> TAKE row \in Grouped!AllRows
    <3> HAVE row \notin Seen
    <3>1. Grouped!KeyOf(row) \in Nat /\ heap[1].key <= Grouped!KeyOf(row)
      BY TopFacts
    <3> QED BY <2>2, <2>3, <3>1
  <2> QED BY <1>1, <2>1, <2>2, <2>4, GroupIsWhole
<1>2. CASE ~(heap[1].key # current_key /\ data # <<>>)
  BY <1>2 DEF CallbackWrapper
<1> QED BY <1>1, <1>2

(* callback_wrapper keeps the types.                                       *)
LEMMA WrapperTypes ==
  ASSUME MergeInv, AtTop, CallbackWrapper(heap[1])
  PROVE  /\ current_key' \in Nat /\ data' \in Seq(Nat \X Nat)
         /\ groups' \in Seq([key : Nat, data : Seq(Nat \X Nat)])
<1> DEFINE e == heap[1]
           x == <<e.table, e.row>>
           g == [key |-> current_key, data |-> data]
<1>1. TypeOK /\ e \in Entry
  BY TopFacts DEF MergeInv
<1>2. /\ groups' = (IF e.key # current_key /\ data # <<>> THEN Append(groups, g) ELSE groups)
      /\ data' = Append(IF e.key # current_key THEN <<>> ELSE data, x)
      /\ current_key' = e.key
  BY DEF CallbackWrapper
<1> HIDE DEF e
<1>3. e.key \in Nat /\ x \in Nat \X Nat
  BY <1>1 DEF Entry
<1>4. /\ g \in [key : Nat, data : Seq(Nat \X Nat)]
      /\ groups \in Seq([key : Nat, data : Seq(Nat \X Nat)])
      /\ (IF e.key # current_key THEN <<>> ELSE data) \in Seq(Nat \X Nat)
  BY <1>1 DEF TypeOK
<1> HIDE DEF x, g
<1>5. data' \in Seq(Nat \X Nat)
  BY <1>2, <1>3, <1>4, AppendProperties
<1>6. groups' \in Seq([key : Nat, data : Seq(Nat \X Nat)])
  BY <1>2, <1>4, AppendProperties
<1> QED BY <1>2, <1>3, <1>5, <1>6
-----------------------------------------------------------------------------
(* A round of the second loop: first the cursors.                          *)

StepShape(e, t) ==
  /\ e = heap[1] /\ t = e.table
  /\ IsCursor(e) /\ t \in Tables /\ e.row \in Nat
  /\ EntriesOf(heap, HoleAt)' = EntriesOf(heap, 1)
  /\ Distinct(heap, HoleAt)'
  /\ Cursors = EntriesOf(heap, 1) \cup {e}
  /\ \A f \in EntriesOf(heap, 1) : f.table # t
  /\ \/ /\ HasRow(t) /\ Carried'
        /\ Cursors' = EntriesOf(heap, 1) \cup {entry'}
        /\ entry' \in Entry /\ entry'.table = t /\ entry'.row = e.row + 1
        /\ entry'.row \in 1..Len(input[t]) /\ entry'.key = input[t][entry'.row]
        /\ read'[t] = e.row + 1
     \/ /\ ~HasRow(t) /\ ~Carried'
        /\ Cursors' = EntriesOf(heap, 1)
        /\ read'[t] = e.row
  /\ \A u \in Tables : u # t => read'[u] = read[u]

LEMMA StepHeap ==
  ASSUME MergeInv, Step
  PROVE  /\ AtTop /\ CallbackWrapper(heap[1])
         /\ UNCHANGED <<input, filled, phase, heap>> /\ hole' = 1 /\ call' # "none"
         /\ TypeOK' /\ OrderInv'
         /\ \E e, t : StepShape(e, t)
<1>1. AtTop /\ CallbackWrapper(heap[1]) /\ UNCHANGED <<input, filled, phase>>
  BY DEF Step, AtTop
<1>2. PICK e : e = heap[1]
  OBVIOUS
<1>3. PICK t : t = e.table
  OBVIOUS
<1>4. /\ heap \in Seq(Entry) /\ e \in Entry
      /\ HoleAt = 0 /\ ~Carried /\ Cursors = EntriesOf(heap, 1) \cup {e}
      /\ IsCursor(e) /\ t \in Tables
      /\ Distinct(heap, 1) /\ \A f \in EntriesOf(heap, 1) : f.table # t
  BY <1>1, <1>2, <1>3, TopFacts
<1>5. /\ TypeOK /\ OrderInv /\ e.row = read[t] /\ e.row \in Nat /\ t \in Nat /\ e.key \in Nat
      /\ heap # <<>> /\ phase = "running"
  BY <1>1, <1>3, <1>4 DEF MergeInv, IsCursor, Entry, AtTop
<1>6. ReadRow(t) /\ (\/ HasRow(t) /\ CA_merge_heap_replace_top(NextEntry(t))
                     \/ ~HasRow(t) /\ CA_merge_heap_pop)
  BY <1>2, <1>3 DEF Step
<1>7. heap' = heap /\ hole' = 1 /\ down' = TRUE /\ call' \in {"replace_top", "pop"}
  BY <1>6 DEF CA_merge_heap_replace_top, CA_merge_heap_pop
<1>8. HoleAt' = 1
  BY <1>7 DEF HoleAt
<1>9. EntriesOf(heap, HoleAt)' = EntriesOf(heap, 1) /\ Distinct(heap, HoleAt)'
  BY <1>4, <1>7, <1>8 DEF EntriesOf, Distinct
<1>10. StepShape(e, t) /\ entry' \in Entry /\ read' \in [Tables -> Nat]
       /\ \A u \in Tables : read'[u] \in 0..Len(input[u])
  <2>1. CASE HasRow(t)
    <3>1. entry' = NextEntry(t) /\ call' = "replace_top"
      BY <1>6, <2>1 DEF CA_merge_heap_replace_top
    <3>2. /\ entry' \in Entry /\ entry'.table = t /\ entry'.row = e.row + 1
          /\ entry'.row \in 1..Len(input[t]) /\ entry'.key = input[t][entry'.row]
          /\ read' = [read EXCEPT ![t] = read[t] + 1]
          /\ read'[t] = e.row + 1 /\ \A u \in Tables : u # t => read'[u] = read[u]
      BY <1>4, <1>5, <1>6, <2>1, <3>1, NextEntryFacts
    <3>3. Carried'
      BY <3>1 DEF Carried
    <3>4. Cursors' = EntriesOf(heap, 1) \cup {entry'}
      BY <1>9, <3>3 DEF Cursors
    <3>5. StepShape(e, t)
      BY <1>2, <1>3, <1>4, <1>5, <1>9, <2>1, <3>2, <3>3, <3>4 DEF StepShape
    <3>6. e.row + 1 \in 0..Len(input[t])
      BY <1>5, <3>2
    <3>7. \A u \in Tables : read'[u] \in 0..Len(input[u])
      BY <1>5, <3>2, <3>6 DEF TypeOK
    <3>8. read' \in [Tables -> Nat]
      <4>1. read \in [Tables -> Nat]
        BY <1>5 DEF TypeOK
      <4>2. e.row + 1 \in Nat /\ read' = [read EXCEPT ![t] = e.row + 1]
        BY <1>5, <3>2
      <4> QED BY <4>1, <4>2
    <3> QED BY <3>2, <3>5, <3>7, <3>8
  <2>2. CASE ~HasRow(t)
    <3>1. entry' = entry /\ call' = "pop" /\ read' = read
      BY <1>6, <2>2 DEF CA_merge_heap_pop, ReadRow
    <3>2. ~Carried'
      BY <3>1 DEF Carried
    <3>3. Cursors' = EntriesOf(heap, 1)
      BY <1>9, <3>2 DEF Cursors
    <3>4. StepShape(e, t)
      BY <1>2, <1>3, <1>4, <1>5, <1>9, <2>2, <3>1, <3>2, <3>3 DEF StepShape
    <3> QED BY <1>5, <3>1, <3>4 DEF TypeOK
  <2> QED BY <2>1, <2>2
<1>11. TypeOK'
  <2>1. /\ current_key' \in Nat /\ data' \in Seq(Nat \X Nat)
        /\ groups' \in Seq([key : Nat, data : Seq(Nat \X Nat)])
    BY <1>1, WrapperTypes
  <2>2. Tables' = Tables
    BY <1>1 DEF Tables
  <2> QED BY <1>1, <1>4, <1>5, <1>7, <1>10, <2>1, <2>2 DEF TypeOK
<1>12. OrderInv'
  <2>1. HoleOrder(heap, 1)
    BY <1>4, <1>5, TopOrder DEF OrderInv
  <2>2. HoleOrder(heap, HoleAt)'
    BY <1>7, <1>8, <2>1 DEF HoleOrder
  <2>3. 1 \in 1..Len(heap)
    BY <1>4, <1>5
  <2> QED BY <1>1, <1>5, <1>7, <2>2, <2>3 DEF OrderInv
<1> QED BY <1>1, <1>7, <1>10, <1>11, <1>12

LEMMA StepCursors ==
  ASSUME MergeInv, Step
  PROVE  CursorInv'
<1>1. PICK e, t : StepShape(e, t)
  BY StepHeap
<1>2. UNCHANGED <<input, filled>> /\ CursorInv
  BY StepHeap DEF MergeInv
<1> DEFINE R == EntriesOf(heap, 1)
<1>3. /\ Cursors = R \cup {e} /\ \A f \in R : f.table # t
      /\ t \in 1..filled /\ 1..filled \subseteq Tables
      /\ \A u \in Tables : u # t => read'[u] = read[u]
  BY <1>1, <1>2 DEF StepShape, IsCursor, MergeInv, TypeOK, Tables
<1>4. \A f \in R : IsCursor(f)'
  BY <1>2, <1>3 DEF CursorInv, IsCursor
<1>5. \A u \in 1..filled : u # t /\ HasRow(u)' => \E f \in R : f.table = u
  <2>1. e.table = t
    BY <1>1 DEF StepShape
  <2> QED BY <1>2, <1>3, <2>1 DEF CursorInv, HasRow
<1>6. \A u \in Tables' : u > filled' => read'[u] = 0
  <2>1. \A u \in Tables : u > filled => u # t
    <3>1. filled \in Nat
      BY DEF MergeInv, TypeOK
    <3>2. ~(t > filled)
      BY <1>3, <3>1
    <3> QED BY <3>2
  <2> QED BY <1>2, <1>3, <2>1 DEF CursorInv, Tables
<1>7. \A u \in 1..filled' : TableIsSorted(u)'
  BY <1>2 DEF CursorInv, TableIsSorted
<1>8. Distinct(heap, HoleAt)' /\ EntriesOf(heap, HoleAt)' = R
  BY <1>1 DEF StepShape
<1>9. CASE HasRow(t)
  <2>1. /\ Carried' /\ Cursors' = R \cup {entry'}
        /\ entry'.table = t /\ entry'.row = read'[t]
        /\ entry'.row \in 1..Len(input[t]) /\ entry'.key = input[t][entry'.row]
    BY <1>1, <1>9 DEF StepShape
  <2> HIDE DEF R
  <2>2. \A f \in Cursors' : IsCursor(f)'
    <3>1. PICK f : f = entry'
      OBVIOUS
    <3>2. IsCursor(f)'
      BY <1>2, <1>3, <2>1, <3>1 DEF IsCursor
    <3> QED BY <1>4, <2>1, <3>1, <3>2
  <2>3. \A u \in 1..filled' : HasRow(u)' => \E f \in Cursors' : f.table = u
    BY <1>2, <1>5, <2>1
  <2>4. \A f \in R : f.table # entry'.table
    BY <1>3, <2>1
  <2> QED BY <1>6, <1>7, <1>8, <2>2, <2>3, <2>4 DEF CursorInv
<1>10. CASE ~HasRow(t)
  <2>1. ~Carried' /\ Cursors' = R /\ read'[t] = read[t]
    BY <1>1, <1>10 DEF StepShape, IsCursor
  <2> HIDE DEF R
  <2>2. \A u \in 1..filled' : HasRow(u)' => \E f \in Cursors' : f.table = u
    <3> TAKE u \in 1..filled'
    <3>1. CASE u = t
      <4>1. ~(read'[u] < Len(input'[u]))
        BY <1>2, <1>10, <2>1, <3>1 DEF HasRow
      <4> QED BY <4>1 DEF HasRow
    <3>2. CASE u # t
      BY <1>2, <1>5, <2>1, <3>2
    <3> QED BY <3>1, <3>2
  <2> QED BY <1>4, <1>6, <1>7, <1>8, <2>1, <2>2 DEF CursorInv
<1> QED BY <1>9, <1>10

(* What there is to show of callback_wrapper's data after a round.         *)
LEMMA GroupInvNext ==
  ASSUME NEW x \in Grouped!AllRows, NEW k, current_key' = k,
         Grouped!AllRows' = Grouped!AllRows,
         \A row : Grouped!KeyOf(row)' = Grouped!KeyOf(row),
         Seen \subseteq Grouped!AllRows, Seen' = Seen \cup {x},
         \A row \in Grouped!AllRows : row \in Seen \cup {x} <=> Delivered(row[1], row[2])',
         data' # <<>>, \A row \in ToSet(data') : Grouped!KeyOf(row) = k, RowsInOrder(data'),
         \A g \in 1..Len(groups') :
           /\ groups'[g].key < k
           /\ \A row \in ToSet(groups'[g].data) : Grouped!KeyOf(row) = groups'[g].key,
         filled = Len(input), UNCHANGED <<filled, input>>, \A f \in Cursors' : k <= f.key
  PROVE  GroupInv'
<1>1. Seen' \subseteq Grouped!AllRows'
  OBVIOUS
<1>2. \A row \in Grouped!AllRows' : row \in Seen' <=> Delivered(row[1], row[2])'
  OBVIOUS
<1>3. RowsInOrder(data)'
  BY DEF RowsInOrder
<1>4. \A row \in ToSet(data)' : Grouped!KeyOf(row)' = current_key'
  BY DEF ToSet
<1>5. filled' = Len(input') /\ \A f \in Cursors' : current_key' <= f.key
  OBVIOUS
<1>6. \A g \in 1..Len(groups') :
        /\ groups'[g].key < current_key'
        /\ \A row \in ToSet(groups'[g].data) : Grouped!KeyOf(row)' = groups'[g].key
  OBVIOUS
<1> QED BY <1>1, <1>2, <1>3, <1>4, <1>5, <1>6 DEF GroupInv

(* Then what callback_wrapper has: the top's row is one more that was      *)
(* handed on, and nothing else is.                                         *)
LEMMA StepGroups ==
  ASSUME MergeInv, Step
  PROVE  GroupInv'
<1>1. PICK e, t : StepShape(e, t)
  BY StepHeap
<1>2. /\ AtTop /\ CallbackWrapper(e) /\ UNCHANGED <<input, filled, phase>>
      /\ phase = "running" /\ filled = Len(input)
  BY <1>1, StepHeap DEF StepShape, AtTop
<1> DEFINE R == EntriesOf(heap, 1)
           x == <<t, e.row>>
<1>3. /\ e = heap[1] /\ t = e.table /\ Cursors = R \cup {e} /\ \A f \in R : f.table # t
      /\ t \in Tables /\ e.row \in Nat /\ e.row = read[t] /\ e.row \in 1..Len(input[t])
      /\ e.key = input[t][e.row] /\ t \in 1..filled
      /\ \A u \in Tables : u # t => read'[u] = read[u]
  BY <1>1 DEF StepShape, IsCursor
<1>4. /\ groups \in Seq(Group) /\ data \in Seq(Nat \X Nat) /\ current_key \in Nat
      /\ input[t] \in Seq(Nat) /\ t \in Nat /\ e.key \in Nat
  <2>0. input \in Seq(Seq(Nat)) /\ Len(input) \in Nat /\ Tables = 1..Len(input)
    BY DEF MergeInv, TypeOK, Tables
  <2>1. input[t] \in Seq(Nat) /\ t \in Nat
    BY <1>3, <2>0
  <2>2. input[t][e.row] \in Nat
    <3>1. e.row \in 1..Len(input[t])
      BY <1>3
    <3> QED BY <2>1, <3>1
  <2>3. e.key \in Nat
    BY <1>3, <2>2
  <2> QED BY <2>1, <2>3 DEF MergeInv, TypeOK, Group
<1>5. /\ Seen \subseteq Grouped!AllRows
      /\ \A row \in Grouped!AllRows : row \in Seen <=> Delivered(row[1], row[2])
      /\ \A row \in ToSet(data) : Grouped!KeyOf(row) = current_key
      /\ RowsInOrder(data)
      /\ \A g \in 1..Len(groups) :
           /\ groups[g].key < current_key
           /\ \A row \in ToSet(groups[g].data) : Grouped!KeyOf(row) = groups[g].key
      /\ data = <<>> => groups = <<>>
      /\ data # <<>> => \A f \in Cursors : current_key <= f.key
  BY <1>2 DEF MergeInv, GroupInv
<1>6. x \in Grouped!AllRows /\ x \in Nat \X Nat /\ x[1] = t /\ x[2] = e.row /\ Grouped!KeyOf(x) = e.key
  BY <1>3, <1>4, AllRowsFacts DEF Grouped!KeyOf
<1>7. \A row \in Grouped!AllRows : Delivered(row[1], row[2])' <=> Delivered(row[1], row[2]) \/ row = x
  <2> TAKE row \in Grouped!AllRows
  <2>0. row = <<row[1], row[2]>> /\ row[1] \in Tables /\ row[2] \in 1..Len(input[row[1]])
    BY AllRowsFacts
  <2>1. PICK u, r : u = row[1] /\ r = row[2]
    OBVIOUS
  <2>2. r \in Nat /\ u \in Tables /\ (row = x <=> u = t /\ r = e.row)
    BY <2>0, <2>1
  <2>3. CASE u # t
    <3>1. read'[u] = read[u] /\ row # x
      BY <1>3, <2>2, <2>3
    <3>2. (\A f \in Cursors' : ~(f.table = u /\ f.row = r)) <=>
          (\A f \in R : ~(f.table = u /\ f.row = r))
      <4>1. Cursors' = R \/ (Cursors' = R \cup {entry'} /\ entry'.table = t)
        BY <1>1 DEF StepShape
      <4> QED BY <2>3, <4>1
    <3>3. (\A f \in Cursors : ~(f.table = u /\ f.row = r)) <=>
          (\A f \in R : ~(f.table = u /\ f.row = r))
      BY <1>3, <2>3
    <3>4. Delivered(u, r)' <=> Delivered(u, r)
      BY <3>1, <3>2, <3>3 DEF Delivered
    <3> QED BY <2>1, <3>1, <3>4
  <2>4. CASE u = t
    <3>1. Delivered(u, r) <=> r < e.row
      <4>1. (\A f \in Cursors : ~(f.table = t /\ f.row = r)) <=> r # e.row
        BY <1>3
      <4>2. r < e.row <=> r <= e.row /\ r # e.row
        BY <1>3, <2>2
      <4> QED BY <1>3, <2>4, <4>1, <4>2 DEF Delivered
    <3>2. Delivered(u, r)' <=> r <= e.row
      <4>1. CASE HasRow(t)
        <5>1. /\ Cursors' = R \cup {entry'} /\ entry'.table = t /\ entry'.row = e.row + 1
              /\ read'[t] = e.row + 1
          BY <1>1, <4>1 DEF StepShape
        <5>2. (\A f \in Cursors' : ~(f.table = t /\ f.row = r)) <=> r # e.row + 1
          BY <1>3, <5>1
        <5>3. r <= e.row <=> r <= e.row + 1 /\ r # e.row + 1
          BY <1>3, <2>2
        <5> QED BY <2>4, <5>1, <5>2, <5>3 DEF Delivered
      <4>2. CASE ~HasRow(t)
        <5>1. Cursors' = R /\ read'[t] = e.row
          BY <1>1, <4>2 DEF StepShape
        <5>2. \A f \in Cursors' : ~(f.table = t /\ f.row = r)
          BY <1>3, <5>1
        <5> QED BY <2>4, <5>1, <5>2 DEF Delivered
      <4> QED BY <4>1, <4>2
    <3>3. r <= e.row <=> r < e.row \/ r = e.row
      BY <1>3, <2>2
    <3>4. Delivered(u, r)' <=> Delivered(u, r) \/ row = x
      BY <2>2, <2>4, <3>1, <3>2, <3>3
    <3> QED BY <2>1, <3>4
  <2> QED BY <2>3, <2>4
<1>8. ~Delivered(t, e.row)
  BY <1>3 DEF Delivered
<1> HIDE DEF x, R
<1> DEFINE g == [key |-> current_key, data |-> data]
<1>9. /\ groups' = (IF e.key # current_key /\ data # <<>> THEN Append(groups, g) ELSE groups)
      /\ data' = Append(IF e.key # current_key THEN <<>> ELSE data, x)
      /\ current_key' = e.key
  BY <1>2, <1>3 DEF CallbackWrapper, x
<1>10. g \in Group /\ g.key = current_key /\ g.data = data
  BY <1>4 DEF Group
<1> HIDE DEF g
<1>11. /\ Grouped!AllRows' = Grouped!AllRows
       /\ \A row : Grouped!KeyOf(row)' = Grouped!KeyOf(row)
  BY <1>2 DEF Grouped!AllRows, Grouped!KeyOf
<1>12. data # <<>> => current_key <= e.key
  BY <1>3, <1>5
<1>13. \A row \in Grouped!AllRows : row \in Seen \cup {x} <=> Delivered(row[1], row[2])'
  BY <1>5, <1>7
<1>14. \A f \in Cursors' : e.key <= f.key
  <2>1. \A f \in R : e.key <= f.key
    BY <1>2, <1>3, TopFacts
  <2>2. CASE HasRow(t)
    <3>1. /\ Cursors' = R \cup {entry'} /\ entry'.row = e.row + 1
          /\ entry'.row \in 1..Len(input[t]) /\ entry'.key = input[t][entry'.row]
      BY <1>1, <2>2 DEF StepShape, R
    <3>2. TableIsSorted(t)
      BY <1>3 DEF MergeInv, CursorInv
    <3>3. e.row < entry'.row
      BY <1>3, <3>1
    <3>4. e.key <= entry'.key
      BY <1>3, <3>1, <3>2, <3>3 DEF TableIsSorted
    <3> QED BY <2>1, <3>1, <3>4
  <2>3. CASE ~HasRow(t)
    BY <1>1, <2>1, <2>3 DEF StepShape, R
  <2> QED BY <2>2, <2>3
<1>15. CASE e.key # current_key
  <2>1. data' = Append(<<>>, x) /\ ToSet(data') = {x} /\ Len(data') = 1
    <3>1. data' = Append(<<>>, x) /\ <<>> \in Seq(Nat \X Nat)
      BY <1>9, <1>15
    <3>2. ToSet(<<>>) = {}
      BY DEF ToSet
    <3>3. ToSet(Append(<<>>, x)) = ToSet(<<>>) \cup {x}
      BY <1>6, <3>1, ToSetFacts
    <3>4. Len(Append(<<>>, x)) = 1
      OBVIOUS
    <3> QED BY <3>1, <3>2, <3>3, <3>4
  <2>2. RowsOf(groups') = RowsOf(groups) \cup ToSet(data)
    <3>1. CASE data # <<>>
      BY <1>4, <1>9, <1>10, <1>15, <3>1, RowsOfFacts
    <3>2. CASE data = <<>>
      <4>1. ToSet(data) = {}
        BY <3>2 DEF ToSet
      <4> QED BY <1>9, <3>2, <4>1
    <3> QED BY <3>1, <3>2
  <2>3. Seen' = Seen \cup {x}
    BY <2>1, <2>2, RowsGivenFacts DEF Seen
  <2>4. RowsInOrder(data')
    BY <2>1 DEF RowsInOrder
  <2>5. \A k \in 1..Len(groups') :
          /\ groups'[k].key < e.key
          /\ \A row \in ToSet(groups'[k].data) : Grouped!KeyOf(row) = groups'[k].key
    <3>1. CASE data # <<>>
      <4>1. current_key < e.key
        BY <1>4, <1>12, <1>15, <3>1
      <4>2. /\ Len(groups') = Len(groups) + 1 /\ groups'[Len(groups) + 1] = g
            /\ \A k \in 1..Len(groups) : groups'[k] = groups[k]
        BY <1>4, <1>9, <1>10, <1>15, <3>1, AppendProperties
      <4>3. \A k \in 1..Len(groups') : k \in 1..Len(groups) \/ k = Len(groups) + 1
        BY <1>4, <4>2
      <4>4. ASSUME NEW k \in 1..Len(groups)
            PROVE  groups[k].key < e.key
        <5>1. groups[k].key < current_key /\ groups[k] \in Group
          BY <1>4, <1>5
        <5>2. groups[k].key \in Nat
          BY <5>1 DEF Group
        <5> QED BY <1>4, <4>1, <5>1, <5>2
      <4> QED BY <1>5, <1>10, <4>1, <4>2, <4>3, <4>4
    <3>2. CASE data = <<>>
      <4>1. groups' = <<>> /\ Len(groups') = 0
        BY <1>5, <1>9, <3>2
      <4> QED BY <4>1
    <3> QED BY <3>1, <3>2
  <2>6. data' # <<>> /\ \A row \in ToSet(data') : Grouped!KeyOf(row) = e.key
    BY <1>6, <2>1
  <2> QED BY <2>3, <2>4, <2>5, <2>6, <1>2, <1>5, <1>6, <1>9, <1>11, <1>13, <1>14, GroupInvNext
<1>16. CASE e.key = current_key
  <2>1. data' = Append(data, x) /\ groups' = groups
    BY <1>9, <1>16
  <2>2. ToSet(data') = ToSet(data) \cup {x}
    BY <1>4, <1>6, <2>1, ToSetFacts
  <2>3. Seen' = Seen \cup {x}
    BY <2>1, <2>2, RowsGivenFacts DEF Seen
  <2>4. \A row \in ToSet(data') : Grouped!KeyOf(row) = e.key
    BY <1>5, <1>6, <1>16, <2>2
  <2>5. /\ Len(data) \in Nat /\ Len(data') = Len(data) + 1 /\ data'[Len(data) + 1] = x
        /\ \A i \in 1..Len(data) : data'[i] = data[i]
    BY <1>4, <1>6, <2>1, AppendProperties
  <2>6. \A i \in 1..Len(data) : data[i][1] # t \/ data[i][2] < e.row
    <3> TAKE i \in 1..Len(data)
    <3>1. data[i] \in ToSet(data)
      BY <1>4, <1>6, ToSetFacts
    <3>2. data[i] \in Seen /\ data[i] \in Grouped!AllRows
      BY <1>5, <3>1 DEF Seen
    <3>3. Delivered(data[i][1], data[i][2])
      BY <1>5, <3>2
    <3>4. data[i][2] \in Nat
      BY <3>2, AllRowsFacts
    <3>5. data[i][1] = t => data[i][2] <= e.row /\ data[i][2] # e.row
      BY <1>3, <1>8, <3>3 DEF Delivered
    <3> QED BY <1>3, <3>4, <3>5
  <2>7. RowsInOrder(data')
    <3> SUFFICES ASSUME NEW i \in 1..Len(data'), NEW j \in 1..Len(data'), i < j
                 PROVE  data'[i][1] # data'[j][1] \/ data'[i][2] < data'[j][2]
      BY DEF RowsInOrder
    <3>1. i \in 1..Len(data) /\ (j \in 1..Len(data) \/ j = Len(data) + 1)
      BY <2>5
    <3>2. CASE j \in 1..Len(data)
      BY <1>5, <2>5, <3>1, <3>2 DEF RowsInOrder
    <3>3. CASE j = Len(data) + 1
      <4>1. data'[j] = x /\ data'[i] = data[i]
        BY <2>5, <3>1, <3>3
      <4>2. data'[j][1] = t /\ data'[j][2] = e.row
        BY <1>6, <4>1
      <4> QED BY <2>6, <3>1, <4>1, <4>2
    <3> QED BY <3>1, <3>2, <3>3
  <2>8. \A k \in 1..Len(groups') :
          /\ groups'[k].key < e.key
          /\ \A row \in ToSet(groups'[k].data) : Grouped!KeyOf(row) = groups'[k].key
    BY <1>5, <1>16, <2>1
  <2>9. data' # <<>>
    <3>1. Len(data') # 0
      BY <2>5
    <3> QED BY <3>1
  <2> QED BY <2>3, <2>4, <2>7, <2>8, <2>9, <1>2, <1>5, <1>6, <1>9, <1>11, <1>13, <1>14, GroupInvNext
<1> QED BY <1>15, <1>16

(* When the merge stops, all but what was handed on stays as it is.        *)
LEMMA Stopped ==
  ASSUME MergeInv, phase' \in {"returned", "thrown"},
         UNCHANGED <<input, read, filled, heapVars>>,
         current_key' \in Nat, data' \in Seq(Nat \X Nat),
         groups' \in Seq([key : Nat, data : Seq(Nat \X Nat)])
  PROVE  MergeInv'
<1>1. UNCHANGED <<input, read, filled, heap, call, hole, down, entry>>
  BY DEF heapVars
<1>2. TypeOK'
  BY <1>1 DEF MergeInv, TypeOK, Tables
<1>3. HoleAt' = HoleAt /\ Carried' = Carried /\ Cursors' = Cursors
  BY <1>1 DEF HoleAt, Carried, Cursors, EntriesOf
<1>4. OrderInv'
  BY <1>1, <1>3 DEF MergeInv, OrderInv, HoleOrder, AboveAll, PopInv
<1>5. CursorInv'
  BY <1>1, <1>3
     DEF MergeInv, CursorInv, Distinct, EntriesOf, IsCursor, HasRow, TableIsSorted, Tables
<1>6. GroupInv'
  BY DEF GroupInv
<1> QED BY <1>2, <1>4, <1>5, <1>6 DEF MergeInv

(* When the heap is empty all rows have been handed to callback_wrapper,   *)
(* and the rows of the last key are a group.                               *)
LEMMA LastGroupEmits ==
  ASSUME MergeInv, phase = "running", call = "none", LastGroup, input' = input
  PROVE  /\ Grouped!Emit \/ groups' = groups
         /\ Grouped!RowsGiven' = Grouped!AllRows
         /\ current_key' \in Nat /\ data' \in Seq(Nat \X Nat)
         /\ groups' \in Seq([key : Nat, data : Seq(Nat \X Nat)])
<1>1. /\ filled = Len(input) /\ heap = <<>> /\ UNCHANGED <<current_key, data>>
      /\ groups' = IF data # <<>>
                   THEN Append(groups, [key |-> current_key, data |-> data])
                   ELSE groups
  BY DEF LastGroup
<1> DEFINE g == [key |-> current_key, data |-> data]
<1>2. /\ groups \in Seq(Group) /\ g \in Group /\ g.data = data
      /\ current_key \in Nat /\ data \in Seq(Nat \X Nat)
  BY DEF MergeInv, TypeOK, Group
<1>3. groups' \in Seq(Group)
  BY <1>1, <1>2, AppendProperties
<1>4. Cursors = {}
  <2>1. HoleAt = 0 /\ ~Carried /\ Len(heap) = 0
    BY <1>1 DEF HoleAt, Carried
  <2>2. EntriesOf(heap, HoleAt) = {}
    BY <2>1 DEF EntriesOf
  <2> QED BY <2>1, <2>2 DEF Cursors
<1>5. Seen = Grouped!AllRows
  <2>1. Grouped!AllRows \subseteq Seen
    BY <1>1, <1>4, RowsLeft
  <2>2. Seen \subseteq Grouped!AllRows
    BY DEF MergeInv, GroupInv
  <2> QED BY <2>1, <2>2
<1>6. Grouped!Emit \/ groups' = groups
  <2>1. CASE data # <<>>
    BY <1>1, <1>5, <2>1, GroupIsWhole
  <2>2. CASE data = <<>>
    BY <1>1, <2>2
  <2> QED BY <2>1, <2>2
<1>7. RowsOf(groups') = RowsOf(groups) \cup ToSet(data)
  <2> HIDE DEF g
  <2>1. CASE data # <<>>
    BY <1>1, <1>2, <2>1, RowsOfFacts DEF g
  <2>2. CASE data = <<>>
    <3>1. ToSet(data) = {}
      BY <2>2 DEF ToSet
    <3> QED BY <1>1, <2>2, <3>1
  <2> QED BY <2>1, <2>2
<1>8. Grouped!RowsGiven' = Grouped!AllRows
  BY <1>5, <1>7, RowsGivenFacts DEF Seen
<1> QED BY <1>1, <1>2, <1>3, <1>6, <1>8 DEF Group

LEMMA ThrowStep ==
  ASSUME MergeInv, Throw
  PROVE  MergeInv' /\ Grouped!Throw
<1>1. /\ phase = "running" /\ call = "none" /\ phase' = "thrown"
      /\ UNCHANGED <<input, read, filled, heapVars>>
  BY DEF Throw
<1>2. CASE UNCHANGED wrapperVars
  <2>1. UNCHANGED <<current_key, data, groups>>
    BY <1>2 DEF wrapperVars
  <2>2. MergeInv'
    BY <1>1, <2>1, Stopped DEF MergeInv, TypeOK
  <2> QED BY <1>1, <2>1, <2>2 DEF Grouped!Throw
<1>3. CASE filled = Len(input) /\ heap # <<>> /\ CallbackWrapper(heap[1])
  <2>1. AtTop
    BY <1>1, <1>3 DEF AtTop
  <2>2. Grouped!Emit \/ groups' = groups
    BY <1>1, <1>3, <2>1, CallbackEmits
  <2>3. MergeInv'
    BY <1>1, <1>3, <2>1, WrapperTypes, Stopped
  <2> QED BY <1>1, <2>2, <2>3 DEF Grouped!Throw
<1>4. CASE LastGroup
  <2>1. Grouped!Emit \/ groups' = groups
    BY <1>1, <1>4, LastGroupEmits
  <2>2. MergeInv'
    BY <1>1, <1>4, LastGroupEmits, Stopped
  <2> QED BY <1>1, <2>1, <2>2 DEF Grouped!Throw
<1> QED BY <1>2, <1>3, <1>4 DEF Throw

LEMMA ReturnStep ==
  ASSUME MergeInv, Return
  PROVE  MergeInv' /\ Grouped!Return
<1>1. /\ phase = "running" /\ call = "none" /\ phase' = "returned" /\ LastGroup
      /\ UNCHANGED <<input, read, filled, heapVars>>
  BY DEF Return
<1>2. (Grouped!Emit \/ groups' = groups) /\ Grouped!RowsGiven' = Grouped!AllRows
  BY <1>1, LastGroupEmits
<1>3. MergeInv'
  BY <1>1, LastGroupEmits, Stopped
<1> QED BY <1>1, <1>2, <1>3 DEF Grouped!Return
-----------------------------------------------------------------------------
LEMMA MergeInit == Init => MergeInv /\ Grouped!Init
<1> SUFFICES ASSUME Init PROVE MergeInv /\ Grouped!Init
  OBVIOUS
<1>1. /\ input \in Seq(Seq(Nat)) /\ Len(input) \in Nat /\ Tables = 1..Len(input)
      /\ read = [t \in Tables |-> 0] /\ filled = 0 /\ heap = <<>> /\ call = "none"
      /\ hole = 0 /\ down = FALSE /\ entry = [key |-> 0, table |-> 0, row |-> 0]
      /\ current_key = 0 /\ data = <<>> /\ groups = <<>> /\ phase = "running"
  BY InputsAssumption DEF Init, Tables
<1>2. \A t \in Tables : read[t] = 0 /\ Len(input[t]) \in Nat /\ 0 \in 0..Len(input[t])
  BY <1>1
<1>3. Len(heap) = 0 /\ Len(data) = 0 /\ Len(groups) = 0
  BY <1>1
<1>4. TypeOK
  <2>1. entry \in Entry /\ hole \in Nat /\ current_key \in Nat /\ down \in BOOLEAN
    BY <1>1 DEF Entry
  <2>2. /\ heap \in Seq(Entry) /\ data \in Seq(Nat \X Nat)
        /\ groups \in Seq([key : Nat, data : Seq(Nat \X Nat)])
    BY <1>1
  <2>3. filled \in 0..Len(input) /\ read \in [Tables -> Nat]
    BY <1>1
  <2>4. \A t \in Tables : read[t] \in 0..Len(input[t])
    BY <1>2
  <2> QED BY <1>1, <2>1, <2>2, <2>3, <2>4 DEF TypeOK
<1>5. HoleAt = 0 /\ ~Carried /\ EntriesOf(heap, HoleAt) = {}
  BY <1>1, <1>3 DEF HoleAt, Carried, EntriesOf
<1>6. Cursors = {}
  BY <1>5 DEF Cursors
<1>7. OrderInv
  BY <1>1, <1>3, <1>5 DEF OrderInv, HoleOrder
<1>8. CursorInv
  BY <1>1, <1>2, <1>3, <1>5, <1>6 DEF CursorInv, Distinct
<1>9. Seen = {}
  <2>1. ToSet(data) = {}
    BY <1>1 DEF ToSet
  <2>2. Grouped!RowsGiven = {}
    BY <1>3 DEF Grouped!RowsGiven
  <2> QED BY <2>1, <2>2 DEF Seen
<1>10. \A row \in Grouped!AllRows : ~Delivered(row[1], row[2])
  <2> TAKE row \in Grouped!AllRows
  <2>1. row[1] \in Tables /\ row[2] \in 1..Len(input[row[1]])
    BY AllRowsFacts
  <2>2. read[row[1]] = 0 /\ ~(row[2] <= 0)
    BY <1>2, <2>1
  <2> QED BY <2>2 DEF Delivered
<1>11. RowsInOrder(data) /\ ToSet(data) = {}
  BY <1>1, <1>3 DEF RowsInOrder, ToSet
<1>12. GroupInv
  BY <1>1, <1>3, <1>9, <1>10, <1>11 DEF GroupInv
<1> QED BY <1>1, <1>4, <1>7, <1>8, <1>12 DEF MergeInv, Grouped!Init

LEMMA StepStep ==
  ASSUME MergeInv, Step
  PROVE  MergeInv' /\ [Grouped!Next]_(Grouped!vars)
<1>1. MergeInv'
  BY StepHeap, StepCursors, StepGroups DEF MergeInv
<1>2. AtTop /\ CallbackWrapper(heap[1]) /\ UNCHANGED <<input, phase>>
  BY StepHeap
<1>3. Grouped!Emit \/ groups' = groups
  BY <1>2, CallbackEmits
<1> QED BY <1>1, <1>2, <1>3 DEF Grouped!Next, Grouped!vars

(* Every step keeps the invariant, and is one of GroupedMerge's or none.   *)
LEMMA MergeNext ==
  ASSUME MergeInv, [Next]_vars
  PROVE  MergeInv' /\ [Grouped!Next]_(Grouped!vars)
<1>1. CASE Fill
  <2>1. MergeInv' /\ UNCHANGED <<input, groups>> /\ phase' \in {phase, "thrown"} /\ phase = "running"
    BY <1>1, FillStep DEF Fill
  <2> QED BY <2>1 DEF Grouped!Next, Grouped!Throw, Grouped!vars
<1>2. CASE Step
  BY <1>2, StepStep
<1>3. CASE HeapStep
  BY <1>3, HeapSteps DEF Grouped!vars
<1>4. CASE Throw
  BY <1>4, ThrowStep DEF Grouped!Next
<1>5. CASE Return
  BY <1>5, ReturnStep DEF Grouped!Next
<1>6. CASE UNCHANGED vars
  <2>1. UNCHANGED <<input, read, filled, heap, call, hole, down, entry, current_key, data, groups, phase>>
    BY <1>6 DEF vars, heapVars, wrapperVars
  <2>2. HoleAt' = HoleAt /\ Carried' = Carried /\ Cursors' = Cursors
    BY <2>1 DEF HoleAt, Carried, Cursors, EntriesOf
  <2>3. TypeOK' /\ OrderInv'
    BY <2>1, <2>2 DEF MergeInv, TypeOK, Tables, OrderInv, HoleOrder, AboveAll, PopInv
  <2>4. CursorInv'
    BY <2>1, <2>2
       DEF MergeInv, CursorInv, Distinct, EntriesOf, IsCursor, HasRow, TableIsSorted, Tables
  <2>5. GroupInv'
    <3>1. GroupInv
      BY DEF MergeInv
    <3>2. Grouped!AllRows' = Grouped!AllRows /\ Seen' = Seen
      BY <2>1 DEF Grouped!AllRows, Grouped!RowsGiven, Seen
    <3>3. /\ \A row : Grouped!KeyOf(row)' = Grouped!KeyOf(row)
          /\ \A t, r : Delivered(t, r)' = Delivered(t, r)
      BY <2>1, <2>2 DEF Grouped!KeyOf, Delivered
    <3> QED BY <2>1, <2>2, <3>1, <3>2, <3>3 DEF GroupInv, RowsInOrder
  <2> QED BY <2>1, <2>3, <2>4, <2>5 DEF MergeInv, Grouped!vars
<1> QED BY <1>1, <1>2, <1>3, <1>4, <1>5, <1>6 DEF Next

(* While none of the heap's functions runs, the invariant says what        *)
(* HeapSound does.                                                         *)
LEMMA MergeInvIsSound == MergeInv => HeapSound
<1> SUFFICES ASSUME MergeInv PROVE HeapSound
  OBVIOUS
<1>1. TypeOK /\ PopStaysInside
  BY DEF MergeInv, OrderInv, PopStaysInside
<1>2. ASSUME call = "none" PROVE HeapHoldsCursors
  <2>1. HoleAt = 0 /\ ~Carried /\ Cursors = EntriesOf(heap, 0)
    BY <1>2 DEF HoleAt, Carried, Cursors
  <2>2. heap \in Seq(Entry) /\ Len(heap) \in Nat /\ \A i \in 1..Len(heap) : i # 0
    BY <1>1 DEF TypeOK
  <2>3. \A i \in 1..Len(heap) : heap[i] \in Cursors
    BY <2>1, <2>2 DEF EntriesOf
  <2>4. \A i \in 2..Len(heap) : heap[Parent(i)].key <= heap[i].key
    <3>1. \A i \in 2..Len(heap) : i # 0 /\ Parent(i) # 0
      BY <2>2, ParentFacts
    <3> QED BY <2>1, <3>1 DEF MergeInv, OrderInv, HoleOrder
  <2>5. \A i, j \in 1..Len(heap) : heap[i].table = heap[j].table => i = j
    BY <2>1, <2>2 DEF MergeInv, CursorInv, Distinct
  <2>6. \A i \in 1..Len(heap) :
          /\ heap[i].table \in 1..filled
          /\ heap[i].row = read[heap[i].table]
          /\ heap[i].key = input[heap[i].table][heap[i].row]
    BY <2>3 DEF MergeInv, CursorInv, IsCursor
  <2>7. \A t \in 1..filled : (\A i \in 1..Len(heap) : heap[i].table # t) => ~HasRow(t)
    <3>1. \A t \in 1..filled : HasRow(t) => \E e \in Cursors : e.table = t
      BY DEF MergeInv, CursorInv
    <3> QED BY <2>1, <3>1 DEF EntriesOf
  <2> QED BY <2>4, <2>5, <2>6, <2>7 DEF HeapHoldsCursors
<1> QED BY <1>1, <1>2 DEF HeapSound, HeapHoldsCursors

(* The merge's invariant: where the hole of the heap is, which entries     *)
(* stand for which rows, and that the rows handed on are the ones read     *)
(* that have no entry.                                                     *)
THEOREM MergeInvariant == Spec => []MergeInv
<1>1. Init => MergeInv
  BY MergeInit
<1>2. MergeInv /\ [Next]_vars => MergeInv'
  BY MergeNext
<1> QED BY <1>1, <1>2, PTL DEF Spec

(* The array of src/src/merge.cc's heap functions is a heap whenever none  *)
(* of them runs, holds the row read last of every table that has rows left *)
(* and no other, and CA_merge_heap_pop never reads in front of it: for     *)
(* all tables.                                                             *)
THEOREM HeapIsSound == Spec => []HeapSound
BY MergeInvariant, MergeInvIsSound, PTL

(* ca_table_merge implements GroupedMerge: the callback gets every key     *)
(* once, in order, with all rows that have it, for all tables.             *)
THEOREM MergeImplementsGroups == Spec => MergesInGroups
<1>1. Init => Grouped!Init
  BY MergeInit
<1>2. MergeInv /\ [Next]_vars => [Grouped!Next]_(Grouped!vars)
  BY MergeNext
<1> QED BY <1>1, <1>2, MergeInvariant, PTL DEF Spec, MergesInGroups, Grouped!Spec
=============================================================================
