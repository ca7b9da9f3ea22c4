------------------------- MODULE OffsetListsProofs -------------------------
(***************************************************************************)
(* Proofs about the loops over lists of offsets: for lists of any length,  *)
(* any offsets and scores, and any thresholds.                             *)
(***************************************************************************)
EXTENDS OffsetLists, TLAPS, FiniteSetTheorems, WellFoundedInduction

Base ==
  /\ op \in Ops /\ phase \in {"running", "done", "undefined"}
  /\ orig \in Seq(Element) /\ rhs \in Seq(Element) /\ lhs \in Seq(Element)
  /\ result \in Seq(Element)
  /\ Ascending(orig) /\ Ascending(rhs) /\ Len(lhs) = Len(orig)
  /\ l \in 1 .. Len(orig) + 1 /\ r \in 1 .. Len(rhs) + 1 /\ o \in Nat /\ o >= 1

(* What is not read yet is as it was.                                      *)
Unread == \A i \in l..Len(orig) : lhs[i] = orig[i]

(* m has the places that the elements of the output came from.             *)
Increasing(m, n) == \A k \in 1..n : k <= m[k] /\ \A j \in 1..n : k < j => m[k] < m[j]

(* The loops that copy elements: of the first u elements, those that the   *)
(* operator keeps have been copied.  The comparisons pair elements, which  *)
(* is exact where an offset comes once.                                    *)
Copying == {"intersect", "subtract", "greater", "less"}
Exact == op \in {"greater", "less"} => Unique(orig) /\ Unique(rhs)
Selected(u) ==
  \E m \in [1 .. o - 1 -> 1..u] :
    /\ Increasing(m, o - 1) /\ \A k \in 1 .. o - 1 : lhs[k] = orig[m[k]]
    /\ Exact => \A i \in 1..u : Keeps(i) <=> \E k \in 1 .. o - 1 : m[k] = i

(* What has been read of rhs is below what has not been read of lhs.       *)
Passed == \A j \in 1 .. r - 1, i \in l..Len(orig) : rhs[j].offset < orig[i].offset

CopyInv ==
  op \in Copying =>
    /\ phase \in {"running", "done"} /\ o <= l /\ Unread /\ (Exact => Passed)
    /\ phase = "running" => Selected(l - 1)
    /\ phase = "done" => Selected(Len(orig))

(* The filter: each output came from an element up to lhs[l], and took its *)
(* value from an element of rhs that has been read.                        *)
Matched(i) ==
  \E j \in 1 .. r - 1 : rhs[j].offset = orig[i].offset /\ InThresholds(rhs[j])
Filtered ==
  \E m \in [1 .. o - 1 -> 1..Len(orig)] :
    /\ Increasing(m, o - 1)
    /\ \A k \in 1 .. o - 1 :
         /\ m[k] <= l /\ lhs[k].offset = orig[m[k]].offset
         /\ \E j \in 1 .. r - 1 : lhs[k] = rhs[j]
    /\ Unique(orig) =>
         \A i \in 1..Len(orig) : Matched(i) <=> \E k \in 1 .. o - 1 : m[k] = i
UnreadOffsets ==
  \A i \in l..Len(orig) : lhs[i].offset = orig[i].offset /\ (i >= o => lhs[i] = orig[i])
Below == \A i \in 1 .. l - 1, j \in r..Len(rhs) : orig[i].offset < rhs[j].offset
FilterInv ==
  op = "thresholds" /\ Unique(rhs) =>
    /\ phase /= "undefined" /\ Filtered /\ UnreadOffsets /\ Below
    /\ phase = "done" => l > Len(orig) \/ r > Len(rhs)

(* RemoveDuplicates, MAX and MIN: of what has been read, the offsets are   *)
(* all there, once, each with the best of its elements.                    *)
Best(v, u) ==
  /\ \E i \in 1..u : v = orig[i]
  /\ \A i \in 1..u : orig[i].offset = v.offset => ~Prefers(orig[i].score, v.score)
Strict == \A k, n \in 1 .. o - 1 : k < n => lhs[k].offset < lhs[n].offset
Covered == \A i \in 1 .. l - 1 : \E k \in 1 .. o - 1 : lhs[k].offset = orig[i].offset
UnaryInv ==
  op \in Unary =>
    /\ phase \in {"running", "done"} /\ o <= l /\ Unread
    /\ Len(orig) = 0 => o = 1
    /\ Len(orig) > 0 => o > 1 /\ lhs[o - 1].offset = orig[l - 1].offset
    /\ Strict /\ Covered /\ \A k \in 1 .. o - 1 : Best(lhs[k], l - 1)
    /\ phase = "done" => l = Len(orig) + 1

(* UnionOffsets: what has been read of both lists is in the result, and    *)
(* nothing that has not been read is below it.                             *)
Upto(s, u) == {s[i].offset : i \in 1..u}
NoneBelow ==
  \A k \in 1..Len(result) :
    /\ \A i \in l..Len(orig) : result[k].offset <= orig[i].offset
    /\ \A j \in r..Len(rhs) : result[k].offset <= rhs[j].offset
UnionInv ==
  op = "union" =>
    /\ phase \in {"running", "done"} /\ lhs = orig /\ o = 1 /\ Ascending(result)
    /\ phase = "running" =>
         NoneBelow /\ Offsets(result) = Upto(orig, l - 1) \cup Upto(rhs, r - 1)
    /\ phase = "done" => Offsets(result) = Offsets(orig) \cup Offsets(rhs)

(* ORDER BY: element i has the score of rhs for its offset.                *)
Scored(i) ==
  /\ \A j \in 1..Len(rhs) : rhs[j].offset = orig[i].offset => lhs[i].score = rhs[j].score
  /\ orig[i].offset \notin Offsets(rhs) => lhs[i].score = MinusInf
OrderInv ==
  op = "orderby" =>
    /\ phase \in {"running", "done"} /\ o = 1 /\ Unread
    /\ \A i \in 1..Len(orig) : lhs[i].offset = orig[i].offset
    /\ Unique(orig) /\ Unique(rhs) => Passed /\ \A i \in 1 .. l - 1 : Scored(i)
    /\ phase = "done" => l = Len(orig) + 1

ListsInv == Base /\ CopyInv /\ FilterInv /\ UnaryInv /\ UnionInv /\ OrderInv
-----------------------------------------------------------------------------
(* A set of natural numbers has a least one.                               *)
LEMMA LeastNat ==
  ASSUME NEW T, T \subseteq Nat, T # {}
  PROVE  \E x \in T : \A y \in T : x <= y
<1> DEFINE R == OpToRel(<, Nat)
<1>1. IsWellFoundedOn(R, Nat)
  BY NatLessThanWellFounded
<1>2. PICK x \in T : \A y \in T : ~(<<y, x>> \in R)
  <2> HIDE DEF R
  <2> QED BY <1>1, WFMin
<1>3. ASSUME NEW y \in T PROVE x <= y
  <2>1. x \in Nat /\ y \in Nat
    OBVIOUS
  <2>2. ~(y < x)
    BY <1>2, <2>1 DEF OpToRel
  <2> QED BY <2>1, <2>2
<1> QED BY <1>3

(* The types of a list's elements.                                         *)
LEMMA ListFacts ==
  ASSUME NEW s \in Seq(Element)
  PROVE  /\ Len(s) \in Nat
         /\ \A i \in 1..Len(s) : s[i] \in Element /\ s[i].offset \in Int /\ s[i].score \in Int
<1>1. Len(s) \in Nat /\ \A i \in 1..Len(s) : s[i] \in Element
  OBVIOUS
<1>2. \A v \in Element : v.offset \in Int /\ v.score \in Int
  BY DEF Element
<1> QED BY <1>1, <1>2

(* The offsets of an ascending list.                                       *)
LEMMA AscendingFacts ==
  ASSUME NEW s, Ascending(s), NEW i \in 1..Len(s), NEW j \in 1..Len(s), i <= j
  PROVE  s[i].offset <= s[j].offset
BY DEF Ascending

(* Elements of one offset lie together, in front of all with larger ones.  *)
LEMMA RunFacts ==
  ASSUME Base, Unread, l <= Len(orig)
  PROVE  /\ RunLength \in Nat /\ RunLength >= 1 /\ l + RunLength <= Len(orig) + 1
         /\ \A i \in l .. l + RunLength - 1 : orig[i].offset = orig[l].offset
         /\ \A i \in l + RunLength .. Len(orig) : orig[l].offset < orig[i].offset
<1> DEFINE n == Len(orig)
           T == {i \in l .. n + 1 : i <= n => orig[i].offset /= orig[l].offset}
<1>0. /\ n \in Nat /\ l \in Nat /\ l >= 1 /\ l <= n /\ Len(lhs) = n
      /\ \A i \in 1..n : orig[i].offset \in Int
      /\ \A i \in l..n : lhs[i] = orig[i]
  BY ListFacts DEF Base, Unread
<1>1. T \subseteq Nat /\ n + 1 \in T
  BY <1>0
<1>2. PICK e \in T : \A y \in T : e <= y
  BY <1>1, LeastNat
<1>3. /\ e \in Nat /\ l < e /\ e <= n + 1 /\ (e <= n => orig[e].offset /= orig[l].offset)
      /\ \A i \in l .. e - 1 : orig[i].offset = orig[l].offset
  <2>1. e \in Nat /\ l <= e /\ e <= n + 1 /\ (e <= n => orig[e].offset /= orig[l].offset)
    BY <1>0, <1>2
  <2>2. e /= l
    BY <1>0, <2>1
  <2>3. ASSUME NEW i \in l .. e - 1 PROVE orig[i].offset = orig[l].offset
    <3>1. i \in l .. n + 1 /\ i <= n /\ ~(e <= i)
      BY <1>0, <2>1
    <3>2. i \notin T
      BY <1>2, <3>1
    <3> QED BY <3>1, <3>2
  <2> QED BY <1>0, <2>1, <2>2, <2>3
<1> HIDE DEF n, T
<1>4. {i \in l..Len(lhs) : \A j \in l..i : lhs[j].offset = lhs[l].offset} = l .. e - 1
  <2>1. ASSUME NEW i \in l .. e - 1
        PROVE  i \in l..Len(lhs) /\ \A j \in l..i : lhs[j].offset = lhs[l].offset
    <3>1. i \in l..Len(lhs)
      BY <1>0, <1>3
    <3>2. ASSUME NEW j \in l..i PROVE lhs[j].offset = lhs[l].offset
      <4>1. j \in l .. e - 1 /\ j \in l..n /\ l \in l..n
        BY <1>0, <1>3
      <4> QED BY <1>0, <1>3, <4>1
    <3> QED BY <3>1, <3>2
  <2>2. ASSUME NEW i \in l..Len(lhs), \A j \in l..i : lhs[j].offset = lhs[l].offset
        PROVE  i \in l .. e - 1
    <3>1. i \in Int /\ l <= i /\ i <= n
      BY <1>0
    <3>2. CASE e <= i
      <4>1. e \in l..i /\ e \in l..n /\ l \in l..n /\ e <= n
        BY <1>0, <1>3, <3>1, <3>2
      <4> QED BY <1>0, <1>3, <2>2, <4>1
    <3> QED BY <1>3, <3>1, <3>2
  <2> QED BY <2>1, <2>2
<1>5. RunLength = e - l
  <2>1. Cardinality(l .. e - 1) = e - l
    BY <1>0, <1>3, FS_Interval
  <2> QED BY <1>4, <2>1 DEF RunLength
<1>6. ASSUME NEW i \in e..n PROVE orig[l].offset < orig[i].offset
  <2>1. e \in 1..n /\ i \in 1..n /\ l \in 1..n /\ e <= i /\ l <= e /\ e <= n
    BY <1>0, <1>3
  <2>2. orig[l].offset <= orig[e].offset /\ orig[e].offset <= orig[i].offset
    BY <2>1 DEF Base, Ascending, n
  <2> QED BY <1>0, <1>3, <2>1, <2>2
<1>7. l + RunLength = e /\ e - l \in Nat /\ e - l >= 1
  BY <1>0, <1>3, <1>5
<1> QED BY <1>0, <1>3, <1>5, <1>6, <1>7 DEF n

(* The elements that an operator keeps are fixed from the start.           *)
LEMMA KeepsFixed ==
  ASSUME UNCHANGED <<op, orig, rhs>>
  PROVE  (Exact' <=> Exact) /\ \A i : Keeps(i)' <=> Keeps(i)
BY DEF Exact, Keeps, Joins, InThresholds, Offsets, Unique

(* Elements are copied: *o++ = *lhs++, c times.                            *)
LEMMA CopyStep ==
  ASSUME Base, o <= l, Unread, Selected(l - 1), NEW c \in Nat, l + c <= Len(orig) + 1,
         Copy(c), UNCHANGED <<op, orig, rhs>>, Exact => \A i \in l .. l + c - 1 : Keeps(i)
  PROVE  /\ lhs' \in Seq(Element) /\ Len(lhs') = Len(orig) /\ l' = l + c
         /\ o' \in Nat /\ o' >= 1 /\ o' <= l' /\ Unread' /\ Selected(l - 1)'
<1> DEFINE n == Len(orig)
<1>0. /\ n \in Nat /\ l \in Nat /\ l >= 1 /\ Len(lhs) = n /\ o \in Nat /\ o >= 1 /\ o <= l
      /\ l + c <= n + 1 /\ l' = l + c /\ o' = o + c
      /\ \A i \in 1..n : lhs[i] \in Element
      /\ \A i \in l..n : lhs[i] = orig[i]
      /\ lhs' = [i \in 1..n |-> IF i \in o .. o + c - 1 THEN lhs[l + i - o] ELSE lhs[i]]
  BY ListFacts DEF Base, Unread, Copy
<1> HIDE DEF n
<1>1. /\ \A i \in 1..n : i \in o .. o + c - 1 => lhs'[i] = orig[l + i - o]
      /\ \A i \in 1..n : i \notin o .. o + c - 1 => lhs'[i] = lhs[i]
  <2>1. ASSUME NEW i \in 1..n, i \in o .. o + c - 1 PROVE lhs'[i] = orig[l + i - o]
    <3>1. l + i - o \in l..n
      BY <1>0, <2>1
    <3> QED BY <1>0, <2>1, <3>1
  <2> QED BY <1>0, <2>1
<1>2. lhs' \in Seq(Element) /\ Len(lhs') = n
  <2>1. ASSUME NEW i \in 1..n PROVE lhs'[i] \in Element
    <3>1. i \in o .. o + c - 1 => l + i - o \in 1..n
      BY <1>0
    <3> QED BY <1>0, <3>1
  <2>2. lhs' \in [1..n -> Element]
    BY <1>0, <2>1
  <2> QED BY <1>0, <2>2
<1>3. Unread'
  <2>1. ASSUME NEW i \in l'..n PROVE lhs'[i] = orig[i]
    <3>1. i \in l..n /\ i \in 1..n /\ i \notin o .. o + c - 1
      BY <1>0
    <3> QED BY <1>0, <1>1, <3>1
  <2> QED BY <2>1 DEF Unread, n
<1>4. PICK m \in [1 .. o - 1 -> 1 .. l - 1] :
        /\ Increasing(m, o - 1) /\ \A k \in 1 .. o - 1 : lhs[k] = orig[m[k]]
        /\ Exact => \A i \in 1 .. l - 1 : Keeps(i) <=> \E k \in 1 .. o - 1 : m[k] = i
  BY DEF Selected
<1> DEFINE e == [k \in 1 .. o' - 1 |-> IF k < o THEN m[k] ELSE l + k - o]
<1>5. /\ \A k \in 1 .. o - 1 : e[k] = m[k] /\ m[k] \in Int /\ 1 <= m[k] /\ m[k] <= l - 1
                             /\ k \in 1 .. o' - 1
      /\ \A k \in o .. o' - 1 : e[k] = l + k - o /\ k \in 1 .. o' - 1
      /\ \A k \in 1 .. o' - 1 : k \in 1 .. o - 1 \/ k \in o .. o' - 1
  BY <1>0
<1>d. DOMAIN e = 1 .. o' - 1 /\ e = [k \in 1 .. o' - 1 |-> e[k]]
  BY <1>0
<1> HIDE DEF e
<1>a. /\ n \in Int /\ l \in Int /\ o \in Int /\ l' \in Int /\ o' \in Int /\ c \in Int
      /\ 1 <= o /\ o <= l /\ l + c <= n + 1 /\ l' = l + c /\ o' = o + c /\ 0 <= c
  BY <1>0
<1>6. e \in [1 .. o' - 1 -> 1 .. l' - 1]
  <2>1. ASSUME NEW k \in 1 .. o' - 1 PROVE e[k] \in 1 .. l' - 1
    BY <1>5, <1>a
  <2> QED BY <1>d, <2>1
<1>7. Increasing(e, o' - 1)
  <2>1. ASSUME NEW k \in 1 .. o' - 1 PROVE k <= e[k]
    <3>1. CASE k \in 1 .. o - 1
      BY <1>4, <1>5, <3>1 DEF Increasing
    <3>2. CASE k \in o .. o' - 1
      BY <1>5, <1>a, <3>2
    <3> QED BY <1>5, <3>1, <3>2
  <2>2. ASSUME NEW k \in 1 .. o' - 1, NEW j \in 1 .. o' - 1, k < j PROVE e[k] < e[j]
    <3>1. CASE j \in 1 .. o - 1
      <4>1. k \in 1 .. o - 1
        BY <1>a, <2>2, <3>1
      <4> QED BY <1>4, <1>5, <2>2, <3>1, <4>1 DEF Increasing
    <3>2. CASE j \in o .. o' - 1
      <4>1. CASE k \in 1 .. o - 1
        BY <1>5, <1>a, <3>2, <4>1
      <4>2. CASE k \in o .. o' - 1
        BY <1>5, <1>a, <2>2, <3>2, <4>2
      <4> QED BY <1>5, <4>1, <4>2
    <3> QED BY <1>5, <3>1, <3>2
  <2> QED BY <2>1, <2>2 DEF Increasing
<1>8. ASSUME NEW k \in 1 .. o' - 1 PROVE lhs'[k] = orig[e[k]]
  <2>1. k \in 1..n
    BY <1>a
  <2>2. CASE k \in 1 .. o - 1
    <3>1. k \notin o .. o + c - 1
      BY <1>a, <2>2
    <3> QED BY <1>1, <1>4, <1>5, <2>1, <2>2, <3>1
  <2>3. CASE k \in o .. o' - 1
    <3>1. k \in o .. o + c - 1
      BY <1>a, <2>3
    <3> QED BY <1>1, <1>5, <2>1, <2>3, <3>1
  <2> QED BY <1>5, <2>2, <2>3
<1>9. ASSUME Exact, NEW i \in 1 .. l' - 1 PROVE Keeps(i) <=> \E k \in 1 .. o' - 1 : e[k] = i
  <2>1. CASE i \in 1 .. l - 1
    <3>1. \A k \in o .. o' - 1 : e[k] /= i
      BY <1>5, <1>a, <2>1
    <3> QED BY <1>4, <1>5, <1>9, <2>1, <3>1
  <2>2. CASE i \in l .. l + c - 1
    <3>1. o + i - l \in o .. o' - 1 /\ l + (o + i - l) - o = i
      BY <1>a, <2>2
    <3>2. e[o + i - l] = i /\ o + i - l \in 1 .. o' - 1
      BY <1>5, <3>1
    <3> QED BY <1>9, <2>2, <3>2
  <2> QED BY <1>a, <2>1, <2>2
<1>10. Selected(l - 1)'
  <2>1. (Exact' <=> Exact) /\ (\A i : Keeps(i)' <=> Keeps(i)) /\ orig' = orig
    BY KeepsFixed
  <2>2. Exact' => \A i \in 1 .. l' - 1 : Keeps(i)' <=> \E k \in 1 .. o' - 1 : e[k] = i
    BY <1>9, <2>1
  <2>3. \A k \in 1 .. o' - 1 : lhs'[k] = orig'[e[k]]
    BY <1>8, <2>1
  <2> HIDE DEF Exact, Keeps
  <2> QED BY <1>6, <1>7, <2>2, <2>3 DEF Selected
<1> QED BY <1>0, <1>2, <1>3, <1>10 DEF n

(* Elements that the operator does not keep are passed over.               *)
LEMMA SelectedMore ==
  ASSUME NEW u \in Nat, NEW w \in Nat, u <= w, Selected(u), o \in Nat,
         Exact => \A i \in u + 1 .. w : ~Keeps(i)
  PROVE  Selected(w)
<1>1. PICK m \in [1 .. o - 1 -> 1..u] :
        /\ Increasing(m, o - 1) /\ \A k \in 1 .. o - 1 : lhs[k] = orig[m[k]]
        /\ Exact => \A i \in 1..u : Keeps(i) <=> \E k \in 1 .. o - 1 : m[k] = i
  BY DEF Selected
<1>2. m \in [1 .. o - 1 -> 1..w] /\ \A k \in 1 .. o - 1 : m[k] \in 1..u
  BY <1>1
<1>3. ASSUME Exact, NEW i \in 1..w PROVE Keeps(i) <=> \E k \in 1 .. o - 1 : m[k] = i
  <2>1. CASE i \in 1..u
    BY <1>1, <1>3, <2>1
  <2>2. CASE i \in u + 1 .. w
    <3>1. \A k \in 1 .. o - 1 : m[k] /= i
      BY <1>2, <2>2
    <3> QED BY <1>3, <2>2, <3>1
  <2> QED BY <2>1, <2>2
<1> QED BY <1>1, <1>2, <1>3 DEF Selected

LEMMA SkipStep ==
  ASSUME Base, Unread, Selected(l - 1), NEW c \in Nat, l + c <= Len(orig) + 1,
         l' = l + c, UNCHANGED <<op, orig, lhs, rhs, o>>,
         Exact => \A i \in l .. l + c - 1 : ~Keeps(i)
  PROVE  Unread' /\ Selected(l - 1)'
<1>0. l \in Nat /\ l >= 1 /\ Len(orig) \in Nat /\ o \in Nat
  BY ListFacts DEF Base
<1>1. Selected(l' - 1)
  <2>1. l - 1 \in Nat /\ l' - 1 \in Nat /\ l - 1 <= l' - 1
        /\ \A i \in (l - 1) + 1 .. l' - 1 : i \in l .. l + c - 1
    BY <1>0
  <2> QED BY <1>0, <2>1, SelectedMore
<1>2. Selected(l - 1)'
  <2>1. PICK m \in [1 .. o - 1 -> 1 .. l' - 1] :
          /\ Increasing(m, o - 1) /\ \A k \in 1 .. o - 1 : lhs[k] = orig[m[k]]
          /\ Exact => \A i \in 1 .. l' - 1 : Keeps(i) <=> \E k \in 1 .. o - 1 : m[k] = i
    BY <1>1 DEF Selected
  <2>2. Exact' => \A i \in 1 .. l' - 1 : Keeps(i)' <=> \E k \in 1 .. o - 1 : m[k] = i
    BY <2>1, KeepsFixed
  <2>3. o' = o /\ lhs' = lhs /\ orig' = orig
    OBVIOUS
  <2>4. m \in [1 .. o' - 1 -> 1 .. l' - 1] /\ Increasing(m, o' - 1)
        /\ \A k \in 1 .. o' - 1 : lhs'[k] = orig'[m[k]]
    BY <2>1, <2>3
  <2>5. Exact' => \A i \in 1 .. l' - 1 : Keeps(i)' <=> \E k \in 1 .. o' - 1 : m[k] = i
    BY <2>2, <2>3
  <2> QED BY <2>4, <2>5 DEF Selected
<1>3. Unread'
  BY <1>0 DEF Unread
<1> QED BY <1>2, <1>3

(* What lies between what has been read of rhs and the rest is not there.  *)
LEMMA NotThere ==
  ASSUME Base, Passed, NEW i \in l..Len(orig),
         \A j \in r..Len(rhs) : orig[i].offset < rhs[j].offset
  PROVE  \A j \in 1..Len(rhs) : rhs[j].offset /= orig[i].offset
<1>0. /\ r \in Nat /\ r >= 1 /\ Len(rhs) \in Nat /\ i \in 1..Len(orig)
      /\ orig[i].offset \in Int /\ \A j \in 1..Len(rhs) : rhs[j].offset \in Int
  BY ListFacts DEF Base
<1> SUFFICES ASSUME NEW j \in 1..Len(rhs) PROVE rhs[j].offset /= orig[i].offset
  OBVIOUS
<1>1. CASE j \in 1 .. r - 1
  BY <1>0, <1>1 DEF Passed
<1>2. CASE j \in r..Len(rhs)
  BY <1>0, <1>2
<1> QED BY <1>0, <1>1, <1>2

LEMMA NotKept ==
  ASSUME NEW i \in 1..Len(orig), \A j \in 1..Len(rhs) : rhs[j].offset /= orig[i].offset,
         op \in Copying
  PROVE  Keeps(i) <=> op = "subtract"
BY DEF Keeps, Offsets, Copying

(* What both lists have next, in a loop over both.                         *)
LEMMA NextElements ==
  ASSUME Base, Both, Unread
  PROVE  /\ l \in 1..Len(orig) /\ r \in 1..Len(rhs) /\ lhs[l] = orig[l]
         /\ orig[l].offset \in Int /\ rhs[r].offset \in Int
         /\ \A i \in l..Len(orig) : orig[l].offset <= orig[i].offset /\ orig[i].offset \in Int
         /\ \A j \in r..Len(rhs) : rhs[r].offset <= rhs[j].offset /\ rhs[j].offset \in Int
<1>1. /\ l \in 1..Len(orig) /\ r \in 1..Len(rhs) /\ lhs[l] = orig[l]
      /\ Len(orig) \in Nat /\ Len(rhs) \in Nat
  BY ListFacts DEF Base, Both, Unread
<1>2. \A i \in l..Len(orig) : i \in 1..Len(orig) /\ l <= i
  BY <1>1
<1>3. \A j \in r..Len(rhs) : j \in 1..Len(rhs) /\ r <= j
  BY <1>1
<1> QED BY <1>1, <1>2, <1>3, ListFacts DEF Base, Ascending

(* The next element of rhs is passed over when all that is left of lhs is  *)
(* behind it.                                                              *)
LEMMA PassedMore ==
  ASSUME Base, Passed, r \in 1..Len(rhs), NEW e \in Nat, l <= e,
         \A i \in e..Len(orig) : rhs[r].offset < orig[i].offset
  PROVE  \A j \in 1..r, i \in e..Len(orig) : rhs[j].offset < orig[i].offset
<1>1. r \in Nat /\ l \in Nat /\ Len(orig) \in Nat
  BY ListFacts DEF Base
<1>2. ASSUME NEW j \in 1..r, NEW i \in e..Len(orig) PROVE rhs[j].offset < orig[i].offset
  <2>1. i \in l..Len(orig)
    BY <1>1
  <2>2. CASE j = r
    BY <2>2
  <2>3. CASE j \in 1 .. r - 1
    BY <2>1, <2>3 DEF Passed
  <2> QED BY <1>1, <2>2, <2>3
<1> QED BY <1>2

(* The rest of the copying loops keep the types.                           *)
LEMMA CopyBase ==
  ASSUME Base, UNCHANGED <<op, orig, rhs, result>>, phase' \in {"running", "done"},
         lhs' \in Seq(Element), Len(lhs') = Len(orig), l' \in 1 .. Len(orig) + 1,
         r' \in 1 .. Len(rhs) + 1, o' \in Nat, o' >= 1
  PROVE  Base'
BY DEF Base, Ascending

(* A round of a copying loop: the next c elements are kept and copied, or  *)
(* not kept and passed over; and the next one of rhs is passed over if all *)
(* that is left of lhs is behind it.                                       *)
Moves(c) ==
  /\ UNCHANGED <<op, orig, rhs, result, phase>> /\ l' = l + c /\ l + c <= Len(orig) + 1
  /\ \/ Copy(c) /\ (Exact => \A i \in l .. l + c - 1 : Keeps(i))
     \/ UNCHANGED <<lhs, o>> /\ (Exact => \A i \in l .. l + c - 1 : ~Keeps(i))
  /\ \/ UNCHANGED r
     \/ /\ r' = r + 1 /\ r <= Len(rhs)
        /\ Exact => \A i \in l + c .. Len(orig) : rhs[r].offset < orig[i].offset

LEMMA MovesKeep ==
  ASSUME Base, CopyInv, op \in Copying, phase = "running", NEW c \in Nat, Moves(c)
  PROVE  Base' /\ CopyInv'
<1>0. /\ Unread /\ Selected(l - 1) /\ o <= l /\ (Exact => Passed)
      /\ UNCHANGED <<op, orig, rhs, result, phase>> /\ phase' = "running" /\ op' \in Copying
      /\ l' = l + c /\ l + c <= Len(orig) + 1
  BY DEF CopyInv, Moves
<1>1. /\ Len(orig) \in Nat /\ Len(rhs) \in Nat /\ o \in Nat /\ o >= 1
      /\ r \in Nat /\ r >= 1 /\ r <= Len(rhs) + 1 /\ l \in Nat /\ l >= 1
      /\ lhs \in Seq(Element) /\ Len(lhs) = Len(orig)
  BY ListFacts DEF Base
<1>2. /\ lhs' \in Seq(Element) /\ Len(lhs') = Len(orig)
      /\ o' \in Nat /\ o' >= 1 /\ o' <= l' /\ Unread' /\ Selected(l - 1)'
  <2>1. CASE Copy(c) /\ (Exact => \A i \in l .. l + c - 1 : Keeps(i))
    BY <1>0, <2>1, CopyStep
  <2>2. CASE UNCHANGED <<lhs, o>> /\ (Exact => \A i \in l .. l + c - 1 : ~Keeps(i))
    <3>1. Unread' /\ Selected(l - 1)'
      BY <1>0, <2>2, SkipStep
    <3>2. o' <= l'
      BY <1>0, <1>1, <2>2
    <3> QED BY <1>1, <2>2, <3>1, <3>2
  <2> QED BY <2>1, <2>2 DEF Moves
<1>3. r' \in 1 .. Len(rhs) + 1 /\ (Exact' => Passed')
  <2>1. CASE UNCHANGED r
    <3>1. Exact => \A j \in 1 .. r - 1, i \in l'..Len(orig) : rhs[j].offset < orig[i].offset
      BY <1>0, <1>1 DEF Passed
    <3> QED BY <1>0, <1>1, <2>1, <3>1, KeepsFixed DEF Passed
  <2>2. CASE /\ r' = r + 1 /\ r <= Len(rhs)
             /\ Exact => \A i \in l + c .. Len(orig) : rhs[r].offset < orig[i].offset
    <3>1. r' \in 1 .. Len(rhs) + 1 /\ r \in 1..Len(rhs) /\ r' - 1 = r
          /\ l + c \in Nat /\ l <= l + c
      BY <1>1, <2>2
    <3>2. Exact => \A j \in 1..r, i \in l + c .. Len(orig) : rhs[j].offset < orig[i].offset
      BY <1>0, <2>2, <3>1, PassedMore
    <3>3. Exact' => \A j \in 1 .. r' - 1, i \in l'..Len(orig) : rhs[j].offset < orig[i].offset
      BY <1>0, <3>1, <3>2, KeepsFixed
    <3> QED BY <1>0, <3>1, <3>3 DEF Passed
  <2> QED BY <2>1, <2>2 DEF Moves
<1>4. Base'
  <2>1. l' \in 1 .. Len(orig) + 1
    BY <1>0, <1>1
  <2> QED BY <1>0, <1>2, <1>3, <2>1, CopyBase
<1> QED BY <1>0, <1>2, <1>3, <1>4 DEF CopyInv

(* The rounds of IntersectOffsets, SubtractOffsets and Join are such.      *)
LEMMA CopyRound ==
  ASSUME Base, CopyInv, Intersect \/ Subtract \/ Join
  PROVE  \E c \in Nat : Moves(c)
<1>0. /\ op \in Copying /\ Both /\ phase = "running" /\ (Exact => Passed)
      /\ Unread /\ UNCHANGED <<op, orig, rhs, result, phase>>
  BY DEF Intersect, Subtract, Join, CopyInv, Both, Copying
<1>1. /\ l \in 1..Len(orig) /\ r \in 1..Len(rhs) /\ lhs[l] = orig[l]
      /\ orig[l].offset \in Int /\ rhs[r].offset \in Int
      /\ \A i \in l..Len(orig) : orig[l].offset <= orig[i].offset /\ orig[i].offset \in Int
      /\ \A j \in r..Len(rhs) : rhs[r].offset <= rhs[j].offset /\ rhs[j].offset \in Int
  BY <1>0, NextElements
<1>2. /\ Len(orig) \in Nat /\ Len(rhs) \in Nat /\ r \in Nat /\ l \in Nat /\ r <= Len(rhs)
      /\ l <= Len(orig) /\ l + 1 <= Len(orig) + 1 /\ \A i \in l .. l + 1 - 1 : i = l
  BY <1>1, ListFacts DEF Base
<1>3. PICK c \in Nat :
        /\ c = RunLength /\ l + c <= Len(orig) + 1
        /\ \A i \in l .. l + c - 1 : orig[i].offset = orig[l].offset
        /\ \A i \in l + c .. Len(orig) : orig[l].offset < orig[i].offset
  BY <1>0, <1>2, RunFacts
<1>4. ASSUME orig[l].offset < rhs[r].offset, Exact PROVE Keeps(l) <=> op = "subtract"
  <2>1. \A j \in r..Len(rhs) : orig[l].offset < rhs[j].offset
    BY <1>1, <1>4
  <2>2. l \in l..Len(orig)
    BY <1>1
  <2>3. \A j \in 1..Len(rhs) : rhs[j].offset /= orig[l].offset
    BY <1>0, <1>4, <2>1, <2>2, NotThere
  <2> QED BY <1>0, <1>1, <2>3, NotKept
<1>5. ASSUME orig[l].offset > rhs[r].offset, NEW i \in l..Len(orig)
      PROVE  rhs[r].offset < orig[i].offset
  BY <1>1, <1>5
<1>6. ASSUME r' = r + 1, UNCHANGED <<lhs, o, l>>, orig[l].offset > rhs[r].offset
      PROVE  Moves(0)
  <2>1. l' = l + 0 /\ l + 0 <= Len(orig) + 1 /\ l + 0 = l /\ \A i \in l .. l + 0 - 1 : FALSE
    BY <1>2, <1>6
  <2> QED BY <1>0, <1>2, <1>5, <1>6, <2>1 DEF Moves
<1>7. ASSUME l' = l + 1, UNCHANGED <<lhs, o, r>>, orig[l].offset < rhs[r].offset, op /= "subtract"
      PROVE  Moves(1)
  BY <1>0, <1>2, <1>4, <1>7 DEF Moves
<1>e. orig[l].offset = rhs[r].offset =>
        /\ lhs[l].offset = rhs[r].offset
        /\ ~(lhs[l].offset < rhs[r].offset) /\ ~(lhs[l].offset > rhs[r].offset)
  BY <1>1
<1>b. orig[l].offset < rhs[r].offset =>
        /\ lhs[l].offset < rhs[r].offset
        /\ lhs[l].offset /= rhs[r].offset /\ ~(lhs[l].offset > rhs[r].offset)
  BY <1>1
<1>a. orig[l].offset > rhs[r].offset =>
        /\ lhs[l].offset > rhs[r].offset
        /\ lhs[l].offset /= rhs[r].offset /\ ~(lhs[l].offset < rhs[r].offset)
  BY <1>1
<1>8. CASE Intersect
  <2>1. CASE orig[l].offset = rhs[r].offset
    <3>0. Copy(RunLength) /\ r' = r + 1
      BY <1>e, <1>8, <2>1 DEF Intersect
    <3>1. Copy(c) /\ r' = r + 1 /\ l' = l + c
      BY <1>3, <3>0 DEF Copy
    <3>2. \A i \in l .. l + c - 1 : Keeps(i)
      BY <1>1, <1>3, <1>8, <2>1 DEF Keeps, Offsets, Intersect
    <3>3. \A i \in l + c .. Len(orig) : rhs[r].offset < orig[i].offset
      BY <1>3, <2>1
    <3> QED BY <1>0, <1>2, <1>3, <3>1, <3>2, <3>3 DEF Moves
  <2>2. CASE orig[l].offset < rhs[r].offset
    <3>1. l' = l + 1 /\ UNCHANGED <<lhs, o, r>> /\ op /= "subtract"
      BY <1>b, <1>8, <2>2 DEF Intersect
    <3> QED BY <1>7, <2>2, <3>1
  <2>3. CASE orig[l].offset > rhs[r].offset
    <3>1. r' = r + 1 /\ UNCHANGED <<lhs, o, l>>
      BY <1>a, <1>8, <2>3 DEF Intersect
    <3> QED BY <1>6, <2>3, <3>1
  <2> QED BY <1>1, <2>1, <2>2, <2>3
<1>9. CASE Subtract
  <2>1. CASE orig[l].offset = rhs[r].offset
    <3>0. l' = l + RunLength /\ r' = r + 1 /\ UNCHANGED <<lhs, o>>
      BY <1>e, <1>9, <2>1 DEF Subtract
    <3>1. l' = l + c /\ r' = r + 1 /\ UNCHANGED <<lhs, o>>
      BY <1>3, <3>0
    <3>2. \A i \in l .. l + c - 1 : ~Keeps(i)
      BY <1>1, <1>3, <1>9, <2>1 DEF Keeps, Offsets, Subtract
    <3>3. \A i \in l + c .. Len(orig) : rhs[r].offset < orig[i].offset
      BY <1>3, <2>1
    <3> QED BY <1>0, <1>2, <1>3, <3>1, <3>2, <3>3 DEF Moves
  <2>2. CASE orig[l].offset < rhs[r].offset
    <3>0. Copy(1) /\ UNCHANGED r /\ op = "subtract"
      BY <1>b, <1>9, <2>2 DEF Subtract
    <3>1. Copy(1) /\ UNCHANGED r /\ l' = l + 1 /\ op = "subtract"
      BY <3>0 DEF Copy
    <3> QED BY <1>0, <1>2, <1>4, <2>2, <3>1 DEF Moves
  <2>3. CASE orig[l].offset > rhs[r].offset
    <3>1. r' = r + 1 /\ UNCHANGED <<lhs, o, l>>
      BY <1>a, <1>9, <2>3 DEF Subtract
    <3> QED BY <1>6, <2>3, <3>1
  <2> QED BY <1>1, <2>1, <2>2, <2>3
<1>10. CASE Join
  <2>1. CASE orig[l].offset = rhs[r].offset
    <3>0. /\ IF Joins(lhs[l].score, rhs[r].score) THEN Copy(1)
             ELSE l' = l + 1 /\ UNCHANGED <<lhs, o>>
          /\ r' = r + 1
      BY <1>e, <1>10, <2>1 DEF Join
    <3>1. /\ IF Joins(orig[l].score, rhs[r].score) THEN Copy(1)
             ELSE l' = l + 1 /\ UNCHANGED <<lhs, o>>
          /\ r' = r + 1 /\ l' = l + 1
      BY <1>1, <3>0 DEF Copy
    <3>2. Exact => (Keeps(l) <=> Joins(orig[l].score, rhs[r].score))
      <4>1. Exact => Unique(rhs)
        BY <1>10 DEF Join, Exact
      <4>2. ASSUME Exact, NEW j \in 1..Len(rhs), rhs[j].offset = orig[l].offset PROVE j = r
        BY <1>1, <2>1, <4>1, <4>2 DEF Unique
      <4>3. Keeps(l) <=> \E j \in 1..Len(rhs) :
                           rhs[j].offset = orig[l].offset /\ Joins(orig[l].score, rhs[j].score)
        BY <1>10 DEF Join, Keeps
      <4> QED BY <1>1, <2>1, <4>2, <4>3
    <3>3. Exact => \A i \in l + 1 .. Len(orig) : rhs[r].offset < orig[i].offset
      <4>1. Exact => Unique(orig)
        BY <1>10 DEF Join, Exact
      <4>2. ASSUME Exact, NEW i \in l + 1 .. Len(orig) PROVE rhs[r].offset < orig[i].offset
        <5>1. i \in l..Len(orig) /\ i \in 1..Len(orig) /\ i /= l
          BY <1>1, <1>2
        <5>2. orig[i].offset /= orig[l].offset
          BY <1>1, <4>1, <4>2, <5>1 DEF Unique
        <5> QED BY <1>1, <2>1, <5>1, <5>2
      <4> QED BY <4>2
    <3> QED BY <1>0, <1>2, <3>1, <3>2, <3>3 DEF Moves
  <2>2. CASE orig[l].offset < rhs[r].offset
    <3>1. l' = l + 1 /\ UNCHANGED <<lhs, o, r>> /\ op /= "subtract"
      BY <1>b, <1>10, <2>2 DEF Join
    <3> QED BY <1>7, <2>2, <3>1
  <2>3. CASE orig[l].offset > rhs[r].offset
    <3>1. r' = r + 1 /\ UNCHANGED <<lhs, o, l>>
      BY <1>a, <1>10, <2>3 DEF Join
    <3> QED BY <1>6, <2>3, <3>1
  <2> QED BY <1>1, <2>1, <2>2, <2>3
<1> QED BY <1>8, <1>9, <1>10

(* What is left of lhs when rhs is used up is not in rhs.                  *)
LEMMA RestNotThere ==
  ASSUME Base, op \in Copying, Passed, ~Both, phase = "running", NEW i \in l..Len(orig)
  PROVE  Keeps(i) <=> op = "subtract"
<1>1. r \in Nat /\ r > Len(rhs) /\ i \in 1..Len(orig) /\ Len(rhs) \in Nat
  BY ListFacts DEF Base, Both
<1>2. \A j \in r..Len(rhs) : orig[i].offset < rhs[j].offset
  BY <1>1
<1> QED BY <1>1, <1>2, NotThere, NotKept

LEMMA SelectedFixed ==
  ASSUME UNCHANGED <<op, orig, lhs, rhs, o>>, NEW u, Selected(u), u = Len(orig)
  PROVE  Selected(Len(orig))'
<1>1. PICK m \in [1 .. o - 1 -> 1..u] :
        /\ Increasing(m, o - 1) /\ \A k \in 1 .. o - 1 : lhs[k] = orig[m[k]]
        /\ Exact => \A i \in 1..u : Keeps(i) <=> \E k \in 1 .. o - 1 : m[k] = i
  BY DEF Selected
<1>2. Exact' => \A i \in 1..u : Keeps(i)' <=> \E k \in 1 .. o - 1 : m[k] = i
  BY <1>1, KeepsFixed
<1>3. o' = o /\ lhs' = lhs /\ orig' = orig /\ u = Len(orig')
  OBVIOUS
<1>4. m \in [1 .. o' - 1 -> 1..Len(orig')] /\ Increasing(m, o' - 1)
      /\ \A k \in 1 .. o' - 1 : lhs'[k] = orig'[m[k]]
  BY <1>1, <1>3
<1>5. Exact' => \A i \in 1..Len(orig') : Keeps(i)' <=> \E k \in 1 .. o' - 1 : m[k] = i
  BY <1>2, <1>3
<1> QED BY <1>4, <1>5 DEF Selected

(* The ends of the copying loops.                                          *)
LEMMA SubtractEnds ==
  ASSUME Base, CopyInv, SubtractRest
  PROVE  Base' /\ CopyInv'
<1>0. /\ op \in Copying /\ op = "subtract" /\ ~Both /\ phase = "running" /\ (Exact => Passed)
      /\ Unread /\ Selected(l - 1) /\ o <= l
      /\ UNCHANGED <<op, orig, rhs, r, result>> /\ phase' = "done"
  BY DEF SubtractRest, Behind, CopyInv, Copying
<1> DEFINE c == Len(orig) + 1 - l
<1>1. /\ Len(orig) \in Nat /\ Len(rhs) \in Nat /\ l \in 1 .. Len(orig) + 1 /\ Copy(c)
      /\ r \in 1 .. Len(rhs) + 1
  BY ListFacts DEF Base, SubtractRest
<1>2. c \in Nat /\ l + c = Len(orig) + 1 /\ l + c - 1 = Len(orig)
  BY <1>1
<1>3. Exact => \A i \in l .. l + c - 1 : Keeps(i)
  BY <1>0, <1>2, RestNotThere
<1> HIDE DEF c
<1>4. /\ lhs' \in Seq(Element) /\ Len(lhs') = Len(orig) /\ l' = l + c
      /\ o' \in Nat /\ o' >= 1 /\ o' <= l' /\ Unread' /\ Selected(l - 1)'
  <2>1. l + c <= Len(orig) + 1
    BY <1>1, <1>2
  <2> QED BY <1>0, <1>1, <1>2, <1>3, <2>1, CopyStep
<1>5. l' = Len(orig') + 1 /\ l' - 1 = Len(orig') /\ l' \in 1 .. Len(orig) + 1
  BY <1>0, <1>1, <1>2, <1>4
<1>6. Selected(Len(orig))'
  BY <1>4, <1>5 DEF Selected
<1>7. Passed'
  <2>1. \A i \in l'..Len(orig') : FALSE
    BY <1>0, <1>1, <1>5
  <2> QED BY <2>1 DEF Passed
<1>8. Base'
  <2>1. r' \in 1 .. Len(rhs) + 1
    BY <1>0, <1>1
  <2> QED BY <1>0, <1>4, <1>5, <2>1, CopyBase
<1> QED BY <1>0, <1>4, <1>6, <1>7, <1>8 DEF CopyInv

LEMMA CopyEnds ==
  ASSUME Base, CopyInv, op \in Copying, Erase
  PROVE  Base' /\ CopyInv'
<1>0. /\ op /= "subtract" /\ ~Both /\ phase = "running" /\ (Exact => Passed)
      /\ Unread /\ Selected(l - 1) /\ o <= l
      /\ UNCHANGED <<op, orig, lhs, rhs, l, r, o, result>> /\ phase' = "done"
  BY DEF Erase, CopyInv, Copying, Done, Unary
<1>1. /\ Len(orig) \in Nat /\ l \in 1 .. Len(orig) + 1 /\ l - 1 \in Nat /\ l - 1 <= Len(orig)
      /\ o \in Nat /\ \A i \in (l - 1) + 1 .. Len(orig) : i \in l..Len(orig)
  BY ListFacts DEF Base
<1>2. Selected(Len(orig))
  BY <1>0, <1>1, SelectedMore, RestNotThere
<1>3. Selected(Len(orig))'
  <2>1. PICK u \in Nat : u = Len(orig)
    BY <1>1
  <2> QED BY <1>0, <1>2, <2>1, SelectedFixed
<1>4. Unread' /\ (Exact' => Passed') /\ o' <= l' /\ op' \in Copying
  BY <1>0, KeepsFixed DEF Unread, Passed
<1>5. Base'
  BY <1>0 DEF Base, Ascending
<1> QED BY <1>0, <1>3, <1>4, <1>5 DEF CopyInv

LEMMA CopyNext ==
  ASSUME Base, CopyInv, op \in Copying, Next
  PROVE  Base' /\ CopyInv' /\ op' = op
<1>1. CASE Intersect \/ Subtract \/ Join
  <2>1. phase = "running" /\ op' = op
    BY <1>1 DEF Intersect, Subtract, Join, Both
  <2> QED BY <1>1, <2>1, CopyRound, MovesKeep
<1>2. CASE SubtractRest
  <2>1. op' = op
    BY <1>2 DEF SubtractRest
  <2> QED BY <1>2, <2>1, SubtractEnds
<1>3. CASE Erase
  <2>1. op' = op
    BY <1>3 DEF Erase, Done
  <2> QED BY <1>3, <2>1, CopyEnds
<1> QED BY <1>1, <1>2, <1>3 DEF Next, Copying, Unary, Union, UnionRest, Behind,
           RemoveDuplicate, OrderBy, OrderByRest, Filter
-----------------------------------------------------------------------------
(* A round of the filter that outputs nothing: no element of lhs has what  *)
(* is passed over of rhs.                                                  *)
Passes ==
  /\ UNCHANGED <<op, orig, rhs, result, lhs, o, phase>>
  /\ l' \in 1 .. Len(orig) + 1 /\ l <= l' /\ r' \in 1 .. Len(rhs) + 1 /\ r <= r'
  /\ \A j \in r .. r' - 1, i \in 1..Len(orig) :
       ~(rhs[j].offset = orig[i].offset /\ InThresholds(rhs[j]))
  /\ Below'

LEMMA PassesKeeps ==
  ASSUME Base, Filtered, UnreadOffsets, Passes
  PROVE  Filtered' /\ UnreadOffsets'
<1>0. /\ Len(orig) \in Nat /\ Len(rhs) \in Nat /\ l \in Nat /\ r \in Nat /\ r >= 1 /\ l >= 1
      /\ o \in Nat /\ l' \in Nat /\ l <= l' /\ r' \in Nat /\ r <= r'
      /\ UNCHANGED <<op, orig, rhs, result, lhs, o, phase>>
  BY ListFacts DEF Base, Passes
<1>a. r \in Nat /\ r' \in Nat /\ r <= r' /\ r >= 1
  BY <1>0
<1>2. \A j \in 1 .. r - 1 : j \in 1 .. r' - 1
  <2>1. ASSUME NEW s \in Nat, NEW t \in Nat, s <= t
        PROVE  \A j \in 1 .. s - 1 : j \in 1 .. t - 1
    BY <2>1
  <2> QED BY <1>a, <2>1
<1>3. \A j \in 1 .. r' - 1 : j \in 1 .. r - 1 \/ j \in r .. r' - 1
  <2>1. ASSUME NEW s \in Nat, NEW t \in Nat, s <= t
        PROVE  \A j \in 1 .. t - 1 : j \in 1 .. s - 1 \/ j \in s .. t - 1
    BY <2>1
  <2> QED BY <1>a, <2>1
<1>1. PICK m \in [1 .. o - 1 -> 1..Len(orig)] :
        /\ Increasing(m, o - 1)
        /\ \A k \in 1 .. o - 1 :
             /\ m[k] <= l /\ lhs[k].offset = orig[m[k]].offset
             /\ \E j \in 1 .. r - 1 : lhs[k] = rhs[j]
        /\ Unique(orig) =>
             \A i \in 1..Len(orig) : Matched(i) <=> \E k \in 1 .. o - 1 : m[k] = i
  BY DEF Filtered
<1>4. ASSUME NEW i \in 1..Len(orig) PROVE Matched(i)' <=> Matched(i)
  <2>1. Matched(i)' <=> \E j \in 1 .. r' - 1 : rhs[j].offset = orig[i].offset /\ InThresholds(rhs[j])
    BY <1>0 DEF Matched, InThresholds
  <2> QED BY <1>2, <1>3, <2>1 DEF Passes, Matched
<1>5. \A k \in 1 .. o - 1 : m[k] <= l'
  <2>1. \A k \in 1 .. o - 1 : m[k] \in Nat /\ m[k] <= l
    BY <1>1
  <2> QED BY <1>0, <2>1
<1>6. /\ m \in [1 .. o' - 1 -> 1..Len(orig')] /\ Increasing(m, o' - 1)
      /\ \A k \in 1 .. o' - 1 :
           /\ m[k] <= l' /\ lhs'[k].offset = orig'[m[k]].offset
           /\ \E j \in 1 .. r' - 1 : lhs'[k] = rhs'[j]
  BY <1>0, <1>1, <1>2, <1>5
<1>7. Unique(orig') =>
        \A i \in 1..Len(orig') : Matched(i)' <=> \E k \in 1 .. o' - 1 : m[k] = i
  BY <1>0, <1>1, <1>4
<1>8. UnreadOffsets'
  <2>1. \A i \in l'..Len(orig) : i \in l..Len(orig)
    BY <1>0
  <2> QED BY <1>0, <2>1 DEF UnreadOffsets
<1> QED BY <1>6, <1>7, <1>8 DEF Filtered

(* A match in the thresholds is written inside the list, not behind what   *)
(* has been matched.                                                       *)
LEMMA MatchInside ==
  ASSUME Base, Filtered, Unique(rhs), l \in 1..Len(orig), r \in 1..Len(rhs),
         orig[l].offset = rhs[r].offset
  PROVE  o <= l
<1>0. /\ Len(orig) \in Nat /\ Len(rhs) \in Nat /\ l \in Nat /\ r \in Nat /\ r >= 1 /\ l >= 1
      /\ o \in Nat /\ o >= 1
  BY ListFacts DEF Base
<1>1. PICK m \in [1 .. o - 1 -> 1..Len(orig)] :
        /\ Increasing(m, o - 1)
        /\ \A k \in 1 .. o - 1 :
             /\ m[k] <= l /\ lhs[k].offset = orig[m[k]].offset
             /\ \E j \in 1 .. r - 1 : lhs[k] = rhs[j]
  BY DEF Filtered
<1>2. ASSUME NEW k \in 1 .. o - 1 PROVE m[k] /= l
  <2>1. PICK j \in 1 .. r - 1 : lhs[k] = rhs[j]
    BY <1>1
  <2>2. j \in 1..Len(rhs) /\ j /= r
    BY <1>0, <2>1
  <2>3. rhs[j].offset /= rhs[r].offset
    BY <2>2 DEF Unique
  <2>4. lhs[k].offset = orig[m[k]].offset
    BY <1>1
  <2> QED BY <2>1, <2>3, <2>4
<1>3. CASE o = 1
  BY <1>0, <1>3
<1>4. CASE o > 1
  <2>1. o - 1 \in 1 .. o - 1
    BY <1>0, <1>4
  <2>2. m[o - 1] \in Nat /\ m[o - 1] <= l /\ o - 1 <= m[o - 1] /\ m[o - 1] /= l
    BY <1>0, <1>1, <1>2, <2>1 DEF Increasing
  <2> QED BY <1>0, <2>2
<1> QED BY <1>0, <1>3, <1>4
(* The round that writes over an element.                                  *)
Writes ==
  /\ UNCHANGED <<op, orig, rhs, result, l>> /\ o <= Len(lhs)
  /\ lhs' = [lhs EXCEPT ![o] = rhs[r]] /\ o' = o + 1 /\ r' = r + 1

LEMMA WritesKeeps ==
  ASSUME Base, Filtered, UnreadOffsets, Below, Unique(rhs), Writes,
         l \in 1..Len(orig), r \in 1..Len(rhs),
         orig[l].offset = rhs[r].offset, InThresholds(rhs[r])
  PROVE  /\ lhs' \in Seq(Element) /\ Len(lhs') = Len(orig)
         /\ Filtered' /\ UnreadOffsets' /\ Below'
<1> DEFINE n == Len(orig)
<1>0. /\ n \in Nat /\ Len(rhs) \in Nat /\ l \in Nat /\ r \in Nat /\ r >= 1 /\ l >= 1 /\ l <= n
      /\ o \in Nat /\ o >= 1 /\ o <= l /\ r' = r + 1 /\ o' = o + 1 /\ Len(lhs) = n
  BY ListFacts, MatchInside DEF Base, Writes
<1>1. /\ lhs' \in Seq(Element) /\ Len(lhs') = n /\ lhs'[o] = rhs[r]
      /\ \A k \in 1..n : k /= o => lhs'[k] = lhs[k]
  BY <1>0, ListFacts DEF Base, Writes
<1>2. PICK m \in [1 .. o - 1 -> 1..Len(orig)] :
        /\ Increasing(m, o - 1)
        /\ \A k \in 1 .. o - 1 :
             /\ m[k] <= l /\ lhs[k].offset = orig[m[k]].offset
             /\ \E j \in 1 .. r - 1 : lhs[k] = rhs[j]
        /\ Unique(orig) =>
             \A i \in 1..Len(orig) : Matched(i) <=> \E k \in 1 .. o - 1 : m[k] = i
  BY DEF Filtered
<1>3. ASSUME NEW k \in 1 .. o - 1 PROVE m[k] \in 1..n /\ m[k] <= l /\ m[k] /= l
  <2>1. PICK j \in 1 .. r - 1 : lhs[k] = rhs[j]
    BY <1>2
  <2>2. j \in 1..Len(rhs) /\ j /= r
    BY <1>0, <2>1
  <2>3. rhs[j].offset /= rhs[r].offset
    BY <2>2 DEF Unique
  <2>4. lhs[k].offset = orig[m[k]].offset /\ m[k] \in 1..n /\ m[k] <= l
    BY <1>2
  <2> QED BY <2>1, <2>3, <2>4
<1> HIDE DEF n
<1> DEFINE e == [k \in 1..o |-> IF k = o THEN l ELSE m[k]]
<1>4. /\ o' - 1 = o /\ \A k \in 1..o : k = o \/ k \in 1 .. o - 1
      /\ \A k \in 1 .. o - 1 : k \in 1..o /\ k /= o /\ k \in 1..n /\ k < o
      /\ o \in 1..o /\ o \in 1..n /\ l \in 1..n
  BY <1>0
<1>5. e[o] = l /\ \A k \in 1 .. o - 1 : e[k] = m[k]
  BY <1>4
<1>6. e \in [1..o -> 1..n]
  BY <1>3, <1>4
<1> HIDE DEF e
<1>a. n \in Int /\ l \in Int /\ o \in Int /\ 1 <= o /\ o <= l /\ l <= n
  BY <1>0
<1>7. Increasing(e, o)
  <2>1. ASSUME NEW k \in 1..o PROVE k <= e[k]
    <3>1. CASE k = o
      BY <1>a, <1>5, <3>1
    <3>2. CASE k \in 1 .. o - 1
      BY <1>2, <1>5, <3>2 DEF Increasing
    <3> QED BY <1>4, <3>1, <3>2
  <2>2. ASSUME NEW k \in 1..o, NEW j \in 1..o, k < j PROVE e[k] < e[j]
    <3>1. k \in 1 .. o - 1
      BY <1>a, <2>2
    <3>2. CASE j = o
      <4>1. m[k] < l
        BY <1>3, <1>a, <3>1
      <4> QED BY <1>5, <3>1, <3>2, <4>1
    <3>3. CASE j \in 1 .. o - 1
      BY <1>2, <1>5, <2>2, <3>1, <3>3 DEF Increasing
    <3> QED BY <1>4, <3>2, <3>3
  <2> QED BY <2>1, <2>2 DEF Increasing
<1>b. \A j \in 1 .. r - 1 : j \in 1..r
  BY <1>0
<1>c. r \in 1..r /\ r' - 1 = r /\ \A j \in 1..r : j = r \/ j \in 1 .. r - 1
  BY <1>0
<1>8. ASSUME NEW k \in 1..o
      PROVE  /\ e[k] <= l /\ lhs'[k].offset = orig[e[k]].offset
             /\ \E j \in 1..r : lhs'[k] = rhs[j]
  <2>1. CASE k = o
    BY <1>a, <1>1, <1>5, <1>c, <2>1
  <2>2. CASE k \in 1 .. o - 1
    <3>1. lhs'[k] = lhs[k] /\ e[k] = m[k]
      BY <1>1, <1>4, <1>5, <2>2
    <3> QED BY <1>2, <1>b, <2>2, <3>1
  <2> QED BY <1>4, <2>1, <2>2
<1>u. orig' = orig /\ rhs' = rhs /\ l' = l
  BY DEF Writes
<1>9. ASSUME Unique(orig), NEW i \in 1..n PROVE Matched(i)' <=> \E k \in 1..o : e[k] = i
  <2>1. Matched(i)' <=> \E j \in 1..r : rhs[j].offset = orig[i].offset /\ InThresholds(rhs[j])
    BY <1>c, <1>u DEF Matched, InThresholds
  <2>2. rhs[r].offset = orig[i].offset <=> i = l
    BY <1>4, <1>9 DEF Unique, n
  <2>3. Matched(i)' <=> Matched(i) \/ i = l
    BY <1>b, <1>c, <2>1, <2>2 DEF Matched
  <2>4. Matched(i) <=> \E k \in 1 .. o - 1 : m[k] = i
    BY <1>2, <1>9 DEF n
  <2> QED BY <1>4, <1>5, <2>3, <2>4
<1>10. Filtered'
  <2>1. /\ e \in [1 .. o' - 1 -> 1..Len(orig')] /\ Increasing(e, o' - 1)
        /\ \A k \in 1 .. o' - 1 :
             /\ e[k] <= l' /\ lhs'[k].offset = orig'[e[k]].offset
             /\ \E j \in 1 .. r' - 1 : lhs'[k] = rhs'[j]
    BY <1>4, <1>6, <1>7, <1>8, <1>c, <1>u DEF n
  <2>2. Unique(orig') =>
          \A i \in 1..Len(orig') : Matched(i)' <=> \E k \in 1 .. o' - 1 : e[k] = i
    BY <1>4, <1>9, <1>u DEF n
  <2> QED BY <2>1, <2>2 DEF Filtered
<1>11. UnreadOffsets'
  <2>1. ASSUME NEW i \in l..n
        PROVE  lhs'[i].offset = orig[i].offset /\ (i >= o + 1 => lhs'[i] = orig[i])
    <3>1. i \in Int /\ l <= i /\ i <= n /\ i \in 1..n
      BY <1>a
    <3>2. CASE i = o
      <4>1. i = l /\ ~(i >= o + 1)
        BY <1>a, <3>1, <3>2
      <4> QED BY <1>1, <3>2, <4>1
    <3>3. CASE i /= o
      <4>1. lhs'[i] = lhs[i] /\ i >= o
        BY <1>1, <1>a, <3>1, <3>3
      <4> QED BY <4>1 DEF UnreadOffsets, n
    <3> QED BY <3>2, <3>3
  <2> QED BY <1>0, <1>u, <2>1 DEF UnreadOffsets, n
<1>12. Below'
  <2>1. \A j \in r'..Len(rhs) : j \in r..Len(rhs)
    BY <1>0
  <2> QED BY <1>u, <2>1 DEF Below
<1> QED BY <1>1, <1>10, <1>11, <1>12 DEF n
LEMMA FilterBase ==
  ASSUME Base, Filter
  PROVE  Base'
<1>0. /\ l \in 1..Len(orig) /\ r \in 1..Len(rhs) /\ Len(lhs) = Len(orig) /\ Len(orig) \in Nat
      /\ Len(rhs) \in Nat /\ o \in Nat /\ o >= 1 /\ lhs \in Seq(Element) /\ rhs[r] \in Element
      /\ phase \in {"running", "done", "undefined"}
      /\ UNCHANGED <<op, orig, rhs, result>>
  BY ListFacts DEF Base, Filter, Both
<1>1. /\ l' = l \/ l' = l + 1
      /\ r' = r \/ r' = r + 1
      /\ o' = o \/ o' = o + 1
      /\ lhs' = lhs \/ (o <= Len(lhs) /\ lhs' = [lhs EXCEPT ![o] = rhs[r]])
      /\ phase' = phase \/ phase' = "undefined"
  <2>1. lhs[l].offset \in Int /\ rhs[r].offset \in Int
    BY <1>0, ListFacts DEF Base
  <2>2. CASE lhs[l].offset < rhs[r].offset
    <3>1. lhs[l].offset /= rhs[r].offset /\ ~(lhs[l].offset > rhs[r].offset)
      BY <2>1, <2>2
    <3> QED BY <2>2, <3>1 DEF Filter
  <2>3. CASE lhs[l].offset > rhs[r].offset
    <3>1. lhs[l].offset /= rhs[r].offset /\ ~(lhs[l].offset < rhs[r].offset)
      BY <2>1, <2>3
    <3> QED BY <2>3, <3>1 DEF Filter
  <2>4. CASE lhs[l].offset = rhs[r].offset
    <3>1. ~(lhs[l].offset > rhs[r].offset) /\ ~(lhs[l].offset < rhs[r].offset)
      BY <2>1, <2>4
    <3>2. CASE rhs[r].score >= Low /\ rhs[r].score < High
      BY <2>4, <3>1, <3>2 DEF Filter
    <3>3. CASE ~(rhs[r].score >= Low /\ rhs[r].score < High)
      BY <2>4, <3>1, <3>3 DEF Filter
    <3> QED BY <3>2, <3>3
  <2> QED BY <2>1, <2>2, <2>3, <2>4
<1>2. lhs' \in Seq(Element) /\ Len(lhs') = Len(orig)
  BY <1>0, <1>1
<1>3. l' \in 1 .. Len(orig) + 1 /\ r' \in 1 .. Len(rhs) + 1 /\ o' \in Nat /\ o' >= 1
  BY <1>0, <1>1
<1>4. phase' \in {"running", "done", "undefined"}
  BY <1>0, <1>1
<1> QED BY <1>0, <1>2, <1>3, <1>4 DEF Base, Ascending

(* A round of the filter passes over elements, or writes one.              *)
LEMMA FilterRound ==
  ASSUME Base, FilterInv, Unique(rhs), Filter
  PROVE  Filtered' /\ UnreadOffsets' /\ Below' /\ phase' = "running"
<1>0. /\ op = "thresholds" /\ Both /\ phase = "running"
      /\ Filtered /\ UnreadOffsets /\ Below /\ UNCHANGED <<op, orig, rhs, result>>
  BY DEF Filter, FilterInv, Both
<1>1. /\ l \in 1..Len(orig) /\ r \in 1..Len(rhs) /\ lhs[l].offset = orig[l].offset
      /\ Len(orig) \in Nat /\ Len(rhs) \in Nat /\ Len(lhs) = Len(orig) /\ o \in Nat
      /\ orig[l].offset \in Int /\ rhs[r].offset \in Int /\ rhs[r].score \in Int
      /\ Low \in Int /\ High \in Int
  <2>1. l \in 1..Len(orig) /\ r \in 1..Len(rhs) /\ Len(lhs) = Len(orig) /\ Len(orig) \in Nat
        /\ Len(rhs) \in Nat /\ o \in Nat /\ l \in l..Len(orig)
    BY <1>0, ListFacts DEF Base, Both
  <2> QED BY <1>0, <2>1, ListFacts, OffsetListsAssumption DEF Base, UnreadOffsets
<1>2. /\ \A i \in 1..Len(orig) : orig[i].offset \in Int
      /\ \A i \in l..Len(orig) : orig[l].offset <= orig[i].offset
      /\ \A i \in 1 .. l - 1 : orig[i].offset < rhs[r].offset
      /\ \A i \in 1..Len(orig) : i \in 1 .. l - 1 \/ i \in l..Len(orig)
      /\ \A j \in r..Len(rhs) : rhs[r].offset <= rhs[j].offset /\ rhs[j].offset \in Int
  <2>1. /\ \A i \in l..Len(orig) : i \in 1..Len(orig) /\ l <= i
        /\ \A i \in 1..Len(orig) : i \in 1 .. l - 1 \/ i \in l..Len(orig)
        /\ r \in r..Len(rhs) /\ \A j \in r..Len(rhs) : j \in 1..Len(rhs) /\ r <= j
    BY <1>1
  <2> QED BY <1>0, <1>1, <2>1, ListFacts DEF Base, Ascending, Below
<1>3. ASSUME UNCHANGED <<lhs, o, l, phase>>, r' = r + 1,
             \A i \in 1..Len(orig) : ~(rhs[r].offset = orig[i].offset /\ InThresholds(rhs[r]))
      PROVE  Filtered' /\ UnreadOffsets' /\ Below' /\ phase' = "running"
  <2>1. /\ l' \in 1 .. Len(orig) + 1 /\ l <= l' /\ r' \in 1 .. Len(rhs) + 1 /\ r <= r'
        /\ \A j \in r .. r' - 1 : j = r
        /\ \A j \in r'..Len(rhs) : j \in r..Len(rhs)
    BY <1>1, <1>3
  <2>2. Below'
    BY <1>0, <1>3, <2>1 DEF Below
  <2>3. Passes
    BY <1>0, <1>3, <2>1, <2>2 DEF Passes
  <2> QED BY <1>0, <1>3, <2>2, <2>3, PassesKeeps
<1>4. CASE orig[l].offset < rhs[r].offset
  <2>1. /\ lhs[l].offset < rhs[r].offset /\ lhs[l].offset /= rhs[r].offset
        /\ ~(lhs[l].offset > rhs[r].offset)
    BY <1>1, <1>4
  <2>2. l' = l + 1 /\ UNCHANGED <<lhs, o, r, phase>>
    BY <2>1 DEF Filter
  <2>3. /\ l' \in 1 .. Len(orig) + 1 /\ l <= l' /\ r' \in 1 .. Len(rhs) + 1 /\ r <= r'
        /\ \A j \in r .. r' - 1 : FALSE
        /\ \A i \in 1 .. l' - 1 : i = l \/ i \in 1 .. l - 1
    BY <1>1, <2>2
  <2>4. \A j \in r..Len(rhs) : orig[l].offset < rhs[j].offset
    BY <1>1, <1>2, <1>4
  <2>5. Below'
    BY <1>0, <2>2, <2>3, <2>4 DEF Below
  <2>6. Passes
    BY <1>0, <2>2, <2>3, <2>5 DEF Passes
  <2> QED BY <1>0, <2>2, <2>5, <2>6, PassesKeeps
<1>5. CASE orig[l].offset > rhs[r].offset
  <2>1. /\ lhs[l].offset > rhs[r].offset /\ lhs[l].offset /= rhs[r].offset
        /\ ~(lhs[l].offset < rhs[r].offset)
    BY <1>1, <1>5
  <2>2. r' = r + 1 /\ UNCHANGED <<lhs, o, l, phase>>
    BY <2>1 DEF Filter
  <2>3. \A i \in 1..Len(orig) : rhs[r].offset /= orig[i].offset
    <3> SUFFICES ASSUME NEW i \in 1..Len(orig) PROVE rhs[r].offset /= orig[i].offset
      OBVIOUS
    <3>1. CASE i \in 1 .. l - 1
      BY <1>1, <1>2, <3>1
    <3>2. CASE i \in l..Len(orig)
      BY <1>1, <1>2, <1>5, <3>2
    <3> QED BY <1>2, <3>1, <3>2
  <2> QED BY <1>3, <2>2, <2>3
<1>6. CASE orig[l].offset = rhs[r].offset
  <2>1. /\ lhs[l].offset = rhs[r].offset /\ ~(lhs[l].offset > rhs[r].offset)
        /\ ~(lhs[l].offset < rhs[r].offset)
    BY <1>1, <1>6
  <2>2. InThresholds(rhs[r]) <=> rhs[r].score >= Low /\ rhs[r].score < High
    BY <1>1 DEF InThresholds
  <2>3. CASE ~InThresholds(rhs[r])
    <3>1. r' = r + 1 /\ UNCHANGED <<lhs, o, l, phase>>
      BY <2>1, <2>2, <2>3 DEF Filter
    <3> QED BY <1>3, <2>3, <3>1
  <2>4. CASE InThresholds(rhs[r])
    <3>1. o <= Len(lhs)
      <4>1. o <= l
        BY <1>0, <1>1, <1>6, MatchInside
      <4> QED BY <1>1, <4>1
    <3>2. /\ lhs' = [lhs EXCEPT ![o] = rhs[r]] /\ phase' = phase
          /\ o' = o + 1 /\ r' = r + 1 /\ l' = l
      BY <2>1, <2>2, <2>4, <3>1 DEF Filter
    <3>3. Writes
      BY <1>0, <3>1, <3>2 DEF Writes
    <3> QED BY <1>0, <1>1, <1>6, <2>4, <3>2, <3>3, WritesKeeps
  <2> QED BY <2>3, <2>4
<1> QED BY <1>1, <1>4, <1>5, <1>6

LEMMA FilterEnds ==
  ASSUME Base, FilterInv, op = "thresholds", Erase
  PROVE  Base' /\ FilterInv'
<1>0. /\ ~Both /\ phase = "running"
      /\ UNCHANGED <<op, orig, lhs, rhs, l, r, o, result>> /\ phase' = "done"
  BY DEF Erase, Done, Unary
<1>1. l > Len(orig) \/ r > Len(rhs)
  BY <1>0, ListFacts DEF Base, Both
<1>2. Base'
  BY <1>0 DEF Base, Ascending
<1>3. Unique(rhs') => Filtered' /\ UnreadOffsets' /\ Below'
  <2>1. Unique(rhs') => Filtered /\ UnreadOffsets /\ Below
    BY <1>0 DEF FilterInv
  <2>2. /\ Filtered' <=> Filtered
        /\ UnreadOffsets' <=> UnreadOffsets
        /\ Below' <=> Below
    BY <1>0 DEF Filtered, UnreadOffsets, Below, Matched, InThresholds
  <2> QED BY <2>1, <2>2
<1> QED BY <1>0, <1>1, <1>2, <1>3 DEF FilterInv

LEMMA FilterNext ==
  ASSUME Base, FilterInv, op = "thresholds", Next
  PROVE  Base' /\ FilterInv' /\ op' = op
<1>1. CASE Filter
  <2>1. op' = op /\ rhs' = rhs
    BY <1>1 DEF Filter
  <2> QED BY <1>1, <2>1, FilterBase, FilterRound DEF FilterInv
<1>2. CASE Erase
  <2>1. op' = op
    BY <1>2 DEF Erase, Done
  <2> QED BY <1>2, <2>1, FilterEnds
<1> QED BY <1>1, <1>2 DEF Next, Unary, Intersect, Subtract, SubtractRest, Join, Union,
           UnionRest, Behind, RemoveDuplicate, OrderBy, OrderByRest
-----------------------------------------------------------------------------
(* A round of RemoveDuplicates, MAX or MIN: the last element of the output *)
(* becomes v, the best of those with the offset of orig[l].                *)
Reduces(p, v) ==
  /\ UNCHANGED <<op, orig, rhs, r, result, phase>> /\ l' = l + 1 /\ o' = p + 1
  /\ p = o \/ (p = o - 1 /\ lhs[p].offset = v.offset)
  /\ lhs' \in Seq(Element) /\ Len(lhs') = Len(orig) /\ lhs'[p] = v
  /\ \A k \in 1..Len(orig) : k /= p => lhs'[k] = lhs[k]
  /\ v.offset = orig[l].offset /\ Best(v, l)
  /\ \A k \in 1 .. p - 1 : lhs[k].offset < v.offset

LEMMA ReducesKeeps ==
  ASSUME Base, UnaryInv, op \in Unary, phase = "running", l <= Len(orig),
         NEW p, NEW v, Reduces(p, v)
  PROVE  Base' /\ UnaryInv'
<1> DEFINE n == Len(orig)
<1>0. /\ UNCHANGED <<op, orig, rhs, r, result, phase>>
      /\ lhs' \in Seq(Element) /\ Len(lhs') = n /\ lhs'[p] = v
      /\ \A k \in 1..n : k /= p => lhs'[k] = lhs[k]
      /\ v.offset = orig[l].offset /\ Best(v, l)
      /\ \A k \in 1 .. p - 1 : lhs[k].offset < v.offset
      /\ Unread /\ Strict /\ Covered /\ \A k \in 1 .. o - 1 : Best(lhs[k], l - 1)
  BY DEF Reduces, UnaryInv
<1>1. /\ n \in Nat /\ l \in Nat /\ 1 <= l /\ l <= n /\ o \in Nat /\ 1 < o /\ o <= l
      /\ l' = l + 1 /\ o' = p + 1 /\ (p = o \/ p = o - 1)
  BY ListFacts DEF Reduces, UnaryInv, Base
<1>2. p = o - 1 => lhs[p].offset = v.offset
  BY <1>1 DEF Reduces
<1> HIDE DEF n
<1>3. /\ p \in Nat /\ p \in 1..n /\ l' - 1 = l /\ o' - 1 = p /\ p <= l /\ 1 <= p
      /\ \A k \in 1..p : k = p \/ k \in 1 .. p - 1
      /\ \A k \in 1 .. p - 1 : k \in 1 .. o - 1 /\ k \in 1..n /\ k /= p
      /\ \A i \in 1..l : i = l \/ i \in 1 .. l - 1
      /\ \A i \in 1 .. l - 1 : i \in 1..l
      /\ l \in 1..l /\ p \in 1..p /\ \A k \in 1 .. p - 1 : k \in 1..p
      /\ \A k \in 1 .. o - 1 : k \in 1 .. p - 1 \/ (k = p /\ p = o - 1)
  BY <1>1
<1>4. \A k \in 1 .. p - 1 : lhs'[k] = lhs[k]
  BY <1>0, <1>3
<1>5. Unread'
  <2>1. \A i \in l'..n : i \in l..n /\ i \in 1..n /\ i /= p
    BY <1>1, <1>3
  <2> QED BY <1>0, <2>1 DEF Unread, n
<1>6. Strict'
  <2>1. ASSUME NEW k \in 1..p, NEW j \in 1..p, k < j PROVE lhs'[k].offset < lhs'[j].offset
    <3>1. k \in 1 .. p - 1
      BY <1>3, <2>1
    <3>2. CASE j = p
      BY <1>0, <1>4, <3>1, <3>2
    <3>3. CASE j \in 1 .. p - 1
      BY <1>0, <1>3, <1>4, <2>1, <3>1, <3>3 DEF Strict
    <3> QED BY <1>3, <3>2, <3>3
  <2> QED BY <1>3, <2>1 DEF Strict
<1>7. Covered'
  <2>1. ASSUME NEW i \in 1..l PROVE \E k \in 1..p : lhs'[k].offset = orig[i].offset
    <3>1. CASE i = l
      BY <1>0, <1>3, <3>1
    <3>2. CASE i \in 1 .. l - 1
      <4>1. PICK k \in 1 .. o - 1 : lhs[k].offset = orig[i].offset
        BY <1>0, <3>2 DEF Covered
      <4>2. CASE k \in 1 .. p - 1
        BY <1>3, <1>4, <4>1, <4>2
      <4>3. CASE k = p /\ p = o - 1
        BY <1>0, <1>2, <1>3, <4>1, <4>3
      <4> QED BY <1>3, <4>2, <4>3
    <3> QED BY <1>3, <3>1, <3>2
  <2> QED BY <1>0, <1>3, <2>1 DEF Covered
<1>8. ASSUME NEW k \in 1..p PROVE Best(lhs'[k], l)
  <2>1. CASE k = p
    BY <1>0, <2>1
  <2>2. CASE k \in 1 .. p - 1
    <3>1. Best(lhs[k], l - 1) /\ lhs'[k] = lhs[k] /\ lhs[k].offset < v.offset
      BY <1>0, <1>3, <1>4, <2>2
    <3>2. orig[l].offset /= lhs[k].offset
      <4>1. lhs[k].offset \in Int /\ orig[l].offset \in Int
        <5>1. k \in 1..n /\ l \in 1..n
          BY <1>1, <1>3, <2>2
        <5> QED BY <5>1, ListFacts DEF Base, n
      <4> QED BY <1>0, <3>1, <4>1
    <3> QED BY <1>3, <3>1, <3>2 DEF Best
  <2> QED BY <1>3, <2>1, <2>2
<1>9. \A k \in 1 .. o' - 1 : Best(lhs[k], l - 1)'
  <2>1. \A k \in 1..p :
          /\ \E i \in 1..l : lhs'[k] = orig'[i]
          /\ \A i \in 1..l : orig'[i].offset = lhs'[k].offset =>
                ~(IF op' = "max" THEN orig'[i].score > lhs'[k].score
                  ELSE orig'[i].score < lhs'[k].score)
    BY <1>0, <1>8 DEF Best, Prefers
  <2> QED BY <1>3, <2>1 DEF Best, Prefers
<1>10. Base'
  <2>1. l' \in 1 .. n + 1 /\ o' \in Nat /\ o' >= 1
    BY <1>1, <1>3
  <2> QED BY <1>0, <2>1 DEF Base, Ascending, n
<1>11. /\ op' \in Unary /\ phase' = "running" /\ o' <= l' /\ Len(orig') > 0 /\ o' > 1
       /\ lhs'[o' - 1].offset = orig'[l' - 1].offset /\ Len(orig') \in Nat
  BY <1>0, <1>1, <1>3 DEF n
<1> QED BY <1>5, <1>6, <1>7, <1>9, <1>10, <1>11 DEF UnaryInv

(* The rounds of RemoveDuplicates, MAX and MIN are such.                   *)
LEMMA DuplicateRound ==
  ASSUME Base, UnaryInv, RemoveDuplicate
  PROVE  \E p, v : Reduces(p, v)
<1> DEFINE n == Len(orig)
<1>0. /\ op \in Unary /\ phase = "running" /\ UNCHANGED <<op, orig, rhs, r, result, phase>>
      /\ Unread /\ Strict /\ Covered /\ \A k \in 1 .. o - 1 : Best(lhs[k], l - 1)
  BY DEF RemoveDuplicate, UnaryInv
<1>1. /\ n \in Nat /\ l \in Nat /\ 1 <= l /\ l <= n /\ o \in Nat /\ 1 < o /\ o <= l
      /\ Len(lhs) = n /\ lhs \in Seq(Element) /\ lhs[o - 1].offset = orig[l - 1].offset
  BY ListFacts DEF RemoveDuplicate, UnaryInv, Base
<1> DEFINE q == o - 1
<1>2. /\ q \in 1..n /\ q \in Nat /\ l \in 1..n /\ o \in 1..n /\ l - 1 \in 1..n /\ l - 1 <= l
      /\ q \in 1 .. o - 1 /\ l \in l..n /\ q + 1 = o /\ l \in 1..l
      /\ \A i \in 1..l : i = l \/ i \in 1 .. l - 1
      /\ \A i \in 1..l : i \in 1..n
      /\ \A k \in 1 .. o - 1 : k \in 1..n /\ (k = q \/ (k \in 1 .. q - 1 /\ k < q))
      /\ \A k \in 1 .. q - 1 : k \in 1 .. o - 1 /\ k < q
      /\ \A i \in 1 .. l - 1 : i \in 1..l
  <2>1. n \in Nat /\ l \in Nat /\ 1 <= l /\ l <= n /\ o \in Nat /\ 1 < o /\ o <= l
    BY <1>1
  <2> HIDE DEF n
  <2> QED BY <2>1
<1>3. /\ lhs[l] = orig[l] /\ lhs[q] \in Element /\ lhs[q].offset = orig[l - 1].offset
      /\ lhs[q].offset \in Int /\ orig[l].offset \in Int /\ lhs[q].offset <= orig[l].offset
      /\ lhs[l] \in Element /\ lhs[q].score \in Int /\ orig[l].score \in Int
      /\ \A i \in 1..n : orig[i].offset \in Int /\ orig[i].score \in Int
      /\ \A k \in 1..n : lhs[k].offset \in Int
  <2>1. \A i \in 1..n : /\ orig[i].offset \in Int /\ orig[i].score \in Int
                        /\ lhs[i] \in Element /\ lhs[i].offset \in Int /\ lhs[i].score \in Int
    BY <1>1, ListFacts DEF Base
  <2>2. orig[l - 1].offset <= orig[l].offset
    BY <1>2, AscendingFacts DEF Base
  <2> QED BY <1>0, <1>1, <1>2, <2>1, <2>2 DEF Unread
<1> HIDE DEF n, q
<1>4. Best(lhs[q], l - 1)
  BY <1>0, <1>2
<1>5. CASE lhs[l].offset /= lhs[q].offset
  <2>1. Copy(1)
    BY <1>5 DEF RemoveDuplicate, q
  <2>2. /\ l' = l + 1 /\ o' = o + 1 /\ lhs' \in Seq(Element) /\ Len(lhs') = n
        /\ lhs'[o] = lhs[l] /\ \A k \in 1..n : k /= o => lhs'[k] = lhs[k]
    <3>1. /\ lhs' = [i \in 1..n |-> IF i \in o .. o + 1 - 1 THEN lhs[l + i - o] ELSE lhs[i]]
          /\ l' = l + 1 /\ o' = o + 1
      BY <1>1, <2>1 DEF Copy
    <3>2. l + o - o = l /\ \A i \in 1..n : i \in o .. o + 1 - 1 <=> i = o
      BY <1>1, <1>2
    <3>3. lhs'[o] = lhs[l] /\ \A k \in 1..n : k /= o => lhs'[k] = lhs[k]
      BY <1>2, <3>1, <3>2
    <3>4. \A k \in 1..n : lhs'[k] \in Element
      BY <1>1, <1>3, <3>3 DEF n
    <3>5. lhs' \in [1..n -> Element]
      BY <3>1, <3>4
    <3> QED BY <1>1, <3>1, <3>3, <3>5
  <2>3. \A k \in 1 .. o - 1 : lhs[k].offset < orig[l].offset
    <3>1. ASSUME NEW k \in 1 .. o - 1 PROVE lhs[k].offset <= lhs[q].offset
      <4>1. CASE k = q
        BY <1>3, <4>1
      <4>2. CASE k < q
        <5>1. lhs[k].offset < lhs[q].offset
          BY <1>0, <1>2, <4>2 DEF Strict
        <5> QED BY <1>2, <1>3, <5>1
      <4> QED BY <1>2, <4>1, <4>2
    <3>2. lhs[q].offset < orig[l].offset
      BY <1>3, <1>5
    <3> QED BY <1>2, <1>3, <3>1, <3>2
  <2>4. Best(lhs[l], l)
    <3>1. ASSUME NEW i \in 1 .. l - 1 PROVE orig[i].offset /= orig[l].offset
      <4>1. PICK k \in 1 .. o - 1 : lhs[k].offset = orig[i].offset
        BY <1>0 DEF Covered
      <4> QED BY <1>2, <1>3, <2>3, <4>1
    <3>2. ~Prefers(orig[l].score, orig[l].score)
      BY <1>3 DEF Prefers
    <3> QED BY <1>2, <1>3, <3>1, <3>2 DEF Best
  <2>5. Reduces(o, lhs[l])
    BY <1>0, <1>3, <2>2, <2>3, <2>4 DEF Reduces, n
  <2> QED BY <2>5
<1>6. CASE lhs[l].offset = lhs[q].offset
  <2>1. /\ lhs' = IF Prefers(lhs[l].score, lhs[q].score)
                  THEN [lhs EXCEPT ![q].score = lhs[l].score] ELSE lhs
        /\ l' = l + 1 /\ o' = o
    BY <1>6 DEF RemoveDuplicate, q
  <2>2. \A k \in 1 .. q - 1 : lhs[k].offset < lhs[q].offset
    BY <1>0, <1>2 DEF Strict
  <2>3. CASE Prefers(lhs[l].score, lhs[q].score)
    <3>1. /\ lhs' = [lhs EXCEPT ![q] = [lhs[q] EXCEPT !.score = lhs[l].score]]
      BY <2>1, <2>3
    <3>2. [lhs[q] EXCEPT !.score = lhs[l].score] = lhs[l]
      BY <1>3, <1>6 DEF Element
    <3>3. /\ lhs' \in Seq(Element) /\ Len(lhs') = n /\ lhs'[q] = lhs[l]
          /\ \A k \in 1..n : k /= q => lhs'[k] = lhs[k]
      BY <1>1, <1>2, <1>3, <3>1, <3>2
    <3>4. Best(lhs[l], l)
      <4>1. ASSUME NEW i \in 1 .. l - 1, orig[i].offset = orig[l].offset
            PROVE  ~Prefers(orig[i].score, orig[l].score)
        <5>1. ~Prefers(orig[i].score, lhs[q].score)
          BY <1>3, <1>4, <1>6, <4>1 DEF Best
        <5>2. orig[i].score \in Int
          BY <1>2, <1>3
        <5> QED BY <1>3, <2>3, <5>1, <5>2 DEF Prefers
      <4>2. ~Prefers(orig[l].score, orig[l].score)
        BY <1>3 DEF Prefers
      <4> QED BY <1>2, <1>3, <4>1, <4>2 DEF Best
    <3>5. Reduces(q, lhs[l])
      BY <1>0, <1>2, <1>3, <1>6, <2>1, <2>2, <3>3, <3>4 DEF Reduces, n, q
    <3> QED BY <3>5
  <2>4. CASE ~Prefers(lhs[l].score, lhs[q].score)
    <3>1. Best(lhs[q], l)
      BY <1>2, <1>3, <1>4, <2>4 DEF Best
    <3>2. Reduces(q, lhs[q])
      BY <1>0, <1>1, <1>2, <1>3, <1>6, <2>1, <2>2, <2>4, <3>1 DEF Reduces, n, q
    <3> QED BY <3>2
  <2> QED BY <2>3, <2>4
<1> QED BY <1>5, <1>6
LEMMA UnaryEnds ==
  ASSUME Base, UnaryInv, op \in Unary, Erase
  PROVE  Base' /\ UnaryInv'
<1>0. /\ phase = "running" /\ l > Len(lhs)
      /\ UNCHANGED <<op, orig, lhs, rhs, l, r, o, result>> /\ phase' = "done"
  BY DEF Erase, Done, Unary
<1>1. l = Len(orig) + 1
  BY <1>0, ListFacts DEF Base
<1>2. Base'
  BY <1>0 DEF Base, Ascending
<1>3. /\ Unread' <=> Unread
      /\ Strict' <=> Strict
      /\ Covered' <=> Covered
  BY <1>0 DEF Unread, Strict, Covered
<1>4. \A k \in 1 .. o - 1 : Best(lhs[k], l - 1)' <=> Best(lhs[k], l - 1)
  BY <1>0 DEF Best, Prefers
<1> QED BY <1>0, <1>1, <1>2, <1>3, <1>4 DEF UnaryInv

LEMMA UnaryNext ==
  ASSUME Base, UnaryInv, op \in Unary, Next
  PROVE  Base' /\ UnaryInv' /\ op' = op
<1>1. CASE RemoveDuplicate
  <2>1. phase = "running" /\ l <= Len(orig) /\ op' = op
    BY <1>1 DEF RemoveDuplicate, Base
  <2> QED BY <1>1, <2>1, DuplicateRound, ReducesKeeps
<1>2. CASE Erase
  <2>1. op' = op
    BY <1>2 DEF Erase, Done
  <2> QED BY <1>2, <2>1, UnaryEnds
<1> QED BY <1>1, <1>2 DEF Next, Unary, Intersect, Subtract, SubtractRest, Join, Union,
           UnionRest, Behind, Filter, OrderBy, OrderByRest
-----------------------------------------------------------------------------
(* An element with no smaller an offset is appended.                       *)
LEMMA AppendUp ==
  ASSUME NEW s \in Seq(Element), Ascending(s), NEW v \in Element,
         \A k \in 1..Len(s) : s[k].offset <= v.offset
  PROVE  /\ Append(s, v) \in Seq(Element) /\ Ascending(Append(s, v))
         /\ Offsets(Append(s, v)) = Offsets(s) \cup {v.offset}
<1> DEFINE t == Append(s, v)
           n == Len(s)
<1>1. /\ t \in Seq(Element) /\ Len(t) = n + 1 /\ n \in Nat /\ t[n + 1] = v
      /\ \A k \in 1..n : t[k] = s[k]
  OBVIOUS
<1>2. v.offset \in Int
  BY DEF Element
<1> HIDE DEF t, n
<1>3. /\ \A k \in 1 .. n + 1 : k = n + 1 \/ k \in 1..n
      /\ \A k \in 1..n : k \in 1 .. n + 1
      /\ n + 1 \in 1 .. n + 1 /\ ~(n + 1 <= n)
  BY <1>1
<1>4. ASSUME NEW i \in 1 .. n + 1, NEW j \in 1 .. n + 1, i <= j PROVE t[i].offset <= t[j].offset
  <2>1. CASE j = n + 1 /\ i = n + 1
    BY <1>1, <1>2, <2>1
  <2>2. CASE j = n + 1 /\ i \in 1..n
    BY <1>1, <2>2 DEF n
  <2>3. CASE j \in 1..n
    <3>1. i \in 1..n
      BY <1>1, <1>4, <2>3
    <3> QED BY <1>1, <1>4, <2>3, <3>1 DEF Ascending, n
  <2> QED BY <1>3, <2>1, <2>2, <2>3
<1>5. Ascending(t)
  BY <1>1, <1>4 DEF Ascending
<1>6. Offsets(t) = Offsets(s) \cup {v.offset}
  <2>1. Offsets(t) = {t[i].offset : i \in 1 .. n + 1} /\ Offsets(s) = {s[i].offset : i \in 1..n}
    BY <1>1 DEF Offsets, n
  <2> QED BY <1>1, <1>3, <2>1
<1> QED BY <1>1, <1>5, <1>6 DEF t

(* A list with no smaller offsets is put behind.                           *)
LEMMA ConcatUp ==
  ASSUME NEW s \in Seq(Element), Ascending(s), NEW t \in Seq(Element), Ascending(t),
         \A k \in 1..Len(s), i \in 1..Len(t) : s[k].offset <= t[i].offset
  PROVE  /\ s \o t \in Seq(Element) /\ Ascending(s \o t)
         /\ Offsets(s \o t) = Offsets(s) \cup Offsets(t)
<1> DEFINE c == s \o t
           n == Len(s)
           m == Len(t)
<1>1. /\ c \in Seq(Element) /\ Len(c) = n + m /\ n \in Nat /\ m \in Nat
      /\ \A k \in 1..n : c[k] = s[k]
      /\ \A k \in n + 1 .. n + m : c[k] = t[k - n]
  OBVIOUS
<1> HIDE DEF c, n, m
<1>2. n \in Nat /\ m \in Nat
  BY <1>1
<1>3. /\ \A k \in 1 .. n + m : k \in 1..n \/ k \in n + 1 .. n + m
      /\ \A k \in n + 1 .. n + m : k - n \in 1..m /\ k \in 1 .. n + m
      /\ \A k \in 1..n : k \in 1 .. n + m
      /\ \A k \in 1..m : k + n \in n + 1 .. n + m /\ (k + n) - n = k
  BY <1>2
<1>4. ASSUME NEW i \in 1 .. n + m, NEW j \in 1 .. n + m, i <= j PROVE c[i].offset <= c[j].offset
  <2>1. CASE j \in 1..n
    <3>1. i \in 1..n
      BY <1>2, <1>4, <2>1
    <3> QED BY <1>1, <1>4, <2>1, <3>1 DEF Ascending, n
  <2>2. CASE i \in 1..n /\ j \in n + 1 .. n + m
    BY <1>1, <1>3, <2>2 DEF n, m
  <2>3. CASE i \in n + 1 .. n + m /\ j \in n + 1 .. n + m
    <3>1. i - n <= j - n
      BY <1>2, <1>4, <2>3
    <3> QED BY <1>1, <1>3, <2>3, <3>1 DEF Ascending, m
  <2> QED BY <1>3, <2>1, <2>2, <2>3
<1>5. Ascending(c)
  BY <1>1, <1>4 DEF Ascending
<1>6. Offsets(c) = Offsets(s) \cup Offsets(t)
  <2>1. /\ Offsets(c) = {c[i].offset : i \in 1 .. n + m}
        /\ Offsets(s) = {s[i].offset : i \in 1..n}
        /\ Offsets(t) = {t[i].offset : i \in 1..m}
    BY <1>1 DEF Offsets, n, m
  <2>2. ASSUME NEW i \in 1 .. n + m PROVE c[i].offset \in Offsets(s) \cup Offsets(t)
    <3>1. CASE i \in 1..n
      BY <1>1, <2>1, <3>1
    <3>2. CASE i \in n + 1 .. n + m
      <4>1. c[i] = t[i - n] /\ i - n \in 1..m
        BY <1>1, <1>3, <3>2
      <4> QED BY <2>1, <4>1
    <3> QED BY <1>3, <3>1, <3>2
  <2>3. ASSUME NEW i \in 1..n PROVE s[i].offset \in Offsets(c)
    BY <1>1, <1>3, <2>1
  <2>4. ASSUME NEW i \in 1..m PROVE t[i].offset \in Offsets(c)
    <3>1. c[i + n] = t[i] /\ i + n \in 1 .. n + m
      BY <1>1, <1>3
    <3> QED BY <2>1, <3>1
  <2> QED BY <2>1, <2>2, <2>3, <2>4
<1> QED BY <1>1, <1>5, <1>6 DEF c

(* The elements of a list from a on.                                       *)
LEMMA RestOf ==
  ASSUME NEW s \in Seq(Element), Ascending(s), NEW a \in 1 .. Len(s) + 1
  PROVE  /\ SubSeq(s, a, Len(s)) \in Seq(Element) /\ Ascending(SubSeq(s, a, Len(s)))
         /\ \A i \in 1..Len(SubSeq(s, a, Len(s))) :
              a + i - 1 \in a..Len(s) /\ SubSeq(s, a, Len(s))[i] = s[a + i - 1]
         /\ Upto(s, a - 1) \cup Offsets(SubSeq(s, a, Len(s))) = Offsets(s)
         /\ a > Len(s) => Len(SubSeq(s, a, Len(s))) = 0
<1> DEFINE t == SubSeq(s, a, Len(s))
           n == Len(s)
           m == n + 1 - a
<1>1. /\ t \in Seq(Element) /\ Len(t) = m /\ n \in Nat
      /\ \A i \in 1..m : t[i] = s[a + i - 1]
  OBVIOUS
<1>2. a \in Nat /\ 1 <= a /\ a <= n + 1 /\ n \in Nat /\ m = n + 1 - a /\ m \in Nat
  OBVIOUS
<1> HIDE DEF t, n, m
<1>3. /\ \A i \in 1..m : a + i - 1 \in a..n /\ a + i - 1 \in 1..n
      /\ \A i \in 1..n : i \in 1 .. a - 1 \/ i \in a..n
      /\ \A i \in 1 .. a - 1 : i \in 1..n
      /\ \A i \in a..n : i + 1 - a \in 1..m /\ a + (i + 1 - a) - 1 = i
  BY <1>2
<1>4. Ascending(t)
  <2>1. ASSUME NEW i \in 1..m, NEW j \in 1..m, i <= j PROVE t[i].offset <= t[j].offset
    <3>1. a + i - 1 <= a + j - 1
      BY <1>2, <2>1
    <3> QED BY <1>1, <1>3, <3>1 DEF Ascending, n
  <2> QED BY <1>1, <2>1 DEF Ascending
<1>5. Upto(s, a - 1) \cup Offsets(t) = Offsets(s)
  <2>1. /\ Offsets(t) = {t[i].offset : i \in 1..m} /\ Offsets(s) = {s[i].offset : i \in 1..n}
        /\ Upto(s, a - 1) = {s[i].offset : i \in 1 .. a - 1}
    BY <1>1 DEF Offsets, n, Upto
  <2>2. ASSUME NEW i \in 1..m PROVE t[i].offset \in Offsets(s)
    BY <1>1, <1>3, <2>1
  <2>3. ASSUME NEW i \in a..n PROVE s[i].offset \in Offsets(t)
    <3>1. t[i + 1 - a] = s[i] /\ i + 1 - a \in 1..m
      BY <1>1, <1>3
    <3> QED BY <2>1, <3>1
  <2>4. Upto(s, a - 1) \subseteq Offsets(s) /\ Offsets(t) \subseteq Offsets(s)
    <3>1. Upto(s, a - 1) \subseteq Offsets(s)
      <4>1. \A i \in 1 .. a - 1 : i \in 1..n
        BY <1>3
      <4> QED BY <2>1, <4>1
    <3>2. Offsets(t) \subseteq Offsets(s)
      BY <2>1, <2>2
    <3> QED BY <3>1, <3>2
  <2>5. ASSUME NEW i \in 1..n PROVE s[i].offset \in Upto(s, a - 1) \cup Offsets(t)
    BY <1>3, <2>1, <2>3
  <2>6. Offsets(s) \subseteq Upto(s, a - 1) \cup Offsets(t)
    BY <2>1, <2>5
  <2> QED BY <2>4, <2>6
<1>6. a > n => m = 0
  BY <1>2
<1> QED BY <1>1, <1>3, <1>4, <1>5, <1>6 DEF t, n
LEMMA UnionRound ==
  ASSUME Base, UnionInv, Union
  PROVE  Base' /\ UnionInv' /\ op' = op
<1>0. /\ op = "union" /\ Both /\ phase = "running" /\ lhs = orig /\ o = 1
      /\ Ascending(result) /\ NoneBelow
      /\ Offsets(result) = Upto(orig, l - 1) \cup Upto(rhs, r - 1)
      /\ UNCHANGED <<op, orig, lhs, rhs, o, phase>> /\ Unread /\ result \in Seq(Element)
  BY DEF Union, UnionInv, Both, Unread, Base
<1>1. /\ l \in 1..Len(orig) /\ r \in 1..Len(rhs)
      /\ orig[l].offset \in Int /\ rhs[r].offset \in Int
      /\ \A i \in l..Len(orig) : orig[l].offset <= orig[i].offset /\ orig[i].offset \in Int
      /\ \A j \in r..Len(rhs) : rhs[r].offset <= rhs[j].offset /\ rhs[j].offset \in Int
  BY <1>0, NextElements
<1>2. /\ Len(orig) \in Nat /\ Len(rhs) \in Nat /\ l \in Nat /\ r \in Nat
      /\ orig[l] \in Element /\ rhs[r] \in Element /\ l \in l..Len(orig) /\ r \in r..Len(rhs)
  BY <1>1, ListFacts DEF Base
<1>3. PICK v \in Element :
        /\ result' = Append(result, v)
        /\ \/ v = orig[l] /\ l' = l + 1 /\ r' = r /\ orig[l].offset < rhs[r].offset
           \/ v = rhs[r] /\ l' = l /\ r' = r + 1 /\ orig[l].offset > rhs[r].offset
           \/ v = rhs[r] /\ l' = l + 1 /\ r' = r + 1 /\ orig[l].offset = rhs[r].offset
  <2>1. CASE orig[l].offset < rhs[r].offset
    BY <1>0, <1>2, <2>1 DEF Union
  <2>2. CASE ~(orig[l].offset < rhs[r].offset)
    <3>1. /\ result' = Append(result, rhs[r]) /\ r' = r + 1
          /\ l' = IF orig[l].offset = rhs[r].offset THEN l + 1 ELSE l
      BY <1>0, <2>2 DEF Union
    <3> QED BY <1>1, <1>2, <2>2, <3>1
  <2> QED BY <2>1, <2>2
<1>4. /\ v.offset \in Int /\ v.offset <= orig[l].offset /\ v.offset <= rhs[r].offset
      /\ (v.offset = orig[l].offset \/ v.offset = rhs[r].offset)
  BY <1>1, <1>3
<1>5. \A k \in 1..Len(result) : result[k].offset <= v.offset
  BY <1>0, <1>2, <1>3 DEF NoneBelow
<1>6. /\ result' \in Seq(Element) /\ Ascending(result')
      /\ Offsets(result') = Offsets(result) \cup {v.offset}
  BY <1>0, <1>3, <1>5, AppendUp
<1>7. /\ l' \in 1 .. Len(orig) + 1 /\ r' \in 1 .. Len(rhs) + 1
      /\ \A i \in l'..Len(orig) : i \in l..Len(orig)
      /\ \A j \in r'..Len(rhs) : j \in r..Len(rhs)
  <2>1. l' = l \/ l' = l + 1
    BY <1>3
  <2>2. r' = r \/ r' = r + 1
    BY <1>3
  <2> QED BY <1>1, <1>2, <2>1, <2>2
<1>8. Base'
  BY <1>0, <1>6, <1>7 DEF Base, Ascending
<1>9. NoneBelow'
  <2>1. \A k \in 1..Len(result') : result'[k] = v \/ \E h \in 1..Len(result) : result'[k] = result[h]
    BY <1>0, <1>3
  <2>2. ASSUME NEW w, w = v \/ \E h \in 1..Len(result) : w = result[h]
        PROVE  /\ \A i \in l'..Len(orig) : w.offset <= orig[i].offset
               /\ \A j \in r'..Len(rhs) : w.offset <= rhs[j].offset
    <3>1. CASE w = v
      <4>1. /\ \A i \in l..Len(orig) : orig[l].offset <= orig[i].offset /\ orig[i].offset \in Int
            /\ \A j \in r..Len(rhs) : rhs[r].offset <= rhs[j].offset /\ rhs[j].offset \in Int
            /\ orig[l].offset \in Int /\ rhs[r].offset \in Int
        BY <1>1
      <4>2. ASSUME NEW i \in l'..Len(orig) PROVE w.offset <= orig[i].offset
        <5>1. i \in l..Len(orig)
          BY <1>7
        <5> QED BY <1>4, <3>1, <4>1, <5>1
      <4>3. ASSUME NEW j \in r'..Len(rhs) PROVE w.offset <= rhs[j].offset
        <5>1. j \in r..Len(rhs)
          BY <1>7
        <5> QED BY <1>4, <3>1, <4>1, <5>1
      <4> QED BY <4>2, <4>3
    <3>2. CASE \E h \in 1..Len(result) : w = result[h]
      BY <1>0, <1>7, <3>2 DEF NoneBelow
    <3> QED BY <2>2, <3>1, <3>2
  <2> QED BY <1>0, <2>1, <2>2 DEF NoneBelow
<1>10. Offsets(result') = Upto(orig', l' - 1) \cup Upto(rhs', r' - 1)
  <2>1. /\ l' = l + 1 => Upto(orig, l' - 1) = Upto(orig, l - 1) \cup {orig[l].offset}
        /\ l' = l => Upto(orig, l' - 1) = Upto(orig, l - 1)
    <3>1. \A i \in 1 .. l + 1 - 1 : i = l \/ i \in 1 .. l - 1
      BY <1>2
    <3>2. l \in 1 .. l + 1 - 1 /\ \A i \in 1 .. l - 1 : i \in 1 .. l + 1 - 1
      BY <1>1, <1>2
    <3> QED BY <3>1, <3>2 DEF Upto
  <2>2. /\ r' = r + 1 => Upto(rhs, r' - 1) = Upto(rhs, r - 1) \cup {rhs[r].offset}
        /\ r' = r => Upto(rhs, r' - 1) = Upto(rhs, r - 1)
    <3>1. \A i \in 1 .. r + 1 - 1 : i = r \/ i \in 1 .. r - 1
      BY <1>2
    <3>2. r \in 1 .. r + 1 - 1 /\ \A i \in 1 .. r - 1 : i \in 1 .. r + 1 - 1
      BY <1>1, <1>2
    <3> QED BY <3>1, <3>2 DEF Upto
  <2>3. orig' = orig /\ rhs' = rhs
    BY <1>0
  <2> HIDE DEF Upto
  <2> QED BY <1>0, <1>3, <1>6, <2>1, <2>2, <2>3
<1> QED BY <1>0, <1>6, <1>8, <1>9, <1>10 DEF UnionInv

LEMMA UnionEnds ==
  ASSUME Base, UnionInv, UnionRest
  PROVE  Base' /\ UnionInv' /\ op' = op
<1>0. /\ op = "union" /\ ~Both /\ phase = "running" /\ lhs = orig /\ o = 1
      /\ Ascending(result) /\ NoneBelow /\ Len(orig) = Len(lhs)
      /\ Offsets(result) = Upto(orig, l - 1) \cup Upto(rhs, r - 1)
      /\ UNCHANGED <<op, orig, lhs, rhs, l, r, o>> /\ phase' = "done"
  BY DEF UnionRest, Behind, UnionInv, Base
<1> DEFINE a == SubSeq(orig, l, Len(orig))
           b == SubSeq(rhs, r, Len(rhs))
<1>1. result' = (result \o a) \o b
  BY <1>0 DEF UnionRest
<1>2. /\ a \in Seq(Element) /\ Ascending(a)
      /\ \A i \in 1..Len(a) : l + i - 1 \in l..Len(orig) /\ a[i] = orig[l + i - 1]
      /\ Upto(orig, l - 1) \cup Offsets(a) = Offsets(orig)
      /\ l > Len(orig) => Len(a) = 0
  <2>1. orig \in Seq(Element) /\ Ascending(orig) /\ l \in 1 .. Len(orig) + 1
    BY DEF Base
  <2> HIDE DEF a
  <2> QED BY <2>1, RestOf DEF a
<1>3. /\ b \in Seq(Element) /\ Ascending(b)
      /\ \A i \in 1..Len(b) : r + i - 1 \in r..Len(rhs) /\ b[i] = rhs[r + i - 1]
      /\ Upto(rhs, r - 1) \cup Offsets(b) = Offsets(rhs)
      /\ r > Len(rhs) => Len(b) = 0
  <2>1. rhs \in Seq(Element) /\ Ascending(rhs) /\ r \in 1 .. Len(rhs) + 1
    BY DEF Base
  <2> HIDE DEF b
  <2> QED BY <2>1, RestOf DEF b
<1>4. Len(a) = 0 \/ Len(b) = 0
  <2>1. l > Len(orig) \/ r > Len(rhs)
    BY <1>0, ListFacts DEF Base, Both
  <2> QED BY <1>2, <1>3, <2>1
<1> HIDE DEF a, b
<1>5. result \in Seq(Element)
  BY DEF Base
<1>6. \A k \in 1..Len(result), i \in 1..Len(a) : result[k].offset <= a[i].offset
  BY <1>0, <1>2 DEF NoneBelow
<1> DEFINE c == result \o a
<1>7. /\ c \in Seq(Element) /\ Ascending(c) /\ Offsets(c) = Offsets(result) \cup Offsets(a)
  BY <1>0, <1>2, <1>5, <1>6, ConcatUp
<1>8. \A k \in 1..Len(c), i \in 1..Len(b) : c[k].offset <= b[i].offset
  <2> SUFFICES ASSUME NEW k \in 1..Len(c), NEW i \in 1..Len(b) PROVE c[k].offset <= b[i].offset
    OBVIOUS
  <2>1. Len(a) = 0
    BY <1>3, <1>4
  <2>2. k \in 1..Len(result) /\ c[k] = result[k]
    BY <1>2, <1>5, <2>1
  <2>3. result[k].offset <= b[i].offset
    BY <1>0, <1>3, <2>2 DEF NoneBelow
  <2> QED BY <2>2, <2>3
<1> HIDE DEF c
<1>9. /\ result' \in Seq(Element) /\ Ascending(result')
      /\ Offsets(result') = Offsets(c) \cup Offsets(b)
  <2>1. result' = c \o b
    BY <1>1 DEF c
  <2> QED BY <1>3, <1>7, <1>8, <2>1, ConcatUp
<1>10. Offsets(result') = Offsets(orig) \cup Offsets(rhs)
  BY <1>0, <1>2, <1>3, <1>7, <1>9
<1>11. Base'
  BY <1>0, <1>9 DEF Base, Ascending
<1> QED BY <1>0, <1>9, <1>10, <1>11 DEF UnionInv

LEMMA UnionNext ==
  ASSUME Base, UnionInv, op = "union", Next
  PROVE  Base' /\ UnionInv' /\ op' = op
<1>1. Union \/ UnionRest
  BY DEF Next, Unary, Intersect, Subtract, SubtractRest, Join, Behind, RemoveDuplicate,
         Filter, OrderBy, OrderByRest, Erase
<1> QED BY <1>1, UnionRound, UnionEnds
-----------------------------------------------------------------------------
(* An element gets another score.                                          *)
LEMMA Rescored ==
  ASSUME NEW v \in Element, NEW x \in Int
  PROVE  /\ [v EXCEPT !.score = x] \in Element
         /\ [v EXCEPT !.score = x].offset = v.offset /\ [v EXCEPT !.score = x].score = x
BY DEF Element

(* What a step of ORDER BY does to the list: only scores change, those     *)
(* from l on and in front of l'.                                           *)
Rescores ==
  /\ UNCHANGED <<op, orig, rhs, result, o>>
  /\ l' \in 1 .. Len(orig) + 1 /\ l <= l' /\ r' \in 1 .. Len(rhs) + 1
  /\ phase' \in {"running", "done"} /\ (phase' = "done" => l' = Len(orig) + 1)
  /\ lhs' \in Seq(Element) /\ Len(lhs') = Len(orig)
  /\ \A i \in 1..Len(orig) :
       lhs'[i].offset = lhs[i].offset /\ (i \notin l .. l' - 1 => lhs'[i] = lhs[i])
  /\ Unique(orig) /\ Unique(rhs) => Passed' /\ \A i \in l .. l' - 1 : Scored(i)'

LEMMA RescoresKeeps ==
  ASSUME Base, OrderInv, op = "orderby", Rescores
  PROVE  Base' /\ OrderInv'
<1> DEFINE n == Len(orig)
<1>0. /\ UNCHANGED <<op, orig, rhs, result, o>> /\ o = 1 /\ Unread
      /\ \A i \in 1..n : lhs[i].offset = orig[i].offset
      /\ Unique(orig) /\ Unique(rhs) => \A i \in 1 .. l - 1 : Scored(i)
      /\ Unique(orig) /\ Unique(rhs) => Passed' /\ \A i \in l .. l' - 1 : Scored(i)'
      /\ phase' \in {"running", "done"} /\ (phase' = "done" => l' = n + 1)
      /\ lhs' \in Seq(Element) /\ Len(lhs') = n
      /\ \A i \in 1..n : lhs'[i].offset = lhs[i].offset /\ (i \notin l .. l' - 1 => lhs'[i] = lhs[i])
  BY DEF OrderInv, Rescores
<1>1. n \in Nat /\ l \in Nat /\ l' \in Nat /\ 1 <= l /\ l <= l' /\ l' <= n + 1
  <2>1. n \in Nat /\ l \in 1 .. n + 1
    BY ListFacts DEF Base
  <2>2. l' \in 1 .. n + 1 /\ l <= l'
    BY DEF Rescores
  <2> HIDE DEF n
  <2> QED BY <2>1, <2>2
<1> HIDE DEF n
<1>2. /\ \A i \in l'..n : i \in l..n /\ i \in 1..n /\ i \notin l .. l' - 1
      /\ \A i \in 1 .. l - 1 : i \in 1..n /\ i \notin l .. l' - 1
      /\ \A i \in 1 .. l' - 1 : i \in 1 .. l - 1 \/ i \in l .. l' - 1
  <2>1. ASSUME NEW a \in Nat, NEW b \in Nat, 1 <= a, a <= b, b <= n + 1, n \in Nat
        PROVE  /\ \A i \in b..n : i \in a..n /\ i \in 1..n /\ i \notin a .. b - 1
               /\ \A i \in 1 .. a - 1 : i \in 1..n /\ i \notin a .. b - 1
               /\ \A i \in 1 .. b - 1 : i \in 1 .. a - 1 \/ i \in a .. b - 1
    BY <2>1
  <2> QED BY <1>1, <2>1
<1>3. Unread'
  BY <1>0, <1>2 DEF Unread, n
<1>4. ASSUME NEW i \in 1 .. l - 1, Scored(i) PROVE Scored(i)'
  <2>1. lhs'[i] = lhs[i]
    BY <1>0, <1>2
  <2> QED BY <1>0, <1>4, <2>1 DEF Scored, Offsets
<1>5. Unique(orig') /\ Unique(rhs') => Passed' /\ \A i \in 1 .. l' - 1 : Scored(i)'
  <2>1. orig' = orig /\ rhs' = rhs
    BY <1>0
  <2> QED BY <1>0, <1>2, <1>4, <2>1
<1>6. Base'
  BY <1>0 DEF Base, Ascending, Rescores, n
<1> QED BY <1>0, <1>3, <1>5, <1>6 DEF OrderInv, n

(* Changing the score of lhs[l].                                           *)
LEMMA ScoreStep ==
  ASSUME Base, l \in 1..Len(orig), NEW x \in Int, lhs' = [lhs EXCEPT ![l].score = x], l' = l + 1
  PROVE  /\ lhs' \in Seq(Element) /\ Len(lhs') = Len(orig) /\ lhs'[l].score = x
         /\ l' \in 1 .. Len(orig) + 1 /\ l <= l' /\ \A i \in l .. l' - 1 : i = l
         /\ \A i \in 1..Len(orig) :
              lhs'[i].offset = lhs[i].offset /\ (i \notin l .. l' - 1 => lhs'[i] = lhs[i])
<1>1. lhs \in Seq(Element) /\ Len(lhs) = Len(orig) /\ Len(orig) \in Nat /\ lhs[l] \in Element
  BY ListFacts DEF Base
<1> DEFINE v == [lhs[l] EXCEPT !.score = x]
<1>2. v \in Element /\ v.offset = lhs[l].offset /\ v.score = x
  BY <1>1, Rescored
<1>3. lhs' = [lhs EXCEPT ![l] = v]
  OBVIOUS
<1> HIDE DEF v
<1>4. /\ lhs' \in Seq(Element) /\ Len(lhs') = Len(orig) /\ lhs'[l] = v
      /\ \A i \in 1..Len(orig) : i /= l => lhs'[i] = lhs[i]
  BY <1>1, <1>2, <1>3
<1>5. /\ l' \in 1 .. Len(orig) + 1 /\ l <= l' /\ l \in l .. l' - 1 /\ \A i \in l .. l' - 1 : i = l
  BY <1>1
<1> QED BY <1>2, <1>4, <1>5

LEMMA OrderByRound ==
  ASSUME Base, OrderInv, OrderBy
  PROVE  Rescores
<1>0. /\ op = "orderby" /\ Both /\ phase = "running" /\ Unread
      /\ (Unique(orig) /\ Unique(rhs) => Passed)
      /\ UNCHANGED <<op, orig, rhs, o, result, phase>>
  BY DEF OrderBy, OrderInv, Both
<1>1. /\ l \in 1..Len(orig) /\ r \in 1..Len(rhs) /\ lhs[l] = orig[l]
      /\ orig[l].offset \in Int /\ rhs[r].offset \in Int
      /\ \A i \in l..Len(orig) : orig[l].offset <= orig[i].offset /\ orig[i].offset \in Int
      /\ \A j \in r..Len(rhs) : rhs[r].offset <= rhs[j].offset /\ rhs[j].offset \in Int
  BY <1>0, NextElements
<1>2. /\ Len(orig) \in Nat /\ Len(rhs) \in Nat /\ l \in Nat /\ r \in Nat /\ l \in l..Len(orig)
      /\ lhs \in Seq(Element) /\ Len(lhs) = Len(orig) /\ rhs[r].score \in Int /\ MinusInf \in Int
      /\ \A i \in l + 1 .. Len(orig) : i \in l..Len(orig) /\ i \in 1..Len(orig) /\ i /= l
      /\ r \in 1..Len(rhs) /\ r + 1 - 1 = r
  <2>1. Len(orig) \in Nat /\ Len(rhs) \in Nat /\ l \in Nat /\ r \in Nat /\ l >= 1
    BY <1>1, ListFacts DEF Base
  <2>2. lhs \in Seq(Element) /\ Len(lhs) = Len(orig) /\ rhs[r].score \in Int /\ MinusInf \in Int
    BY <1>1, ListFacts, OffsetListsAssumption DEF Base
  <2>3. /\ \A i \in l + 1 .. Len(orig) : i \in l..Len(orig) /\ i \in 1..Len(orig) /\ i /= l
        /\ r + 1 - 1 = r /\ l \in l..Len(orig)
    BY <1>1, <2>1
  <2> QED BY <1>1, <2>1, <2>2, <2>3
<1>3. ASSUME Passed, NEW e \in Nat, l <= e, r' = r + 1, l' = e,
             \A i \in e..Len(orig) : rhs[r].offset < orig[i].offset
      PROVE  Passed'
  <2>1. \A j \in 1..r, i \in e..Len(orig) : rhs[j].offset < orig[i].offset
    BY <1>2, <1>3, PassedMore
  <2>2. r' - 1 = r /\ l' = e /\ orig' = orig /\ rhs' = rhs
    BY <1>0, <1>2, <1>3
  <2> QED BY <2>1, <2>2 DEF Passed
<1>4. CASE orig[l].offset < rhs[r].offset
  <2>1. /\ lhs[l].offset < rhs[r].offset /\ lhs[l].offset /= rhs[r].offset
        /\ ~(lhs[l].offset > rhs[r].offset)
    BY <1>1, <1>4
  <2>2. lhs' = [lhs EXCEPT ![l].score = MinusInf] /\ l' = l + 1 /\ UNCHANGED r
    BY <2>1 DEF OrderBy
  <2>3. /\ lhs' \in Seq(Element) /\ Len(lhs') = Len(orig) /\ lhs'[l].score = MinusInf
        /\ l' \in 1 .. Len(orig) + 1 /\ l <= l' /\ \A i \in l .. l' - 1 : i = l
        /\ \A i \in 1..Len(orig) :
             lhs'[i].offset = lhs[i].offset /\ (i \notin l .. l' - 1 => lhs'[i] = lhs[i])
    BY <1>1, <1>2, <2>2, ScoreStep
  <2>4. ASSUME Passed PROVE Passed'
    <3>1. \A i \in l'..Len(orig) : i \in l..Len(orig)
      BY <1>2, <2>2
    <3> QED BY <1>0, <2>2, <2>4, <3>1 DEF Passed
  <2>5. ASSUME Passed, NEW i \in l .. l' - 1 PROVE Scored(i)'
    <3>1. \A j \in r..Len(rhs) : orig[l].offset < rhs[j].offset
      BY <1>1, <1>4
    <3>2. \A j \in 1..Len(rhs) : rhs[j].offset /= orig[l].offset
      BY <1>2, <2>5, <3>1, NotThere
    <3>3. i = l /\ lhs'[i].score = MinusInf /\ orig' = orig /\ rhs' = rhs
      BY <1>0, <2>3
    <3> QED BY <3>2, <3>3 DEF Scored, Offsets
  <2>6. r' \in 1 .. Len(rhs) + 1
    BY <1>1, <1>2, <2>2
  <2> QED BY <1>0, <1>2, <2>3, <2>4, <2>5, <2>6 DEF Rescores
<1>5. CASE orig[l].offset > rhs[r].offset
  <2>1. /\ lhs[l].offset > rhs[r].offset /\ lhs[l].offset /= rhs[r].offset
        /\ ~(lhs[l].offset < rhs[r].offset)
    BY <1>1, <1>5
  <2>2. r' = r + 1 /\ UNCHANGED <<lhs, l>>
    BY <2>1 DEF OrderBy
  <2>3. \A i \in l..Len(orig) : rhs[r].offset < orig[i].offset
    BY <1>1, <1>5
  <2>4. Passed => Passed'
    <3>1. l <= l
      BY <1>2
    <3>2. ASSUME NEW e \in Nat, e = l PROVE Passed => Passed'
      BY <1>2, <1>3, <2>2, <2>3, <3>1, <3>2
    <3> QED BY <1>2, <3>2
  <2>5. /\ l' \in 1 .. Len(orig) + 1 /\ l <= l' /\ r' \in 1 .. Len(rhs) + 1
        /\ \A i \in l .. l' - 1 : FALSE
    <3>1. l \in 1 .. Len(orig) + 1 /\ l <= l /\ r + 1 \in 1 .. Len(rhs) + 1 /\ l .. l - 1 = {}
      <4>1. l \in 1..Len(orig) /\ r \in 1..Len(rhs) /\ Len(orig) \in Nat /\ Len(rhs) \in Nat
        BY <1>1, <1>2
      <4> QED BY <4>1
    <3> QED BY <2>2, <3>1
  <2> QED BY <1>0, <1>2, <2>2, <2>4, <2>5 DEF Rescores
<1>6. CASE orig[l].offset = rhs[r].offset
  <2>1. /\ lhs[l].offset = rhs[r].offset /\ ~(lhs[l].offset > rhs[r].offset)
        /\ ~(lhs[l].offset < rhs[r].offset)
    BY <1>1, <1>6
  <2>2. lhs' = [lhs EXCEPT ![l].score = rhs[r].score] /\ l' = l + 1 /\ r' = r + 1
    BY <2>1 DEF OrderBy
  <2>3. /\ lhs' \in Seq(Element) /\ Len(lhs') = Len(orig) /\ lhs'[l].score = rhs[r].score
        /\ l' \in 1 .. Len(orig) + 1 /\ l <= l' /\ \A i \in l .. l' - 1 : i = l
        /\ \A i \in 1..Len(orig) :
             lhs'[i].offset = lhs[i].offset /\ (i \notin l .. l' - 1 => lhs'[i] = lhs[i])
    <3> DEFINE x == rhs[r].score
    <3>1. x \in Int /\ lhs' = [lhs EXCEPT ![l].score = x]
      BY <1>2, <2>2
    <3> HIDE DEF x
    <3>2. /\ lhs' \in Seq(Element) /\ Len(lhs') = Len(orig) /\ lhs'[l].score = x
          /\ l' \in 1 .. Len(orig) + 1 /\ l <= l' /\ \A i \in l .. l' - 1 : i = l
          /\ \A i \in 1..Len(orig) :
               lhs'[i].offset = lhs[i].offset /\ (i \notin l .. l' - 1 => lhs'[i] = lhs[i])
      BY <1>1, <2>2, <3>1, ScoreStep
    <3> QED BY <3>2 DEF x
  <2>4. ASSUME Passed, Unique(orig) PROVE Passed'
    <3>1. \A i \in l + 1 .. Len(orig) : rhs[r].offset < orig[i].offset
      <4>1. \A i \in l + 1 .. Len(orig) : orig[i].offset /= orig[l].offset
        BY <1>1, <1>2, <2>4 DEF Unique
      <4> QED BY <1>1, <1>2, <1>6, <4>1
    <3>2. ASSUME NEW e \in Nat, e = l + 1 PROVE Passed'
      <4>1. l <= e
        BY <1>2, <3>2
      <4> QED BY <1>3, <2>2, <2>4, <3>1, <3>2, <4>1
    <3> QED BY <1>2, <3>2
  <2>5. ASSUME Unique(rhs), NEW i \in l .. l' - 1 PROVE Scored(i)'
    <3>1. i = l /\ lhs'[i].score = rhs[r].score /\ orig' = orig /\ rhs' = rhs
      BY <1>0, <2>3
    <3>2. \A j \in 1..Len(rhs) : rhs[j].offset = orig[i].offset => j = r
      BY <1>1, <1>6, <2>5, <3>1 DEF Unique
    <3>3. orig[i].offset \in Offsets(rhs)
      BY <1>1, <1>6, <3>1 DEF Offsets
    <3> QED BY <3>1, <3>2, <3>3 DEF Scored, Offsets
  <2>6. r' \in 1 .. Len(rhs) + 1
    BY <1>1, <1>2, <2>2
  <2> QED BY <1>0, <1>2, <2>3, <2>4, <2>5, <2>6 DEF Rescores
<1> QED BY <1>1, <1>4, <1>5, <1>6

LEMMA OrderByEnd ==
  ASSUME Base, OrderInv, OrderByRest
  PROVE  Rescores
<1> DEFINE n == Len(orig)
<1>0. /\ op = "orderby" /\ ~Both /\ phase = "running" /\ Unread /\ phase' = "done"
      /\ (Unique(orig) /\ Unique(rhs) => Passed)
      /\ UNCHANGED <<op, orig, rhs, r, o, result>>
  BY DEF OrderByRest, OrderInv, Behind
<1>1. /\ n \in Nat /\ l \in Nat /\ 1 <= l /\ l <= n + 1 /\ Len(lhs) = n /\ l' = n + 1
      /\ r \in 1 .. Len(rhs) + 1 /\ Len(rhs) \in Nat
      /\ \A i \in 1..n : lhs[i] \in Element
      /\ lhs' = [i \in 1..n |-> IF i < l THEN lhs[i] ELSE [lhs[i] EXCEPT !.score = MinusInf]]
  <2>1. /\ n \in Nat /\ l \in 1 .. n + 1 /\ Len(lhs) = n
        /\ r \in 1 .. Len(rhs) + 1 /\ Len(rhs) \in Nat /\ \A i \in 1..n : lhs[i] \in Element
    BY ListFacts DEF Base
  <2>2. l \in Nat /\ 1 <= l /\ l <= n + 1
    BY <2>1
  <2>3. /\ l' = n + 1
        /\ lhs' = [i \in 1..n |-> IF i < l THEN lhs[i] ELSE [lhs[i] EXCEPT !.score = MinusInf]]
    BY <2>1 DEF OrderByRest
  <2> QED BY <2>1, <2>2, <2>3
<1>2. l > n \/ r > Len(rhs)
  <2>1. n \in Nat /\ l \in Nat /\ Len(lhs) = n /\ Len(rhs) \in Nat /\ r \in 1 .. Len(rhs) + 1
    BY <1>1
  <2> QED BY <1>0, <2>1 DEF Both
<1>3. MinusInf \in Int
  BY OffsetListsAssumption
<1> HIDE DEF n
<1>4. ASSUME NEW i \in 1..n
      PROVE  /\ i < l => lhs'[i] = lhs[i]
             /\ ~(i < l) => lhs'[i].score = MinusInf
             /\ lhs'[i].offset = lhs[i].offset /\ lhs'[i] \in Element
  <2>1. CASE i < l
    BY <1>1, <2>1
  <2>2. CASE ~(i < l)
    <3>1. lhs'[i] = [lhs[i] EXCEPT !.score = MinusInf] /\ lhs[i] \in Element
      BY <1>1, <2>2
    <3> QED BY <1>3, <2>2, <3>1, Rescored
  <2> QED BY <2>1, <2>2
<1>5. lhs' \in Seq(Element) /\ Len(lhs') = n
  <2>1. lhs' \in [1..n -> Element]
    BY <1>1, <1>4
  <2> QED BY <1>1, <2>1
<1>a. n \in Nat /\ l \in Nat /\ 1 <= l /\ l <= n + 1 /\ l' = n + 1
  BY <1>1
<1>6. /\ l' - 1 = n /\ l <= l' /\ l' \in 1 .. n + 1
      /\ \A i \in l'..n : FALSE
      /\ \A i \in 1..n : i \notin l .. l' - 1 => i < l
      /\ \A i \in l .. l' - 1 : i \in 1..n /\ i \in l..n /\ ~(i < l)
  BY <1>a
<1>7. Passed'
  BY <1>0, <1>6 DEF Passed, n
<1>8. ASSUME Passed, NEW i \in l .. l' - 1 PROVE Scored(i)'
  <2>1. i \in l..n /\ lhs'[i].score = MinusInf /\ orig' = orig /\ rhs' = rhs
    BY <1>0, <1>4, <1>6
  <2>2. r > Len(rhs)
    BY <1>2, <1>a, <2>1
  <2>3. \A j \in r..Len(rhs) : orig[i].offset < rhs[j].offset
    BY <1>1, <2>2
  <2>4. \A j \in 1..Len(rhs) : rhs[j].offset /= orig[i].offset
    BY <1>8, <2>1, <2>3, NotThere DEF n
  <2> QED BY <2>1, <2>4 DEF Scored, Offsets
<1>9. \A i \in 1..n : lhs'[i].offset = lhs[i].offset /\ (i \notin l .. l' - 1 => lhs'[i] = lhs[i])
  BY <1>4, <1>6
<1> QED BY <1>0, <1>1, <1>5, <1>6, <1>7, <1>8, <1>9 DEF Rescores, n

LEMMA OrderNext ==
  ASSUME Base, OrderInv, op = "orderby", Next
  PROVE  Base' /\ OrderInv' /\ op' = op
<1>1. OrderBy \/ OrderByRest
  BY DEF Next, Unary, Intersect, Subtract, SubtractRest, Join, Behind, RemoveDuplicate,
         Filter, Union, UnionRest, Erase
<1>2. op' = op
  BY <1>1 DEF OrderBy, OrderByRest
<1> QED BY <1>1, <1>2, OrderByRound, OrderByEnd, RescoresKeeps
-----------------------------------------------------------------------------
LEMMA ListsInit ==
  ASSUME Init
  PROVE  ListsInv
<1>0. /\ op \in Ops /\ orig \in Seq(Element) /\ rhs \in Seq(Element)
      /\ Ascending(orig) /\ Ascending(rhs)
      /\ lhs = orig /\ r = 1 /\ result = <<>> /\ phase = "running"
  <2>1. PICK p \in Pairs : orig = p[1] /\ rhs = p[2]
    BY DEF Init
  <2>2. p[1] \in Seq(Element) /\ Ascending(p[1]) /\ p[2] \in Seq(Element) /\ Ascending(p[2])
    BY OffsetListsAssumption
  <2> QED BY <2>1, <2>2 DEF Init
<1>1. /\ Len(orig) \in Nat /\ Len(rhs) \in Nat /\ l = o /\ (l = 1 \/ l = 2)
      /\ (Len(orig) = 0 => l = 1) /\ (op \in Unary /\ Len(orig) > 0 => l = 2)
      /\ (op \notin Unary => l = 1)
  <2>1. Len(orig) \in Nat /\ Len(rhs) \in Nat /\ (orig /= <<>> <=> Len(orig) > 0)
    BY <1>0
  <2>2. l = (IF op \in Unary /\ orig /= <<>> THEN 2 ELSE 1) /\ o = l
    BY DEF Init
  <2> QED BY <2>1, <2>2
<1>2. Base
  <2>1. l \in 1 .. Len(orig) + 1 /\ r \in 1 .. Len(rhs) + 1 /\ o \in Nat /\ o >= 1
    BY <1>0, <1>1
  <2>2. result \in Seq(Element)
    BY <1>0
  <2> QED BY <1>0, <2>1, <2>2 DEF Base
<1>3. Unread
  <2>1. \A i \in l..Len(orig) : lhs[i] = orig[i]
    BY <1>0
  <2> QED BY <2>1 DEF Unread
<1>4. /\ op \notin Unary => l - 1 = 0 /\ o - 1 = 0
      /\ r - 1 = 0 /\ \A j \in 1..0 : FALSE
  BY <1>0, <1>1
<1>5. Passed
  BY <1>4 DEF Passed
<1>6. CopyInv
  <2> SUFFICES ASSUME op \in Copying PROVE Selected(l - 1) /\ o <= l
    BY <1>0, <1>3, <1>5 DEF CopyInv
  <2>1. o - 1 = 0 /\ l - 1 = 0 /\ o <= l
    BY <1>1, <1>4 DEF Copying, Unary
  <2> DEFINE m == [k \in 1..0 |-> k]
  <2>2. m \in [1..0 -> 1..0]
    OBVIOUS
  <2>3. Increasing(m, 0)
    BY <1>4 DEF Increasing
  <2> HIDE DEF m
  <2> QED BY <1>4, <2>1, <2>2, <2>3 DEF Selected
<1>7. FilterInv
  <2> SUFFICES ASSUME op = "thresholds" PROVE Filtered /\ UnreadOffsets /\ Below
    BY <1>0 DEF FilterInv
  <2>1. o - 1 = 0 /\ l - 1 = 0
    BY <1>4 DEF Unary
  <2> DEFINE m == [k \in 1..0 |-> k]
  <2>2. m \in [1..0 -> 1..Len(orig)]
    BY <1>4
  <2>3. Increasing(m, 0)
    BY <1>4 DEF Increasing
  <2> HIDE DEF m
  <2>4. \A i \in 1..Len(orig) : ~Matched(i)
    BY <1>4 DEF Matched
  <2>5. Filtered
    BY <1>4, <2>1, <2>2, <2>3, <2>4 DEF Filtered
  <2>6. UnreadOffsets /\ Below
    BY <1>3, <1>4, <2>1 DEF UnreadOffsets, Below, Unread
  <2> QED BY <2>5, <2>6
<1>8. UnaryInv
  <2> SUFFICES ASSUME op \in Unary
               PROVE  /\ Len(orig) > 0 => o > 1 /\ lhs[o - 1].offset = orig[l - 1].offset
                      /\ Len(orig) = 0 => o = 1
                      /\ Strict /\ Covered /\ \A k \in 1 .. o - 1 : Best(lhs[k], l - 1)
    BY <1>0, <1>1, <1>3 DEF UnaryInv
  <2>1. CASE Len(orig) = 0
    <3>1. o - 1 = 0 /\ l - 1 = 0 /\ o = 1 /\ ~(Len(orig) > 0)
      BY <1>1, <2>1
    <3> QED BY <1>4, <3>1 DEF Strict, Covered
  <2>2. CASE Len(orig) > 0
    <3>1. /\ o - 1 = 1 /\ l - 1 = 1 /\ o > 1 /\ (\A k \in 1..1 : k = 1) /\ 1 \in 1..1
          /\ 1 \in 1..Len(orig) /\ ~(1 < 1) /\ Len(orig) /= 0
      BY <1>1, <2>2
    <3>2. ~Prefers(orig[1].score, orig[1].score)
      <4>1. orig[1].score \in Int
        BY <1>0, <3>1, ListFacts
      <4> QED BY <4>1 DEF Prefers
    <3>3. Best(lhs[1], 1)
      BY <1>0, <3>1, <3>2 DEF Best
    <3>4. Strict /\ Covered
      BY <1>0, <3>1 DEF Strict, Covered
    <3> QED BY <1>0, <3>1, <3>3, <3>4
  <2> QED BY <1>1, <2>1, <2>2
<1>9. UnionInv
  <2> SUFFICES ASSUME op = "union"
               PROVE  /\ o = 1 /\ Ascending(result) /\ NoneBelow
                      /\ Offsets(result) = Upto(orig, l - 1) \cup Upto(rhs, r - 1)
    BY <1>0 DEF UnionInv
  <2>1. o = 1 /\ l - 1 = 0 /\ r - 1 = 0 /\ Len(result) = 0
    BY <1>0, <1>1, <1>4 DEF Unary
  <2>2. Ascending(result) /\ NoneBelow
    BY <1>4, <2>1 DEF Ascending, NoneBelow
  <2>3. Offsets(result) = {} /\ Upto(orig, 0) = {} /\ Upto(rhs, 0) = {}
    BY <1>4, <2>1 DEF Offsets, Upto
  <2> QED BY <2>1, <2>2, <2>3
<1>10. OrderInv
  <2> SUFFICES ASSUME op = "orderby" PROVE o = 1 /\ \A i \in 1 .. l - 1 : FALSE
    BY <1>0, <1>3, <1>5 DEF OrderInv
  <2> QED BY <1>1, <1>4 DEF Unary
<1> QED BY <1>2, <1>6, <1>7, <1>8, <1>9, <1>10 DEF ListsInv

LEMMA ListsStep ==
  ASSUME ListsInv, Next
  PROVE  ListsInv'
<1>0. Base /\ CopyInv /\ FilterInv /\ UnaryInv /\ UnionInv /\ OrderInv
  BY DEF ListsInv
<1>1. op \in Copying \/ op = "thresholds" \/ op \in Unary \/ op = "union" \/ op = "orderby"
  BY <1>0, OffsetListsAssumption DEF Base, Copying, Unary
<1>2. CASE op \in Copying
  <2>1. Base' /\ CopyInv' /\ op' = op
    BY <1>0, <1>2, CopyNext
  <2> QED BY <1>2, <2>1 DEF ListsInv, FilterInv, UnaryInv, UnionInv, OrderInv, Copying, Unary
<1>3. CASE op = "thresholds"
  <2>1. Base' /\ FilterInv' /\ op' = op
    BY <1>0, <1>3, FilterNext
  <2> QED BY <1>3, <2>1 DEF ListsInv, CopyInv, UnaryInv, UnionInv, OrderInv, Copying, Unary
<1>4. CASE op \in Unary
  <2>1. Base' /\ UnaryInv' /\ op' = op
    BY <1>0, <1>4, UnaryNext
  <2> QED BY <1>4, <2>1 DEF ListsInv, CopyInv, FilterInv, UnionInv, OrderInv, Copying, Unary
<1>5. CASE op = "union"
  <2>1. Base' /\ UnionInv' /\ op' = op
    BY <1>0, <1>5, UnionNext
  <2> QED BY <1>5, <2>1 DEF ListsInv, CopyInv, FilterInv, UnaryInv, OrderInv, Copying, Unary
<1>6. CASE op = "orderby"
  <2>1. Base' /\ OrderInv' /\ op' = op
    BY <1>0, <1>6, OrderNext
  <2> QED BY <1>6, <2>1 DEF ListsInv, CopyInv, FilterInv, UnaryInv, UnionInv, Copying, Unary
<1> QED BY <1>1, <1>2, <1>3, <1>4, <1>5, <1>6

LEMMA ListsStutter ==
  ASSUME ListsInv, UNCHANGED vars
  PROVE  ListsInv'
<1>0. UNCHANGED <<op, orig, lhs, rhs, l, r, o, result, phase>>
  BY DEF vars
<1>1. (Base' <=> Base) /\ (Unread' <=> Unread) /\ (Passed' <=> Passed)
  BY <1>0 DEF Base, Unread, Passed
<1>2. CopyInv' <=> CopyInv
  <2>1. /\ Selected(l - 1)' <=> Selected(l - 1)
        /\ Selected(Len(orig))' <=> Selected(Len(orig))
    BY <1>0, KeepsFixed DEF Selected
  <2> QED BY <1>0, <1>1, <2>1, KeepsFixed DEF CopyInv
<1>3. FilterInv' <=> FilterInv
  BY <1>0 DEF FilterInv, Filtered, UnreadOffsets, Below, Matched, InThresholds
<1>4. UnaryInv' <=> UnaryInv
  BY <1>0, <1>1 DEF UnaryInv, Strict, Covered, Best, Prefers
<1>5. UnionInv' <=> UnionInv
  BY <1>0 DEF UnionInv, NoneBelow
<1>6. OrderInv' <=> OrderInv
  BY <1>0, <1>1 DEF OrderInv, Scored
<1> QED BY <1>1, <1>2, <1>3, <1>4, <1>5, <1>6 DEF ListsInv-----------------------------------------------------------------------------
(* What lies in front of o is the output.                                  *)
LEMMA OutputFacts ==
  ASSUME Base, o <= Len(orig) + 1, op /= "union", op /= "orderby"
  PROVE  /\ Output = SubSeq(lhs, 1, o - 1) /\ Len(Output) = o - 1
         /\ \A k \in 1 .. o - 1 : Output[k] = lhs[k] /\ k \in 1..Len(orig)
<1>1. Output = SubSeq(lhs, 1, o - 1)
  BY DEF Output
<1>2. lhs \in Seq(Element) /\ Len(lhs) = Len(orig) /\ Len(orig) \in Nat /\ o \in Nat /\ o >= 1
  BY ListFacts DEF Base
<1>3. /\ Len(SubSeq(lhs, 1, o - 1)) = o - 1
      /\ \A k \in 1 .. o - 1 : SubSeq(lhs, 1, o - 1)[k] = lhs[k]
  BY <1>2
<1>4. \A k \in 1 .. o - 1 : k \in 1..Len(orig)
  BY <1>2
<1> QED BY <1>1, <1>3, <1>4

(* Elements taken in their order from an ascending list are ascending.     *)
LEMMA AscendingPart ==
  ASSUME NEW s, Ascending(s), NEW t, NEW n \in Nat, Len(t) = n,
         NEW m \in [1..n -> 1..Len(s)], Increasing(m, n), Len(s) \in Nat,
         \A k \in 1..n : t[k].offset = s[m[k]].offset
  PROVE  Ascending(t)
<1>1. ASSUME NEW i \in 1..n, NEW j \in 1..n, i <= j PROVE t[i].offset <= t[j].offset
  <2>1. m[i] \in 1..Len(s) /\ m[j] \in 1..Len(s)
    OBVIOUS
  <2>2. m[i] <= m[j]
    <3>1. CASE i = j
      BY <2>1, <3>1
    <3>2. CASE i < j
      BY <2>1, <3>2 DEF Increasing
    <3> QED BY <1>1, <3>1, <3>2
  <2>3. s[m[i]].offset <= s[m[j]].offset
    BY <2>1, <2>2 DEF Ascending
  <2> QED BY <2>3
<1> QED BY <1>1 DEF Ascending

LEMMA CopiesComputed ==
  ASSUME Base, CopyInv, op \in Copying
  PROVE  ListsComputed
<1>0. /\ Len(orig) \in Nat /\ Len(lhs) = Len(orig) /\ l \in Nat /\ l <= Len(orig) + 1 /\ o \in Nat
      /\ o >= 1 /\ o <= l /\ o <= Len(orig) + 1 /\ o - 1 \in Nat
      /\ op /= "union" /\ op /= "orderby" /\ op /= "thresholds" /\ op \notin Unary
      /\ phase \in {"running", "done"} /\ Unread /\ (phase = "done" => Selected(Len(orig)))
  BY ListFacts DEF Base, CopyInv, Copying, Unary
<1>1. /\ Len(Output) = o - 1 /\ \A k \in 1 .. o - 1 : Output[k] = lhs[k]
  BY <1>0, OutputFacts
<1>2. ASSUME phase = "done" PROVE Ascending(Output) /\ (Exact => Selects(Output))
  <2>1. PICK m \in [1 .. o - 1 -> 1..Len(orig)] :
          /\ Increasing(m, o - 1) /\ \A k \in 1 .. o - 1 : lhs[k] = orig[m[k]]
          /\ Exact => \A i \in 1..Len(orig) : Keeps(i) <=> \E k \in 1 .. o - 1 : m[k] = i
    BY <1>0, <1>2 DEF Selected
  <2>2. \A k \in 1 .. o - 1 : Output[k] = orig[m[k]]
    BY <1>1, <2>1
  <2>3. Ascending(Output)
    BY <1>0, <1>1, <2>1, <2>2, AscendingPart DEF Base
  <2>4. /\ m \in [1..Len(Output) -> 1..Len(orig)]
        /\ \A k, n \in 1..Len(Output) : k < n => m[k] < m[n]
        /\ \A k \in 1..Len(Output) : Output[k] = orig[m[k]]
    BY <1>1, <2>1, <2>2 DEF Increasing
  <2>5. ASSUME Exact PROVE Selects(Output)
    <3>1. \A i \in 1..Len(orig) : Keeps(i) <=> \E k \in 1..Len(Output) : m[k] = i
      BY <1>1, <2>1, <2>5
    <3> QED BY <1>0, <2>4, <3>1 DEF Selects
  <2> QED BY <2>3, <2>5
<1>3. ReadsOriginals
  <2>1. ASSUME NEW i \in 1..Len(lhs), i >= l PROVE lhs[i] = orig[i]
    <3>1. i \in l..Len(orig)
      BY <1>0, <2>1
    <3> QED BY <1>0, <3>1 DEF Unread
  <2> QED BY <1>0, <2>1 DEF ReadsOriginals
<1>4. ComputesSets
  <2>1. op \in {"intersect", "subtract"} => Exact
    BY DEF Exact
  <2>2. op \in {"greater", "less"} => (Exact <=> Unique(orig) /\ Unique(rhs))
    BY DEF Exact
  <2>3. CASE op \in {"intersect", "subtract"}
    <3>1. phase = "done" => Selects(Output)
      BY <1>2, <2>1, <2>3
    <3>2. op \notin {"greater", "less", "thresholds"} /\ op /= "orderby"
      BY <2>3
    <3> QED BY <1>0, <2>3, <3>1, <3>2 DEF ComputesSets
  <2>4. CASE op \in {"greater", "less"}
    BY <1>2, <2>2, <2>4 DEF ComputesSets, Unary
  <2> QED BY <2>3, <2>4 DEF Copying
<1> QED BY <1>2, <1>3, <1>4 DEF ListsComputed, StaysAscending

LEMMA FilterComputed ==
  ASSUME Base, FilterInv, op = "thresholds"
  PROVE  ListsComputed
<1>a. ASSUME ~Unique(rhs) PROVE ListsComputed
  BY <1>a DEF ListsComputed, ComputesSets, StaysAscending, ReadsOriginals, Unary
<1> SUFFICES ASSUME Unique(rhs) PROVE ListsComputed
  BY <1>a
<1>0. /\ phase /= "undefined" /\ Filtered /\ UnreadOffsets /\ Below
      /\ phase = "done" => l > Len(orig) \/ r > Len(rhs)
  BY DEF FilterInv
<1>1. /\ Len(orig) \in Nat /\ Len(lhs) = Len(orig) /\ l \in Nat /\ l >= 1 /\ l <= Len(orig) + 1
      /\ o \in Nat /\ o >= 1 /\ o - 1 \in Nat /\ r \in Nat /\ r >= 1 /\ r <= Len(rhs) + 1
      /\ Len(rhs) \in Nat
  BY ListFacts DEF Base
<1>2. PICK m \in [1 .. o - 1 -> 1..Len(orig)] :
        /\ Increasing(m, o - 1)
        /\ \A k \in 1 .. o - 1 :
             /\ m[k] <= l /\ lhs[k].offset = orig[m[k]].offset
             /\ \E j \in 1 .. r - 1 : lhs[k] = rhs[j]
        /\ Unique(orig) =>
             \A i \in 1..Len(orig) : Matched(i) <=> \E k \in 1 .. o - 1 : m[k] = i
  BY <1>0 DEF Filtered
<1>3. o <= l + 1 /\ o <= Len(orig) + 1
  <2>1. CASE o = 1
    BY <1>1, <2>1
  <2>2. CASE o > 1
    <3>1. o - 1 \in 1 .. o - 1
      BY <1>1, <2>2
    <3>2. m[o - 1] \in 1..Len(orig) /\ m[o - 1] <= l /\ o - 1 <= m[o - 1]
      BY <1>2, <3>1 DEF Increasing
    <3> QED BY <1>1, <3>2
  <2> QED BY <1>1, <2>1, <2>2
<1>4. Len(Output) = o - 1 /\ \A k \in 1 .. o - 1 : Output[k] = lhs[k]
  BY <1>3, OutputFacts
<1>5. ReadsOriginals
  <2>1. ASSUME NEW i \in 1..Len(lhs), i >= l
        PROVE  lhs[i].offset = orig[i].offset /\ (i >= o => lhs[i] = orig[i])
    <3>1. i \in l..Len(orig)
      BY <1>1, <2>1
    <3> QED BY <1>0, <3>1 DEF UnreadOffsets
  <2>2. o <= l \/ o = l + 1
    BY <1>1, <1>3
  <2> QED BY <1>0, <2>1, <2>2 DEF ReadsOriginals
<1>6. Ascending(Output)
  <2>1. \A k \in 1 .. o - 1 : Output[k].offset = orig[m[k]].offset
    BY <1>2, <1>4
  <2> QED BY <1>1, <1>2, <1>4, <2>1, AscendingPart DEF Base
<1>7. ASSUME phase = "done", Unique(orig) PROVE Selects(Output)
  <2>1. ASSUME NEW i \in 1..Len(orig) PROVE Keeps(i) <=> Matched(i)
    <3>1. Keeps(i) <=> \E j \in 1..Len(rhs) : rhs[j].offset = orig[i].offset /\ InThresholds(rhs[j])
      BY DEF Keeps
    <3>2. \A j \in 1 .. r - 1 : j \in 1..Len(rhs)
      BY <1>1
    <3>3. ASSUME NEW j \in 1..Len(rhs), rhs[j].offset = orig[i].offset PROVE j \in 1 .. r - 1
      <4>1. CASE r > Len(rhs)
        BY <1>1, <4>1
      <4>2. CASE l > Len(orig) /\ ~(j \in 1 .. r - 1)
        <5>1. i \in 1 .. l - 1 /\ j \in r..Len(rhs)
          BY <1>1, <4>2
        <5>2. orig[i].offset < rhs[j].offset
          BY <1>0, <5>1 DEF Below
        <5>3. orig[i].offset \in Int
          BY ListFacts DEF Base
        <5> QED BY <3>3, <5>2, <5>3
      <4> QED BY <1>0, <1>7, <4>1, <4>2
    <3> QED BY <3>1, <3>2, <3>3 DEF Matched
  <2>2. \A i \in 1..Len(orig) : Keeps(i) <=> \E k \in 1..Len(Output) : m[k] = i
    BY <1>2, <1>4, <1>7, <2>1
  <2>3. /\ m \in [1..Len(Output) -> 1..Len(orig)]
        /\ \A k, n \in 1..Len(Output) : k < n => m[k] < m[n]
    BY <1>2, <1>4 DEF Increasing
  <2>4. \A j \in 1 .. r - 1 : j \in 1..Len(rhs)
    BY <1>1
  <2>5. \A k \in 1..Len(Output) :
          Output[k].offset = orig[m[k]].offset /\ \E j \in 1..Len(rhs) : Output[k] = rhs[j]
    BY <1>2, <1>4, <2>4
  <2> QED BY <2>2, <2>3, <2>5 DEF Selects
<1>8. ComputesSets
  BY <1>7 DEF ComputesSets, Unary
<1> QED BY <1>5, <1>6, <1>8 DEF ListsComputed, StaysAscending

LEMMA UnaryComputed ==
  ASSUME Base, UnaryInv, op \in Unary
  PROVE  ListsComputed
<1>0. /\ Len(orig) \in Nat /\ Len(lhs) = Len(orig) /\ l \in Nat /\ l <= Len(orig) + 1 /\ o \in Nat
      /\ o >= 1 /\ o <= l /\ o <= Len(orig) + 1 /\ o - 1 \in Nat
      /\ op /= "union" /\ op /= "orderby" /\ op /= "thresholds" /\ op \notin {"intersect", "subtract"}
      /\ phase \in {"running", "done"} /\ Unread /\ Strict /\ Covered
      /\ \A k \in 1 .. o - 1 : Best(lhs[k], l - 1)
      /\ phase = "done" => l = Len(orig) + 1
  BY ListFacts DEF Base, UnaryInv, Unary
<1>1. /\ Len(Output) = o - 1 /\ \A k \in 1 .. o - 1 : Output[k] = lhs[k] /\ k \in 1..Len(orig)
  BY <1>0, OutputFacts
<1>2. \A i \in 1..Len(orig) : lhs[i].offset \in Int
  BY <1>0, ListFacts DEF Base
<1>3. ReadsOriginals
  <2>1. ASSUME NEW i \in 1..Len(lhs), i >= l PROVE lhs[i] = orig[i]
    <3>1. i \in l..Len(orig)
      BY <1>0, <2>1
    <3> QED BY <1>0, <3>1 DEF Unread
  <2> QED BY <1>0, <2>1 DEF ReadsOriginals
<1>4. Ascending(Output)
  <2>1. ASSUME NEW i \in 1 .. o - 1, NEW j \in 1 .. o - 1, i <= j
        PROVE  lhs[i].offset <= lhs[j].offset
    <3>1. CASE i = j
      BY <1>1, <1>2, <3>1
    <3>2. CASE i < j
      <4>1. lhs[i].offset < lhs[j].offset
        BY <1>0, <3>2 DEF Strict
      <4> QED BY <1>1, <1>2, <4>1
    <3> QED BY <2>1, <3>1, <3>2
  <2> QED BY <1>1, <2>1 DEF Ascending
<1>5. Unique(Output)
  <2>1. ASSUME NEW i \in 1 .. o - 1, NEW j \in 1 .. o - 1, lhs[i].offset = lhs[j].offset
        PROVE  i = j
    <3>1. ~(lhs[i].offset < lhs[j].offset) /\ ~(lhs[j].offset < lhs[i].offset)
      BY <1>1, <1>2, <2>1
    <3>2. ~(i < j) /\ ~(j < i)
      BY <1>0, <3>1 DEF Strict
    <3> QED BY <3>2
  <2> QED BY <1>1, <2>1 DEF Unique
<1>6. ASSUME phase = "done" PROVE BestOf(Output)
  <2>1. l - 1 = Len(orig)
    BY <1>0, <1>6
  <2>2. \A k \in 1 .. o - 1 : Best(Output[k], Len(orig))
    BY <1>0, <1>1, <2>1
  <2>3. Offsets(Output) = Offsets(orig)
    <3>1. ASSUME NEW k \in 1 .. o - 1 PROVE Output[k].offset \in Offsets(orig)
      BY <2>2 DEF Best, Offsets
    <3>2. ASSUME NEW i \in 1..Len(orig) PROVE \E k \in 1 .. o - 1 : Output[k].offset = orig[i].offset
      BY <1>0, <1>1, <2>1 DEF Covered
    <3> QED BY <1>1, <3>1, <3>2 DEF Offsets
  <2> QED BY <1>1, <1>5, <2>2, <2>3 DEF BestOf, Best
<1>7. ComputesSets
  <2>1. /\ op \notin {"intersect", "subtract"} /\ op \notin {"greater", "less", "thresholds"}
        /\ op /= "orderby" /\ op /= "union"
    BY DEF Unary
  <2> QED BY <1>6, <2>1 DEF ComputesSets
<1> QED BY <1>3, <1>4, <1>7 DEF ListsComputed, StaysAscending

LEMMA UnionComputed ==
  ASSUME Base, UnionInv, op = "union"
  PROVE  ListsComputed
<1>0. /\ phase \in {"running", "done"} /\ lhs = orig /\ o = 1 /\ Ascending(result)
      /\ phase = "done" => Offsets(result) = Offsets(orig) \cup Offsets(rhs)
      /\ l \in Nat /\ l >= 1 /\ Output = result
  BY ListFacts DEF UnionInv, Base, Output
<1>1. o <= l
  BY <1>0
<1> QED BY <1>0, <1>1 DEF ListsComputed, ComputesSets, StaysAscending, ReadsOriginals, Unary

LEMMA OrderComputed ==
  ASSUME Base, OrderInv, op = "orderby"
  PROVE  ListsComputed
<1>0. /\ phase \in {"running", "done"} /\ o = 1 /\ Unread /\ Output = lhs
      /\ \A i \in 1..Len(orig) : lhs[i].offset = orig[i].offset
      /\ Unique(orig) /\ Unique(rhs) => \A i \in 1 .. l - 1 : Scored(i)
      /\ phase = "done" => l = Len(orig) + 1
  BY DEF OrderInv, Output
<1>1. Len(orig) \in Nat /\ Len(lhs) = Len(orig) /\ l \in Nat /\ l >= 1 /\ o <= l
  BY <1>0, ListFacts DEF Base
<1>2. ReadsOriginals
  <2>1. ASSUME NEW i \in 1..Len(lhs), i >= l PROVE lhs[i] = orig[i]
    <3>1. i \in l..Len(orig)
      BY <1>1, <2>1
    <3> QED BY <1>0, <3>1 DEF Unread
  <2> QED BY <1>0, <1>1, <2>1 DEF ReadsOriginals
<1>3. Ascending(Output)
  BY <1>0, <1>1 DEF Base, Ascending
<1>4. ASSUME phase = "done", Unique(orig), Unique(rhs) PROVE ScoredBy(Output)
  <2>1. l - 1 = Len(orig)
    BY <1>0, <1>1, <1>4
  <2> QED BY <1>0, <1>1, <1>4, <2>1 DEF ScoredBy, Scored
<1>5. ComputesSets
  BY <1>4 DEF ComputesSets, Unary
<1> QED BY <1>2, <1>3, <1>5 DEF ListsComputed, StaysAscending

(* Whatever the two lists are, as long as they are ascending: each loop of *)
(* query.cc leaves exactly the set it is named for (AND, -, the           *)
(* comparisons, OR, MAX, MIN, ORDER BY, the thresholds of a query), in     *)
(* ascending order, and none writes over an element it has yet to read.    *)
THEOREM ListLoopsAreExact == Spec => []ListsComputed
<1>1. Init => ListsInv
  BY ListsInit
<1>2. ListsInv /\ [Next]_vars => ListsInv'
  BY ListsStep, ListsStutter
<1>3. ListsInv => ListsComputed
  <2> SUFFICES ASSUME ListsInv PROVE ListsComputed
    OBVIOUS
  <2>1. Base /\ CopyInv /\ FilterInv /\ UnaryInv /\ UnionInv /\ OrderInv
    BY DEF ListsInv
  <2>2. op \in Copying \/ op = "thresholds" \/ op \in Unary \/ op = "union" \/ op = "orderby"
    BY <2>1, OffsetListsAssumption DEF Base, Copying, Unary
  <2> QED BY <2>1, <2>2, CopiesComputed, FilterComputed, UnaryComputed, UnionComputed,
             OrderComputed
<1> QED BY <1>1, <1>2, <1>3, PTL DEF Spec
=============================================================================
