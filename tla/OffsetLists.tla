----------------------------- MODULE OffsetLists ----------------------------
(***************************************************************************)
(* The loops of src/src/query.cc that combine lists of documents:          *)
(* IntersectOffsets, SubtractOffsets, Join, UnionOffsets, ORDER BY,        *)
(* RemoveDuplicates with MAX and MIN, and the filter of ca_schema_query.   *)
(* All but UnionOffsets write their result over the list they read.        *)
(*                                                                         *)
(* A list is a sequence of an offset and a score; offsets do not descend,  *)
(* and one may come more than once.                                        *)
(***************************************************************************)
EXTENDS Integers, Sequences, FiniteSets

CONSTANTS
  Pairs,       \* the pairs of lists that may be combined
  Ops,         \* what is done to them
  Low, High,   \* the first and the last threshold
  MinusInf     \* -HUGE_VAL, below every score

Element == [offset : Int, score : Int]
Ascending(s) == \A i, j \in 1..Len(s) : i <= j => s[i].offset <= s[j].offset
Unique(s) == \A i, j \in 1..Len(s) : s[i].offset = s[j].offset => i = j
Offsets(s) == {s[i].offset : i \in 1..Len(s)}

ASSUME OffsetListsAssumption ==
  /\ \A p \in Pairs : \A k \in 1..2 : p[k] \in Seq(Element) /\ Ascending(p[k])
  /\ Low \in Int /\ High \in Int /\ MinusInf \in Int
  /\ Ops \subseteq {"intersect", "subtract", "union", "greater", "less", "max", "min",
                    "orderby", "thresholds"}

VARIABLES
  op,
  orig,      \* history: what lhs was at the start
  lhs, rhs,
  l, r,      \* the next element of lhs and of rhs
  o,         \* where the next output goes in lhs
  result,    \* of UnionOffsets
  phase      \* "running", "done", or "undefined" after a write behind lhs

vars == <<op, orig, lhs, rhs, l, r, o, result, phase>>

Unary == {"max", "min"}

(* RemoveDuplicates, MAX and MIN start behind the first element.           *)
Init ==
  /\ op \in Ops
  /\ \E p \in Pairs : orig = p[1] /\ rhs = p[2]
  /\ op \in Unary => rhs = <<>>
  /\ lhs = orig
  /\ l = (IF op \in Unary /\ orig /= <<>> THEN 2 ELSE 1)
  /\ o = l
  /\ r = 1 /\ result = <<>> /\ phase = "running"

Both == phase = "running" /\ l <= Len(lhs) /\ r <= Len(rhs)
Behind(op1) == op = op1 /\ phase = "running" /\ ~Both

(* Mutant of Copy: the output starts one too far.                          *)
CopyAhead(n) ==
  /\ lhs' = [i \in 1..Len(lhs) |->
               IF i \in o + 1 .. o + n THEN lhs[l + i - o - 1] ELSE lhs[i]]
  /\ o' = o + n /\ l' = l + n

(* How many elements from l on have the offset of lhs[l].                  *)
RunLength ==
  Cardinality({i \in l..Len(lhs) : \A j \in l..i : lhs[j].offset = lhs[l].offset})

(* *o++ = *lhs++, n times.                                                 *)
Copy(n) ==
  /\ lhs' = [i \in 1..Len(lhs) |-> IF i \in o .. o + n - 1 THEN lhs[l + i - o] ELSE lhs[i]]
  /\ o' = o + n /\ l' = l + n

(* The loop ends; what is left in front of o is the result.                *)
Done == phase' = "done" /\ UNCHANGED <<op, orig, lhs, rhs, l, r, o, result>>
-----------------------------------------------------------------------------
(* Mutant of Intersect: of several elements with the offset one is copied. *)
IntersectOne ==
  /\ op = "intersect" /\ Both
  /\ CASE lhs[l].offset = rhs[r].offset -> Copy(1) /\ r' = r + 1
       [] lhs[l].offset < rhs[r].offset -> l' = l + 1 /\ UNCHANGED <<lhs, o, r>>
       [] lhs[l].offset > rhs[r].offset -> r' = r + 1 /\ UNCHANGED <<lhs, o, l>>
  /\ UNCHANGED <<op, orig, rhs, result, phase>>

Intersect ==
  /\ op = "intersect" /\ Both
  /\ CASE lhs[l].offset = rhs[r].offset -> Copy(RunLength) /\ r' = r + 1
       [] lhs[l].offset < rhs[r].offset -> l' = l + 1 /\ UNCHANGED <<lhs, o, r>>
       [] lhs[l].offset > rhs[r].offset -> r' = r + 1 /\ UNCHANGED <<lhs, o, l>>
  /\ UNCHANGED <<op, orig, rhs, result, phase>>

(* Mutant of Subtract: an element that is not there is waited for.         *)
SubtractWaits ==
  /\ op = "subtract" /\ Both
  /\ CASE lhs[l].offset = rhs[r].offset ->
            l' = l + RunLength /\ UNCHANGED <<lhs, o, r>>
       [] lhs[l].offset < rhs[r].offset -> Copy(1) /\ UNCHANGED r
       [] lhs[l].offset > rhs[r].offset -> UNCHANGED <<lhs, o, l, r>>
  /\ UNCHANGED <<op, orig, rhs, result, phase>>

Subtract ==
  /\ op = "subtract" /\ Both
  /\ CASE lhs[l].offset = rhs[r].offset ->
            l' = l + RunLength /\ r' = r + 1 /\ UNCHANGED <<lhs, o>>
       [] lhs[l].offset < rhs[r].offset -> Copy(1) /\ UNCHANGED r
       [] lhs[l].offset > rhs[r].offset -> r' = r + 1 /\ UNCHANGED <<lhs, o, l>>
  /\ UNCHANGED <<op, orig, rhs, result, phase>>

SubtractRest ==
  /\ Behind("subtract")
  /\ Copy(Len(lhs) + 1 - l) /\ phase' = "done"
  /\ UNCHANGED <<op, orig, rhs, r, result>>

Joins(a, b) == IF op = "greater" THEN a > b ELSE a < b

Join ==
  /\ op \in {"greater", "less"} /\ Both
  /\ CASE lhs[l].offset < rhs[r].offset -> l' = l + 1 /\ UNCHANGED <<lhs, o, r>>
       [] lhs[l].offset > rhs[r].offset -> r' = r + 1 /\ UNCHANGED <<lhs, o, l>>
       [] lhs[l].offset = rhs[r].offset ->
            /\ IF Joins(lhs[l].score, rhs[r].score) THEN Copy(1)
               ELSE l' = l + 1 /\ UNCHANGED <<lhs, o>>
            /\ r' = r + 1
  /\ UNCHANGED <<op, orig, rhs, result, phase>>

(* Mutant of Union: the list with the larger offset goes first.            *)
UnionSwapped ==
  /\ op = "union" /\ Both
  /\ IF lhs[l].offset > rhs[r].offset
     THEN result' = Append(result, lhs[l]) /\ l' = l + 1 /\ UNCHANGED r
     ELSE /\ result' = Append(result, rhs[r])
          /\ l' = IF lhs[l].offset = rhs[r].offset THEN l + 1 ELSE l
          /\ r' = r + 1
  /\ UNCHANGED <<op, orig, lhs, rhs, o, phase>>

Union ==
  /\ op = "union" /\ Both
  /\ IF lhs[l].offset < rhs[r].offset
     THEN result' = Append(result, lhs[l]) /\ l' = l + 1 /\ UNCHANGED r
     ELSE /\ result' = Append(result, rhs[r])
          /\ l' = IF lhs[l].offset = rhs[r].offset THEN l + 1 ELSE l
          /\ r' = r + 1
  /\ UNCHANGED <<op, orig, lhs, rhs, o, phase>>

UnionRest ==
  /\ Behind("union")
  /\ result' = result \o SubSeq(lhs, l, Len(lhs)) \o SubSeq(rhs, r, Len(rhs))
  /\ phase' = "done"
  /\ UNCHANGED <<op, orig, lhs, rhs, l, r, o>>

(* RemoveDuplicates, MAX and MIN.                                          *)
Prefers(new, old) == IF op = "max" THEN new > old ELSE new < old

RemoveDuplicate ==
  /\ op \in Unary /\ phase = "running" /\ l <= Len(lhs)
  /\ IF lhs[l].offset /= lhs[o - 1].offset THEN Copy(1)
     ELSE /\ lhs' = IF Prefers(lhs[l].score, lhs[o - 1].score)
                    THEN [lhs EXCEPT ![o - 1].score = lhs[l].score] ELSE lhs
          /\ l' = l + 1 /\ UNCHANGED o
  /\ UNCHANGED <<op, orig, rhs, r, result, phase>>

OrderBy ==
  /\ op = "orderby" /\ Both
  /\ CASE lhs[l].offset < rhs[r].offset ->
            lhs' = [lhs EXCEPT ![l].score = MinusInf] /\ l' = l + 1 /\ UNCHANGED r
       [] lhs[l].offset > rhs[r].offset -> r' = r + 1 /\ UNCHANGED <<lhs, l>>
       [] lhs[l].offset = rhs[r].offset ->
            lhs' = [lhs EXCEPT ![l].score = rhs[r].score] /\ l' = l + 1 /\ r' = r + 1
  /\ UNCHANGED <<op, orig, rhs, o, result, phase>>

OrderByRest ==
  /\ Behind("orderby")
  /\ lhs' = [i \in 1..Len(lhs) |->
               IF i < l THEN lhs[i] ELSE [lhs[i] EXCEPT !.score = MinusInf]]
  /\ l' = Len(lhs) + 1 /\ phase' = "done"
  /\ UNCHANGED <<op, orig, rhs, r, o, result>>

(* The callback of LookupIndexKey in ca_schema_query.  A match moves on in *)
(* rhs alone: each of several elements of one offset there is output.      *)
Filter ==
  /\ op = "thresholds" /\ Both
  /\ CASE lhs[l].offset = rhs[r].offset /\ ~(rhs[r].score >= Low /\ rhs[r].score < High) ->
            r' = r + 1 /\ UNCHANGED <<lhs, o, l, phase>>
       [] lhs[l].offset = rhs[r].offset /\ rhs[r].score >= Low /\ rhs[r].score < High ->
            /\ IF o <= Len(lhs)
               THEN lhs' = [lhs EXCEPT ![o] = rhs[r]] /\ UNCHANGED phase
               ELSE phase' = "undefined" /\ UNCHANGED lhs
            /\ o' = o + 1 /\ r' = r + 1 /\ UNCHANGED l
       [] lhs[l].offset > rhs[r].offset -> r' = r + 1 /\ UNCHANGED <<lhs, o, l, phase>>
       [] lhs[l].offset < rhs[r].offset -> l' = l + 1 /\ UNCHANGED <<lhs, o, r, phase>>
  /\ UNCHANGED <<op, orig, rhs, result>>

Erase ==
  \/ op \in {"intersect", "greater", "less", "thresholds"} /\ phase = "running" /\ ~Both /\ Done
  \/ op \in Unary /\ phase = "running" /\ l > Len(lhs) /\ Done

Next ==
  \/ Intersect \/ Subtract \/ SubtractRest \/ Join \/ Union \/ UnionRest
  \/ RemoveDuplicate \/ OrderBy \/ OrderByRest \/ Filter \/ Erase

Spec == Init /\ [][Next]_vars
FairSpec == Spec /\ WF_vars(Next)
-----------------------------------------------------------------------------
Output == CASE op = "union" -> result
            [] op = "orderby" -> lhs
            [] OTHER -> SubSeq(lhs, 1, o - 1)

(* The elements of one list that an operator keeps, given the other one.   *)
InThresholds(v) == Low <= v.score /\ v.score < High
Keeps(i) ==
  CASE op = "intersect" -> orig[i].offset \in Offsets(rhs)
    [] op = "subtract" -> orig[i].offset \notin Offsets(rhs)
    [] op \in {"greater", "less"} ->
         \E j \in 1..Len(rhs) :
           rhs[j].offset = orig[i].offset /\ Joins(orig[i].score, rhs[j].score)
    [] op = "thresholds" ->
         \E j \in 1..Len(rhs) : rhs[j].offset = orig[i].offset /\ InThresholds(rhs[j])

(* The output consists of exactly those, in their order: m has the place   *)
(* that each was at.  The filter puts the score of the index in.           *)
Selects(s) ==
  \E m \in [1..Len(s) -> 1..Len(orig)] :
    /\ \A k, n \in 1..Len(s) : k < n => m[k] < m[n]
    /\ \A i \in 1..Len(orig) : Keeps(i) <=> \E k \in 1..Len(s) : m[k] = i
    /\ \A k \in 1..Len(s) :
         IF op = "thresholds"
         THEN s[k].offset = orig[m[k]].offset /\ \E j \in 1..Len(rhs) : s[k] = rhs[j]
         ELSE s[k] = orig[m[k]]

(* Every element has the score that the other list has for its offset.     *)
ScoredBy(s) ==
  /\ Len(s) = Len(orig)
  /\ \A i \in 1..Len(s) :
       /\ s[i].offset = orig[i].offset
       /\ \A j \in 1..Len(rhs) : rhs[j].offset = s[i].offset => s[i].score = rhs[j].score
       /\ s[i].offset \notin Offsets(rhs) => s[i].score = MinusInf

(* Of the elements of an offset one is left, and none of them is better.   *)
BestOf(s) ==
  /\ Unique(s) /\ Offsets(s) = Offsets(orig)
  /\ \A k \in 1..Len(s) :
       /\ \E i \in 1..Len(orig) : s[k] = orig[i]
       /\ \A i \in 1..Len(orig) :
            orig[i].offset = s[k].offset => ~Prefers(orig[i].score, s[k].score)

(* The sets that the operators stand for come out of the loops, although   *)
(* output and input share the list: AND and - work on any lists; the ones  *)
(* that pair elements (comparisons, ORDER BY, thresholds) on lists in      *)
(* which an offset comes once; and an offset that came several times comes *)
(* once, with the best of its scores, out of RemoveDuplicates, MAX or MIN. *)
ComputesSets ==
  phase = "done" =>
    CASE op \in {"intersect", "subtract"} -> Selects(Output)
      [] op \in Unary -> BestOf(Output)
      [] op = "union" -> Offsets(Output) = Offsets(orig) \cup Offsets(rhs)
      [] op \in {"greater", "less", "thresholds"} ->
           Unique(orig) /\ Unique(rhs) => Selects(Output)
      [] op = "orderby" -> Unique(orig) /\ Unique(rhs) => ScoredBy(Output)

(* The next operator needs its lists ascending: every loop leaves them so. *)
StaysAscending ==
  phase = "done" /\ (op = "thresholds" => Unique(rhs)) => Ascending(Output)

(* Writing over the list does not reach what is still to be read, so every *)
(* element is read as it was.  (The filter writes over the element it has  *)
(* matched, with the same offset.)                                         *)
ReadsOriginals ==
  (op = "thresholds" => Unique(rhs)) =>
    /\ o <= l \/ (op = "thresholds" /\ o = l + 1)
    /\ phase /= "undefined"
    /\ \A i \in 1..Len(lhs) :
         i >= l => lhs[i].offset = orig[i].offset /\ (i >= o => lhs[i] = orig[i])

(* A loop over lists leaves the set it is named for, in ascending order,   *)
(* and writes only over what it has read.                                  *)
ListsComputed == ComputesSets /\ StaysAscending /\ ReadsOriginals

(* Every loop comes to its end.                                            *)
LoopEnds == <>(phase /= "running")

(* The filter writes inside the list, for any row of the index.            *)
FilterStaysInside == phase /= "undefined"
=============================================================================
