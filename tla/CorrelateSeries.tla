--------------------------- MODULE CorrelateSeries --------------------------
(***************************************************************************)
(* The body of a task of ca_schema_query_correlate (src/src/correlate.cc)  *)
(* on the data of one series: FilterByTimestamp, which writes its result   *)
(* over the series it reads, ProcessSeries, which looks for a score at     *)
(* which to cut the series in two, and ProcessRange, which counts the      *)
(* documents of a range of scores and decides whether to print it.  Every  *)
(* round of one of their loops is a step.                                  *)
(*                                                                         *)
(* A list is a sequence of an offset and a score.  ProcessQuery leaves no  *)
(* offset twice in offsets_A and offsets_B, and SubtractOffsets no offset  *)
(* in both; a series is sorted by offset only and may hold an offset       *)
(* several times.  Logarithms of odds are compared as the odds, fractions  *)
(* <<numerator, denominator>> of at least one: |log x| < log y is          *)
(* max(x, 1/x) < y.                                                        *)
(***************************************************************************)
EXTENDS Integers, Sequences, FiniteSets

CONSTANTS
  Cases,           \* the triples of offsets_A, offsets_B and a series
  Modes,           \* which overload of FilterByTimestamp is called
  Now,             \* time(nullptr) in days
  Share,           \* 20: a feature is present in a 1/Share of a set
  MinusInf, Inf    \* -HUGE_VAL and HUGE_VAL, below and above every score

Element == [offset : Nat, score : Int]
OffsetsOf(s) == {s[k].offset : k \in 1..Len(s)}
Finite(x) == MinusInf <= x /\ x <= Inf

ASSUME SeriesAssumption ==
  /\ Modes \subseteq {"none", "now", "events"}
  /\ Now \in Int /\ MinusInf \in Int /\ Inf \in Int /\ Share \in Nat \ {0}
  /\ \A c \in Cases :
       /\ c \in Seq(Element) \X Seq(Element) \X Seq(Element)
       /\ \A n \in 1..2 : /\ c[n] # <<>>
                          /\ \A j, k \in 1..Len(c[n]) : j < k => c[n][j].offset < c[n][k].offset
       /\ OffsetsOf(c[1]) \cap OffsetsOf(c[2]) = {}
       /\ \A j, k \in 1..Len(c[3]) : j < k => c[3][j].offset <= c[3][k].offset
       /\ \A k \in 1..Len(c[3]) :
            LET score == c[3][k].score
            IN  /\ Finite(score) /\ Finite(Now - score)
                /\ \A n \in 1..2 : \A j \in 1..Len(c[n]) : Finite(c[n][j].score - score)

VARIABLES
  mode, A, B,
  series,    \* history: the row of the index table
  keys,      \* key_offsets
  i, a, b,   \* the next element of keys, of A (adj) and of B
  output,    \* where the next result goes in keys
  agg,       \* the scores at which the series may be cut, ascending
  mid, best, \* the next of them, and the best so far with its gain
  calls,     \* the calls of ProcessRange: their bounds
  count,     \* in the one that runs, the documents in A, in B, in either
  ranges,    \* those that returned: what they counted, and printed
  taskPhase  \* "filter", "process", "cut", "range", "done", or "undefined"
             \* after front() of an empty vector

filterVars == <<mode, A, B, series, keys, output>>
seriesVars == <<filterVars, i, a, b, agg, mid, best, calls, count, ranges, taskPhase>>

Matches(v) == v.offset \in OffsetsOf(A) \cup OffsetsOf(B)

(* Neither set is empty, and only a timestamped query and key filter.      *)
SeriesInit ==
  /\ \E c \in Cases : A = c[1] /\ B = c[2] /\ series = c[3]
  /\ mode \in Modes
  /\ keys = series
  /\ i = 1 /\ a = 1 /\ b = 1 /\ output = 1
  /\ agg = <<>> /\ mid = 1 /\ best = [mid |-> 1, gain |-> <<1, 1>>]
  /\ calls = <<>> /\ count = <<0, 0, 0>> /\ ranges = <<>>
  /\ taskPhase = (IF mode = "none" THEN "process" ELSE "filter")
-----------------------------------------------------------------------------
(* FilterByTimestamp.                                                      *)

Least(S) == CHOOSE x \in S : \A y \in S : x <= y

(* The first element behind s[k] with another offset.                      *)
NextOffset(s, k) ==
  Least({n \in k + 1 .. Len(s) + 1 : n <= Len(s) => s[n].offset # s[k].offset})

(* The earliest event of the document that s[k] begins.                    *)
MinScore(s, k) == Least({s[n].score : n \in k .. NextOffset(s, k) - 1})

(* Mutant of Write: the output is advanced with the assignment and again.  *)
WriteTwice(v) ==
  /\ keys' = [keys EXCEPT ![output] = v]
  /\ output' = output + 2

Write(v) ==
  /\ keys' = [keys EXCEPT ![output] = v]
  /\ output' = output + 1

(* Mutant of Keep: the event's own day counts as before it.                *)
KeepSameDay(min) ==
  IF keys[i].score <= min
  THEN Write([offset |-> keys[i].offset, score |-> min - keys[i].score])
  ELSE UNCHANGED <<keys, output>>

(* The document's first value, when it is from before its event.           *)
Keep(min) ==
  IF keys[i].score < min
  THEN Write([offset |-> keys[i].offset, score |-> min - keys[i].score])
  ELSE UNCHANGED <<keys, output>>

Reading == taskPhase = "filter" /\ i <= Len(keys)

(* A round of the loop over the series and the events of A.                *)
FilterNow ==
  /\ mode = "now" /\ Reading /\ a <= Len(A)
  /\ \/ /\ keys[i].offset = A[a].offset
        /\ Keep(MinScore(A, a))
        /\ i' = NextOffset(keys, i) /\ a' = NextOffset(A, a)
     \/ /\ keys[i].offset < A[a].offset
        /\ Write([keys[i] EXCEPT !.score = Now - @])
        /\ i' = i + 1 /\ UNCHANGED a
     \/ /\ keys[i].offset > A[a].offset
        /\ a' = a + 1 /\ UNCHANGED <<keys, output, i>>
  /\ UNCHANGED <<mode, A, B, series, b, agg, mid, best, calls, count, ranges, taskPhase>>

At(s, k) == k <= Len(s) /\ s[k].offset = keys[i].offset
Before(s, k) == k <= Len(s) /\ s[k].offset < keys[i].offset

(* CA_offset_score_lower_bound, and the loops that skip as it does: the    *)
(* first place from k on whose offset is not less than that of keys[i].    *)
SkipTo(s, k) ==
  Least({n \in k .. Len(s) + 1 : n <= Len(s) => s[n].offset >= keys[i].offset})

(* A round of the loop over the series and the events of A and B.          *)
FilterEvents ==
  /\ mode = "events" /\ Reading
  /\ \/ /\ At(A, a)
        /\ Keep(MinScore(A, a))
        /\ a' = NextOffset(A, a) /\ i' = NextOffset(keys, i) /\ UNCHANGED b
     \/ /\ ~At(A, a) /\ At(B, b)
        /\ Keep(MinScore(B, b))
        /\ b' = NextOffset(B, b) /\ i' = NextOffset(keys, i) /\ UNCHANGED a
     \/ /\ ~At(A, a) /\ ~At(B, b) /\ Before(A, a)
        /\ a' = SkipTo(A, a) /\ UNCHANGED <<keys, output, i, b>>
     \/ /\ ~At(A, a) /\ ~At(B, b) /\ ~Before(A, a) /\ Before(B, b)
        /\ b' = SkipTo(B, b) /\ UNCHANGED <<keys, output, i, a>>
     \/ /\ ~At(A, a) /\ ~At(B, b) /\ ~Before(A, a) /\ ~Before(B, b)
        /\ i' = NextOffset(keys, i) /\ UNCHANGED <<keys, output, a, b>>
  /\ UNCHANGED <<mode, A, B, series, agg, mid, best, calls, count, ranges, taskPhase>>

(* keys.erase(output, keys.end()).                                         *)
FilterEnd ==
  /\ taskPhase = "filter"
  /\ i > Len(keys) \/ (mode = "now" /\ a > Len(A))
  /\ keys' = SubSeq(keys, 1, output - 1)
  /\ taskPhase' = "process"
  /\ UNCHANGED <<mode, A, B, series, i, a, b, output, agg, mid, best, calls, count, ranges>>
-----------------------------------------------------------------------------
(* ProcessSeries.                                                          *)

LimitOf(s) == LET n == Len(s) \div Share IN IF n > 1 THEN n ELSE 1

(* How far the odds of A among n documents, m of them in A, are from the   *)
(* prior odds, as a fraction of at least one.                              *)
Gain(m, n) ==
  LET x == (m + 1) * (Len(B) + 1)
      y == (n - m + 1) * (Len(A) + 1)
  IN IF x >= y THEN <<x, y>> ELSE <<y, x>>
Exceeds(g, h) == g[1] * h[2] > h[1] * g[2]

Apart(s) ==
  \/ s[Len(s)].offset < keys[1].offset
  \/ s[1].offset > keys[Len(keys)].offset

NeedBinning == \E k \in 1..Len(keys) : keys[k].score # 0

(* The values that count, classes.                                         *)
Classes == {k \in 1..Len(keys) : Matches(keys[k])}

(* The scores they have, ascending.                                        *)
Sorts(s) ==
  /\ \A m, n \in 1..Len(s) : m < n => s[m] < s[n]
  /\ {s[n] : n \in 1..Len(s)} = {keys[k].score : k \in Classes}

TooFew ==
  LET n == Cardinality(Classes)
  IN n = 0 \/ n < Least({LimitOf(A), LimitOf(B)})

Whole == <<[min |-> MinusInf, max |-> Inf]>>

(* The start of the loops of ProcessRange.                                 *)
StartRange == i' = 1 /\ a' = 1 /\ b' = 1 /\ count' = <<0, 0, 0>>

(* Nothing to look at: no document of either set, or too few values.       *)
Hopeless == (Apart(A) /\ Apart(B)) \/ (NeedBinning /\ TooFew)

ProcessSeries ==
  /\ taskPhase = "process" /\ keys # <<>>
  /\ \/ /\ Hopeless
        /\ taskPhase' = "done" /\ UNCHANGED <<i, a, b, agg, calls, count>>
     \/ /\ ~Hopeless /\ ~NeedBinning
        /\ calls' = Whole /\ StartRange
        /\ taskPhase' = "range" /\ UNCHANGED agg
     \/ /\ ~Hopeless /\ NeedBinning
        /\ \E n \in 1..Len(keys) : \E s \in [1..n -> {keys[k].score : k \in Classes}] :
             Sorts(s) /\ agg' = s
        /\ taskPhase' = "cut" /\ UNCHANGED <<i, a, b, calls, count>>
  /\ UNCHANGED <<filterVars, mid, best, ranges>>

(* The values of a set up to a score, and those of either set.             *)
UpTo(s, score) ==
  Cardinality({k \in Classes : keys[k].offset \in OffsetsOf(s) /\ keys[k].score <= score})
EitherUpTo(score) == Cardinality({k \in Classes : keys[k].score <= score})

(* The gain of the values up to a score, and of those above it; of too few *)
(* values it is none.                                                      *)
RangeGain(inA, inB, inEither) ==
  IF inA >= LimitOf(A) \/ inB >= LimitOf(B) THEN Gain(inA, inEither) ELSE <<1, 1>>
LowerGain(score) ==
  RangeGain(UpTo(A, score), UpTo(B, score), EitherUpTo(score))
UpperGain(score) ==
  RangeGain(UpTo(A, Inf) - UpTo(A, score), UpTo(B, Inf) - UpTo(B, score),
            EitherUpTo(Inf) - EitherUpTo(score))

Better(old, gain) ==
  IF Exceeds(gain, old.gain) THEN [mid |-> mid, gain |-> gain] ELSE old

(* A round of the loop over the partitioning points.                       *)
TryMid ==
  /\ taskPhase = "cut" /\ mid <= Len(agg)
  /\ best' = Better(Better(best, LowerGain(agg[mid])), UpperGain(agg[mid]))
  /\ mid' = mid + 1
  /\ UNCHANGED <<filterVars, i, a, b, agg, calls, count, ranges, taskPhase>>

(* Mutant of Split: the first range ends before its last score.            *)
SplitSkips ==
  IF best.mid = 1 \/ best.mid = Len(agg) \/ Exceeds(<<105, 100>>, best.gain)
  THEN Whole
  ELSE <<[min |-> MinusInf, max |-> agg[best.mid] - 1],
         [min |-> agg[best.mid + 1], max |-> Inf]>>

(* One range when no cut is worth it, else the two sides of the best cut.  *)
Split ==
  IF best.mid = 1 \/ best.mid = Len(agg) \/ Exceeds(<<105, 100>>, best.gain)
  THEN Whole
  ELSE <<[min |-> MinusInf, max |-> agg[best.mid]],
         [min |-> agg[best.mid + 1], max |-> Inf]>>

EndCut ==
  /\ taskPhase = "cut" /\ mid > Len(agg)
  /\ calls' = Split /\ StartRange
  /\ taskPhase' = "range"
  /\ UNCHANGED <<filterVars, agg, mid, best, ranges>>

(* key_offsets.front() when the filter left nothing.                       *)
FrontOfEmpty ==
  /\ taskPhase = "process" /\ keys = <<>>
  /\ taskPhase' = "undefined"
  /\ UNCHANGED <<filterVars, i, a, b, agg, mid, best, calls, count, ranges>>
-----------------------------------------------------------------------------
(* ProcessRange.                                                           *)

Current == Len(ranges) + 1
InRange(v, call) == call.min <= v.score /\ v.score <= call.max
One(found) == IF found THEN 1 ELSE 0

(* Mutant of NextDocument: duplicate offsets are not skipped.              *)
NextValue == i + 1

NextDocument == NextOffset(keys, i)

(* A round of the loop over the series.                                    *)
CountDocument ==
  /\ taskPhase = "range" /\ i <= Len(keys)
  /\ IF ~InRange(keys[i], calls[Current])
     THEN i' = i + 1 /\ UNCHANGED <<a, b, count>>
     ELSE LET inA == At(A, SkipTo(A, a))
              inB == At(B, SkipTo(B, b))
          IN  /\ a' = SkipTo(A, a) /\ b' = SkipTo(B, b)
              /\ count' = <<count[1] + One(inA), count[2] + One(inB),
                            count[3] + One(inA \/ inB)>>
              /\ i' = NextDocument
  /\ UNCHANGED <<filterVars, agg, mid, best, calls, ranges, taskPhase>>

(* The cutoffs, and the next call if there is one.                         *)
ReturnRange ==
  /\ taskPhase = "range" /\ i > Len(keys)
  /\ ranges' = Append(ranges,
       [count |-> count,
        printed |-> /\ count[1] >= LimitOf(A) \/ count[2] >= LimitOf(B)
                    /\ ~Exceeds(<<55, 45>>, Gain(count[1], count[3]))])
  /\ StartRange
  /\ taskPhase' = IF Current = Len(calls) THEN "done" ELSE "range"
  /\ UNCHANGED <<filterVars, agg, mid, best, calls>>

SeriesNext ==
  \/ FilterNow \/ FilterEvents \/ FilterEnd
  \/ ProcessSeries \/ FrontOfEmpty \/ TryMid \/ EndCut
  \/ CountDocument \/ ReturnRange

SeriesSpec == SeriesInit /\ [][SeriesNext]_seriesVars
-----------------------------------------------------------------------------
(* While FilterByTimestamp writes over the series it reads, what it has    *)
(* not read yet is still what the row held.                                *)
FilterReadsRow ==
  taskPhase = "filter" =>
    /\ output <= i /\ Len(keys) = Len(series)
    /\ \A n \in i..Len(series) : keys[n] = series[n]

(* What a document's value becomes: the days before its event, or before   *)
(* now for a document that the overload with `now' finds no event of.      *)
FirstOf(s, k) == k = 1 \/ s[k - 1].offset # s[k].offset
ScoresOf(s, offset) == {s[n].score : n \in {m \in 1..Len(s) : s[m].offset = offset}}
EventOf(offset) ==
  ScoresOf(A, offset) \cup (IF mode = "events" THEN ScoresOf(B, offset) ELSE {})
DaysBefore(k) ==
  LET v == series[k]
      events == EventOf(v.offset)
  IN IF events # {}
     THEN {e - v.score : e \in {d \in events : v.score < d /\ FirstOf(series, k)}}
     ELSE {Now - v.score : n \in {m \in {1} : mode = "now" /\ v.offset < A[Len(A)].offset}}

(* Keys holds what becomes of the values that stay, in their order.        *)
Filtered(places) ==
  /\ \A n, m \in 1..Len(keys) : n < m => places[n] < places[m]
  /\ {places[n] : n \in 1..Len(keys)} = {k \in 1..Len(series) : DaysBefore(k) # {}}
  /\ \A n \in 1..Len(keys) : /\ keys[n].offset = series[places[n]].offset
                             /\ keys[n].score \in DaysBefore(places[n])

(* FilterByTimestamp leaves, in the order of the row, the first value of   *)
(* each document with an event, if that is from before the event, as days  *)
(* before it; and with `now', the values of the documents without one that *)
(* lie before the last event's document, as days before now.  No value is  *)
(* invented, doubled or matched with another document's event; and nothing *)
(* is overwritten before it is read.                                       *)
FiltersByEvent ==
  /\ FilterReadsRow
  /\ (taskPhase = "process" /\ mode # "none") =>
       \E places \in [1..Len(keys) -> 1..Len(series)] : Filtered(places)

(* The documents with a value within the bounds of a call.                 *)
DocumentsIn(call) ==
  {keys[k].offset : k \in {n \in 1..Len(keys) : InRange(keys[n], call)}}

(* ProcessRange counts every document of A, of B and of either once, when  *)
(* one of its values is in the range, though a document may have many.     *)
CountsDocumentsOnce ==
  \A n \in 1..Len(ranges) :
    LET in == DocumentsIn(calls[n])
    IN ranges[n].count = <<Cardinality(in \cap OffsetsOf(A)),
                           Cardinality(in \cap OffsetsOf(B)),
                           Cardinality(in \cap (OffsetsOf(A) \cup OffsetsOf(B)))>>

(* The ranges that ProcessSeries tries hold each value of a document of    *)
(* either set exactly once: a cut loses no value and shares none.          *)
CallsPartition ==
  calls # <<>> =>
    \A k \in Classes : \E n \in 1..Len(calls) :
      \A m \in 1..Len(calls) : InRange(keys[k], calls[m]) <=> m = n

(* ProcessSeries cuts a series so that each value is in one range, and     *)
(* ProcessRange counts a document once, however many values it has there.  *)
RangesPartition == CallsPartition /\ CountsDocumentsOnce

(* "discard information that was unavailable at the time of the event" and *)
(* no other: a document of either set that has a value from before its     *)
(* event, or has no event to be before, keeps one.                         *)
DiscardsOnlyUnavailable ==
  (taskPhase = "process" /\ mode # "none") =>
    \A k \in 1..Len(series) :
      (/\ Matches(series[k])
       /\ \A e \in EventOf(series[k].offset) : series[k].score < e) =>
      series[k].offset \in OffsetsOf(keys)

(* "No subrange was more predictive than including everything": when a     *)
(* series is tried as a whole, no range from the lowest score on, with as  *)
(* many documents as are asked for, is more predictive.                    *)
Predictive(max) ==
  LET in == DocumentsIn([min |-> MinusInf, max |-> max])
  IN RangeGain(Cardinality(in \cap OffsetsOf(A)), Cardinality(in \cap OffsetsOf(B)),
               Cardinality(in \cap (OffsetsOf(A) \cup OffsetsOf(B))))
WholeIsBest ==
  Len(calls) = 1 =>
    \A n \in 1..Len(agg) : ~Exceeds(Predictive(agg[n]), Predictive(Inf))

(* ProcessSeries is called on a series: its first value is there.          *)
SeriesHasFront == taskPhase # "undefined"
=============================================================================
