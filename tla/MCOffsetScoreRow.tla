-------------------------- MODULE MCOffsetScoreRow --------------------------
(* Bytes of 4 bits and words of 4 bytes: an integer takes one to six       *)
(* bytes, a block packs 32 bits, a mask byte covers four values, a run     *)
(* counts up to four bytes.  Short series are enumerated over offsets on   *)
(* both sides of byte and word boundaries; long ones follow patterns of    *)
(* steps, scores and percentiles that fill runs, nibbles and the step      *)
(* table, and patterns for which Oroch chooses each of its encodings.      *)
EXTENDS OffsetScoreRow

CONSTANTS Lengths,     \* of the long series
          OldLengths,  \* of those in the old encoding
          PackLengths  \* of those that Oroch packs

Off == {0, 7, 8, 63, 64, 512, 32768, 65535}
Scores == {0, 1, 30, 32, -2, -32, -34, 510, 512, 8190, 8192,
           65534, 65536, -65536, -65538, NaN}
Bands == <<1, 2, 3, 4>>
NoBands == <<NaN, NaN, NaN, NaN>>
SomeBands == <<1, NaN, 3, 4>>

Val(o, s, p) == [offset |-> o, score |-> s, pct |-> p]

Singles == {<<Val(o, s, p)>> : o \in Off, s \in Scores,
                               p \in {Bands, NoBands, SomeBands}}
Pairs == {<<Val(o, s, p), Val(oo, ss, pp)>> :
            o \in Off, oo \in Off, s \in {0, 1}, ss \in {-2, 33},
            p \in {Bands, NoBands}, pp \in {Bands, NoBands, SomeBands}}

(* The i-th value of the patterns.                                         *)
StepAt(k, i) == CASE k = 0 -> 0 [] k = 1 -> 1 [] k = 2 -> (i % 2) * 9
                  [] k = 3 -> (i % 3) + 1 [] k = 4 -> (i * i) % 40
OffsetAt(k, i) == LET o[j \in 1..i] == IF j = 1 THEN 3 ELSE o[j - 1] + StepAt(k, j)
                  IN o[i]
BandAt(k, i) == CASE k = 0 -> i = 1 [] k = 1 -> TRUE [] k = 2 -> i > 4
                  [] k = 3 -> i % 4 /= 0 [] k = 4 -> i <= 17

Long == {[i \in 1..n |-> Val(OffsetAt(k, i), i % 5,
                             IF BandAt(b, i) THEN Bands ELSE SomeBands)] :
           n \in Lengths, k \in 0..4, b \in 0..4}
Plains == {[i \in 1..n |-> Val(OffsetAt(k, i), (i % 5) * m, NoBands)] :
             n \in Lengths, k \in 0..4, m \in 1..2}

(* Full words; a far origin; few and many outliers, far apart and close.   *)
PackAt(k, i) == CASE k = 0 -> 20000 * (1 + (i % 2)) [] k = 1 -> 1000 + (i % 4)
                  [] k = 2 -> IF i % 14 = 3 THEN 60000 ELSE i % 2
                  [] k = 3 -> IF i \in 2..10 THEN 40000 ELSE i % 2
                  [] k = 4 -> IF i % 5 = 0 THEN 300 ELSE i % 3
                  [] k = 5 -> 7
PackOffset(k, i) == LET o[j \in 1..i] ==
                          IF j = 1 THEN 3 ELSE (o[j - 1] + PackAt(k, j)) % Word
                    IN o[i]
Packings == {[i \in 1..n |-> Val(PackOffset(k, i), 2 * AsType(TRUE, PackAt(m, i)), NoBands)] :
               n \in PackLengths, k \in 0..5, m \in 0..5}

MCSeries == {<<>>} \cup Singles \cup Pairs \cup Long \cup Plains \cup Packings
MCOldSeries ==
  {[i \in 1..n |-> Val(OffsetAt(k, i) * g, 6 + (i % c) * m, NoBands)] :
     n \in OldLengths, k \in 0..4, g \in 1..2, c \in 1..3, m \in {1, 2, 64}}
MCTails == {<<>>, <<Val(9, 4, NoBands)>>, <<Val(9, 4, Bands)>>,
            <<Val(1, 2, NoBands), Val(1, 4, NoBands)>>,
            <<Val(1, 1, NoBands), Val(1, 4, NoBands)>>}
=============================================================================
