------------------------------- MODULE Codec -------------------------------
(***************************************************************************)
(* The encodings of a row of offset/score values: the writer of            *)
(* src/src/format.cc and the three readers of src/src/parse.cc             *)
(* (ca_offset_score_parse, ca_offset_score_count and                       *)
(* ca_offset_score_max_offset), as operators on sequences of bytes.        *)
(*                                                                         *)
(* Bytes and words have the sizes of Oroch, and the sizes of a float, of   *)
(* the struct and of the buffer keep their proportion to them.  A float    *)
(* takes Float (4) places of a row: its value stands in the first and the  *)
(* others are zero.  So may one place hold a type, a score's flags or a    *)
(* number of bits that a scaled byte would be too small for.  A score is a *)
(* number of halves: an even one in the range of a word is what llrintf()  *)
(* finds to be an integer.  NaN is a number that no other float has.       *)
(*                                                                         *)
(* A reader is a function of the row and of the place it reads from, and   *)
(* returns a record: `at' is where it stopped, `ok' is FALSE when a        *)
(* KJ_REQUIRE failed.                                                      *)
(***************************************************************************)
EXTENDS Oroch

CONSTANTS Nibble,     \* 16, half a byte
          MaxSteps,   \* 256, no step map has as many steps
          NaN         \* the float that is not finite

ASSUME CodecAssumption ==
  /\ Nibble * Nibble = Bytes /\ 2 ^ MaskBits = Bytes
  /\ WordBytes \in Nat /\ WordBytes % 2 = 0 /\ WordBytes > 0
  /\ MaxSteps \in Nat /\ NaN \in Int

Float == WordBytes \div 2    \* 4, sizeof(float)
StructSize == 4 * WordBytes  \* 32, sizeof(struct ca_offset_score)
Room == 4 * WordBytes        \* 32, what the buffer has besides the structs

(* enum ca_offset_score_type.                                              *)
WITH_PREDICTION == 0
FLEXI == 6
DELTA_OROCH_FLOAT == 7
DELTA_OROCH_OROCH == 8
SINGLE_FLOAT == 9
SINGLE_POSITIVE(n) == 8 + 2 * n
SINGLE_NEGATIVE(n) == 9 + 2 * n
EMPTY == 16

(* struct ca_offset_score; pct holds the four percentiles.                 *)
Plain(offset, score) ==
  [offset |-> offset, score |-> score, pct |-> [k \in 1..4 |-> NaN]]

IsFinite(x) == x /= NaN
HasBands(v) == \A k \in 1..4 : IsFinite(v.pct[k])

(* ca_offset_score::HasPercentiles looks at the first one only.            *)
HasPercentiles(v) == IsFinite(v.pct[1])

IsIntegral(score) ==
  /\ IsFinite(score) /\ score % 2 = 0
  /\ score >= -Word /\ score < Word
EncodeFloat(x) == <<x>> \o [i \in 1 .. Float - 1 |-> 0]
Deltas(vs) ==
  [i \in 1 .. Len(vs) - 1 |-> (vs[i + 1].offset - vs[i].offset) % Word]

(* The offsets that start at `first' and go on by the given steps.         *)
Offsets(first, steps) ==
  LET o[i \in 1 .. Len(steps) + 1] ==
        IF i = 1 THEN first ELSE (o[i - 1] + steps[i - 1]) % Word
  IN o
-----------------------------------------------------------------------------
(* Integers: groups of seven bits, the highest first.                      *)

ca_format_integer(v) ==
  LET high[x \in Nat] ==
        IF x = 0 THEN <<>>
        ELSE Append(high[x \div Base], Base + (x % Base))
  IN Append(high[v \div Base], v % Base)

ca_parse_integer(s, at) ==
  LET p[i \in Nat, r \in Nat] ==
        IF s[i] >= Base THEN p[i + 1, Base * (r + s[i] - Base)]
        ELSE [v |-> r + s[i], at |-> i + 1]
  IN p[at, 0]

(* n integers from `at' on, and n bytes of a run-length code.              *)
AddInteger(r, x) == [v |-> Append(r.v, x.v), at |-> x.at]
ParseIntegers(s, at, n) ==
  LET p[i \in 0..n, r \in [v : Seq(Nat), at : Nat]] ==
        IF i = n THEN r
        ELSE p[i + 1, AddInteger(r, ca_parse_integer(s, r.at))]
  IN p[0, [v |-> <<>>, at |-> at]]

AddByte(s, v, r) == [v |-> Append(v, RLEValue(s, r)), r |-> r]
RleBytes(s, at, n) ==
  LET p[i \in 0..n, q \in [v : Seq(Byte), r : [at : Nat, run : Nat]]] ==
        IF i = n THEN [v |-> q.v, at |-> q.r.at, ok |-> q.r.run = 0]
        ELSE p[i + 1, AddByte(s, q.v, ReadRLEByte(s, q.r))]
  IN p[0, [v |-> <<>>, r |-> InitRLE(at)]]

RleEncode(bytes) ==
  CA_rle_flush(FoldLeft(CA_rle_put, CA_rle_init_write, bytes)).data

Floats(s, at, n) == [i \in 1..n |-> s[at + Float * (i - 1)]]
-----------------------------------------------------------------------------
(* The writer.                                                             *)

(* Mutant of SingleWidth: 256 is taken to fit a byte.                      *)
SingleWidthInclusive(x) ==
  IF x > Bytes ^ 3 THEN 0
  ELSE CHOOSE n \in 1..3 : /\ x <= Bytes ^ n
                           /\ \A k \in 1 .. n - 1 : x > Bytes ^ k

(* The bytes that hold x, or 0 when three are not enough.                  *)
SingleWidth(x) ==
  IF x >= Bytes ^ 3 THEN 0
  ELSE CHOOSE n \in 1..3 : /\ x < Bytes ^ n
                           /\ \A k \in 1 .. n - 1 : x >= Bytes ^ k

EncodeOffsetScoreSingle(v) ==
  LET x == v.score \div 2
      inverted == IF x >= 0 THEN x ELSE -x - 1     \* ~score
      n == IF IsIntegral(v.score) THEN SingleWidth(inverted) ELSE 0
      type == CASE n = 0 -> SINGLE_FLOAT
                [] n > 0 /\ x >= 0 -> SINGLE_POSITIVE(n)
                [] OTHER -> SINGLE_NEGATIVE(n)
  IN <<type>> \o varint_encode(v.offset)
       \o (IF n = 0 THEN EncodeFloat(v.score) ELSE LowBytes(inverted, n))

EncodeOffsetScoreOroch(vs) ==
  LET integral == \A i \in 1..Len(vs) : IsIntegral(vs[i].score)
  IN IF Len(vs) = 1 THEN EncodeOffsetScoreSingle(vs[1])
     ELSE <<IF integral THEN DELTA_OROCH_OROCH ELSE DELTA_OROCH_FLOAT>>
            \o varint_encode(Len(vs)) \o varint_encode(vs[1].offset)
            \o integer_encode(Deltas(vs), FALSE)
            \o (IF integral
                THEN integer_encode([i \in 1..Len(vs) |-> vs[i].score \div 2],
                                    TRUE)
                ELSE Concat([i \in 1..Len(vs) |-> EncodeFloat(vs[i].score)]))

(* The steps of a series: a table of the distinct ones in order, when they *)
(* are few, and then their places in it; else every step as it is.         *)
UseStepMap(vs) ==
  LET n == Cardinality(ToSet(Deltas(vs)))
  IN n < MaxSteps /\ n < Len(vs) \div 4

StepTable(vs) == SetToSortSeq(ToSet(Deltas(vs)), <)

MapSteps(d, t) ==
  ca_format_integer(Len(t))
    \o Concat([k \in 1..Len(t) |->
         ca_format_integer(t[k] - (IF k = 1 THEN 0 ELSE t[k - 1]))])
    \o Concat([i \in 1..Len(d) |->
         ca_format_integer((CHOOSE k \in 1..Len(t) : t[k] = d[i]) - 1)])

EncodeSteps(vs) ==
  CASE Len(vs) = 1 -> <<>>
    [] Len(vs) > 1 /\ UseStepMap(vs) -> MapSteps(Deltas(vs), StepTable(vs))
    [] OTHER -> ca_format_integer(0)
                  \o Concat([i \in 1 .. Len(vs) - 1 |->
                               ca_format_integer(Deltas(vs)[i])])

MaskBytes(n) == (n + MaskBits - 1) \div MaskBits
MaskBit(mask, i) ==
  (mask[(i - 1) \div MaskBits + 1] \div 2 ^ ((i - 1) % MaskBits)) % 2 = 1

ProbMask(vs) ==
  [b \in 1..MaskBytes(Len(vs)) |->
     MapThenSumSet(LAMBDA i : 2 ^ ((i - 1) % MaskBits),
       {i \in 1..Len(vs) : /\ (i - 1) \div MaskBits = b - 1
                           /\ HasBands(vs[i])})]

EncodeScores(vs, mask) ==
  Concat([i \in 1..Len(vs) |->
     EncodeFloat(vs[i].score) \o
     (IF MaskBit(mask, i)
      THEN Concat([k \in 1..4 |-> EncodeFloat(vs[i].pct[k])]) ELSE <<>>)])

(* ok is FALSE when the offsets are not in order.                          *)
EncodeOffsetScoreWithPrediction(vs) ==
  IF \E i \in 2..Len(vs) : vs[i].offset < vs[i - 1].offset
  THEN [ok |-> FALSE, bytes |-> <<>>]
  ELSE [ok |-> TRUE,
        bytes |-> <<WITH_PREDICTION>> \o ca_format_integer(Len(vs))
                    \o ca_format_integer(vs[1].offset) \o EncodeSteps(vs)
                    \o RleEncode(ProbMask(vs))
                    \o EncodeScores(vs, ProbMask(vs))]

(* Mutant of ca_offset_score_size: the percentiles are forgotten.          *)
SizeWithoutPercentiles(n) == Room + n * (StructSize - 4 * Float)

ca_offset_score_size(n) == Room + n * StructSize

ca_format_offset_score(vs) ==
  CASE vs = <<>> -> [ok |-> TRUE, bytes |-> <<EMPTY>>]
    [] \E i \in 1..Len(vs) : HasBands(vs[i]) ->
         EncodeOffsetScoreWithPrediction(vs)
    [] OTHER -> [ok |-> TRUE, bytes |-> EncodeOffsetScoreOroch(vs)]
-----------------------------------------------------------------------------
(* The readers of CA_OFFSET_SCORE_WITH_PREDICTION.                         *)

(* The table of steps t, of which there are n, and then the steps d.       *)
StepsFrom(count, n, t, d) ==
  [ok |-> /\ n <= count + 1
          /\ n > 0 => \A i \in 1 .. count - 1 : d.v[i] < n,
   at |-> d.at,
   v |-> IF n = 0 THEN d.v
         ELSE [i \in 1 .. count - 1 |-> Offsets(0, t)[d.v[i] + 2]]]
StepsBehind(s, count, t) ==
  StepsFrom(count, Len(t.v), t.v, ParseIntegers(s, t.at, count - 1))
TableBehind(s, count, n) ==
  StepsBehind(s, count, ParseIntegers(s, n.at, n.v))
ParseSteps(s, at, count) ==
  TableBehind(s, count, IF count > 1 THEN ca_parse_integer(s, at)
                        ELSE [v |-> 0, at |-> at])

(* What all three readers do up to the scores: `head' holds the number of  *)
(* values and the first offset.                                            *)
PredictionBody(head, steps, mask) ==
  [n |-> head.v[1], ok |-> steps.ok /\ mask.ok,
   offsets |-> Offsets(head.v[2], steps.v), mask |-> mask.v, at |-> mask.at]
PredictionMask(s, head, steps) ==
  PredictionBody(head, steps, RleBytes(s, steps.at, MaskBytes(head.v[1])))
PredictionSteps(s, head) ==
  PredictionMask(s, head, ParseSteps(s, head.at, head.v[1]))
PredictionHead(s, at) == PredictionSteps(s, ParseIntegers(s, at, 2))

(* Where value i starts: each takes one float or five.                     *)
ScorePlace(h, i) ==
  h.at + MapThenSumSet(LAMBDA j : IF MaskBit(h.mask, j) THEN 5 * Float
                                  ELSE Float, 1 .. i - 1)

ScoreAt(s, h, i, place) ==
  [offset |-> h.offsets[i], score |-> s[place],
   pct |-> IF MaskBit(h.mask, i) THEN Floats(s, place + Float, 4)
           ELSE [k \in 1..4 |-> NaN]]

PredictionValues(s, h) ==
  IF ~h.ok THEN [ok |-> FALSE, at |-> h.at, v |-> <<>>]
  ELSE [ok |-> TRUE, at |-> ScorePlace(h, h.n + 1),
        v |-> [i \in 1 .. h.n |-> ScoreAt(s, h, i, ScorePlace(h, i))]]

ParseOffsetScoreWithPrediction(s, at) ==
  IF s[at] = 0 THEN [ok |-> at = Len(s), at |-> at + 1, v |-> <<>>]
  ELSE PredictionValues(s, PredictionHead(s, at))

Count(p) == [ok |-> p.ok, at |-> p.at, n |-> Len(p.v)]
CountOffsetScoreWithPrediction(s, at) ==
  Count(ParseOffsetScoreWithPrediction(s, at))

MaxOfHead(h) ==
  IF ~h.ok THEN [ok |-> FALSE, at |-> h.at, max |-> 0]
  ELSE [ok |-> TRUE, at |-> ScorePlace(h, h.n + 1), max |-> h.offsets[h.n]]
GetMaxOffsetWithPrediction(s, at) ==
  IF s[at] = 0 THEN [ok |-> FALSE, at |-> at, max |-> 0]
  ELSE MaxOfHead(PredictionHead(s, at))
-----------------------------------------------------------------------------
(* The readers of the Oroch encodings.                                     *)

(* The number of values and the offsets; each reader then walks the scores *)
(* on its own.                                                             *)
OrochOffsets(n, first, deltas) ==
  [n |-> n, offsets |-> Offsets(first, deltas.v), at |-> deltas.at]
OrochFirst(s, n, first) ==
  OrochOffsets(n, first.v, integer_decode(s, first.at, n - 1, FALSE))
OrochHead(s, count) == OrochFirst(s, count.v, varint_decode(s, count.at))

OrochScores(s, h, integer_score) ==
  IF integer_score THEN integer_decode(s, h.at, h.n, TRUE)
  ELSE [v |-> Floats(s, h.at, h.n), at |-> h.at + Float * h.n]

OrochValues(h, scores, integer_score) ==
  [ok |-> TRUE, at |-> scores.at,
   v |-> [i \in 1 .. h.n |->
            Plain(h.offsets[i],
                  IF integer_score THEN 2 * scores.v[i] ELSE scores.v[i])]]
OrochBody(s, h, integer_score) ==
  OrochValues(h, OrochScores(s, h, integer_score), integer_score)

(* A count of zero is for the end of a row.                                *)
ParseOffsetScoreOroch(s, at, integer_score) ==
  LET count == varint_decode(s, at)
  IN IF count.v = 0
     THEN [ok |-> count.at = Len(s) + 1, at |-> count.at, v |-> <<>>]
     ELSE OrochBody(s, OrochHead(s, count), integer_score)

GetMaxOffsetOroch(s, at, integer_score) ==
  LET count == varint_decode(s, at)
      h == OrochHead(s, count)
  IN IF count.v = 0
     THEN [ok |-> count.at = Len(s) + 1, at |-> count.at, max |-> 0]
     ELSE [ok |-> TRUE, at |-> OrochScores(s, h, integer_score).at,
           max |-> Last(h.offsets)]

(* Mutant of CountOffsetScoreOroch: scores are skipped as floats always.   *)
CountOrochFloats(s, at, integer_score) ==
  LET count == varint_decode(s, at)
  IN [ok |-> TRUE, n |-> count.v,
      at |-> OrochScores(s, OrochHead(s, count), FALSE).at]

CountOffsetScoreOroch(s, at, integer_score) ==
  LET count == varint_decode(s, at)
  IN IF count.v = 0
     THEN [ok |-> count.at = Len(s) + 1, at |-> count.at, n |-> 0]
     ELSE [ok |-> TRUE, n |-> count.v,
           at |-> OrochScores(s, OrochHead(s, count), integer_score).at]
-----------------------------------------------------------------------------
(* The readers of CA_OFFSET_SCORE_FLEXI, which this version only reads.    *)

(* n nibbles, two to a byte, the lower first.                              *)
NibblesOf(b, n) ==
  [b EXCEPT !.v = [i \in 1..n |->
     IF i % 2 = 1 THEN b.v[(i + 1) \div 2] % Nibble
     ELSE b.v[(i + 1) \div 2] \div Nibble]]

WithOk(r) == [v |-> r.v, at |-> r.at, ok |-> TRUE]

(* The steps over their smallest, in the width that their range asks for.  *)
FlexiRange(s, at, n, range) ==
  CASE range < Nibble -> NibblesOf(RleBytes(s, at, (n + 1) \div 2), n)
    [] range >= Nibble /\ range < Bytes -> RleBytes(s, at, n)
    [] OTHER -> WithOk(ParseIntegers(s, at, n))

(* h holds step_gcd, min_step and the range of steps.                      *)
Scaled(d, gcd, min) ==
  [d EXCEPT !.v = [i \in 1 .. Len(d.v) |-> gcd * (min + d.v[i])]]
FlexiStepsBehind(s, count, h) ==
  IF h.v[3] = 0
  THEN [v |-> [i \in 1 .. count - 1 |-> h.v[1] * h.v[2]],
        at |-> h.at, ok |-> TRUE]
  ELSE Scaled(FlexiRange(s, h.at, count - 1, h.v[3]), h.v[1], h.v[2])

NoSteps(count, at) ==
  [v |-> [i \in 1 .. count - 1 |-> 0], at |-> at, ok |-> TRUE]
ParseFlexiSteps(s, at, count) ==
  IF s[at] = 0 THEN NoSteps(count, at + 1)
  ELSE FlexiStepsBehind(s, count, ParseIntegers(s, at, 3))

(* score_flags: the bytes of a score, 0 for a float, and whether the first *)
(* score is everybody's.                                                   *)
ScoreWidth(flags) == flags % 4
ParseScoreCount(flags, count) == IF flags >= Base THEN 1 ELSE count

FromHighBytes(s, at, n) ==
  LET p[i \in 0..n] == IF i = 0 THEN 0 ELSE Bytes * p[i - 1] + s[at + i - 1]
  IN p[n]

FlexiScores(s, min, width, n, count) ==
  LET size == IF width > 0 THEN width ELSE Float
      score(at) == IF width > 0 THEN 2 * (min.v + FromHighBytes(s, at, width))
                   ELSE s[at]
  IN [at |-> min.at + n * size,
      v |-> [i \in 1..count |->
               score(min.at + (IF i <= n THEN i - 1 ELSE 0) * size)]]
ParseFlexiScores(s, at, count) ==
  FlexiScores(s, IF ScoreWidth(s[at]) > 0 THEN ca_parse_integer(s, at + 1)
                 ELSE [v |-> 0, at |-> at + 1],
              ScoreWidth(s[at]), ParseScoreCount(s[at], count), count)

(* head holds the number of values and the first offset.                   *)
FlexiValues(head, steps, scores) ==
  [ok |-> steps.ok, at |-> scores.at,
   v |-> [i \in 1 .. head.v[1] |->
            Plain(Offsets(head.v[2], steps.v)[i], scores.v[i])]]
FlexiBody(s, head, steps) ==
  FlexiValues(head, steps, ParseFlexiScores(s, steps.at, head.v[1]))
FlexiHead(s, head) ==
  FlexiBody(s, head, ParseFlexiSteps(s, head.at, head.v[1]))
ParseOffsetScoreFlexi(s, at) ==
  IF s[at] = 0 THEN [ok |-> at = Len(s), at |-> at + 1, v |-> <<>>]
  ELSE FlexiHead(s, ParseIntegers(s, at, 2))

CountFlexi(s, count, steps) ==
  [ok |-> steps.ok, n |-> count,
   at |-> ParseFlexiScores(s, steps.at, count).at]
CountFlexiHead(s, head) ==
  CountFlexi(s, head.v[1], ParseFlexiSteps(s, head.at, head.v[1]))
CountOffsetScoreFlexi(s, at) ==
  IF s[at] = 0 THEN [ok |-> at = Len(s), at |-> at + 1, n |-> 0]
  ELSE CountFlexiHead(s, ParseIntegers(s, at, 2))

(* A zero count ends the block, and a block that is not the last of its    *)
(* row is refused.  The steps' range is read for two values or more.       *)
MaxFlexi(head, steps, end, s) ==
  [ok |-> steps.ok /\ end = Len(s) + 1, at |-> end,
   max |-> Offsets(head.v[2], steps.v)[head.v[1]]]
MaxFlexiSteps(s, head, steps) ==
  MaxFlexi(head, steps, ParseFlexiScores(s, steps.at, head.v[1]).at, s)
MaxFlexiHead(s, head) ==
  MaxFlexiSteps(s, head,
    IF head.v[1] = 1
    THEN NoSteps(1, ca_parse_integer(s, head.at).at)
    ELSE ParseFlexiSteps(s, head.at, head.v[1]))
GetMaxOffsetFlexi(s, at) ==
  IF s[at] = 0 THEN [ok |-> TRUE, at |-> at + 1, max |-> 0]
  ELSE MaxFlexiHead(s, ParseIntegers(s, at, 2))
-----------------------------------------------------------------------------
(* Whole rows: blocks, one behind the other.                               *)

IsSingle(type) == type \in SINGLE_FLOAT .. SINGLE_NEGATIVE(3)
SingleSize(type) ==
  IF type = SINGLE_FLOAT THEN Float
  ELSE CHOOSE n \in 1..3 : type \in {SINGLE_POSITIVE(n), SINGLE_NEGATIVE(n)}

SingleScore(s, type, at, n) ==
  CASE type = SINGLE_FLOAT -> s[at]
    [] type = SINGLE_POSITIVE(n) -> 2 * FromLowBytes(s, at, n)
    [] OTHER -> 2 * (-FromLowBytes(s, at, n) - 1)
ParseSingle(s, at) ==
  LET n == SingleSize(s[at])
      o == varint_decode(s, at + 1)
  IN [ok |-> TRUE, at |-> o.at + n,
      v |-> <<Plain(o.v, SingleScore(s, s[at], o.at, n))>>]

ParseBlock(s, at) ==
  LET type == s[at]
  IN CASE type = WITH_PREDICTION -> ParseOffsetScoreWithPrediction(s, at + 1)
       [] type = FLEXI -> ParseOffsetScoreFlexi(s, at + 1)
       [] type \in {DELTA_OROCH_FLOAT, DELTA_OROCH_OROCH} ->
            ParseOffsetScoreOroch(s, at + 1, type = DELTA_OROCH_OROCH)
       [] IsSingle(type) -> ParseSingle(s, at)
       [] type = EMPTY -> [ok |-> TRUE, at |-> at + 1, v |-> <<>>]
       [] OTHER -> [ok |-> FALSE, at |-> at, v |-> <<>>]

(* The result of a block, and behind it that of the rest of the row.       *)
ThenParse(b, rest) ==
  IF ~b.ok THEN [ok |-> FALSE, v |-> <<>>]
  ELSE [rest[b.at] EXCEPT !.v = b.v \o @]
ca_offset_score_parse(s) ==
  LET p[at \in Nat] ==
        IF at > Len(s) THEN [ok |-> TRUE, v |-> <<>>]
        ELSE ThenParse(ParseBlock(s, at), p)
  IN p[1]

CountBlock(s, at) ==
  LET type == s[at]
  IN CASE type = WITH_PREDICTION -> CountOffsetScoreWithPrediction(s, at + 1)
       [] type = FLEXI -> CountOffsetScoreFlexi(s, at + 1)
       [] type \in {DELTA_OROCH_FLOAT, DELTA_OROCH_OROCH} ->
            CountOffsetScoreOroch(s, at + 1, type = DELTA_OROCH_OROCH)
       [] IsSingle(type) ->
            [ok |-> TRUE, n |-> 1,
             at |-> varint_decode(s, at + 1).at + SingleSize(type)]
       [] type = EMPTY -> [ok |-> TRUE, at |-> at + 1, n |-> 0]
       [] OTHER -> [ok |-> FALSE, at |-> at, n |-> 0]

ThenCount(b, rest) ==
  IF ~b.ok THEN [ok |-> FALSE, n |-> 0]
  ELSE [rest[b.at] EXCEPT !.n = b.n + @]
ca_offset_score_count(s) ==
  LET p[at \in Nat] ==
        IF at > Len(s) THEN [ok |-> TRUE, n |-> 0]
        ELSE ThenCount(CountBlock(s, at), p)
  IN p[1]

MaxBlock(s, at) ==
  LET type == s[at]
      o == varint_decode(s, at + 1)
  IN CASE type = WITH_PREDICTION -> GetMaxOffsetWithPrediction(s, at + 1)
       [] type = FLEXI -> GetMaxOffsetFlexi(s, at + 1)
       [] type \in {DELTA_OROCH_FLOAT, DELTA_OROCH_OROCH} ->
            GetMaxOffsetOroch(s, at + 1, type = DELTA_OROCH_OROCH)
       [] IsSingle(type) ->
            [ok |-> TRUE, at |-> o.at + SingleSize(type), max |-> o.v]
       [] type = EMPTY -> [ok |-> TRUE, at |-> at + 1, max |-> 0]
       [] OTHER -> [ok |-> FALSE, at |-> at, max |-> 0]

(* Mutant of ThenMax: the last block decides.                              *)
ThenLast(b, rest) ==
  IF ~b.ok THEN [ok |-> FALSE, max |-> 0]
  ELSE [rest[b.at] EXCEPT !.max = IF @ = 0 THEN b.max ELSE @]

ThenMax(b, rest) ==
  IF ~b.ok THEN [ok |-> FALSE, max |-> 0]
  ELSE [rest[b.at] EXCEPT !.max = IF b.max > @ THEN b.max ELSE @]
ca_offset_score_max_offset(s) ==
  LET p[at \in Nat] ==
        IF at > Len(s) THEN [ok |-> TRUE, max |-> 0]
        ELSE ThenMax(MaxBlock(s, at), p)
  IN p[1]
=============================================================================
