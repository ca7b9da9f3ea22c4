------------------------------- MODULE Oroch -------------------------------
(***************************************************************************)
(* The integers of a row as src/third_party/oroch packs them: one integer  *)
(* as a varint, a list of them in the encoding that integer_codec::select  *)
(* finds the shortest, as operators on sequences of bytes.                 *)
(*                                                                         *)
(* A byte has MaskBits (8) bits and a word WordBytes (8) bytes, and every  *)
(* size of the code is kept in these units: the seven bits of a varint's   *)
(* group are MaskBits - 1, a block of bit-packing has two words.  `signed' *)
(* tells the codec of int64_t from that of uint64_t.  What the code does   *)
(* with shifts and masks is division and remainder here, and its two words *)
(* of a block are one row of bits.                                         *)
(***************************************************************************)
EXTENDS Rle, SequencesExt, FiniteSetsExt

CONSTANTS MaskBits,   \* 8, the bits of a byte
          WordBytes   \* 8, sizeof(uint64_t)

Base == Bytes \div 2          \* 0x80, the bit that continues an integer
WordBits == MaskBits * WordBytes
Word == 2 ^ WordBits          \* 2^64

Concat(ss) == FoldLeft(LAMBDA a, b : a \o b, <<>>, ss)

(* The bytes of an integer, the lowest first, and back.                    *)
LowBytes(x, n) == [i \in 1..n |-> (x \div Bytes ^ (i - 1)) % Bytes]
FromLowBytes(s, at, n) ==
  LET p[i \in 0..n] ==
        IF i = 0 THEN 0 ELSE p[i - 1] + s[at + i - 1] * Bytes ^ (i - 1)
  IN p[n]

(* integer_traits::usedcount: the bits up to the highest that is set.      *)
usedcount(x) ==
  CHOOSE n \in 0..WordBits : x < 2 ^ n /\ (n > 0 => x >= 2 ^ (n - 1))

(* The value of a word in the codec's type.                                *)
AsType(signed, x) ==
  IF signed /\ x % Word >= Word \div 2 THEN (x % Word) - Word ELSE x % Word

(* zigzag_codec, which leaves unsigned types alone.                        *)
zigzag_encode(signed, v) ==
  IF ~signed THEN v ELSE IF v >= 0 THEN 2 * v ELSE -2 * v - 1
zigzag_decode(signed, u) ==
  IF ~signed THEN u ELSE IF u % 2 = 0 THEN u \div 2 ELSE -(u \div 2) - 1
-----------------------------------------------------------------------------
(* varint_codec: groups of seven bits, the lowest first.                   *)

nbits_space(nbits) == (nbits + MaskBits - 2) \div (MaskBits - 1)
varint_space(u) == IF u = 0 THEN 1 ELSE nbits_space(usedcount(u))

varint_encode(u) ==
  LET e[v \in Nat] ==
        IF v < Base THEN <<v>> ELSE <<Base + (v % Base)>> \o e[v \div Base]
  IN e[u]

varint_decode(s, at) ==
  LET d[i \in Nat, scale \in Nat, v \in Nat] ==
        IF s[i] < Base THEN [v |-> v + scale * s[i], at |-> i + 1]
        ELSE d[i + 1, scale * Base, v + scale * (s[i] - Base)]
  IN d[at, 1, 0]

SumOf(f(_), list) == FoldLeft(LAMBDA n, x : n + f(x), 0, list)
Varints(us) == Concat([i \in 1..Len(us) |-> varint_encode(us[i])])
AddVarint(r, x) == [v |-> Append(r.v, x.v), at |-> x.at]
ReadVarints(s, at, n) ==
  FoldLeft(LAMBDA r, i : AddVarint(r, varint_decode(s, r.at)),
           [v |-> <<>>, at |-> at], [i \in 1..n |-> i])
-----------------------------------------------------------------------------
(* bitpck_codec: integers of nbits bits side by side in blocks; what is    *)
(* left of a block is zero.                                                *)

block_size == 2 * WordBytes
capacity(nbits) == (block_size * MaskBits) \div nbits
bitpck_space(n, nbits) ==
  block_size * ((n + capacity(nbits) - 1) \div capacity(nbits))

Bit(x, b) == (x \div 2 ^ b) % 2

(* Bit b of the block that starts with integer `from'.                     *)
BlockBit(us, nbits, from, b) ==
  LET i == from + (b \div nbits)
  IN IF (b \div nbits) < capacity(nbits) /\ i <= Len(us)
     THEN Bit(us[i], b % nbits) ELSE 0
block_encode(us, nbits, from) ==
  [p \in 1..block_size |->
     MapThenSumSet(LAMBDA b : 2 ^ b * BlockBit(us, nbits, from,
                                               MaskBits * (p - 1) + b),
                   0 .. MaskBits - 1)]
bitpck_encode(us, nbits) ==
  Concat([k \in 1 .. bitpck_space(Len(us), nbits) \div block_size |->
            block_encode(us, nbits, 1 + (k - 1) * capacity(nbits))])

(* The integer whose bits start at bit `from' of the block at `at'.        *)
PackedAt(s, at, from, nbits) ==
  MapThenSumSet(LAMBDA b : 2 ^ b * Bit(s[at + (from + b) \div MaskBits],
                                       (from + b) % MaskBits),
                0 .. nbits - 1)
bitpck_decode(s, at, n, nbits) ==
  LET c == capacity(nbits)
  IN [v |-> [i \in 1..n |-> PackedAt(s, at + block_size * ((i - 1) \div c),
                                     nbits * ((i - 1) % c), nbits)],
      at |-> at + bitpck_space(n, nbits)]

(* The outliers' lists: packed, or varints when nbits is zero.             *)
EncodeExtra(us, nbits) ==
  IF nbits = 0 THEN Varints(us) ELSE bitpck_encode(us, nbits)
DecodeExtra(s, at, n, nbits) ==
  IF nbits = 0 THEN ReadVarints(s, at, n) ELSE bitpck_decode(s, at, n, nbits)
-----------------------------------------------------------------------------
(* encoding_t, and a descriptor with what it writes about itself.          *)

NAUGHT == 0
NORMAL == 1
VARINT == 2
VARFOR == 3
BITPCK == 4
BITFOR == 5
BITPFR == 6
Framed == {NAUGHT, VARFOR, BITFOR, BITPFR}     \* values less the origin
Packed == {BITPCK, BITFOR, BITPFR}             \* nbits bits each

Basic(encoding, metaspace, dataspace, origin, nbits) ==
  [encoding |-> encoding, metaspace |-> metaspace, dataspace |-> dataspace,
   origin |-> origin, nbits |-> nbits, noutliers |-> 0, index |-> 0, value |-> 0]

Space(d) == d.metaspace + d.dataspace
compare(d, other) == IF Space(other) < Space(d) THEN other ELSE d

(* The unsigned integer that stands for v, and back.                       *)
ToUnsigned(d, signed, v) ==
  CASE d.encoding \in Framed -> (v - d.origin) % Word
    [] d.encoding = NORMAL -> v % Word
    [] OTHER -> zigzag_encode(signed, v)
FromUnsigned(d, signed, u) ==
  CASE d.encoding \in Framed -> AsType(signed, u + d.origin)
    [] d.encoding = NORMAL -> AsType(signed, u)
    [] OTHER -> zigzag_decode(signed, u)

(* The lists with some values above nbits bits: the places of these, how   *)
(* far each is behind the one before (offset_codec), and their high bits.  *)
Outliers(us, nbits) ==
  SelectSeq([i \in 1..Len(us) |-> i], LAMBDA i : us[i] >= 2 ^ nbits)
Gaps(places) ==
  [k \in 1..Len(places) |-> places[k] - 1 - (IF k = 1 THEN 0 ELSE places[k - 1])]
HighBits(us, nbits) ==
  [k \in 1..Len(Outliers(us, nbits)) |->
     us[Outliers(us, nbits)[k]] \div 2 ^ nbits]
-----------------------------------------------------------------------------
(* integer_codec::select.                                                  *)

(* zigzag may turn the smallest value into the largest.                    *)
select_basic(list, min, max, signed) ==
  LET n == Len(list)
      head == varint_space(zigzag_encode(signed, min))
      umax == Max({zigzag_encode(signed, min), zigzag_encode(signed, max)})
      range == usedcount((max - min) % Word)
      space(encoding, origin) ==
        SumOf(LAMBDA v : varint_space(
                ToUnsigned(Basic(encoding, 0, 0, origin, 0), signed, v)), list)
  IN FoldLeft(compare, Basic(NORMAL, 0, n * WordBytes, 0, 0),
       <<Basic(BITPCK, 1, bitpck_space(n, usedcount(umax)), 0, usedcount(umax)),
         Basic(BITFOR, 1 + head, bitpck_space(n, range), min, range),
         Basic(VARINT, 0, space(VARINT, 0), 0, 0),
         Basic(VARFOR, head, space(VARFOR, min), min, 0)>>)

(* Patched bit-packing of `us', the values less the origin; `estimate' is  *)
(* what it takes before the outliers' places are looked at.                *)
Patched(us, origin, head, nbits) ==
  LET n == Len(us)
      out == Outliers(us, nbits)
      valnbits == usedcount(Max(ToSet(us))) - nbits
      valpck == bitpck_space(Len(out), valnbits)
      valvar == SumOf(varint_space, HighBits(us, nbits))
      indnbits == Max({1} \cup {usedcount(g) : g \in ToSet(Gaps(out))})
      indpck == bitpck_space(Len(out), indnbits)
      indvar == SumOf(varint_space, Gaps(out))
      indmin == Min({bitpck_space(Len(out), 1), n})
      meta == 1 + head + 2 + varint_space(Len(out))
      data == bitpck_space(n, nbits) + Min({valpck, valvar})
  IN [encoding |-> BITPFR, metaspace |-> meta,
      dataspace |-> data + Min({indpck, indvar}),
      origin |-> origin, nbits |-> nbits, noutliers |-> Len(out),
      index |-> IF indpck < indvar THEN indnbits ELSE 0,
      value |-> IF valpck < valvar THEN valnbits ELSE 0,
      estimate |-> meta + data + indmin]

(* Only the widths that some value has are tried.                          *)
TryPatched(d, us, origin, head, nbits) ==
  IF /\ \E i \in 1..Len(us) : usedcount(us[i]) = nbits
     /\ Patched(us, origin, head, nbits).estimate < Space(d)
  THEN compare(d, Patched(us, origin, head, nbits)) ELSE d

SelectPatched(d, us, origin, head) ==
  FoldLeft(LAMBDA b, nbits : TryPatched(b, us, origin, head, nbits), d,
           [k \in 1 .. usedcount(Max(ToSet(us))) - 1 |-> k])

select(list, signed) ==
  LET min == Min(ToSet(list))
      max == Max(ToSet(list))
      head == varint_space(zigzag_encode(signed, min))
      us == [i \in 1..Len(list) |-> (list[i] - min) % Word]
  IN CASE list = <<>> -> Basic(NORMAL, 0, 0, 0, 0)
       [] list /= <<>> /\ min = max -> Basic(NAUGHT, head, 0, min, 0)
       [] min /= max /\ Len(list) < 5 -> select_basic(list, min, max, signed)
       [] OTHER -> SelectPatched(select_basic(list, min, max, signed),
                                 us, min, head)
-----------------------------------------------------------------------------
(* encoding_metadata, and the data behind it.                              *)

EncodeMetadata(d, signed) ==
  <<d.encoding>>
    \o (IF d.encoding \in Framed
        THEN varint_encode(zigzag_encode(signed, d.origin)) ELSE <<>>)
    \o (IF d.encoding \in Packed THEN <<d.nbits>> ELSE <<>>)
    \o (IF d.encoding = BITPFR
        THEN varint_encode(d.noutliers) \o <<d.index, d.value>> ELSE <<>>)

DecodeMetadata(s, at, signed) ==
  LET e == s[at]
      o == IF e \in Framed THEN varint_decode(s, at + 1)
           ELSE [v |-> 0, at |-> at + 1]
      nbits == IF e \in Packed THEN s[o.at] ELSE 0
      behind == IF e \in Packed THEN o.at + 1 ELSE o.at
      x == varint_decode(s, behind)
  IN [encoding |-> e, origin |-> zigzag_decode(signed, o.v), nbits |-> nbits,
      noutliers |-> IF e = BITPFR THEN x.v ELSE 0,
      index |-> IF e = BITPFR THEN s[x.at] ELSE 0,
      value |-> IF e = BITPFR THEN s[x.at + 1] ELSE 0,
      at |-> IF e = BITPFR THEN x.at + 2 ELSE behind]

EncodeData(d, us) ==
  CASE d.encoding = NAUGHT -> <<>>
    [] d.encoding = NORMAL ->
         Concat([i \in 1..Len(us) |-> LowBytes(us[i], WordBytes)])
    [] d.encoding \in {VARINT, VARFOR} -> Varints(us)
    [] d.encoding \in {BITPCK, BITFOR} -> bitpck_encode(us, d.nbits)
    [] OTHER -> bitpck_encode([i \in 1..Len(us) |-> us[i] % (2 ^ d.nbits)], d.nbits)
                  \o EncodeExtra(Gaps(Outliers(us, d.nbits)), d.index)
                  \o EncodeExtra(HighBits(us, d.nbits), d.value)

(* Mutant of PlaceOf: an outlier is not counted itself.                    *)
PlaceOfGaps(gaps, k) == 1 + FoldLeft(LAMBDA a, b : a + b, 0, SubSeq(gaps, 1, k))

(* decode_patch: the places of the outliers, added up, and their values    *)
(* with their high bits.                                                   *)
PlaceOf(gaps, k) == k + FoldLeft(LAMBDA a, b : a + b, 0, SubSeq(gaps, 1, k))
Patch(low, gaps, high, nbits) ==
  [i \in 1..Len(low) |->
     low[i] + MapThenSumSet(LAMBDA k : high[k] * 2 ^ nbits,
                            {k \in 1..Len(gaps) : PlaceOf(gaps, k) = i})]
DecodePatched(s, d, low) ==
  LET gaps == DecodeExtra(s, low.at, d.noutliers, d.index)
      high == DecodeExtra(s, gaps.at, d.noutliers, d.value)
  IN [v |-> Patch(low.v, gaps.v, high.v, d.nbits), at |-> high.at]

DecodeData(s, d, n) ==
  CASE d.encoding = NAUGHT -> [v |-> [i \in 1..n |-> 0], at |-> d.at]
    [] d.encoding = NORMAL ->
         [v |-> [i \in 1..n |->
                   FromLowBytes(s, d.at + WordBytes * (i - 1), WordBytes)],
          at |-> d.at + WordBytes * n]
    [] d.encoding \in {VARINT, VARFOR} -> ReadVarints(s, d.at, n)
    [] d.encoding \in {BITPCK, BITFOR} -> bitpck_decode(s, d.at, n, d.nbits)
    [] OTHER -> DecodePatched(s, d, bitpck_decode(s, d.at, n, d.nbits))

(* A list as integer_codec writes it, and the list of n read from `at'.    *)
EncodeWith(d, list, signed) ==
  EncodeMetadata(d, signed)
    \o EncodeData(d, [i \in 1..Len(list) |-> ToUnsigned(d, signed, list[i])])
integer_encode(list, signed) == EncodeWith(select(list, signed), list, signed)

TypedList(d, r, signed) ==
  [r EXCEPT !.v = [i \in DOMAIN r.v |-> FromUnsigned(d, signed, r.v[i])]]
DecodeWith(s, d, n, signed) == TypedList(d, DecodeData(s, d, n), signed)
integer_decode(s, at, n, signed) ==
  DecodeWith(s, DecodeMetadata(s, at, signed), n, signed)
=============================================================================
