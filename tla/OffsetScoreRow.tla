--------------------------- MODULE OffsetScoreRow ---------------------------
(***************************************************************************)
(* A row of a table and what is done with it: written by                   *)
(* ca_table_write_offset_score (src/src/table-write.cc), or by another     *)
(* program that uses the encoding this version only reads, or that puts    *)
(* one block behind another, which every reader's loop allows for; then    *)
(* read by the three readers of parse.cc.                                  *)
(***************************************************************************)
EXTENDS Codec

CONSTANTS Series,      \* the series of values that may be written
          OldSeries,   \* those that a program with the old encoding wrote
          Tails        \* those that may stand behind another block

VARIABLES row,      \* the bytes, <<>> before there are any
          values,   \* the values written into it
          blocks,   \* how many blocks it has
          buffer,   \* what ca_offset_score_size() had room for, or 0
          sorted,   \* history: the offsets of every block are in order
          result    \* what the last reader returned

vars == <<row, values, blocks, buffer, sorted, result>>

NoResult == [reader |-> "none", ok |-> TRUE]

Init ==
  /\ row = <<>> /\ values = <<>> /\ blocks = 0 /\ buffer = 0 /\ sorted = TRUE
  /\ result = NoResult

(* Nothing has been written and nothing has failed.                        *)
Unwritten == row = <<>> /\ result = NoResult

InOrder(vs) == \A i \in 2..Len(vs) : vs[i - 1].offset <= vs[i].offset

(* A series that cannot be encoded throws and leaves the table without     *)
(* the row.                                                                *)
ca_table_write_offset_score(vs) ==
  LET f == ca_format_offset_score(vs)
  IN /\ row' = f.bytes
     /\ values' = IF f.ok THEN vs ELSE <<>>
     /\ buffer' = ca_offset_score_size(Len(vs))
     /\ sorted' = InOrder(vs) /\ blocks' = 1
     /\ result' = IF f.ok THEN NoResult ELSE [reader |-> "write", ok |-> FALSE]

(* The old encoder, external: steps over their smallest in units of their  *)
(* greatest common divisor, scores over the smallest in `width' bytes.     *)
GCD(a, b) == LET g[x, y \in Nat] == IF y = 0 THEN x ELSE g[y, x % y] IN g[a, b]

FlexiEncode(vs, width, same) ==
  LET d == Deltas(vs)
      n == Len(d)
      gcd == FoldLeft(GCD, 0, d)
      units == {d[i] \div gcd : i \in 1..n}
      u == [i \in 1..n |-> d[i] \div gcd - Min(units)]
      range == Max(units) - Min(units)
      pairs == [j \in 1 .. (n + 1) \div 2 |->
                  u[2 * j - 1] + Nibble * (IF 2 * j <= n THEN u[2 * j] ELSE 0)]
      steps == CASE range = 0 -> <<>>
                 [] range > 0 /\ range < Nibble -> RleEncode(pairs)
                 [] range >= Nibble /\ range < Bytes -> RleEncode(u)
                 [] OTHER -> Concat([i \in 1..n |-> ca_format_integer(u[i])])
      low == Min({vs[i].score \div 2 : i \in 1..Len(vs)})
      high(x) == Reverse(LowBytes(x, width))
      count == IF same THEN 1 ELSE Len(vs)
  IN <<FLEXI>> \o ca_format_integer(Len(vs))
       \o ca_format_integer(vs[1].offset) \o ca_format_integer(gcd)
       \o (IF gcd = 0 THEN <<>>
           ELSE ca_format_integer(Min(units)) \o ca_format_integer(range)
                  \o steps)
       \o <<width + (IF same THEN Base ELSE 0)>>
       \o (IF width = 0
           THEN Concat([i \in 1..count |-> EncodeFloat(vs[i].score)])
           ELSE ca_format_integer(low)
                  \o Concat([i \in 1..count |-> high(vs[i].score \div 2 - low)]))

(* Which of its forms the old encoder can use for the scores of a series.  *)
CanUse(vs, width, same) ==
  LET x == {vs[i].score : i \in 1..Len(vs)}
  IN /\ width > 0 => \A s \in x : /\ IsIntegral(s) /\ s >= 0
                                  /\ (s - Min(x)) \div 2 < Bytes ^ width
     /\ same => Cardinality(x) = 1

OldRow(vs, width, same) ==
  /\ CanUse(vs, width, same)
  /\ row' = FlexiEncode(vs, width, same)
  /\ values' = vs
  /\ sorted' = InOrder(vs) /\ blocks' = 1
  /\ UNCHANGED <<buffer, result>>

(* Another program puts a block behind the row, external.                  *)
AppendBlock(vs) ==
  /\ blocks = 1 /\ result = NoResult
  /\ row' = row \o ca_format_offset_score(vs).bytes
  /\ values' = values \o vs
  /\ blocks' = 2 /\ buffer' = 0
  /\ sorted' = (sorted /\ InOrder(vs))
  /\ UNCHANGED result

Read(reader, r) ==
  /\ row /= <<>> /\ result = NoResult
  /\ result' = [reader |-> reader] @@ r
  /\ UNCHANGED <<row, values, blocks, buffer, sorted>>

Next ==
  \/ Unwritten /\ \E vs \in Series : ca_table_write_offset_score(vs)
  \/ Unwritten /\ \E vs \in OldSeries, width \in 0..3, same \in BOOLEAN :
       OldRow(vs, width, same)
  \/ \E vs \in Tails : AppendBlock(vs)
  \/ Read("parse", ca_offset_score_parse(row))
  \/ Read("count", ca_offset_score_count(row))
  \/ Read("max", ca_offset_score_max_offset(row))

Spec == Init /\ [][Next]_vars
-----------------------------------------------------------------------------
(* What a value is after it has been written and read: percentiles that    *)
(* are not all finite are not kept.                                        *)
Kept(v) == IF HasBands(v) THEN v ELSE Plain(v.offset, v.score)

(* Every reader accepts what was written, and ca_offset_score_parse gives  *)
(* back the values written, in order, over all blocks of the row: the      *)
(* assertions under HARDEN in ca_table_write_offset_score and the tests in *)
(* format_test.cc, for every encoding the writer can choose.               *)
RoundTrip ==
  result.reader = "parse" =>
    /\ result.ok
    /\ result.v = [i \in 1..Len(values) |-> Kept(values[i])]

(* ca_offset_score_count skips exactly the bytes of every block, and finds *)
(* as many values as ca_offset_score_parse.                                *)
CountAgrees == result.reader = "count" => result.ok /\ result.n = Len(values)

(* ca_offset_score_max_offset finds the largest offset of a row whose      *)
(* blocks are in order (format_test.cc), except that it refuses a block of *)
(* the old encoding that is not the last.                                  *)
MaxOffsetAgrees ==
  result.reader = "max" =>
    IF result.ok
    THEN sorted =>
           result.max = Max({0} \cup {values[i].offset : i \in 1..Len(values)})
    ELSE row[1] = FLEXI /\ blocks > 1

(* The bytes written fit the buffer allocated for them, which the writer   *)
(* fills before it asserts so: KJ_ASSERT(size <= buffer_alloc).            *)
FitsBuffer == buffer > 0 => Len(row) <= buffer
=============================================================================
