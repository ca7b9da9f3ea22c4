-------------------------- MODULE WriteOnceFormat --------------------------
(***************************************************************************)
(* The version 4 write-once file of src/src/table-backend-writeonce.cc, as *)
(* far as builder and reader agree on it.                                  *)
(*                                                                         *)
(* The rows of all blocks follow each other in the file, so the data is    *)
(* one sequence `rows'; the index is the sequence `ends' of the number of  *)
(* rows up to the end of each block (the running sum of num_entries_).     *)
(* Blocks and entries are numbered from 0, as in the code.  Keys are       *)
(* integers: only their order matters.  `size' is a value's length, on     *)
(* which the layout in bytes depends.                                      *)
(***************************************************************************)
EXTENDS Integers, Sequences

CONSTANTS Keys,     \* keys, ordered as string_view orders them
          Vals,     \* what distinguishes one value from another
          Sizes     \* value lengths in bytes

ASSUME FormatAssumption ==
  /\ Keys \subseteq Int
  /\ Sizes \subseteq Nat

Row == [key : Keys, val : Vals, size : Sizes]

kBlockSizeMax == 32 * 1024
kEntrySizeLimit == kBlockSizeMax - 4
kBlockSizeMin == 12 * 1024

(* sizeof(struct CA_wo_header)                                             *)
HeaderSize == 24

(* Every key is one byte long in the byte layout.                          *)
KeySize == 1

(* oroch::varint_codec: seven bits to the byte.                            *)
VarintSpace(n) ==
  IF n < 128 THEN 1
  ELSE IF n < 16384 THEN 2
  ELSE IF n < 2097152 THEN 3
  ELSE 4

EntrySize(r) == KeySize + r.size
RowBytes(r) ==
  VarintSpace(KeySize) + KeySize + VarintSpace(r.size) + r.size

(* Bytes taken by the first i rows, for every i.                           *)
ByteEnds(rows) ==
  LET f[i \in 0..Len(rows)] == IF i = 0 THEN 0 ELSE f[i - 1] + RowBytes(rows[i])
  IN  f

SortedRows(rows) ==
  \A i, j \in 1..Len(rows) : i < j => rows[i].key <= rows[j].key

(* WriteOnceIndex, for block b in 0..num_blocks - 1.                       *)
BlockStart(ends, b) == IF b = 0 THEN 0 ELSE ends[b]
GetNumEntries(ends, b) == ends[b + 1] - BlockStart(ends, b)
LastKey(rows, ends, b) == rows[ends[b + 1]].key

(* No block is empty, and together they are the rows.                      *)
IndexCovers(ends, n) ==
  /\ \A b \in 1..Len(ends) : ends[b] \in 1..n /\ BlockStart(ends, b - 1) < ends[b]
  /\ n = IF ends = <<>> THEN 0 ELSE ends[Len(ends)]

(* What the builder promises and the reader relies on.                     *)
WellFormed(rows, ends) == SortedRows(rows) /\ IndexCovers(ends, Len(rows))
=============================================================================
