-------------------------------- MODULE Rle --------------------------------
(***************************************************************************)
(* The run-length code of src/src/rle.c and its reader in parse.cc, one    *)
(* byte at a time.                                                         *)
(*                                                                         *)
(* A byte at or above Mark (0xc0) counts a run; so a byte that large is    *)
(* always written as a run.  The code sets and tests the two top bits of   *)
(* a byte; with Mark + MaxRun = Bytes that is addition and comparison.     *)
(***************************************************************************)
EXTENDS Integers, Sequences

CONSTANTS Bytes,    \* 256
          MaxRun    \* 0x40, the longest run one pair of bytes can count

ASSUME RleAssumption == /\ Bytes \in Nat /\ MaxRun \in Nat
                        /\ 2 < MaxRun /\ MaxRun < Bytes

Byte == 0 .. Bytes - 1
Mark == Bytes - MaxRun      \* 0xc0

RleContext == [data : Seq(Byte), value : Byte, run : 0..MaxRun]

CA_rle_init_write == [data |-> <<>>, value |-> 0, run |-> 0]

(* Mutant of CA_rle_flush: the run is not reset.                           *)
CA_rle_flush_keeps(c) ==
  CASE c.run = 0 -> c
    [] c.run \in 1..2 /\ c.value < Mark ->
         [c EXCEPT !.data = @ \o [i \in 1..c.run |-> c.value]]
    [] OTHER -> [c EXCEPT !.data = @ \o <<Mark + c.run - 1, c.value>>]

(* Mutant of CA_rle_flush: a run of nothing is written too.                *)
CA_rle_flush_always(c) ==
  IF c.run \in 1..2 /\ c.value < Mark
  THEN [c EXCEPT !.data = @ \o [i \in 1..c.run |-> c.value], !.run = 0]
  ELSE [c EXCEPT !.data = @ \o <<Mark + c.run - 1, c.value>>, !.run = 0]

CA_rle_flush(c) ==
  CASE c.run = 0 -> c
    [] c.run \in 1..2 /\ c.value < Mark ->
         [c EXCEPT !.data = @ \o [i \in 1..c.run |-> c.value], !.run = 0]
    [] OTHER -> [c EXCEPT !.data = @ \o <<Mark + c.run - 1, c.value>>,
                          !.run = 0]

(* Mutant of CA_rle_put: a full run is left for the next byte to write.    *)
CA_rle_put_late(c, v) ==
  LET f == IF v /= c.value \/ c.run = MaxRun THEN CA_rle_flush(c) ELSE c
  IN [f EXCEPT !.value = v, !.run = @ + 1]

CA_rle_put(c, v) ==
  LET f == IF v /= c.value /\ c.run > 0 THEN CA_rle_flush(c) ELSE c
  IN IF f.run + 1 = MaxRun
     THEN [data |-> f.data \o <<Bytes - 1, v>>, value |-> v, run |-> 0]
     ELSE [f EXCEPT !.value = v, !.run = @ + 1]

(* The reader: `at' is the position of data[0], `run' what is left of the  *)
(* run under way.                                                          *)
InitRLE(at) == [at |-> at, run |-> 0]

ReadRLEByte(s, r) ==
  CASE r.run > 0 -> [r EXCEPT !.run = @ - 1]
    [] r.run = 0 /\ s[r.at] >= Mark ->
         [at |-> r.at + 2, run |-> s[r.at] - Mark]
    [] OTHER -> [r EXCEPT !.at = @ + 1]

(* The byte that a read which left the reader in state r returns.          *)
RLEValue(s, r) == s[r.at - 1]
=============================================================================
