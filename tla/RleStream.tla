----------------------------- MODULE RleStream -----------------------------
(***************************************************************************)
(* A writer that puts bytes one by one and flushes, and a reader that then *)
(* takes as many bytes as were put: the way EncodeOffsetScoreWithPrediction*)
(* (format.cc) and ParseOffsetScoreWithPrediction (parse.cc) carry the     *)
(* mask of values that have percentiles.                                   *)
(***************************************************************************)
EXTENDS Rle

CONSTANTS PutBytes,   \* the bytes that may be put
          MaxPuts     \* bound on the bytes put

ASSUME PutBytesAssumption == PutBytes \subseteq Byte /\ MaxPuts \in Nat

VARIABLES
  writer,    \* struct CA_rle_context of the writer
  put,       \* the bytes put so far
  flushed,   \* CA_rle_flush() has returned
  reader,    \* struct CA_rle_context of the reader
  got        \* the bytes read so far

streamVars == <<writer, put, flushed, reader, got>>

StreamTypeOK ==
  /\ writer \in RleContext /\ writer.run < MaxRun
  /\ put \in Seq(Byte) /\ got \in Seq(Byte) /\ flushed \in BOOLEAN
  /\ reader \in [at : 1 .. Len(writer.data) + 1, run : 0 .. MaxRun - 1]

StreamInit ==
  /\ writer = CA_rle_init_write /\ put = <<>> /\ flushed = FALSE
  /\ reader = InitRLE(1) /\ got = <<>>

(* Mutant of Put: the byte is cut to the bits that a run's length has.     *)
PutLowBits(v) ==
  /\ ~flushed /\ Len(put) < MaxPuts
  /\ writer' = CA_rle_put(writer, v % MaxRun)
  /\ put' = Append(put, v)
  /\ UNCHANGED <<flushed, reader, got>>

Put(v) ==
  /\ ~flushed /\ Len(put) < MaxPuts
  /\ writer' = CA_rle_put(writer, v)
  /\ put' = Append(put, v)
  /\ UNCHANGED <<flushed, reader, got>>

Flush ==
  /\ ~flushed
  /\ writer' = CA_rle_flush(writer) /\ flushed' = TRUE
  /\ UNCHANGED <<put, reader, got>>

(* `for (auto& b : prob_mask) b = ReadRLEByte(&rle)'.                      *)
ReadByte ==
  /\ flushed /\ Len(got) < Len(put)
  /\ reader' = ReadRLEByte(writer.data, reader)
  /\ got' = Append(got, RLEValue(writer.data, reader'))
  /\ UNCHANGED <<writer, put, flushed>>

StreamNext == (\E v \in PutBytes : Put(v)) \/ Flush \/ ReadByte

StreamSpec == StreamInit /\ [][StreamNext]_streamVars
-----------------------------------------------------------------------------
(* What is read is what was put, whatever runs and marks lie in between    *)
(* (ReadRLEByte, CA_rle_put).                                              *)
ReadsWhatWasPut == \A i \in 1..Len(got) : got[i] = put[i]

(* Once every byte has been read no run is left and the reader stands      *)
(* exactly behind what the writer wrote: KJ_REQUIRE(rle.run == 0) of       *)
(* ParseOffsetScoreWithPrediction, and `begin = rle.data' after it.        *)
EndsTogether ==
  flushed /\ Len(got) = Len(put) =>
    reader = [at |-> Len(writer.data) + 1, run |-> 0]

(* The code never takes more than two bytes for a byte put, which is what  *)
(* the buffer of ca_offset_score_size() leaves room for.                   *)
AtMostDoubles == Len(writer.data) + 2 * writer.run <= 2 * Len(put)

(* The run-length reader returns the bytes that were put and ends where    *)
(* the writer ended, with no run left; a run never fills its counter, and  *)
(* run lengths never take more than twice the bytes put.                   *)
RunLengthsReadBack == StreamTypeOK /\ ReadsWhatWasPut /\ EndsTogether /\ AtMostDoubles
=============================================================================
