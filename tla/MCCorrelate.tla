---------------------------- MODULE MCCorrelate ----------------------------
(* The two sides of ca_schema_query_correlate, one or the other in each    *)
(* behaviour: the driver, where a task is the lines it prints, and the     *)
(* body of one task, where the other tasks do not matter because it only   *)
(* reads offsets_A and offsets_B and owns its series.                      *)
(*                                                                         *)
(* The driver has two workers and four series, worth no line, one line or  *)
(* two, with a backlog of one: a series is queued, run inline or dropped.  *)
EXTENDS Correlate, CorrelateSeries

CONSTANTS
  w1, w2,
  Parts       \* of {"driver", "task"}: the sides to check

VARIABLE part                            \* the side that takes steps

Values == INSTANCE MCCorrelateSeries

ASSUME Parts \subseteq {"driver", "task"}

MCWorkers == {w1, w2}
MCClients == {Main}
MCLines == <<<<3, 3>>, <<2>>, <<>>, <<3>>>>
MCCases == Values!MCCases
MCMinusInf == Values!MCMinusInf

(* The task's state while the driver is checked.                           *)
IdleCase == CHOOSE c \in Cases : TRUE
IdleTask == A = IdleCase[1] /\ B = IdleCase[2] /\ series = IdleCase[3] /\ mode = "none"

MCInit ==
  /\ CInit
  /\ part \in Parts
  /\ part = "driver" => IdleTask
  /\ SeriesInit

MCNext ==
  \/ part = "driver" /\ CNext /\ UNCHANGED <<part, seriesVars>>
  \/ part = "task" /\ SeriesNext /\ UNCHANGED <<part, cvars>>
  \/ /\ part = "task" /\ taskPhase \in {"done", "undefined"}
     /\ UNCHANGED <<part, cvars, seriesVars>>

MCVars == <<part, cvars, seriesVars>>
MCSpec == MCInit /\ [][MCNext]_MCVars

(* The fairness of the driver, where it takes steps.                       *)
FairMCSpec == MCSpec /\ (part = "driver" => CFairness)
-----------------------------------------------------------------------------
(* The call returns: tasks waiting for output_mutex, workers waiting for   *)
(* calls and the join never wait for each other.                           *)
CorrelateReturns == part = "driver" => CallReturnsEventually
=============================================================================
