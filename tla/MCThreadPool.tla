--------------------------- MODULE MCThreadPool ---------------------------
(* Two workers, two clients, three tasks and a backlog of one: a task may  *)
(* be queued, run by its caller, or wait while both workers are busy.      *)
EXTENDS ThreadPool

CONSTANTS w1, w2, c1, c2

MCWorkers == {w1, w2}
MCClients == {c1, c2}
=============================================================================
