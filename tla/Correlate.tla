----------------------------- MODULE Correlate -----------------------------
(***************************************************************************)
(* How ca_schema_query_correlate (src/src/correlate.cc) drives the thread  *)
(* pool: the calling thread reads the index tables and launches one void   *)
(* task per series; ProcessSeries tries one range or two, and for each     *)
(* that is predictive locks output_mutex and prints a line, in several     *)
(* calls; when the rows are read, the function's scope ends.               *)
(* Locals die in reverse order of declaration: output_mutex first, then    *)
(* thread_pool, whose destructor stops and joins the workers.  Wait() is   *)
(* not called.                                                             *)
(***************************************************************************)
EXTENDS ThreadPool

CONSTANTS Main,          \* the calling thread, the pool's only client
          Lines          \* the lines of each task: one for each range that
                         \* passes ProcessRange's cutoffs, and of each the
                         \* number of calls that print it

ASSUME CorrelateAssumption ==
  /\ Clients = {Main}
  /\ Lines \in [Tasks -> Seq(2..3)]
  /\ \A t \in Tasks : Len(Lines[t]) <= 2

VARIABLES
  scope,    \* "loop", or "left" once output_mutex has been destroyed
  holder,   \* the task that holds output_mutex, or NoTask
  printed,  \* how many ranges of each task have been dealt with
  piece,    \* the call each task makes next inside the lock, 0 outside
  stdout    \* what has been printed, call by call

outputVars == <<holder, printed, piece, stdout>>
cvars == <<vars, scope, outputVars>>

Pieces == [task : Tasks, line : 1..2, piece : 1..3]

CorrelateTypeOK ==
  /\ TypeOK
  /\ scope \in {"loop", "left"}
  /\ holder \in Tasks \cup {NoTask}
  /\ printed \in [Tasks -> 0..2]
  /\ piece \in [Tasks -> 0..4]
  /\ stdout \in Seq(Pieces)

CInit ==
  /\ Init
  /\ scope = "loop" /\ holder = NoTask
  /\ printed = [t \in Tasks |-> 0]
  /\ piece = [t \in Tasks |-> 0]
  /\ stdout = <<>>
-----------------------------------------------------------------------------
(* One row of an index table that is neither ephemeral nor too short.  The *)
(* rows the loop skips leave no trace.                                     *)
LaunchSeries ==
  /\ scope = "loop"
  /\ Launch(Main, "void")
  /\ UNCHANGED <<scope, outputVars>>

(* The tasks under way: in a worker, or run by the caller on a full        *)
(* backlog.                                                                *)
Active == {t \in Tasks : status[t] \in {"running", "inline"}}

(* The line the task prints next and the number of calls that print it.    *)
NextLine(t) == printed[t] + 1
Length(t) == Lines[t][NextLine(t)]

(* A task with its ranges behind it.                                       *)
Finished(t) == printed[t] = Len(Lines[t])

(* Mutant of LockOutput: output_mutex is not taken.                        *)
LockOutputNot(t) ==
  /\ t \in Active /\ ~Finished(t) /\ piece[t] = 0
  /\ piece' = [piece EXCEPT ![t] = 1]
  /\ UNCHANGED <<vars, scope, holder, printed, stdout>>

(* ProcessRange: unique_lock on output_mutex ...                           *)
LockOutput(t) ==
  /\ t \in Active /\ ~Finished(t) /\ piece[t] = 0 /\ holder = NoTask
  /\ holder' = t
  /\ piece' = [piece EXCEPT ![t] = 1]
  /\ UNCHANGED <<vars, scope, printed, stdout>>

(* ... the line is printed in two calls or, when a bound of the range is   *)
(* finite, in three: printf of the odds, counts and key, printf of the     *)
(* range, putchar.  Each call is atomic, stdio locks the stream for it ... *)
PrintPiece(t) ==
  /\ piece[t] > 0 /\ piece[t] <= Length(t)
  /\ stdout' = Append(stdout, [task |-> t, line |-> NextLine(t), piece |-> piece[t]])
  /\ piece' = [piece EXCEPT ![t] = @ + 1]
  /\ UNCHANGED <<vars, scope, holder, printed>>

(* ... and the lock is released on return.                                 *)
UnlockOutput(t) ==
  /\ piece[t] > 0 /\ piece[t] > Length(t)
  /\ holder' = NoTask
  /\ printed' = [printed EXCEPT ![t] = @ + 1]
  /\ piece' = [piece EXCEPT ![t] = 0]
  /\ UNCHANGED <<vars, scope, stdout>>

OutputStep(t) == LockOutput(t) \/ PrintPiece(t) \/ UnlockOutput(t)

(* The pool's own steps; a task returns when ProcessSeries has.            *)
PoolStep ==
  /\ \/ \E w \in Workers : TakeWork(w) \/ CompleteTask(w) \/ SpuriousWorker(w)
     \/ \E w \in Workers : CallReturns(w) /\ Finished(wtask[w])
     \/ LaunchNotify(Main)
     \/ RunInline(Main, "done") /\ Finished(ctask[Main])
     \/ Join
  /\ UNCHANGED <<scope, outputVars>>

(* The rows are read: output_mutex and key_offsets are destroyed ...       *)
LeaveScope ==
  /\ scope = "loop" /\ cpc[Main] = "idle"
  /\ scope' = "left"
  /\ UNCHANGED <<vars, outputVars>>

(* ... then ~ThreadPool().                                                 *)
LeavePool ==
  /\ scope = "left"
  /\ Destroy
  /\ UNCHANGED <<scope, outputVars>>

Returned == phase = "destroyed" /\ UNCHANGED cvars

CNext ==
  \/ LaunchSeries
  \/ \E t \in Tasks : OutputStep(t)
  \/ PoolStep
  \/ LeaveScope
  \/ LeavePool
  \/ Returned

CSpec == CInit /\ [][CNext]_cvars

(* Threads that can run do; the loop ends because the tables are finite.   *)
CFairness ==
  /\ \A w \in Workers :
       WF_cvars((TakeWork(w) \/ CompleteTask(w)
                  \/ (CallReturns(w) /\ Finished(wtask[w])))
                /\ UNCHANGED <<scope, outputVars>>)
  /\ WF_cvars((LaunchNotify(Main) \/ (RunInline(Main, "done") /\ Finished(ctask[Main]))
                \/ Join)
              /\ UNCHANGED <<scope, outputVars>>)
  /\ \A t \in Tasks : WF_cvars(OutputStep(t))
  /\ WF_cvars(LeaveScope) /\ WF_cvars(LeavePool)

FairCSpec == CSpec /\ CFairness
-----------------------------------------------------------------------------
(* The tasks hold references to offsets_A and offsets_B, locals of the     *)
(* function: when it returns, no task is running and no task can start.    *)
NoTaskOutlivesCall ==
  phase = "destroyed" => Active = {} /\ holder = NoTask /\ queue = <<>>

EndsLine(x) == x.piece = Lines[x.task][x.line]

(* Whatever the interleaving of the tasks' calls, each piece on stdout     *)
(* comes directly after the piece of its line before it, and a line begins *)
(* where one has ended.                                                    *)
NoLineTorn ==
  \A k \in 1..Len(stdout) :
    IF stdout[k].piece = 1
      THEN k > 1 => EndsLine(stdout[k - 1])
      ELSE k > 1 /\ stdout[k] = [stdout[k - 1] EXCEPT !.piece = @ + 1]

(* No piece is printed twice or by a task that was not run, and a task     *)
(* that returned has printed the end of each of its lines.                 *)
LinesComeFromTasks ==
  /\ \A j, k \in 1..Len(stdout) : stdout[j] = stdout[k] => j = k
  /\ \A k \in 1..Len(stdout) :
       status[stdout[k].task] \in {"running", "inline", "done"}
  /\ \A t \in Tasks : status[t] = "done" =>
       \A n \in 1..Len(Lines[t]) :
         \E k \in 1..Len(stdout) :
           /\ stdout[k].task = t /\ stdout[k].line = n
           /\ EndsLine(stdout[k])

(* Tasks that print at the same time, each line in several calls, tear,    *)
(* repeat, lose or invent no line.                                         *)
TasksPrintTheirLines == CorrelateTypeOK /\ NoLineTorn /\ LinesComeFromTasks

(* The call returns: tasks waiting for output_mutex, workers waiting for   *)
(* calls and the join never wait for each other.                           *)
CallReturnsEventually == <>(phase = "destroyed")

(* "Prints the features that are more predictive of items in set A than    *)
(* set B": when the call returns, every predictive series that was         *)
(* launched has been printed.                                              *)
AllFeaturesPrinted ==
  phase = "destroyed" =>
    \A t \in 1..launched : Finished(t)

(* output_mutex is the "Mutex controlling access to stdout": a task only   *)
(* ever locks it while it exists.                                          *)
OutputMutexAlive == holder # NoTask => scope = "loop"
=============================================================================
