----------------------------- MODULE ThreadPool -----------------------------
(***************************************************************************)
(* The worker pool of src/src/thread-pool.h: a bounded queue of calls,    *)
(* worker threads that run them, callers that run a task themselves when   *)
(* the backlog is full, Wait() and the destructor.                         *)
(*                                                                         *)
(* Everything the class shares is read and written under mutex_, so a      *)
(* critical section is one atomic step.  What happens outside the lock is  *)
(* a step of its own: the task's body, and the notify_one() that Launch    *)
(* does after it has unlocked.  Both condition variables are sets of       *)
(* threads whose program counter is "waiting"; a wait may end spuriously.  *)
(***************************************************************************)
EXTENDS Integers, Sequences, FiniteSets

CONSTANTS Workers,     \* threads_
          Clients,     \* threads that call Launch() and Wait()
          NTasks,      \* bound: number of calls to Launch()
          MaxBacklog    \* max_backlog_

ASSUME PoolAssumption ==
  /\ IsFiniteSet(Workers)
  /\ NTasks \in Nat
  /\ MaxBacklog \in Nat

VARIABLES
  queue,      \* queued_calls_
  scheduled,  \* scheduled_tasks_
  completed,  \* completed_tasks_
  wpc, wtask, \* what each worker does, and with which task
  cpc, ctask, \* what each client does, and with which task
  phase,      \* life of the pool object (done_ is set unless "live")
               \* and of the process
  launched,   \* history: Launch() calls made so far
  kind,       \* history: which Launch() overload was called for the task
  status,     \* history: what became of each task
  runs,       \* history: how many times the task's body was entered
  waitedFor    \* history: `launched' when Wait() last returned

vars == <<queue, scheduled, completed, wpc, wtask, cpc, ctask, phase,
          launched, kind, status, runs, waitedFor>>

Tasks == 1..NTasks
NoTask == 0
Kinds == {"void", "future"}
WorkerPC == {"ready", "waiting", "running", "returned", "exited"}
ClientPC == {"idle", "notify", "inline", "waiting", "woken"}
Phases == {"live", "joining", "destroyed", "terminated"}
Statuses == {"new", "queued", "running", "done", "failed",
             "inline", "thrown", "dropped"}

(* A counted task has been taken from the queue and not been counted as    *)
(* completed yet.                                                          *)
Busy == {w \in Workers : wpc[w] \in {"running", "returned"}}

TypeOK ==
  /\ queue \in Seq(Tasks)
  /\ scheduled \in Nat /\ completed \in Nat
  /\ wpc \in [Workers -> WorkerPC] /\ wtask \in [Workers -> Tasks \cup {NoTask}]
  /\ cpc \in [Clients -> ClientPC] /\ ctask \in [Clients -> Tasks \cup {NoTask}]
  /\ phase \in Phases
  /\ launched \in 0..NTasks
  /\ kind \in [Tasks -> Kinds] /\ status \in [Tasks -> Statuses]
  /\ runs \in [Tasks -> Nat]
  /\ waitedFor \in 0..NTasks

Init ==
  /\ queue = <<>> /\ scheduled = 0 /\ completed = 0
  /\ wpc = [w \in Workers |-> "ready"]
  /\ wtask = [w \in Workers |-> NoTask]
  /\ cpc = [c \in Clients |-> "idle"]
  /\ ctask = [c \in Clients |-> NoTask]
  /\ phase = "live" /\ launched = 0
  /\ kind = [t \in Tasks |-> "void"]
  /\ status = [t \in Tasks |-> "new"]
  /\ runs = [t \in Tasks |-> 0]
  /\ waitedFor = 0

(* done_: the destructor sets it as the pool leaves "live".                *)
done == phase # "live"

Running == phase \in {"live", "joining"}
-----------------------------------------------------------------------------
(* Worker threads: ThreadMain().                                           *)

(* Mutant of Loop: the front call is copied and not popped.                *)
LoopKeepsCall(w) ==
  IF ~done /\ queue # <<>>
  THEN /\ wtask' = [wtask EXCEPT ![w] = Head(queue)]
       /\ status' = [status EXCEPT ![Head(queue)] = "running"]
       /\ runs' = [runs EXCEPT ![Head(queue)] = @ + 1]
       /\ wpc' = [wpc EXCEPT ![w] = "running"]
       /\ UNCHANGED queue
  ELSE /\ wpc' = [wpc EXCEPT ![w] = IF done THEN "exited" ELSE "waiting"]
       /\ UNCHANGED <<queue, wtask, status, runs>>

(* With the mutex held: the wait on queue_not_empty_cv_, the test of done_ *)
(* and the pop of the front call.                                          *)
Loop(w) ==
  \/ /\ done
     /\ wpc' = [wpc EXCEPT ![w] = "exited"]
     /\ UNCHANGED <<queue, wtask, status, runs>>
  \/ /\ ~done /\ queue # <<>>
     /\ LET t == Head(queue) IN
          /\ wtask' = [wtask EXCEPT ![w] = t]
          /\ status' = [status EXCEPT ![t] = "running"]
          /\ runs' = [runs EXCEPT ![t] = @ + 1]
     /\ wpc' = [wpc EXCEPT ![w] = "running"]
     /\ queue' = Tail(queue)
  \/ /\ ~done /\ queue = <<>>
     /\ wpc' = [wpc EXCEPT ![w] = "waiting"]
     /\ UNCHANGED <<queue, wtask, status, runs>>

(* A worker that just started, or was woken, has got the mutex.            *)
TakeWork(w) ==
  /\ Running /\ wpc[w] = "ready"
  /\ Loop(w)
  /\ UNCHANGED <<scheduled, completed, cpc, ctask, phase, launched,
                 kind, waitedFor>>

(* call() outside the lock.  The wrapper of a future task stores what the  *)
(* task throws; an exception of a void task leaves ThreadMain and          *)
(* terminates the process.                                                 *)
CallReturns(w) ==
  /\ Running /\ wpc[w] = "running"
  /\ status' = [status EXCEPT ![wtask[w]] = "done"]
  /\ wpc' = [wpc EXCEPT ![w] = "returned"]
  /\ UNCHANGED <<queue, scheduled, completed, wtask, cpc, ctask, phase,
                 launched, kind, runs, waitedFor>>

CallThrows(w) ==
  /\ Running /\ wpc[w] = "running"
  /\ status' = [status EXCEPT ![wtask[w]] = "failed"]
  /\ IF kind[wtask[w]] = "future"
     THEN /\ wpc' = [wpc EXCEPT ![w] = "returned"]
          /\ UNCHANGED phase
     ELSE /\ phase' = "terminated"
          /\ UNCHANGED wpc
  /\ UNCHANGED <<queue, scheduled, completed, wtask, cpc, ctask,
                 launched, kind, runs, waitedFor>>

(* Mutant of NotifyCompletion: notify_one() wakes a single waiter.         *)
NotifyCompletionOne ==
  LET waiters == {c \in Clients : cpc[c] = "waiting"} IN
    IF completed' = scheduled /\ waiters # {}
    THEN \E c \in waiters : cpc' = [cpc EXCEPT ![c] = "woken"]
    ELSE UNCHANGED cpc

(* The mutex again: count the task, notify_all() on completion_cv_ when it *)
(* was the last one scheduled, and go on to the next wait without having   *)
(* released the mutex.                                                     *)
NotifyCompletion ==
  cpc' = IF completed' = scheduled
         THEN [c \in Clients |-> IF cpc[c] = "waiting" THEN "woken" ELSE cpc[c]]
         ELSE cpc

CompleteTask(w) ==
  /\ Running /\ wpc[w] = "returned"
  /\ completed' = completed + 1
  /\ NotifyCompletion
  /\ Loop(w)
  /\ UNCHANGED <<scheduled, ctask, phase, launched, kind, waitedFor>>
-----------------------------------------------------------------------------
(* Clients: Launch() and Wait().                                           *)

(* Mutant of Enqueue: the task is not counted.                             *)
EnqueueUncounted(c, t) ==
  /\ Len(queue) < MaxBacklog
  /\ queue' = Append(queue, t)
  /\ status' = [status EXCEPT ![t] = "queued"]
  /\ cpc' = [cpc EXCEPT ![c] = "notify"]
  /\ UNCHANGED <<scheduled, ctask, runs>>

(* Launch() up to its unlock: the task is queued and counted, or, with the *)
(* backlog full, neither and the caller goes on to run it.                 *)
Enqueue(c, t) ==
  /\ Len(queue) < MaxBacklog
  /\ queue' = Append(queue, t)
  /\ scheduled' = scheduled + 1
  /\ status' = [status EXCEPT ![t] = "queued"]
  /\ cpc' = [cpc EXCEPT ![c] = "notify"]
  /\ UNCHANGED <<ctask, runs>>

(* Mutant of StartInline: the task is counted before the backlog is        *)
(* tested, although no worker will count it as completed.                  *)
StartInlineCounted(c, t) ==
  /\ Len(queue) >= MaxBacklog
  /\ scheduled' = scheduled + 1
  /\ status' = [status EXCEPT ![t] = "inline"]
  /\ runs' = [runs EXCEPT ![t] = @ + 1]
  /\ ctask' = [ctask EXCEPT ![c] = t]
  /\ cpc' = [cpc EXCEPT ![c] = "inline"]
  /\ UNCHANGED queue

StartInline(c, t) ==
  /\ Len(queue) >= MaxBacklog
  /\ status' = [status EXCEPT ![t] = "inline"]
  /\ runs' = [runs EXCEPT ![t] = @ + 1]
  /\ ctask' = [ctask EXCEPT ![c] = t]
  /\ cpc' = [cpc EXCEPT ![c] = "inline"]
  /\ UNCHANGED <<queue, scheduled>>

Launch(c, k) ==
  /\ phase = "live" /\ cpc[c] = "idle" /\ launched < NTasks
  /\ launched' = launched + 1
  /\ kind' = [kind EXCEPT ![launched'] = k]
  /\ Enqueue(c, launched') \/ StartInline(c, launched')
  /\ UNCHANGED <<completed, wpc, wtask, phase, waitedFor>>

(* Mutant of NotifyOne: the wrong condition variable is notified.          *)
NotifyNobody == UNCHANGED wpc

(* queue_not_empty_cv_.notify_one(), after the unlock.                     *)
NotifyOne ==
  LET idle == {w \in Workers : wpc[w] = "waiting"} IN
    IF idle = {} THEN UNCHANGED wpc
    ELSE \E w \in idle : wpc' = [wpc EXCEPT ![w] = "ready"]

LaunchNotify(c) ==
  /\ Running /\ cpc[c] = "notify"
  /\ NotifyOne
  /\ cpc' = [cpc EXCEPT ![c] = "idle"]
  /\ UNCHANGED <<queue, scheduled, completed, wtask, ctask, phase,
                 launched, kind, status, runs, waitedFor>>

(* f() in the caller: both overloads let an exception escape to it.        *)
RunInline(c, outcome) ==
  /\ Running /\ cpc[c] = "inline"
  /\ status' = [status EXCEPT ![ctask[c]] = outcome]
  /\ cpc' = [cpc EXCEPT ![c] = "idle"]
  /\ UNCHANGED <<queue, scheduled, completed, wpc, wtask, ctask, phase,
                 launched, kind, runs, waitedFor>>

(* Mutant of Wait: waits for an empty queue, not for completion.           *)
WaitForEmptyQueue(c) ==
  /\ phase = "live" /\ cpc[c] \in {"idle", "woken"}
  /\ IF queue = <<>>
     THEN cpc' = [cpc EXCEPT ![c] = "idle"] /\ waitedFor' = launched
     ELSE cpc' = [cpc EXCEPT ![c] = "waiting"] /\ UNCHANGED waitedFor
  /\ UNCHANGED <<queue, scheduled, completed, wpc, wtask, ctask, phase,
                 launched, kind, status, runs>>

(* Wait(), and the same test again after every wake-up.                    *)
Wait(c) ==
  /\ phase = "live" /\ cpc[c] \in {"idle", "woken"}
  /\ IF completed = scheduled
     THEN cpc' = [cpc EXCEPT ![c] = "idle"] /\ waitedFor' = launched
     ELSE cpc' = [cpc EXCEPT ![c] = "waiting"] /\ UNCHANGED waitedFor
  /\ UNCHANGED <<queue, scheduled, completed, wpc, wtask, ctask, phase,
                 launched, kind, status, runs>>
-----------------------------------------------------------------------------
(* Mutant of Destroy: notify_one() where every worker has to hear of it.   *)
DestroyNotifiesOne ==
  /\ phase = "live" /\ \A c \in Clients : cpc[c] = "idle"
  /\ NotifyOne
  /\ phase' = "joining"
  /\ UNCHANGED <<queue, scheduled, completed, wtask, cpc, ctask, launched,
                 kind, status, runs, waitedFor>>

(* The destructor.  Its caller must own the object alone, so no client is  *)
(* inside a call.                                                          *)
Destroy ==
  /\ phase = "live" /\ \A c \in Clients : cpc[c] = "idle"
  /\ wpc' = [w \in Workers |-> IF wpc[w] = "waiting" THEN "ready" ELSE wpc[w]]
  /\ phase' = "joining"
  /\ UNCHANGED <<queue, scheduled, completed, wtask, cpc, ctask, launched,
                 kind, status, runs, waitedFor>>

(* Mutant of Join: the threads are detached instead of joined.             *)
JoinDetaches ==
  /\ phase = "joining"
  /\ phase' = "destroyed"
  /\ queue' = <<>>
  /\ status' = [t \in Tasks |-> IF status[t] = "queued" THEN "dropped"
                                                        ELSE status[t]]
  /\ UNCHANGED <<scheduled, completed, wpc, wtask, cpc, ctask, launched,
                 kind, runs, waitedFor>>

(* join() on every thread, then the members: queued calls are destroyed    *)
(* without having run.                                                     *)
Join ==
  /\ phase = "joining" /\ \A w \in Workers : wpc[w] = "exited"
  /\ phase' = "destroyed"
  /\ queue' = <<>>
  /\ status' = [t \in Tasks |-> IF status[t] = "queued" THEN "dropped"
                                                        ELSE status[t]]
  /\ UNCHANGED <<scheduled, completed, wpc, wtask, cpc, ctask, launched,
                 kind, runs, waitedFor>>
-----------------------------------------------------------------------------
(* Either condition variable may wake a thread for no reason.              *)
SpuriousWorker(w) ==
  /\ Running /\ wpc[w] = "waiting"
  /\ wpc' = [wpc EXCEPT ![w] = "ready"]
  /\ UNCHANGED <<queue, scheduled, completed, wtask, cpc, ctask, phase,
                 launched, kind, status, runs, waitedFor>>

SpuriousClient(c) ==
  /\ Running /\ cpc[c] = "waiting"
  /\ cpc' = [cpc EXCEPT ![c] = "woken"]
  /\ UNCHANGED <<queue, scheduled, completed, wpc, wtask, ctask, phase,
                 launched, kind, status, runs, waitedFor>>

(* Nothing runs once the pool is gone.                                     *)
Ended == ~Running /\ UNCHANGED vars

WorkerStep(w) ==
  TakeWork(w) \/ CallReturns(w) \/ CallThrows(w) \/ CompleteTask(w)

ClientReturns(c) ==
  \/ LaunchNotify(c)
  \/ \E outcome \in {"done", "thrown"} : RunInline(c, outcome)
  \/ cpc[c] = "woken" /\ Wait(c)

Next ==
  \/ \E w \in Workers : WorkerStep(w) \/ SpuriousWorker(w)
  \/ \E c \in Clients, k \in Kinds : Launch(c, k)
  \/ \E c \in Clients : ClientReturns(c) \/ SpuriousClient(c)
  \/ \E c \in Clients : cpc[c] = "idle" /\ Wait(c)
  \/ Destroy
  \/ Join
  \/ Ended

Spec == Init /\ [][Next]_vars

(* The scheduler runs every thread that can run and task bodies return:    *)
(* a worker, a client inside a call and the destructor's join go on.       *)
(* Nothing obliges a client to launch, to wait or to destroy the pool, and *)
(* nothing obliges a condition variable to wake a thread spuriously.       *)
Fairness ==
  /\ \A w \in Workers : WF_vars(WorkerStep(w))
  /\ \A c \in Clients : WF_vars(ClientReturns(c))
  /\ WF_vars(Join)

FairSpec == Spec /\ Fairness
-----------------------------------------------------------------------------
(* Safety.                                                                 *)

(* No task's body is entered twice, and one that was taken up by a worker  *)
(* or by a caller was entered exactly once: the queue hands each call to   *)
(* one thread only.                                                        *)
RunsAtMostOnce ==
  \A t \in Tasks :
    runs[t] = IF status[t] \in {"new", "queued", "dropped"} THEN 0 ELSE 1

(* scheduled_tasks_ - completed_tasks_ is exactly the number of calls that *)
(* are queued or in the hands of a worker; Wait()'s condition means        *)
(* something only because of this.  It holds for the pool's whole life,   *)
(* joining included.                                                       *)
Accounting ==
  phase # "destroyed" => scheduled = completed + Len(queue) + Cardinality(Busy)

(* At the moment Wait() returns, no scheduled task is queued or running,  *)
(* whatever the other clients launched in the meantime.                    *)
WaitReturnsIdle ==
  [][\A c \in Clients :
       (Wait(c) /\ cpc'[c] = "idle")
         => \A t \in Tasks : status[t] \notin {"queued", "running"}]_vars

(* "Call Wait() before destruction if you want to ensure all tasks have    *)
(* completed": with a Wait() and no Launch() after it, the destructor      *)
(* drops nothing: of the tasks launched before a Wait() returned, none is  *)
(* queued, running in a worker or dropped afterwards, to the end of the    *)
(* pool's life.                                                            *)
WaitedMeansNoneDropped ==
  \A t \in 1..waitedFor : status[t] \notin {"queued", "running", "dropped"}

(* A waiting worker cannot miss a call: while calls are queued, a worker   *)
(* is on its way to the queue, or the launcher has yet to notify.          *)
NoLostWakeup ==
  (phase = "live" /\ queue # <<>> /\ Workers # {})
    => \/ \E w \in Workers : wpc[w] # "waiting"
       \/ \E c \in Clients : cpc[c] = "notify"

(* Liveness.                                                               *)

(* Every task handed to the pool is eventually off the queue: run, or      *)
(* dropped by the destructor, or the process has ended.                    *)
QueuedEventuallyTaken ==
  \A t \in Tasks : (status[t] = "queued")
                     ~> (status[t] # "queued" \/ phase = "terminated")

(* Wait() returns once clients stop launching (there are NTasks of them).  *)
WaitReturns ==
  \A c \in Clients : (cpc[c] \in {"waiting", "woken"})
                       ~> (cpc[c] = "idle" \/ phase = "terminated")

(* The destructor returns: no worker sleeps through done_.                 *)
DestructorReturns ==
  (phase = "joining") ~> (phase \in {"destroyed", "terminated"})
=============================================================================
