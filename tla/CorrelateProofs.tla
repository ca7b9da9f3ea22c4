-------------------------- MODULE CorrelateProofs --------------------------
(***************************************************************************)
(* Proofs about ThreadPool, for any finite set of workers, any clients,    *)
(* any backlog limit and any number of tasks; about Correlate, for any     *)
(* number of series and any number of lines each is worth; and about       *)
(* CorrelateSeries, for any two sets and any series.  The driver is a      *)
(* client of the pool like any other: its behaviours are behaviours of the *)
(* pool, so what is shown of the pool holds of it.                         *)
(***************************************************************************)
EXTENDS Correlate, CorrelateSeries, TLAPS, FiniteSetTheorems, WellFoundedInduction, SequenceTheorems

(* A task is queued exactly when it stands in the queue, and stands there  *)
(* once.                                                                   *)
InStep(q, st) ==
  /\ \A x \in 1..Len(q) : st[q[x]] = "queued"
  /\ \A x, j \in 1..Len(q) : q[x] = q[j] => x = j
  /\ \A t \in Tasks : st[t] = "queued" => \E x \in 1..Len(q) : q[x] = t

QueueInv == phase # "destroyed" => InStep(queue, status)

(* Launched tasks are the ones that are no longer new.                     *)
LaunchInv == \A t \in Tasks : status[t] = "new" <=> launched < t

(* A running task is in the hands of one worker.                           *)
WorkerInv ==
  Running =>
    /\ \A w \in Workers : wpc[w] = "running" =>
         wtask[w] \in Tasks /\ status[wtask[w]] = "running"
    /\ \A v, w \in Workers :
         wpc[v] = "running" /\ wpc[w] = "running" /\ wtask[v] = wtask[w] => v = w
    /\ \A t \in Tasks : status[t] = "running" =>
         \E w \in Workers : wpc[w] = "running" /\ wtask[w] = t

(* So is a task that runs inline, in the hands of one client.              *)
ClientInv ==
  /\ \A c \in Clients : cpc[c] = "inline" =>
       ctask[c] \in Tasks /\ status[ctask[c]] = "inline"
  /\ \A c, d \in Clients :
       cpc[c] = "inline" /\ cpc[d] = "inline" /\ ctask[c] = ctask[d] => c = d

(* Only the end of the destructor drops tasks.                             *)
DropInv == \A t \in Tasks : status[t] = "dropped" => phase = "destroyed"

PlaceInv == QueueInv /\ LaunchInv /\ WorkerInv /\ ClientInv /\ DropInv

-----------------------------------------------------------------------------
(* The program's state keeps its shape through every step of every thread. *)
LEMMA TypeInvariant == Spec => []TypeOK
<1> USE PoolAssumption DEF PoolAssumption, TypeOK, Tasks, NoTask, Kinds,
                           WorkerPC, ClientPC, Phases, Statuses
<1>1. Init => TypeOK
  BY DEF Init
<1>2. ASSUME TypeOK, [Next]_vars PROVE TypeOK'
  <2> USE TypeOK
  <2>0. ASSUME NEW w \in Workers, Loop(w)
        PROVE  /\ queue' \in Seq(Tasks) /\ status' \in [Tasks -> Statuses]
               /\ runs' \in [Tasks -> Nat]
               /\ wpc' \in [Workers -> WorkerPC]
               /\ wtask' \in [Workers -> Tasks \cup {NoTask}]
    <3>1. CASE ~done /\ queue # <<>>
      <4>1. Head(queue) \in Tasks /\ Tail(queue) \in Seq(Tasks)
        BY <3>1
      <4>2. /\ queue' = Tail(queue)
            /\ status' = [status EXCEPT ![Head(queue)] = "running"]
            /\ runs' = [runs EXCEPT ![Head(queue)] = @ + 1]
            /\ wpc' = [wpc EXCEPT ![w] = "running"]
            /\ wtask' = [wtask EXCEPT ![w] = Head(queue)]
        BY <2>0, <3>1 DEF Loop
      <4> QED BY <4>1, <4>2
    <3>2. CASE done \/ queue = <<>>
      BY <2>0, <3>2 DEF Loop
    <3> QED BY <3>1, <3>2
  <2>1. ASSUME NEW w \in Workers, WorkerStep(w) PROVE TypeOK'
    <3>1. CASE TakeWork(w)
      BY <2>0, <3>1 DEF TakeWork
    <3>2. CASE CallReturns(w)
      BY <3>2 DEF CallReturns
    <3>3. CASE CallThrows(w)
      <4>1. status' \in [Tasks -> Statuses]
        BY <3>3 DEF CallThrows
      <4>2. wpc' \in [Workers -> WorkerPC] /\ phase' \in Phases
        BY <3>3 DEF CallThrows
      <4> QED BY <3>3, <4>1, <4>2 DEF CallThrows
    <3>4. CASE CompleteTask(w)
      <4>1. /\ queue' \in Seq(Tasks) /\ status' \in [Tasks -> Statuses]
            /\ runs' \in [Tasks -> Nat] /\ wpc' \in [Workers -> WorkerPC]
            /\ wtask' \in [Workers -> Tasks \cup {NoTask}]
        BY <2>0, <3>4 DEF CompleteTask
      <4>2. completed' \in Nat /\ cpc' \in [Clients -> ClientPC]
        BY <3>4 DEF CompleteTask, NotifyCompletion
      <4> QED BY <3>4, <4>1, <4>2 DEF CompleteTask
    <3> QED BY <2>1, <3>1, <3>2, <3>3, <3>4 DEF WorkerStep
  <2>2. ASSUME NEW w \in Workers, SpuriousWorker(w) PROVE TypeOK'
    BY <2>2 DEF SpuriousWorker
  <2>3. ASSUME NEW c \in Clients, NEW k \in Kinds, Launch(c, k) PROVE TypeOK'
    <3>1. launched' \in Tasks
      BY <2>3 DEF Launch
    <3>2. CASE Enqueue(c, launched')
      <4>1. queue' \in Seq(Tasks) /\ scheduled' \in Nat
        BY <3>1, <3>2 DEF Enqueue
      <4> QED BY <2>3, <3>1, <3>2, <4>1 DEF Launch, Enqueue
    <3>3. CASE StartInline(c, launched')
      BY <2>3, <3>1, <3>3 DEF Launch, StartInline
    <3> QED BY <2>3, <3>2, <3>3 DEF Launch
  <2>4. ASSUME NEW c \in Clients, ClientReturns(c) PROVE TypeOK'
    <3>1. CASE LaunchNotify(c)
      <4>1. wpc' \in [Workers -> WorkerPC]
        BY <3>1 DEF LaunchNotify, NotifyOne
      <4> QED BY <3>1, <4>1 DEF LaunchNotify
    <3>2. ASSUME NEW outcome \in {"done", "thrown"}, RunInline(c, outcome)
          PROVE TypeOK'
      BY <3>2 DEF RunInline
    <3>3. CASE Wait(c)
      BY <3>3 DEF Wait
    <3> QED BY <2>4, <3>1, <3>2, <3>3 DEF ClientReturns
  <2>5. ASSUME NEW c \in Clients, SpuriousClient(c) PROVE TypeOK'
    BY <2>5 DEF SpuriousClient
  <2>6. ASSUME NEW c \in Clients, Wait(c) PROVE TypeOK'
    BY <2>6 DEF Wait
  <2>7. CASE Destroy
    BY <2>7 DEF Destroy
  <2>8. CASE Join
    BY <2>8 DEF Join
  <2>9. CASE UNCHANGED vars
    BY <2>9 DEF vars
  <2> QED BY <1>2, <2>1, <2>2, <2>3, <2>4, <2>5, <2>6, <2>7, <2>8, <2>9
             DEF Next, Ended
<1> QED BY <1>1, <1>2, PTL DEF Spec

-----------------------------------------------------------------------------
(* What a worker does with the mutex held: it takes the front call, or it  *)
(* leaves every task where it is.                                          *)
LEMMA LoopEffect ==
  ASSUME NEW w \in Workers, Loop(w)
  PROVE  \/ /\ queue # <<>>
            /\ queue' = Tail(queue)
            /\ status' = [status EXCEPT ![Head(queue)] = "running"]
            /\ runs' = [runs EXCEPT ![Head(queue)] = @ + 1]
            /\ wpc' = [wpc EXCEPT ![w] = "running"]
            /\ wtask' = [wtask EXCEPT ![w] = Head(queue)]
         \/ /\ UNCHANGED <<queue, wtask, status, runs>>
            /\ \/ wpc' = [wpc EXCEPT ![w] = "exited"]
               \/ queue = <<>> /\ wpc' = [wpc EXCEPT ![w] = "waiting"]
BY DEF Loop

(* A queue of which the front is removed keeps every other call, in place. *)
LEMMA TailElements ==
  ASSUME NEW S, NEW q \in Seq(S), q # <<>>
  PROVE  /\ Len(q) \in Nat \ {0}
         /\ Head(q) = q[1] /\ Head(q) \in S
         /\ Tail(q) \in Seq(S)
         /\ Len(Tail(q)) = Len(q) - 1
         /\ \A x \in 1..Len(Tail(q)) : Tail(q)[x] = q[x + 1]
OBVIOUS

(* Taking the front call keeps the queue and the queued tasks in step.     *)
LEMMA PopQueue ==
  ASSUME NEW q \in Seq(Tasks), NEW st \in [Tasks -> Statuses],
         q # <<>>, InStep(q, st)
  PROVE  InStep(Tail(q), [st EXCEPT ![Head(q)] = "running"])
<1> USE DEF InStep
<1> DEFINE S == Tasks
           q1 == Tail(q)
           st1 == [st EXCEPT ![Head(q)] = "running"]
<1> DEFINE h == Head(q)
<1>1. /\ Len(q) \in Nat \ {0} /\ h = q[1] /\ h \in S
      /\ Len(q1) = Len(q) - 1
      /\ \A x \in 1..Len(q1) : q1[x] = q[x + 1]
  BY TailElements
<1>2. ASSUME NEW x \in 1..Len(q1)
      PROVE  x \in Int /\ x + 1 \in 1..Len(q) /\ q1[x] = q[x + 1] /\ q1[x] # h /\ q1[x] \in S
  <2>1. x \in Int /\ x + 1 \in 1..Len(q) /\ 1 \in 1..Len(q) /\ x + 1 # 1
    BY <1>1
  <2>2. q[x + 1] # q[1]
    BY <2>1
  <2> QED BY <1>1, <2>1, <2>2
<1>3. ASSUME NEW x \in 1..Len(q1) PROVE st1[q1[x]] = "queued"
  <2>1. st[q1[x]] = "queued"
    BY <1>2
  <2> QED BY <1>2, <2>1
<1>4. ASSUME NEW x \in 1..Len(q1), NEW j \in 1..Len(q1), q1[x] = q1[j]
      PROVE  x = j
  <2>1. x + 1 = j + 1
    BY <1>2, <1>4
  <2> QED BY <1>2, <2>1
<1>5. ASSUME NEW t \in S, st1[t] = "queued"
      PROVE  \E x \in 1..Len(q1) : q1[x] = t
  <2>1. t # h /\ st[t] = "queued"
    BY <1>1, <1>5
  <2>2. PICK x \in 1..Len(q) : q[x] = t
    BY <2>1
  <2>3. x # 1
    BY <1>1, <2>1, <2>2
  <2>4. x - 1 \in 1..Len(q1) /\ (x - 1) + 1 = x
    BY <1>1, <2>3
  <2>5. q1[x - 1] = t
    BY <1>1, <2>2, <2>4
  <2> QED BY <2>4, <2>5
<1> QED BY <1>3, <1>4, <1>5

(* A turn of the worker loop, however it ends, leaves each task in place.  *)
LEMMA LoopPlace ==
  ASSUME TypeOK, PlaceInv, Running,
         NEW w \in Workers, wpc[w] \in {"ready", "returned"}, Loop(w),
         UNCHANGED <<phase, launched, ctask>>,
         \A c \in Clients : cpc'[c] = "inline" <=> cpc[c] = "inline"
  PROVE  PlaceInv'
<1> USE DEF PlaceInv
<1>1. CASE UNCHANGED <<queue, wtask, status, runs>> /\
           (\/ wpc' = [wpc EXCEPT ![w] = "exited"]
            \/ wpc' = [wpc EXCEPT ![w] = "waiting"])
  <2>1. QueueInv'
    BY <1>1 DEF QueueInv
  <2>2. LaunchInv' /\ DropInv'
    BY <1>1 DEF LaunchInv, DropInv
  <2>3. \A v \in Workers : wpc'[v] = "running" <=> wpc[v] = "running"
    BY <1>1 DEF TypeOK
  <2>4. WorkerInv'
    BY <1>1, <2>3 DEF WorkerInv, Running
  <2>5. ClientInv'
    BY <1>1 DEF ClientInv
  <2> QED BY <2>1, <2>2, <2>4, <2>5
<1>2. CASE /\ queue # <<>>
           /\ queue' = Tail(queue)
           /\ status' = [status EXCEPT ![Head(queue)] = "running"]
           /\ wpc' = [wpc EXCEPT ![w] = "running"]
           /\ wtask' = [wtask EXCEPT ![w] = Head(queue)]
  <2> DEFINE t == Head(queue)
  <2>1. queue \in Seq(Tasks) /\ DOMAIN status = Tasks /\ phase # "destroyed"
    BY DEF TypeOK, Running
  <2>2. t \in Tasks /\ t = queue[1] /\ Len(queue) \in Nat \ {0}
    BY <1>2, <2>1, TailElements
  <2>3. status[t] = "queued"
    BY <2>1, <2>2 DEF QueueInv, InStep
  <2>4. QueueInv'
    <3>1. InStep(queue, status) /\ status \in [Tasks -> Statuses]
      BY <2>1 DEF QueueInv, TypeOK
    <3>2. InStep(queue', status')
      BY <1>2, <2>1, <3>1, PopQueue
    <3> QED BY <3>2 DEF QueueInv
  <2>5. LaunchInv' /\ DropInv'
    BY <1>2, <2>1, <2>2, <2>3 DEF LaunchInv, DropInv
  <2>6. WorkerInv'
    <3>1. \A v \in Workers : wpc[v] = "running" => v # w /\ wtask[v] # t
      BY <2>3 DEF WorkerInv
    <3> QED BY <1>2, <2>1, <2>2, <2>3, <3>1 DEF WorkerInv, Running, TypeOK
  <2>7. ClientInv'
    BY <1>2, <2>1, <2>2, <2>3 DEF ClientInv
  <2> QED BY <2>4, <2>5, <2>6, <2>7
<1> QED BY <1>1, <1>2, LoopEffect

(* Appending a new task keeps the queue and the queued tasks in step, and  *)
(* so does any change among tasks that are not queued.                     *)
LEMMA PushQueue ==
  ASSUME NEW q \in Seq(Tasks), NEW st \in [Tasks -> Statuses],
         NEW t \in Tasks, st[t] # "queued", InStep(q, st)
  PROVE  InStep(Append(q, t), [st EXCEPT ![t] = "queued"])
<1> USE DEF InStep
<1> DEFINE q1 == Append(q, t)
           st1 == [st EXCEPT ![t] = "queued"]
<1>1. /\ Len(q) \in Nat /\ Len(q1) = Len(q) + 1 /\ q1[Len(q) + 1] = t
      /\ \A x \in 1..Len(q) : q1[x] = q[x] /\ q[x] \in Tasks
  OBVIOUS
<1>2. \A x \in 1..Len(q1) : x \in 1..Len(q) \/ x = Len(q) + 1
  BY <1>1
<1>3. \A x \in 1..Len(q) : q[x] # t
  OBVIOUS
<1>4. \A x \in 1..Len(q1) : st1[q1[x]] = "queued"
  BY <1>1, <1>2, <1>3
<1>5. \A x, j \in 1..Len(q1) : q1[x] = q1[j] => x = j
  BY <1>1, <1>2, <1>3
<1>6. ASSUME NEW u \in Tasks, st1[u] = "queued"
      PROVE  \E x \in 1..Len(q1) : q1[x] = u
  <2>1. CASE u = t
    BY <1>1, <2>1
  <2>2. CASE u # t
    <3>1. PICK x \in 1..Len(q) : q[x] = u
      BY <1>6, <2>2
    <3>2. x \in 1..Len(q1) /\ q1[x] = u
      BY <1>1, <3>1
    <3> QED BY <3>2
  <2> QED BY <2>1, <2>2
<1> QED BY <1>4, <1>5, <1>6

(* A task that is not queued may change its status freely.                 *)
LEMMA KeepQueue ==
  ASSUME NEW q \in Seq(Tasks), NEW st \in [Tasks -> Statuses],
         NEW t \in Tasks, st[t] # "queued", NEW s, s # "queued", InStep(q, st)
  PROVE  InStep(q, [st EXCEPT ![t] = s])
BY DEF InStep

(* Every step of the pool keeps each task in one place.                    *)
LEMMA PlaceStep == TypeOK /\ PlaceInv /\ [Next]_vars => PlaceInv'
<1> SUFFICES ASSUME TypeOK, PlaceInv, [Next]_vars PROVE PlaceInv'
  OBVIOUS
<1> USE DEF PlaceInv
<1>0. /\ queue \in Seq(Tasks) /\ status \in [Tasks -> Statuses]
      /\ wpc \in [Workers -> WorkerPC] /\ cpc \in [Clients -> ClientPC]
  BY DEF TypeOK
<1>1. ASSUME NEW w \in Workers, TakeWork(w) PROVE PlaceInv'
  BY <1>1, LoopPlace DEF TakeWork
<1>2. ASSUME NEW w \in Workers, CallReturns(w) PROVE PlaceInv'
  <2>1. wtask[w] \in Tasks /\ status[wtask[w]] = "running" /\ Running
    BY <1>2 DEF CallReturns, WorkerInv
  <2>2. QueueInv'
    BY <1>0, <1>2, <2>1, KeepQueue DEF CallReturns, QueueInv
  <2>3. LaunchInv' /\ DropInv' /\ ClientInv'
    BY <1>0, <1>2, <2>1 DEF CallReturns, LaunchInv, DropInv, ClientInv
  <2>4. \A v \in Workers : wpc'[v] = "running" <=> wpc[v] = "running" /\ v # w
    BY <1>0, <1>2 DEF CallReturns
  <2>5. WorkerInv'
    BY <1>0, <1>2, <2>1, <2>4 DEF CallReturns, WorkerInv, Running
  <2> QED BY <2>2, <2>3, <2>5
<1>3. ASSUME NEW w \in Workers, CallThrows(w) PROVE PlaceInv'
  <2>1. wtask[w] \in Tasks /\ status[wtask[w]] = "running" /\ Running
    BY <1>3 DEF CallThrows, WorkerInv
  <2>2. QueueInv'
    BY <1>0, <1>3, <2>1, KeepQueue DEF CallThrows, QueueInv, Running
  <2>3. LaunchInv' /\ DropInv' /\ ClientInv'
    BY <1>0, <1>3, <2>1 DEF CallThrows, LaunchInv, DropInv, ClientInv, Running
  <2>4. CASE kind[wtask[w]] = "future"
    <3>1. \A v \in Workers :
            wpc'[v] = "running" <=> wpc[v] = "running" /\ v # w
      BY <1>0, <1>3, <2>4 DEF CallThrows
    <3>2. WorkerInv'
      BY <1>0, <1>3, <2>1, <2>4, <3>1 DEF CallThrows, WorkerInv, Running
    <3> QED BY <2>2, <2>3, <3>2
  <2>5. CASE kind[wtask[w]] # "future"
    <3>1. WorkerInv'
      BY <1>3, <2>5 DEF CallThrows, WorkerInv, Running
    <3> QED BY <2>2, <2>3, <3>1
  <2> QED BY <2>4, <2>5
<1>4. ASSUME NEW w \in Workers, CompleteTask(w) PROVE PlaceInv'
  <2>1. \A c \in Clients : cpc'[c] = "inline" <=> cpc[c] = "inline"
    BY <1>0, <1>4 DEF CompleteTask, NotifyCompletion
  <2> QED BY <1>4, <2>1, LoopPlace DEF CompleteTask
<1>5. ASSUME NEW w \in Workers, SpuriousWorker(w) PROVE PlaceInv'
  <2>1. \A v \in Workers : wpc'[v] = "running" <=> wpc[v] = "running"
    BY <1>0, <1>5 DEF SpuriousWorker
  <2> QED BY <1>5, <2>1 DEF SpuriousWorker, QueueInv, LaunchInv, WorkerInv,
                            ClientInv, DropInv, Running
<1>6. ASSUME NEW c \in Clients, NEW k \in Kinds, Launch(c, k) PROVE PlaceInv'
  <2> DEFINE t == launched'
  <2>1. t \in Tasks /\ status[t] = "new" /\ phase = "live" /\ cpc[c] = "idle"
    BY <1>6, PoolAssumption DEF PoolAssumption, Launch, LaunchInv, Tasks, TypeOK
  <2>2. CASE Enqueue(c, t)
    <3>1. QueueInv'
      BY <1>0, <1>6, <2>1, <2>2, PushQueue DEF Launch, Enqueue, QueueInv
    <3>2. LaunchInv' /\ DropInv'
      BY <1>0, <1>6, <2>1, <2>2 DEF Launch, Enqueue, LaunchInv, DropInv, Tasks, TypeOK
    <3>3. WorkerInv'
      BY <1>0, <1>6, <2>1, <2>2 DEF Launch, Enqueue, WorkerInv, Running
    <3>4. ClientInv'
      BY <1>0, <1>6, <2>1, <2>2 DEF Launch, Enqueue, ClientInv
    <3> QED BY <3>1, <3>2, <3>3, <3>4
  <2>3. CASE StartInline(c, t)
    <3>1. QueueInv'
      BY <1>0, <1>6, <2>1, <2>3, KeepQueue DEF Launch, StartInline, QueueInv
    <3>2. LaunchInv' /\ DropInv'
      BY <1>0, <1>6, <2>1, <2>3 DEF Launch, StartInline, LaunchInv, DropInv, Tasks, TypeOK
    <3>3. WorkerInv'
      BY <1>0, <1>6, <2>1, <2>3 DEF Launch, StartInline, WorkerInv, Running
    <3>4. ClientInv'
      BY <1>0, <1>6, <2>1, <2>3 DEF Launch, StartInline, ClientInv, TypeOK
    <3> QED BY <3>1, <3>2, <3>3, <3>4
  <2> QED BY <1>6, <2>2, <2>3 DEF Launch
<1>7. ASSUME NEW c \in Clients, LaunchNotify(c) PROVE PlaceInv'
  <2>1. \A v \in Workers : wpc'[v] = "running" <=> wpc[v] = "running"
    BY <1>0, <1>7 DEF LaunchNotify, NotifyOne
  <2>2. \A d \in Clients : cpc'[d] = "inline" <=> cpc[d] = "inline"
    BY <1>0, <1>7 DEF LaunchNotify
  <2> QED BY <1>7, <2>1, <2>2 DEF LaunchNotify, QueueInv, LaunchInv, WorkerInv,
                                  ClientInv, DropInv, Running
<1>8. ASSUME NEW c \in Clients, NEW o \in {"done", "thrown"}, RunInline(c, o)
      PROVE PlaceInv'
  <2>1. ctask[c] \in Tasks /\ status[ctask[c]] = "inline"
    BY <1>8 DEF RunInline, ClientInv
  <2>2. QueueInv'
    BY <1>0, <1>8, <2>1, KeepQueue DEF RunInline, QueueInv
  <2>3. LaunchInv' /\ DropInv' /\ WorkerInv'
    BY <1>0, <1>8, <2>1 DEF RunInline, LaunchInv, DropInv, WorkerInv, Running
  <2>4. \A d \in Clients : cpc'[d] = "inline" <=> cpc[d] = "inline" /\ d # c
    BY <1>0, <1>8 DEF RunInline
  <2>5. ClientInv'
    BY <1>0, <1>8, <2>1, <2>4 DEF RunInline, ClientInv
  <2> QED BY <2>2, <2>3, <2>5
<1>9. ASSUME NEW c \in Clients, Wait(c) \/ SpuriousClient(c) PROVE PlaceInv'
  <2>1. \A d \in Clients : cpc'[d] = "inline" <=> cpc[d] = "inline"
    BY <1>0, <1>9 DEF Wait, SpuriousClient
  <2>2. UNCHANGED <<queue, status, phase, launched, wpc, wtask, ctask>>
    BY <1>9 DEF Wait, SpuriousClient
  <2> QED BY <2>1, <2>2 DEF QueueInv, LaunchInv, WorkerInv, ClientInv,
                            DropInv, Running
<1>10. CASE Destroy
  <2>1. \A v \in Workers : wpc'[v] = "running" <=> wpc[v] = "running"
    BY <1>0, <1>10 DEF Destroy
  <2> QED BY <1>10, <2>1 DEF Destroy, QueueInv, LaunchInv, WorkerInv,
                             ClientInv, DropInv, Running
<1>11. CASE Join
  <2>1. \A t \in Tasks : status'[t] = IF status[t] = "queued" THEN "dropped"
                                       ELSE status[t]
    BY <1>11 DEF Join
  <2>2. phase' = "destroyed" /\ UNCHANGED <<launched, cpc, ctask>>
    BY <1>11 DEF Join
  <2>3. QueueInv' /\ WorkerInv'
    BY <2>2 DEF QueueInv, WorkerInv, Running
  <2>4. LaunchInv' /\ DropInv' /\ ClientInv'
    BY <2>1, <2>2 DEF LaunchInv, DropInv, ClientInv
  <2> QED BY <2>3, <2>4
<1>12. CASE UNCHANGED vars
  BY <1>12 DEF vars, QueueInv, LaunchInv, WorkerInv, ClientInv, DropInv, Running
<1> QED BY <1>1, <1>2, <1>3, <1>4, <1>5, <1>6, <1>7, <1>8, <1>9, <1>10, <1>11,
           <1>12 DEF Next, WorkerStep, ClientReturns, Ended

(* Types and places hold in every state of every behaviour of the pool.    *)
LEMMA Places == Spec => [](TypeOK /\ PlaceInv)
<1>1. Init => PlaceInv
  BY DEF Init, PlaceInv, QueueInv, InStep, LaunchInv, WorkerInv, ClientInv,
         DropInv, Tasks
<1> QED BY <1>1, PlaceStep, TypeInvariant, PTL DEF Spec

-----------------------------------------------------------------------------
(* Type correctness of the pool: the theorem form of TypeInvariant.        *)
THEOREM PoolTypeCorrect == Spec => []TypeOK
BY TypeInvariant

(* Each call is handed to one thread: no task's body is entered twice,     *)
(* by two workers or by a worker and the launcher.                         *)
THEOREM TasksRunAtMostOnce == Spec => []RunsAtMostOnce
<1>1. Init => RunsAtMostOnce
  BY DEF Init, RunsAtMostOnce
<1>2. TypeOK /\ PlaceInv /\ RunsAtMostOnce /\ [Next]_vars => RunsAtMostOnce'
  <2> SUFFICES ASSUME TypeOK, PlaceInv, RunsAtMostOnce, [Next]_vars
               PROVE  RunsAtMostOnce'
    OBVIOUS
  <2> USE DEF RunsAtMostOnce
  <2>0. /\ queue \in Seq(Tasks) /\ status \in [Tasks -> Statuses]
        /\ runs \in [Tasks -> Nat]
    BY DEF TypeOK
  <2>1. ASSUME NEW w \in Workers, Running, Loop(w) PROVE RunsAtMostOnce'
    <3>1. CASE UNCHANGED <<status, runs>>
      BY <3>1
    <3>2. CASE /\ queue # <<>>
               /\ status' = [status EXCEPT ![Head(queue)] = "running"]
               /\ runs' = [runs EXCEPT ![Head(queue)] = @ + 1]
      <4>1. Head(queue) \in Tasks /\ status[Head(queue)] = "queued"
        BY <2>0, <2>1, <3>2, TailElements
           DEF PlaceInv, QueueInv, InStep, Running
      <4> QED BY <2>0, <3>2, <4>1
    <3> QED BY <2>1, <3>1, <3>2, LoopEffect
  <2>2. ASSUME NEW w \in Workers, CallReturns(w) \/ CallThrows(w)
        PROVE  RunsAtMostOnce'
    <3>1. wtask[w] \in Tasks /\ status[wtask[w]] = "running"
      BY <2>2 DEF PlaceInv, WorkerInv, CallReturns, CallThrows
    <3> QED BY <2>0, <2>2, <3>1 DEF CallReturns, CallThrows
  <2>3. ASSUME NEW c \in Clients, NEW k \in Kinds, Launch(c, k)
        PROVE  RunsAtMostOnce'
    <3>1. launched' \in Tasks /\ status[launched'] = "new"
      BY <2>3, PoolAssumption
         DEF PoolAssumption, Launch, PlaceInv, LaunchInv, Tasks, TypeOK
    <3> QED BY <2>0, <2>3, <3>1 DEF Launch, Enqueue, StartInline
  <2>4. ASSUME NEW c \in Clients, NEW o \in {"done", "thrown"},
               RunInline(c, o)
        PROVE  RunsAtMostOnce'
    <3>1. ctask[c] \in Tasks /\ status[ctask[c]] = "inline"
      BY <2>4 DEF RunInline, PlaceInv, ClientInv
    <3> QED BY <2>0, <2>4, <3>1 DEF RunInline
  <2>5. CASE Join
    BY <2>0, <2>5 DEF Join
  <2>6. CASE UNCHANGED <<status, runs>>
    BY <2>6
  <2> QED BY <2>1, <2>2, <2>3, <2>4, <2>5, <2>6
          DEF Next, WorkerStep, ClientReturns, TakeWork, CompleteTask,
              SpuriousWorker, SpuriousClient, LaunchNotify, Wait, Destroy,
              Ended, vars
<1> QED BY <1>1, <1>2, Places, PTL DEF Spec

-----------------------------------------------------------------------------
(* Moving one worker in or out of the set of busy workers.                 *)
LEMMA BusyCard ==
  /\ IsFiniteSet(Busy) /\ Cardinality(Busy) \in Nat
  /\ Cardinality(Busy) = 0 <=> Busy = {}
  /\ \A w \in Workers \ Busy :
       /\ IsFiniteSet(Busy \cup {w})
       /\ Cardinality(Busy \cup {w}) = Cardinality(Busy) + 1
  /\ \A w \in Busy : Cardinality(Busy \ {w}) = Cardinality(Busy) - 1
<1>1. IsFiniteSet(Busy)
  BY PoolAssumption, FS_Subset DEF PoolAssumption, Busy
<1> QED BY <1>1, FS_CardinalityType, FS_EmptySet, FS_AddElement,
           FS_RemoveElement

(* Wait()'s counters count exactly the calls that are queued or in the     *)
(* hands of a worker.                                                      *)
THEOREM CountersAgree == Spec => []Accounting
<1>1. Init => Accounting
  <2> SUFFICES ASSUME Init PROVE Accounting
    OBVIOUS
  <2>1. Busy = {}
    BY DEF Init, Busy
  <2> QED BY <2>1, FS_EmptySet DEF Init, Accounting
<1>2. TypeOK /\ Accounting /\ [Next]_vars => Accounting'
  <2> SUFFICES ASSUME TypeOK, Accounting, [Next]_vars PROVE Accounting'
    OBVIOUS
  <2>0. /\ queue \in Seq(Tasks) /\ Len(queue) \in Nat
        /\ scheduled \in Nat /\ completed \in Nat
        /\ wpc \in [Workers -> WorkerPC]
        /\ Cardinality(Busy) \in Nat
    BY BusyCard DEF TypeOK
  <2>1. ASSUME NEW w \in Workers, TakeWork(w) PROVE Accounting'
    <3>1. w \notin Busy /\ phase # "destroyed" /\ UNCHANGED phase
      BY <2>1 DEF TakeWork, Busy, Running
    <3>2. CASE queue # <<>> /\ queue' = Tail(queue)
               /\ wpc' = [wpc EXCEPT ![w] = "running"]
      <4>1. Busy' = Busy \cup {w}
        BY <2>0, <3>2 DEF Busy
      <4>2. Cardinality(Busy') = Cardinality(Busy) + 1
        BY <3>1, <4>1, BusyCard
      <4>3. Len(queue') = Len(queue) - 1
        BY <2>0, <3>2, TailElements
      <4> QED BY <2>0, <2>1, <3>1, <4>2, <4>3 DEF TakeWork, Accounting
    <3>3. CASE UNCHANGED queue
               /\ (\/ wpc' = [wpc EXCEPT ![w] = "exited"]
                   \/ wpc' = [wpc EXCEPT ![w] = "waiting"])
      <4>1. Busy' = Busy
        BY <2>0, <3>1, <3>3 DEF Busy
      <4> QED BY <2>1, <3>1, <3>3, <4>1 DEF TakeWork, Accounting
    <3> QED BY <2>1, <3>2, <3>3, LoopEffect DEF TakeWork
  <2>2. ASSUME NEW w \in Workers, CompleteTask(w) PROVE Accounting'
    <3>1. w \in Busy /\ phase # "destroyed" /\ UNCHANGED <<phase, scheduled>>
          /\ completed' = completed + 1
      BY <2>2 DEF CompleteTask, Busy, Running
    <3>2. CASE queue # <<>> /\ queue' = Tail(queue)
               /\ wpc' = [wpc EXCEPT ![w] = "running"]
      <4>1. Busy' = Busy
        BY <2>0, <3>1, <3>2 DEF Busy
      <4>2. Len(queue') = Len(queue) - 1
        BY <2>0, <3>2, TailElements
      <4> QED BY <2>0, <3>1, <4>1, <4>2 DEF Accounting
    <3>3. CASE UNCHANGED queue
               /\ (\/ wpc' = [wpc EXCEPT ![w] = "exited"]
                   \/ wpc' = [wpc EXCEPT ![w] = "waiting"])
      <4>1. Busy' = Busy \ {w}
        BY <2>0, <3>1, <3>3 DEF Busy
      <4>2. Cardinality(Busy') = Cardinality(Busy) - 1
        BY <3>1, <4>1, BusyCard
      <4> QED BY <2>0, <3>1, <3>3, <4>2 DEF Accounting
    <3> QED BY <2>2, <3>2, <3>3, LoopEffect DEF CompleteTask
  <2>3. ASSUME NEW w \in Workers, CallReturns(w) \/ CallThrows(w)
        PROVE  Accounting'
    <3>1. Busy' = Busy
      BY <2>0, <2>3 DEF CallReturns, CallThrows, Busy
    <3>2. UNCHANGED <<queue, scheduled, completed>> /\ phase # "destroyed"
      BY <2>3 DEF CallReturns, CallThrows, Running
    <3> QED BY <3>1, <3>2 DEF Accounting
  <2>4. ASSUME NEW c \in Clients, NEW k \in Kinds, Launch(c, k)
        PROVE  Accounting'
    <3>1. Busy' = Busy /\ phase' = "live" /\ phase = "live"
          /\ UNCHANGED completed
      BY <2>4 DEF Launch, Busy
    <3>2. CASE Enqueue(c, launched')
      <4>1. Len(queue') = Len(queue) + 1 /\ scheduled' = scheduled + 1
        BY <2>0, <3>2 DEF Enqueue
      <4> QED BY <2>0, <3>1, <4>1 DEF Accounting
    <3>3. CASE StartInline(c, launched')
      BY <3>1, <3>3 DEF StartInline, Accounting
    <3> QED BY <2>4, <3>2, <3>3 DEF Launch
  <2>5. ASSUME UNCHANGED <<queue, scheduled, completed>>,
               \A w \in Workers : \/ wpc'[w] = wpc[w]
                                  \/ wpc[w] = "waiting" /\ wpc'[w] = "ready",
               phase' # "destroyed" => phase # "destroyed"
        PROVE  Accounting'
    <3>1. Busy' = Busy
      BY <2>5 DEF Busy
    <3> QED BY <2>5, <3>1 DEF Accounting
  <2>6. CASE Join
    BY <2>6 DEF Join, Accounting
  <2>7. ASSUME NEW w \in Workers, SpuriousWorker(w) PROVE Accounting'
    BY <2>0, <2>5, <2>7 DEF SpuriousWorker
  <2>8. ASSUME NEW c \in Clients, LaunchNotify(c) PROVE Accounting'
    <3>1. \A w \in Workers : \/ wpc'[w] = wpc[w]
                             \/ wpc[w] = "waiting" /\ wpc'[w] = "ready"
      BY <2>0, <2>8 DEF LaunchNotify, NotifyOne
    <3> QED BY <2>5, <2>8, <3>1 DEF LaunchNotify
  <2>9. CASE Destroy
    BY <2>0, <2>5, <2>9 DEF Destroy
  <2>10. CASE UNCHANGED <<queue, scheduled, completed, wpc, phase>>
    BY <2>5, <2>10
  <2> QED BY <2>1, <2>2, <2>3, <2>4, <2>6, <2>7, <2>8, <2>9, <2>10
          DEF Next, WorkerStep, ClientReturns, SpuriousClient, RunInline,
              Wait, Ended, vars
<1> QED BY <1>1, <1>2, TypeInvariant, PTL DEF Spec

-----------------------------------------------------------------------------
(* When the two counters agree, no scheduled task is under way.            *)
LEMMA CountersMeanIdle ==
  ASSUME TypeOK, PlaceInv, Accounting, phase = "live", completed = scheduled
  PROVE  \A t \in Tasks : status[t] \notin {"queued", "running", "dropped"}
<1>1. Len(queue) \in Nat /\ Cardinality(Busy) \in Nat /\ scheduled \in Nat
  BY BusyCard DEF TypeOK
<1>2. Len(queue) = 0 /\ Cardinality(Busy) = 0
  BY <1>1 DEF Accounting
<1>3. \A w \in Workers : wpc[w] # "running"
  BY <1>2, BusyCard DEF Busy
<1>4. \A x \in 1..Len(queue) : FALSE
  BY <1>2
<1> QED BY <1>3, <1>4 DEF PlaceInv, QueueInv, InStep, WorkerInv, DropInv, Running

(* When Wait() returns, no scheduled task is queued or running, whatever   *)
(* other clients did in the meantime.                                      *)
THEOREM WaitIsABarrier == Spec => WaitReturnsIdle
<1> DEFINE Idle == \A c \in Clients :
                     (Wait(c) /\ cpc'[c] = "idle")
                       => \A t \in Tasks : status[t] \notin {"queued", "running"}
<1>1. ASSUME TypeOK, PlaceInv, Accounting PROVE Idle
  <2> SUFFICES ASSUME NEW c \in Clients, Wait(c), cpc'[c] = "idle",
                      NEW t \in Tasks
               PROVE  status[t] \notin {"queued", "running"}
    OBVIOUS
  <2>1. phase = "live" /\ completed = scheduled
    BY <1>1 DEF Wait, TypeOK
  <2> QED BY <1>1, <2>1, CountersMeanIdle
<1>2. TypeOK /\ PlaceInv /\ Accounting => [Idle]_vars
  BY <1>1
<1>3. Spec => [][Idle]_vars
  <2> HIDE DEF Idle
  <2> QED BY <1>2, Places, CountersAgree, PTL
<1> QED BY <1>3 DEF WaitReturnsIdle

(* The contract of the destructor's comment: what was launched before a    *)
(* Wait() returned is never dropped.                                       *)
THEOREM WaitProtectsTasks == Spec => []WaitedMeansNoneDropped
<1> DEFINE J == waitedFor <= launched /\ WaitedMeansNoneDropped
<1>1. Init => J
  BY DEF Init, WaitedMeansNoneDropped
<1>2. TypeOK /\ PlaceInv /\ Accounting /\ J /\ [Next]_vars => J'
  <2> SUFFICES ASSUME TypeOK, PlaceInv, Accounting, J, [Next]_vars PROVE J'
    OBVIOUS
  <2> USE DEF WaitedMeansNoneDropped
  <2>0. /\ queue \in Seq(Tasks) /\ status \in [Tasks -> Statuses]
        /\ launched \in 0..NTasks /\ waitedFor \in 0..NTasks /\ NTasks \in Nat
        /\ 1..waitedFor \subseteq Tasks
    BY PoolAssumption DEF PoolAssumption, TypeOK, Tasks
  <2>1. ASSUME NEW w \in Workers, Running, Loop(w),
               UNCHANGED <<waitedFor, launched>>
        PROVE  J'
    <3>1. CASE UNCHANGED status
      BY <2>1, <3>1
    <3>2. CASE /\ queue # <<>>
               /\ status' = [status EXCEPT ![Head(queue)] = "running"]
      <4>1. Head(queue) \in Tasks /\ status[Head(queue)] = "queued"
        BY <2>0, <2>1, <3>2, TailElements
           DEF PlaceInv, QueueInv, InStep, Running
      <4>2. \A t \in 1..waitedFor : t # Head(queue)
        BY <4>1
      <4> QED BY <2>0, <2>1, <3>2, <4>2
    <3> QED BY <2>1, <3>1, <3>2, LoopEffect
  <2>2. ASSUME NEW w \in Workers, CallReturns(w) \/ CallThrows(w) PROVE J'
    BY <2>0, <2>2 DEF CallReturns, CallThrows
  <2>3. ASSUME NEW c \in Clients, NEW k \in Kinds, Launch(c, k) PROVE J'
    <3>1. /\ launched' = launched + 1 /\ UNCHANGED waitedFor
          /\ \A t \in Tasks : t # launched' => status'[t] = status[t]
      BY <2>0, <2>3 DEF Launch, Enqueue, StartInline
    <3>2. \A t \in 1..waitedFor : t \in Tasks /\ t # launched'
      BY <2>0, <3>1
    <3> QED BY <2>0, <3>1, <3>2
  <2>4. ASSUME NEW c \in Clients, NEW o \in {"done", "thrown"},
               RunInline(c, o)
        PROVE  J'
    BY <2>0, <2>4 DEF RunInline
  <2>5. ASSUME NEW c \in Clients, Wait(c) PROVE J'
    <3>1. CASE completed = scheduled
      <4>1. \A t \in Tasks : status[t] \notin {"queued", "running", "dropped"}
        BY <2>5, <3>1, CountersMeanIdle DEF Wait
      <4> QED BY <2>0, <2>5, <3>1, <4>1 DEF Wait, Tasks
    <3>2. CASE completed # scheduled
      BY <2>5, <3>2 DEF Wait
    <3> QED BY <3>1, <3>2
  <2>6. CASE Join
    BY <2>0, <2>6 DEF Join
  <2>7. CASE UNCHANGED <<status, waitedFor, launched>>
    BY <2>7
  <2> QED BY <2>1, <2>2, <2>3, <2>4, <2>5, <2>6, <2>7
          DEF Next, WorkerStep, ClientReturns, TakeWork, CompleteTask,
              SpuriousWorker, SpuriousClient, LaunchNotify, Destroy, Ended, vars
<1>3. J => WaitedMeansNoneDropped
  OBVIOUS
<1> QED
  <2> HIDE DEF J
  <2> QED BY <1>1, <1>2, <1>3, Places, CountersAgree, PTL DEF Spec

-----------------------------------------------------------------------------
(* No wake-up is lost although Launch() notifies after it has unlocked:    *)
(* while a call is queued in a live pool, a worker is awake or a launcher  *)
(* has yet to notify.                                                      *)
THEOREM WakeupsAreNotLost == Spec => []NoLostWakeup
<1> DEFINE Awake == \/ \E w \in Workers : wpc[w] # "waiting"
                    \/ \E c \in Clients : cpc[c] = "notify"
           J == (phase = "live" /\ queue # <<>> /\ Workers # {}) => Awake
<1>1. Init => J
  BY DEF Init
<1>2. TypeOK /\ J /\ [Next]_vars => J'
  <2> SUFFICES ASSUME TypeOK, J, [Next]_vars, phase' = "live", queue' # <<>>,
                      Workers # {}
               PROVE  Awake'
    OBVIOUS
  <2>0. /\ wpc \in [Workers -> WorkerPC] /\ cpc \in [Clients -> ClientPC]
    BY DEF TypeOK
  <2>1. ASSUME NEW w \in Workers, Loop(w) PROVE Awake'
    <3>1. wpc'[w] # "waiting"
      <4>1. CASE wpc' = [wpc EXCEPT ![w] = "running"]
        BY <2>0, <4>1
      <4>2. CASE wpc' = [wpc EXCEPT ![w] = "exited"]
        BY <2>0, <4>2
      <4>3. CASE UNCHANGED queue /\ queue = <<>>
        BY <4>3
      <4> QED BY <2>1, <4>1, <4>2, <4>3, LoopEffect
    <3> QED BY <3>1
  <2>2. ASSUME NEW w \in Workers, CallReturns(w) \/ CallThrows(w) PROVE Awake'
    <3>1. wpc'[w] # "waiting"
      BY <2>0, <2>2 DEF CallReturns, CallThrows
    <3> QED BY <3>1
  <2>3. ASSUME NEW c \in Clients, NEW k \in Kinds, Launch(c, k) PROVE Awake'
    <3>1. CASE Enqueue(c, launched')
      <4>1. cpc'[c] = "notify"
        BY <2>0, <3>1 DEF Enqueue
      <4> QED BY <4>1
    <3>2. CASE StartInline(c, launched')
      <4>1. Awake /\ cpc[c] = "idle" /\ wpc' = wpc
        BY <2>3, <3>2 DEF Launch, StartInline
      <4>2. \A d \in Clients : cpc[d] = "notify" => cpc'[d] = "notify"
        BY <2>0, <3>2, <4>1 DEF StartInline
      <4> QED BY <4>1, <4>2
    <3> QED BY <2>3, <3>1, <3>2 DEF Launch
  <2>4. ASSUME NEW c \in Clients, LaunchNotify(c) PROVE Awake'
    <3>1. CASE \E w \in Workers : wpc[w] # "waiting"
      <4>1. PICK w \in Workers : wpc[w] # "waiting"
        BY <3>1
      <4>2. wpc'[w] # "waiting"
        BY <2>0, <2>4, <4>1 DEF LaunchNotify, NotifyOne
      <4> QED BY <4>2
    <3>2. CASE \A w \in Workers : wpc[w] = "waiting"
      <4>1. PICK w \in Workers : wpc' = [wpc EXCEPT ![w] = "ready"]
        BY <2>4, <3>2 DEF LaunchNotify, NotifyOne
      <4>2. wpc'[w] # "waiting"
        BY <2>0, <4>1
      <4> QED BY <4>2
    <3> QED BY <3>1, <3>2
  <2>5. ASSUME UNCHANGED <<phase, queue>>,
               \A w \in Workers : wpc[w] # "waiting" => wpc'[w] # "waiting",
               \A c \in Clients : cpc[c] = "notify" => cpc'[c] = "notify"
        PROVE  Awake'
    BY <2>5
  <2>6. ASSUME NEW w \in Workers, SpuriousWorker(w) PROVE Awake'
    BY <2>0, <2>5, <2>6 DEF SpuriousWorker
  <2>7. ASSUME NEW c \in Clients,
               \/ SpuriousClient(c) \/ Wait(c)
               \/ \E o \in {"done", "thrown"} : RunInline(c, o)
        PROVE  Awake'
    <3>1. UNCHANGED <<phase, queue, wpc>>
      BY <2>7 DEF SpuriousClient, Wait, RunInline
    <3>2. \A d \in Clients : cpc[d] = "notify" => cpc'[d] = "notify"
      BY <2>0, <2>7 DEF SpuriousClient, Wait, RunInline
    <3> QED BY <2>5, <3>1, <3>2
  <2>8. ~Destroy /\ ~Join
    BY DEF Destroy, Join
  <2>9. CASE UNCHANGED vars
    BY <2>9 DEF vars
  <2> QED BY <2>1, <2>2, <2>3, <2>4, <2>6, <2>7, <2>8, <2>9
          DEF Next, WorkerStep, ClientReturns, TakeWork, CompleteTask, Ended
<1>3. J => NoLostWakeup
  BY DEF NoLostWakeup
<1> QED
  <2> HIDE DEF J
  <2> QED BY <1>1, <1>2, <1>3, TypeInvariant, PTL DEF Spec
-----------------------------------------------------------------------------
(* The driver.                                                             *)

(* The one client: what it runs inline, and that it is not inside a call   *)
(* once its scope has ended.                                               *)
MainInv ==
  /\ \A t \in Tasks : status[t] = "inline" => cpc[Main] = "inline" /\ ctask[Main] = t
  /\ phase # "live" => cpc[Main] = "idle"

(* Inside the lock is the task that holds it, which is under way and has a *)
(* line to print.                                                          *)
LockInv ==
  /\ \A t \in Tasks : piece[t] > 0 => holder = t
  /\ holder # NoTask => /\ holder \in Active /\ printed[holder] < Len(Lines[holder])
                         /\ piece[holder] \in 1 .. Length(holder) + 1

(* A task has printed nothing before it is run and everything after.       *)
PrintInv ==
  \A t \in Tasks :
    /\ printed[t] <= Len(Lines[t])
    /\ printed[t] > 0 => status[t] \in {"running", "inline", "done"}
    /\ status[t] = "done" => Finished(t)

(* On stdout are the pieces of the lines that each task has printed and of *)
(* the line it is at, once each, ...                                       *)
Out(x) == \/ x.line <= printed[x.task]
          \/ x.line = NextLine(x.task) /\ x.piece < piece[x.task]
OutInv ==
  /\ \A x \in Pieces : (x.line <= Len(Lines[x.task]) /\ x.piece <= Lines[x.task][x.line]
                          /\ Out(x))
                         <=> \E k \in 1..Len(stdout) : stdout[k] = x
  /\ \A j, k \in 1..Len(stdout) : stdout[j] = stdout[k] => j = k

(* ... and the last of them is the end of a line unless the holder of the  *)
(* lock has begun one.                                                     *)
LastInv ==
  /\ (\A t \in Tasks : piece[t] <= 1) /\ stdout # <<>> => EndsLine(stdout[Len(stdout)])
  /\ \A t \in Tasks : piece[t] > 1 =>
       /\ stdout # <<>>
       /\ stdout[Len(stdout)] = [task |-> t, line |-> NextLine(t), piece |-> piece[t] - 1]

StdoutInv == OutInv /\ LastInv /\ NoLineTorn

(* When the pool is gone nothing is under way.                             *)
GoneInv == phase = "destroyed" => Active = {} /\ queue = <<>>

DriverInv == CorrelateTypeOK /\ MainInv /\ LockInv /\ PrintInv /\ GoneInv /\ StdoutInv
-----------------------------------------------------------------------------
(* ca_schema_query_correlate uses the pool as its interface allows: every  *)
(* step of the driver is a step of the pool or leaves the pool alone.      *)
THEOREM DriverUsesPool == CSpec => Spec
<1>1. CInit => Init
  BY DEF CInit
<1>2. [CNext]_cvars => [Next]_vars
  <2> SUFFICES ASSUME [CNext]_cvars PROVE [Next]_vars
    OBVIOUS
  <2> USE CorrelateAssumption DEF CorrelateAssumption
  <2>1. CASE LaunchSeries
    BY <2>1 DEF LaunchSeries, Next, Kinds
  <2>2. ASSUME NEW t \in Tasks, OutputStep(t) PROVE UNCHANGED vars
    BY <2>2 DEF OutputStep, LockOutput, PrintPiece, UnlockOutput
  <2>3. CASE PoolStep
    BY <2>3 DEF PoolStep, Next, WorkerStep, ClientReturns
  <2>4. CASE LeaveScope
    BY <2>4 DEF LeaveScope
  <2>5. CASE LeavePool
    BY <2>5 DEF LeavePool, Next
  <2>6. CASE UNCHANGED cvars
    BY <2>6 DEF cvars
  <2> QED BY <2>1, <2>2, <2>3, <2>4, <2>5, <2>6 DEF CNext, Returned
<1> QED BY <1>1, <1>2, PTL DEF CSpec, Spec

-----------------------------------------------------------------------------
(* What the assumption says of the lines.                                  *)
LEMMA LineFacts ==
  /\ NoTask \notin Tasks
  /\ \A t \in Tasks : Len(Lines[t]) \in 0..2
  /\ \A t \in Tasks : \A n \in 1..Len(Lines[t]) : Lines[t][n] \in 2..3
<1>1. NoTask \notin Tasks
  BY PoolAssumption DEF PoolAssumption, Tasks, NoTask
<1>2. \A t \in Tasks : Lines[t] \in Seq(2..3) /\ Len(Lines[t]) <= 2
  BY CorrelateAssumption DEF CorrelateAssumption
<1>3. ASSUME NEW s \in Seq(2..3) PROVE Len(s) \in Nat /\ \A n \in 1..Len(s) : s[n] \in 2..3
  OBVIOUS
<1>4. \A t \in Tasks : Len(Lines[t]) \in Nat /\ \A n \in 1..Len(Lines[t]) : Lines[t][n] \in 2..3
  BY <1>2, <1>3
<1>5. ASSUME NEW m \in Nat, m <= 2 PROVE m \in 0..2
  BY <1>5
<1> QED BY <1>1, <1>2, <1>4, <1>5

(* A task that is printing holds the lock, alone, and has a line to print. *)
LEMMA Printing ==
  ASSUME CorrelateTypeOK, LockInv, NEW t \in Tasks, piece[t] > 0
  PROVE  /\ holder = t /\ t \in Active /\ printed[t] \in 0..1
         /\ printed[t] < Len(Lines[t])
         /\ NextLine(t) = printed[t] + 1 /\ NextLine(t) \in 1..2
         /\ NextLine(t) <= Len(Lines[t]) /\ Len(Lines[t]) \in 0..2
         /\ Length(t) \in 2..3 /\ Length(t) = Lines[t][NextLine(t)]
         /\ piece[t] \in 1 .. Length(t) + 1
         /\ \A u \in Tasks : u # t => piece[u] = 0
<1>1. /\ holder = t /\ t # NoTask /\ t \in Active /\ printed[t] < Len(Lines[t])
      /\ piece[t] \in 1 .. Length(t) + 1
  BY LineFacts DEF LockInv
<1>2. printed[t] \in 0..2 /\ Len(Lines[t]) \in 0..2
  BY LineFacts DEF CorrelateTypeOK
<1>3. NextLine(t) = printed[t] + 1 /\ NextLine(t) \in 1..Len(Lines[t]) /\ NextLine(t) \in 1..2
      /\ printed[t] \in 0..1
  <2>1. ASSUME NEW p \in 0..2, NEW m \in 0..2, p < m
        PROVE  p + 1 \in 1..m /\ p + 1 \in 1..2 /\ p \in 0..1
    BY <2>1
  <2> QED BY <1>1, <1>2, <2>1 DEF NextLine
<1>4. Length(t) = Lines[t][NextLine(t)] /\ Length(t) \in 2..3
  BY <1>3, LineFacts DEF Length
<1>5. \A u \in Tasks : u # t => piece[u] = 0
  <2>1. \A u \in Tasks : piece[u] \in 0..4
    BY DEF CorrelateTypeOK
  <2> QED BY <1>1, <2>1 DEF LockInv
<1> QED BY <1>1, <1>2, <1>3, <1>4, <1>5

(* The shape of the driver's own variables.                                *)
LEMMA DriverTypes ==
  ASSUME CorrelateTypeOK, TypeOK', [CNext]_cvars, LockInv PROVE CorrelateTypeOK'
<1> USE DEF CorrelateTypeOK
<1>1. ASSUME NEW t \in Tasks, PrintPiece(t) PROVE CorrelateTypeOK'
  <2>0. piece[t] > 0 /\ piece[t] <= Length(t)
    BY <1>1 DEF PrintPiece
  <2>1. piece[t] \in 1..3 /\ NextLine(t) \in 1..2 /\ piece[t] + 1 \in 0..4
    BY <2>0, Printing
  <2>2. [task |-> t, line |-> NextLine(t), piece |-> piece[t]] \in Pieces
    BY <2>1 DEF Pieces
  <2>3. stdout' \in Seq(Pieces)
    BY <1>1, <2>2 DEF PrintPiece
  <2> QED BY <1>1, <2>1, <2>3 DEF PrintPiece
<1>2. ASSUME NEW t \in Tasks, LockOutput(t) PROVE CorrelateTypeOK'
  BY <1>2 DEF LockOutput
<1>3. ASSUME NEW t \in Tasks, UnlockOutput(t) PROVE CorrelateTypeOK'
  <2>0. piece[t] > 0
    BY <1>3 DEF UnlockOutput
  <2>1. printed[t] + 1 \in 0..2
    BY <2>0, Printing
  <2> QED BY <1>3, <2>1 DEF UnlockOutput
<1>4. CASE LeaveScope
  BY <1>4 DEF LeaveScope, outputVars
<1>5. CASE UNCHANGED <<scope, outputVars>>
  BY <1>5 DEF outputVars
<1> QED BY <1>1, <1>2, <1>3, <1>4, <1>5
        DEF CNext, OutputStep, LaunchSeries, PoolStep, LeavePool, Returned, cvars

(* What is on stdout is as LastInv and OutInv say after each of the three  *)
(* steps of printing.                                                      *)
LEMMA LockKeepsStdout ==
  ASSUME CorrelateTypeOK, LockInv, StdoutInv, NEW t \in Tasks, LockOutput(t)
  PROVE  StdoutInv'
<1>1. /\ piece[t] = 0 /\ piece' = [piece EXCEPT ![t] = 1] /\ UNCHANGED <<printed, stdout>>
      /\ piece \in [Tasks -> 0..4]
  BY DEF LockOutput, CorrelateTypeOK
<1>2. \A x \in Pieces : Out(x)' <=> Out(x)
  BY <1>1 DEF Out, NextLine, Pieces
<1>3. OutInv'
  BY <1>1, <1>2 DEF OutInv, StdoutInv
<1>4. LastInv'
  BY <1>1 DEF LastInv, StdoutInv, EndsLine, NextLine
<1>5. NoLineTorn'
  BY <1>1 DEF NoLineTorn, StdoutInv, EndsLine
<1> QED BY <1>3, <1>4, <1>5 DEF StdoutInv

LEMMA PrintKeepsStdout ==
  ASSUME CorrelateTypeOK, LockInv, StdoutInv, NEW t \in Tasks, PrintPiece(t)
  PROVE  StdoutInv'
<1> DEFINE new == [task |-> t, line |-> NextLine(t), piece |-> piece[t]]
           n == Len(stdout)
<1>1. /\ piece[t] > 0 /\ piece[t] <= Length(t)
      /\ piece' = [piece EXCEPT ![t] = @ + 1]
      /\ UNCHANGED printed /\ stdout' = Append(stdout, new)
      /\ piece \in [Tasks -> 0..4] /\ printed \in [Tasks -> 0..2]
      /\ stdout \in Seq(Pieces)
  BY DEF PrintPiece, CorrelateTypeOK
<1>2. \A u \in Tasks : u # t => piece[u] = 0
  BY <1>1, Printing
<1>3. /\ piece[t] \in 1..3 /\ Length(t) \in 2..3 /\ Length(t) = Lines[t][NextLine(t)]
      /\ NextLine(t) = printed[t] + 1 /\ NextLine(t) \in 1..2
      /\ NextLine(t) <= Len(Lines[t]) /\ printed[t] \in 0..1
      /\ NextLine(t)' = NextLine(t)
  BY <1>1, Printing DEF NextLine
<1>4. new \in Pieces /\ ~Out(new) /\ new.piece <= Lines[t][new.line]
  BY <1>1, <1>3 DEF Pieces, Out
<1>5. /\ n \in Nat /\ Len(stdout') = n + 1 /\ stdout'[n + 1] = new
      /\ \A k \in 1..n : stdout'[k] = stdout[k] /\ stdout[k] \in Pieces
  BY <1>1, <1>4
<1>6. \A k \in 1..n : stdout[k] # new
  BY <1>4, <1>5 DEF StdoutInv, OutInv
<1>7. \A x \in Pieces : Out(x)' <=> Out(x) \/ x = new
  <2> SUFFICES ASSUME NEW x \in Pieces PROVE Out(x)' <=> Out(x) \/ x = new
    OBVIOUS
  <2>1. CASE x.task # t
    BY <1>1, <2>1 DEF Out, NextLine, Pieces
  <2>2. CASE x.task = t
    <3>1. x = new <=> x.line = NextLine(t) /\ x.piece = piece[t]
      BY <2>2 DEF Pieces
    <3>2. x.piece \in 1..3 /\ piece[t] \in 0..4 /\ piece'[t] = piece[t] + 1
      BY <1>1 DEF Pieces
    <3> QED BY <1>1, <1>3, <2>2, <3>1, <3>2 DEF Out
  <2> QED BY <2>1, <2>2
<1>8. OutInv'
  <2>1. \A x \in Pieces : (\E k \in 1 .. n + 1 : stdout'[k] = x)
                           <=> x = new \/ \E k \in 1..n : stdout[k] = x
    BY <1>5
  <2>2. \A j, k \in 1 .. n + 1 : stdout'[j] = stdout'[k] => j = k
    BY <1>5, <1>6 DEF StdoutInv, OutInv
  <2>3. \A x \in Pieces : x = new => x.line <= Len(Lines[x.task])
                                      /\ x.piece <= Lines[x.task][x.line]
    BY <1>3, <1>4
  <2> QED BY <1>5, <1>7, <2>1, <2>2, <2>3 DEF StdoutInv, OutInv
<1>9. LastInv'
  <2>1. piece'[t] = piece[t] + 1 /\ piece'[t] > 1
    BY <1>1, <1>3
  <2>2. \A u \in Tasks : u # t => piece'[u] = 0
    BY <1>1, <1>2
  <2>3. stdout'[Len(stdout')] = new /\ stdout' # <<>>
    BY <1>5
  <2>4. new = [task |-> t, line |-> NextLine(t)', piece |-> piece'[t] - 1]
    BY <1>3, <2>1
  <2>5. ~\A u \in Tasks : piece'[u] <= 1
    BY <1>3, <2>1
  <2>6. \A u \in Tasks : piece'[u] > 1 => u = t
    BY <2>2
  <2> QED BY <2>3, <2>4, <2>5, <2>6 DEF LastInv
<1>10. NoLineTorn'
  <2> DEFINE Fits(x, k) == IF x[k].piece = 1
                             THEN k > 1 => EndsLine(x[k - 1])
                             ELSE k > 1 /\ x[k] = [x[k - 1] EXCEPT !.piece = @ + 1]
  <2>1. ASSUME NEW k \in 1..n PROVE Fits(stdout', k)
    <3>1. Fits(stdout, k)
      BY DEF StdoutInv, NoLineTorn
    <3>2. stdout'[k] = stdout[k] /\ (k > 1 => stdout'[k - 1] = stdout[k - 1])
      BY <1>5, <2>1
    <3> QED BY <3>1, <3>2
  <2>2. Fits(stdout', n + 1)
    <3>0. n + 1 - 1 = n /\ (n > 0 => stdout'[n] = stdout[n]) /\ new.piece = piece[t]
      BY <1>5
    <3>1. CASE piece[t] = 1
      <4>1. \A u \in Tasks : piece[u] <= 1
        BY <1>2, <3>1
      <4>2. n > 0 => EndsLine(stdout[n])
        BY <1>5, <4>1 DEF StdoutInv, LastInv
      <4>3. n + 1 > 1 => n > 0
        BY <1>5
      <4> QED BY <1>5, <3>0, <3>1, <4>2, <4>3
    <3>2. CASE piece[t] # 1
      <4>1. piece[t] > 1
        BY <1>3, <3>2
      <4>2. n > 0 /\ stdout[n] = [task |-> t, line |-> NextLine(t), piece |-> piece[t] - 1]
        BY <1>1, <1>5, <4>1 DEF StdoutInv, LastInv
      <4>3. new = [stdout[n] EXCEPT !.piece = @ + 1]
        BY <1>3, <4>2
      <4>4. n + 1 > 1
        BY <1>5, <4>2
      <4> QED BY <1>5, <3>0, <3>2, <4>2, <4>3, <4>4
    <3> QED BY <3>1, <3>2
  <2>3. \A k \in 1..Len(stdout') : Fits(stdout', k)
    <3> HIDE DEF Fits
    <3> QED BY <1>5, <2>1, <2>2
  <2> QED BY <2>3 DEF NoLineTorn, EndsLine
<1> QED BY <1>8, <1>9, <1>10 DEF StdoutInv

LEMMA UnlockKeepsStdout ==
  ASSUME CorrelateTypeOK, LockInv, StdoutInv, NEW t \in Tasks, UnlockOutput(t)
  PROVE  StdoutInv'
<1>1. /\ piece[t] > 0 /\ piece[t] > Length(t) /\ piece' = [piece EXCEPT ![t] = 0]
      /\ printed' = [printed EXCEPT ![t] = @ + 1] /\ UNCHANGED stdout
      /\ piece \in [Tasks -> 0..4] /\ printed \in [Tasks -> 0..2]
      /\ stdout \in Seq(Pieces)
  BY DEF UnlockOutput, CorrelateTypeOK
<1>2. \A u \in Tasks : u # t => piece[u] = 0
  BY <1>1, Printing
<1>3. /\ piece[t] = Length(t) + 1 /\ Length(t) \in 2..3 /\ Length(t) = Lines[t][NextLine(t)]
      /\ NextLine(t) = printed[t] + 1 /\ NextLine(t) \in 1..2 /\ printed[t] \in 0..1
  BY <1>1, Printing
<1>4. \A x \in Pieces : x.piece <= Lines[x.task][x.line] => (Out(x)' <=> Out(x))
  <2> SUFFICES ASSUME NEW x \in Pieces, x.piece <= Lines[x.task][x.line]
               PROVE  Out(x)' <=> Out(x)
    OBVIOUS
  <2>1. CASE x.task # t
    BY <1>1, <2>1 DEF Out, NextLine, Pieces
  <2>2. CASE x.task = t
    <3>1. x.line = NextLine(t) => x.piece < piece[t]
      BY <1>3, <2>2 DEF Pieces
    <3>2. x.piece \in 1..3 /\ x.line \in 1..2 /\ printed[t] \in 0..2
          /\ printed'[t] = printed[t] + 1 /\ piece'[t] = 0
      BY <1>1 DEF Pieces
    <3> QED BY <2>2, <3>1, <3>2 DEF Out, NextLine
  <2> QED BY <2>1, <2>2
<1>5. OutInv'
  BY <1>1, <1>4 DEF StdoutInv, OutInv
<1>6. LastInv'
  <2>1. stdout # <<>> /\ stdout[Len(stdout)]
                         = [task |-> t, line |-> NextLine(t), piece |-> piece[t] - 1]
    BY <1>1, <1>3 DEF StdoutInv, LastInv
  <2>2. EndsLine(stdout[Len(stdout)])
    BY <1>3, <2>1 DEF EndsLine
  <2>3. \A u \in Tasks : piece'[u] = 0
    BY <1>1, <1>2
  <2> QED BY <1>1, <2>2, <2>3 DEF LastInv, EndsLine
<1>7. NoLineTorn'
  BY <1>1 DEF NoLineTorn, StdoutInv, EndsLine
<1> QED BY <1>5, <1>6, <1>7 DEF StdoutInv

(* A step that takes no task out of the hands of a thread, finishes none   *)
(* and leaves the driver's variables alone keeps the invariant.            *)
LEMMA QuietStep ==
  ASSUME DriverInv, TypeOK', UNCHANGED <<scope, outputVars>>,
         \A t \in Tasks :
           \/ status'[t] = status[t]
           \/ status[t] \in {"new", "queued"} /\ status'[t] \in {"queued", "running"},
         \A t \in Tasks : status[t] = "inline" => UNCHANGED <<cpc[Main], ctask[Main]>>,
         phase' # "live" => cpc'[Main] = "idle",
         phase' # "destroyed"
  PROVE  MainInv' /\ LockInv' /\ PrintInv' /\ GoneInv'
<1> USE DEF DriverInv, outputVars
<1>1. MainInv'
  BY DEF MainInv
<1>2. LockInv'
  BY DEF LockInv, Active, Length, NextLine
<1>3. PrintInv'
  <2> SUFFICES ASSUME NEW t \in Tasks
               PROVE  /\ printed'[t] <= Len(Lines[t])
                      /\ printed'[t] > 0 => status'[t] \in {"running", "inline", "done"}
                      /\ status'[t] = "done" => Finished(t)'
    BY DEF PrintInv
  <2> QED BY DEF PrintInv, Finished
<1>4. GoneInv'
  BY DEF GoneInv
<1> QED BY <1>1, <1>2, <1>3, <1>4

(* Every step of the driver keeps its invariant.                           *)
LEMMA DriverStep ==
  ASSUME TypeOK, PlaceInv, TypeOK', DriverInv, [CNext]_cvars PROVE DriverInv'
<1> USE DEF DriverInv, outputVars
<1>0. /\ queue \in Seq(Tasks) /\ status \in [Tasks -> Statuses]
      /\ cpc \in [Clients -> ClientPC] /\ ctask \in [Clients -> Tasks \cup {NoTask}]
      /\ Main \in Clients /\ Clients = {Main}
      /\ printed \in [Tasks -> 0..2] /\ piece \in [Tasks -> 0..4]
      /\ \A t \in Tasks : Len(Lines[t]) \in 0..2
      /\ NoTask \notin Tasks
  BY LineFacts, CorrelateAssumption DEF CorrelateAssumption, TypeOK, CorrelateTypeOK
<1> DEFINE Rest == MainInv /\ LockInv /\ PrintInv /\ GoneInv
<1>1. ASSUME LaunchSeries PROVE Rest'
  <2> DEFINE t == launched'
  <2>1. /\ t \in Tasks /\ status[t] = "new" /\ phase = "live" /\ cpc[Main] = "idle"
        /\ UNCHANGED <<phase, scope, outputVars>>
    BY <1>1, PoolAssumption
       DEF PoolAssumption, LaunchSeries, Launch, PlaceInv, LaunchInv, Tasks, TypeOK
  <2>2. \A u \in Tasks : status[u] # "inline"
    BY <2>1 DEF MainInv
  <2>3. CASE Enqueue(Main, t)
    <3>1. status' = [status EXCEPT ![t] = "queued"]
      BY <2>3 DEF Enqueue
    <3> QED BY <1>0, <2>1, <2>2, <3>1, QuietStep
  <2>4. CASE StartInline(Main, t)
    <3>1. /\ status' = [status EXCEPT ![t] = "inline"]
          /\ cpc'[Main] = "inline" /\ ctask'[Main] = t
      BY <1>0, <2>4 DEF StartInline
    <3>2. MainInv'
      BY <1>0, <2>1, <2>2, <3>1 DEF MainInv
    <3>3. LockInv'
      <4>1. \A u \in Active : u \in Active'
        BY <1>0, <2>1, <3>1 DEF Active
      <4> QED BY <2>1, <4>1 DEF LockInv, Length, NextLine
    <3>4. PrintInv'
      BY <1>0, <2>1, <3>1 DEF PrintInv, Finished
    <3>5. GoneInv'
      BY <2>1 DEF GoneInv
    <3> QED BY <3>2, <3>3, <3>4, <3>5
  <2> QED BY <1>1, <2>3, <2>4 DEF LaunchSeries, Launch
<1>2. ASSUME NEW t \in Tasks, LockOutput(t) PROVE Rest'
  <2>1. /\ UNCHANGED <<queue, status, cpc, ctask, phase, printed>>
        /\ holder = NoTask /\ holder' = t /\ piece' = [piece EXCEPT ![t] = 1]
        /\ t \in Active /\ printed[t] < Len(Lines[t]) /\ phase # "destroyed"
    BY <1>0, <1>2 DEF LockOutput, vars, GoneInv, PrintInv, Finished
  <2>2. MainInv' /\ PrintInv' /\ GoneInv'
    BY <2>1 DEF MainInv, PrintInv, Finished, GoneInv
  <2>0. NextLine(t) \in 1..Len(Lines[t]) /\ NextLine(t)' = NextLine(t)
    BY <1>0, <2>1 DEF NextLine
  <2>3. piece'[t] = 1 /\ Length(t)' = Length(t) /\ Length(t) \in 2..3
    BY <1>0, <2>0, <2>1, LineFacts DEF Length
  <2>4. \A u \in Tasks : piece[u] = 0
    BY <1>0, <2>1 DEF LockInv
  <2>5. LockInv'
    BY <1>0, <2>1, <2>3, <2>4 DEF LockInv, Active
  <2> QED BY <2>2, <2>5
<1>3. ASSUME NEW t \in Tasks, PrintPiece(t) PROVE Rest'
  <2>1. /\ UNCHANGED <<queue, status, cpc, ctask, phase, printed, holder>>
        /\ piece[t] > 0 /\ piece[t] <= Length(t)
        /\ piece' = [piece EXCEPT ![t] = @ + 1]
    BY <1>3 DEF PrintPiece, vars
  <2>2. /\ holder = t /\ t # NoTask /\ Length(t)' = Length(t) /\ Length(t) \in 2..3
        /\ t \in Active /\ printed[t] < Len(Lines[t])
    BY <1>0, <2>1, Printing DEF Length, NextLine
  <2>3. MainInv' /\ PrintInv' /\ GoneInv'
    BY <2>1 DEF MainInv, PrintInv, Finished, GoneInv, Active
  <2>4. piece'[t] \in 1 .. Length(t)' + 1
    <3>1. piece'[t] = piece[t] + 1 /\ piece[t] \in 0..4
      BY <1>0, <2>1
    <3> QED BY <2>1, <2>2, <3>1
  <2>5. \A u \in Tasks : piece'[u] > 0 => u = t
    BY <1>0, <2>1, <2>2 DEF LockInv
  <2>6. LockInv'
    BY <1>0, <2>1, <2>2, <2>4, <2>5 DEF LockInv, Active
  <2> QED BY <2>3, <2>6
<1>14. ASSUME NEW t \in Tasks, UnlockOutput(t) PROVE Rest'
  <2>1. /\ UNCHANGED <<queue, status, cpc, ctask, phase>> /\ holder' = NoTask
        /\ piece[t] > 0 /\ piece' = [piece EXCEPT ![t] = 0]
        /\ printed' = [printed EXCEPT ![t] = @ + 1]
    BY <1>14 DEF UnlockOutput, vars
  <2>2. holder = t /\ t \in Active /\ printed[t] < Len(Lines[t])
    BY <2>1, Printing
  <2>3. \A u \in Tasks : piece'[u] = 0
    BY <1>0, <2>1, <2>2 DEF LockInv
  <2>4. MainInv' /\ LockInv'
    BY <2>1, <2>3 DEF MainInv, LockInv
  <2>5. PrintInv'
    BY <1>0, <2>1, <2>2 DEF PrintInv, Finished, Active
  <2>6. GoneInv'
    BY <2>1, <2>2 DEF GoneInv, Active
  <2> QED BY <2>4, <2>5, <2>6
<1>4. ASSUME NEW w \in Workers, TakeWork(w) \/ CompleteTask(w),
             UNCHANGED <<scope, outputVars>>
      PROVE  Rest'
  <2>1. Running /\ Loop(w) /\ UNCHANGED <<phase, ctask>>
    BY <1>4 DEF TakeWork, CompleteTask
  <2>2. \A c \in Clients : cpc[c] # "waiting" => cpc'[c] = cpc[c]
    BY <1>0, <1>4 DEF TakeWork, CompleteTask, NotifyCompletion
  <2>3. \A u \in Tasks : \/ status'[u] = status[u]
                         \/ status[u] = "queued" /\ status'[u] = "running"
    <3>1. CASE queue # <<>> /\ status' = [status EXCEPT ![Head(queue)] = "running"]
      <4>1. Head(queue) \in Tasks /\ status[Head(queue)] = "queued"
        BY <1>0, <2>1, <3>1, TailElements
           DEF PlaceInv, QueueInv, InStep, Running
      <4> QED BY <1>0, <3>1, <4>1
    <3> QED BY <2>1, <3>1, LoopEffect
  <2>4. phase' # "destroyed" /\ (phase' # "live" => cpc'[Main] = "idle")
    BY <1>0, <2>1, <2>2 DEF Running, MainInv
  <2>5. \A u \in Tasks : status[u] = "inline" => UNCHANGED <<cpc[Main], ctask[Main]>>
    BY <1>0, <2>1, <2>2 DEF MainInv
  <2> QED BY <1>4, <2>3, <2>4, <2>5, QuietStep
<1>5. ASSUME NEW w \in Workers, CallReturns(w), Finished(wtask[w]),
             UNCHANGED <<scope, outputVars>>
      PROVE  Rest'
  <2> DEFINE t == wtask[w]
  <2>1. /\ t \in Tasks /\ status[t] = "running" /\ phase # "destroyed"
        /\ status' = [status EXCEPT ![t] = "done"]
        /\ UNCHANGED <<cpc, ctask, phase>>
    BY <1>5 DEF CallReturns, PlaceInv, WorkerInv, Running
  <2>2. MainInv' /\ GoneInv'
    BY <1>0, <2>1 DEF MainInv, GoneInv
  <2>3. holder # t
    BY <1>0, <1>5, <2>1 DEF LockInv, Finished
  <2>4. LockInv'
    BY <1>0, <1>5, <2>1, <2>3 DEF LockInv, Active, Length, NextLine
  <2>5. PrintInv'
    BY <1>0, <1>5, <2>1 DEF PrintInv, Finished
  <2> QED BY <2>2, <2>4, <2>5
<1>6. ASSUME RunInline(Main, "done"), Finished(ctask[Main]),
             UNCHANGED <<scope, outputVars>>
      PROVE  Rest'
  <2> DEFINE t == ctask[Main]
  <2>1. /\ t \in Tasks /\ status[t] = "inline" /\ phase # "destroyed"
        /\ status' = [status EXCEPT ![t] = "done"]
        /\ cpc'[Main] = "idle" /\ UNCHANGED <<ctask, phase>>
    BY <1>0, <1>6 DEF RunInline, PlaceInv, ClientInv, Running
  <2>2. \A u \in Tasks : status[u] = "inline" => u = t
    BY DEF MainInv
  <2>3. MainInv' /\ GoneInv'
    BY <1>0, <2>1, <2>2 DEF MainInv, GoneInv
  <2>4. holder # t
    BY <1>0, <1>6, <2>1 DEF LockInv, Finished
  <2>5. LockInv'
    BY <1>0, <1>6, <2>1, <2>4 DEF LockInv, Active, Length, NextLine
  <2>6. PrintInv'
    BY <1>0, <1>6, <2>1 DEF PrintInv, Finished
  <2> QED BY <2>3, <2>5, <2>6
<1>7. ASSUME Join, UNCHANGED <<scope, outputVars>> PROVE Rest'
  <2>1. /\ phase = "joining" /\ phase' = "destroyed" /\ queue' = <<>>
        /\ \A w \in Workers : wpc[w] = "exited"
        /\ \A t \in Tasks : status'[t] = IF status[t] = "queued" THEN "dropped"
                                                                 ELSE status[t]
        /\ UNCHANGED <<cpc, ctask>>
    BY <1>7 DEF Join
  <2>2. cpc[Main] = "idle"
    BY <2>1 DEF MainInv
  <2>3. \A t \in Tasks : status[t] \notin {"running", "inline"}
    BY <2>1, <2>2 DEF MainInv, PlaceInv, WorkerInv, Running
  <2>4. MainInv' /\ GoneInv'
    BY <2>1, <2>2, <2>3 DEF MainInv, GoneInv, Active
  <2>5. holder = NoTask
    BY <2>3 DEF LockInv, Active
  <2>6. LockInv'
    BY <1>7, <2>5 DEF LockInv
  <2>7. PrintInv'
    BY <1>7, <2>1 DEF PrintInv, Finished
  <2> QED BY <2>4, <2>6, <2>7
<1>8. ASSUME UNCHANGED <<queue, status, ctask, outputVars>>,
             phase' # "live" => cpc'[Main] = "idle",
             cpc[Main] = "inline" => cpc'[Main] = "inline",
             phase' = "destroyed" => phase = "destroyed"
      PROVE  Rest'
  BY <1>8 DEF MainInv, LockInv, PrintInv, GoneInv, Active, Finished, Length, NextLine
<1>9. ASSUME NEW w \in Workers, SpuriousWorker(w), UNCHANGED <<scope, outputVars>>
      PROVE  Rest'
  BY <1>8, <1>9 DEF SpuriousWorker, MainInv
<1>10. ASSUME LaunchNotify(Main), UNCHANGED <<scope, outputVars>> PROVE Rest'
  BY <1>0, <1>8, <1>10 DEF LaunchNotify
<1>11. ASSUME LeavePool PROVE Rest'
  BY <1>0, <1>8, <1>11 DEF LeavePool, Destroy
<1>12. ASSUME LeaveScope \/ UNCHANGED cvars PROVE Rest'
  BY <1>8, <1>12 DEF LeaveScope, cvars, vars, MainInv
<1>13. Rest'
  BY <1>1, <1>2, <1>3, <1>4, <1>5, <1>6, <1>7, <1>9, <1>10, <1>11, <1>12, <1>14
     DEF CNext, OutputStep, PoolStep, Returned
<1>15. StdoutInv'
  <2>1. ASSUME NEW t \in Tasks, OutputStep(t) PROVE StdoutInv'
    BY <2>1, LockKeepsStdout, PrintKeepsStdout, UnlockKeepsStdout DEF OutputStep
  <2>2. CASE UNCHANGED outputVars
    BY <2>2 DEF StdoutInv, OutInv, Out, LastInv, NoLineTorn, EndsLine, NextLine
  <2> QED BY <2>1, <2>2
          DEF CNext, LaunchSeries, PoolStep, LeaveScope, LeavePool, Returned, cvars
<1> QED BY <1>13, <1>15, DriverTypes

(* The driver's invariant holds in every state of every behaviour.         *)
LEMMA DriverInvariant == CSpec => []DriverInv
<1>1. CInit /\ TypeOK => DriverInv
  <2> SUFFICES ASSUME CInit, TypeOK PROVE DriverInv
    OBVIOUS
  <2> USE CorrelateAssumption DEF CorrelateAssumption, CInit, Init
  <2>1. \A t \in Tasks : status[t] = "new" /\ printed[t] = 0 /\ piece[t] = 0
                          /\ Len(Lines[t]) \in Nat
    OBVIOUS
  <2>2. CorrelateTypeOK
    BY <2>1 DEF CorrelateTypeOK
  <2>3. MainInv /\ LockInv /\ PrintInv /\ GoneInv
    BY <2>1 DEF MainInv, LockInv, PrintInv, GoneInv
  <2>4. StdoutInv
    <3>1. stdout = <<>> /\ Len(stdout) = 0
      OBVIOUS
    <3>2. \A x \in Pieces : ~Out(x)
      BY <2>1 DEF Out, Pieces
    <3> QED BY <2>1, <3>1, <3>2 DEF StdoutInv, OutInv, LastInv, NoLineTorn
  <2> QED BY <2>2, <2>3, <2>4 DEF DriverInv
<1>2. TypeOK /\ PlaceInv /\ TypeOK' /\ DriverInv /\ [CNext]_cvars => DriverInv'
  BY DriverStep
<1>3. CSpec => [](TypeOK /\ PlaceInv)
  BY DriverUsesPool, Places, PTL
<1> QED BY <1>1, <1>2, <1>3, PTL DEF CSpec

-----------------------------------------------------------------------------
(* The tasks keep references to locals of the function; when it returns no *)
(* task is running, none can start and none holds the lock, although the   *)
(* function never calls Wait(): the pool's destructor joins the workers.   *)
THEOREM ReferencesOutliveTasks == CSpec => []NoTaskOutlivesCall
<1>1. DriverInv => NoTaskOutlivesCall
  BY DEF DriverInv, GoneInv, LockInv, NoTaskOutlivesCall
<1> QED BY <1>1, DriverInvariant, PTL

(* A line is printed in several calls, yet no task's line is torn by       *)
(* another's: the pieces of a line stand together on stdout, no piece is   *)
(* there twice or of a task that was not run, and a task that returned has *)
(* printed all of its lines.                                               *)
THEOREM LinesArePrintedWhole == CSpec => []TasksPrintTheirLines
<1>1. DriverInv => TasksPrintTheirLines
  <2> SUFFICES ASSUME DriverInv PROVE TasksPrintTheirLines
    OBVIOUS
  <2> USE DEF DriverInv
  <2>0. /\ stdout \in Seq(Pieces) /\ printed \in [Tasks -> 0..2] /\ piece \in [Tasks -> 0..4]
        /\ \A k \in 1..Len(stdout) : stdout[k] \in Pieces
    BY DEF CorrelateTypeOK
  <2>1. ASSUME NEW k \in 1..Len(stdout)
        PROVE  status[stdout[k].task] \in {"running", "inline", "done"}
    <3> DEFINE x == stdout[k]
    <3>1. x \in Pieces /\ Out(x)
      BY <2>0, <2>1 DEF StdoutInv, OutInv
    <3>2. x.task \in Tasks /\ x.line \in 1..2 /\ x.piece \in 1..3
      BY <3>1 DEF Pieces
    <3>3. CASE printed[x.task] > 0
      BY <3>2, <3>3 DEF PrintInv
    <3>4. CASE piece[x.task] > 0
      <4>1. x.task \in Active
        BY <3>2, <3>4, Printing
      <4> QED BY <4>1 DEF Active
    <3> QED BY <2>0, <3>1, <3>2, <3>3, <3>4 DEF Out
  <2>2. ASSUME NEW t \in Tasks, status[t] = "done", NEW n \in 1..Len(Lines[t])
        PROVE  \E k \in 1..Len(stdout) :
                 stdout[k].task = t /\ stdout[k].line = n /\ EndsLine(stdout[k])
    <3> DEFINE x == [task |-> t, line |-> n, piece |-> Lines[t][n]]
    <3>1. printed[t] = Len(Lines[t]) /\ Len(Lines[t]) \in 0..2 /\ Lines[t][n] \in 2..3
      BY <2>0, <2>2, LineFacts DEF PrintInv, Finished
    <3>2. x \in Pieces /\ n <= Len(Lines[t])
      BY <2>2, <3>1 DEF Pieces
    <3>3. Out(x)
      BY <3>1, <3>2 DEF Out
    <3>4. PICK k \in 1..Len(stdout) : stdout[k] = x
      <4>1. x.task = t /\ x.line = n /\ x.piece <= Lines[x.task][x.line]
        BY <3>1
      <4> HIDE DEF x
      <4> QED BY <3>2, <3>3, <4>1 DEF StdoutInv, OutInv
    <3> QED BY <3>4 DEF EndsLine
  <2>3. \A j, k \in 1..Len(stdout) : stdout[j] = stdout[k] => j = k
    BY DEF StdoutInv, OutInv
  <2> QED BY <2>1, <2>2, <2>3 DEF StdoutInv, TasksPrintTheirLines, LinesComeFromTasks
<1> QED BY <1>1, DriverInvariant, PTL
-----------------------------------------------------------------------------
(* The task.  Lists by offset.                                             *)
Ascending(s) == \A j, k \in 1..Len(s) : j < k => s[j].offset < s[k].offset
SortedBy(s) == \A j, k \in 1..Len(s) : j < k => s[j].offset <= s[k].offset

(* The first w elements of ks are what becomes of those of the first r     *)
(* elements of s that stay, of which D says what they may become.          *)
Wrote(s, D, ks, r, w) ==
  \E places \in [1..w -> 1..r] :
    /\ \A x, y \in 1..w : x < y => places[x] < places[y]
    /\ \A k \in 1..r : D[k] # {} <=> \E x \in 1..w : places[x] = k
    /\ \A x \in 1..w : /\ ks[x].offset = s[places[x]].offset
                       /\ ks[x].score \in D[places[x]]
(* The two sets, and the row: what the constants' assumption says of them. *)
FiniteDays ==
  \A k \in 1..Len(series) :
    /\ Finite(series[k].score) /\ Finite(Now - series[k].score)
    /\ \A j \in 1..Len(A) : Finite(A[j].score - series[k].score)
    /\ \A j \in 1..Len(B) : Finite(B[j].score - series[k].score)
CaseInv ==
  /\ A \in Seq(Element) /\ B \in Seq(Element) /\ series \in Seq(Element)
  /\ A # <<>> /\ B # <<>> /\ Ascending(A) /\ Ascending(B) /\ SortedBy(series)
  /\ OffsetsOf(A) \cap OffsetsOf(B) = {}
  /\ FiniteDays
  /\ mode \in {"none", "now", "events"}

Days == [k \in 1..Len(series) |-> DaysBefore(k)]
caseVars == <<mode, A, B, series>>

(* The filter's output is behind its input, which is as it was.            *)
CopyInv ==
  /\ keys \in Seq(Element) /\ Len(keys) = Len(series)
  /\ i \in 1 .. Len(series) + 1 /\ output \in 1..i
  /\ \A n \in i..Len(series) : keys[n] = series[n]
  /\ Wrote(series, Days, keys, i - 1, output - 1)

(* What the cursor j has passed in s is of documents before those of the   *)
(* row from x on.                                                          *)
Behind(s, j, row, x) == \A m \in 1 .. j - 1 : \A n \in x..Len(row) : s[m].offset < row[n].offset

(* With `now' a document that was passed has no event to come; with the    *)
(* events of both sets the filter is at the beginning of a document.       *)
FilterInv ==
  /\ mode \in {"now", "events"}
  /\ CopyInv
  /\ a \in 1 .. Len(A) + 1 /\ b \in 1 .. Len(B) + 1
  /\ Behind(A, a, series, i) /\ Behind(B, b, series, i)
  /\ (mode = "now" /\ a <= Len(A)) => \A k \in 1 .. i - 1 : series[k].offset < A[a].offset
  /\ (mode = "events" /\ i <= Len(series)) => FirstOf(series, i)

(* What the filter leaves, or the row itself.                              *)
KeysInv ==
  /\ keys \in Seq(Element) /\ SortedBy(keys)
  /\ \A k \in 1..Len(keys) : Finite(keys[k].score)
FilteredSome == \E places \in [1..Len(keys) -> 1..Len(series)] : Filtered(places)

(* The ranges of cs hold each value that counts once.                      *)
PartitionedBy(cs) ==
  \A k \in Classes : \E n \in 1..Len(cs) :
    \A m \in 1..Len(cs) : InRange(keys[k], cs[m]) <=> m = n

(* The documents with one of the first n values of ks within bounds, and   *)
(* how many of a set of documents are in one set, the other, and either.   *)
Seen(ks, n, call) == {ks[k].offset : k \in {m \in 1..n : InRange(ks[m], call)}}
CountsOf(S, inA, inB) ==
  <<Cardinality(S \cap inA), Cardinality(S \cap inB), Cardinality(S \cap (inA \cup inB))>>

RangeRecord == [count : Nat \X Nat \X Nat, printed : BOOLEAN]

(* ProcessRange has counted the documents it has seen, and is not in the   *)
(* middle of one that it has counted.                                      *)
RangeInv ==
  /\ i \in 1 .. Len(keys) + 1 /\ a \in 1 .. Len(A) + 1 /\ b \in 1 .. Len(B) + 1
  /\ Behind(A, a, keys, i) /\ Behind(B, b, keys, i)
  /\ Len(calls) \in Nat /\ Current <= Len(calls)
  /\ count = CountsOf(Seen(keys, i - 1, calls[Current]), OffsetsOf(A), OffsetsOf(B))
  /\ i <= Len(keys) => keys[i].offset \notin Seen(keys, i - 1, calls[Current])

(* ProcessSeries looks for the best cut of the scores.                     *)
CutInv ==
  /\ agg \in Seq(Int) /\ Len(agg) > 0 /\ Sorts(agg)
  /\ best.mid \in 1..Len(agg) /\ mid \in Nat \ {0}

SeriesInv ==
  /\ CaseInv
  /\ taskPhase \in {"filter", "process", "cut", "range", "done", "undefined"}
  /\ taskPhase = "filter" => FilterInv
  /\ taskPhase # "filter" => KeysInv
  /\ (taskPhase = "process" /\ mode # "none") => FilteredSome
  /\ taskPhase \in {"filter", "process"} => mid = 1 /\ best.mid = 1
  /\ taskPhase \in {"filter", "process", "cut"} => calls = <<>> /\ ranges = <<>>
  /\ taskPhase = "cut" => CutInv
  /\ taskPhase = "range" => RangeInv
  /\ ranges \in Seq(RangeRecord)
  /\ CallsPartition /\ CountsDocumentsOnce
-----------------------------------------------------------------------------
(* The types of a list's elements.                                         *)
LEMMA ListFacts ==
  ASSUME NEW s \in Seq(Element)
  PROVE  /\ Len(s) \in Nat
         /\ \A k \in 1..Len(s) : s[k] \in Element /\ s[k].offset \in Nat /\ s[k].score \in Int
<1>1. Len(s) \in Nat /\ \A k \in 1..Len(s) : s[k] \in Element
  OBVIOUS
<1>2. \A v \in Element : v.offset \in Nat /\ v.score \in Int
  BY DEF Element
<1> QED BY <1>1, <1>2

(* A set of natural numbers has a least one.                               *)
LEMMA LeastFacts ==
  ASSUME NEW T, T \subseteq Nat, T # {}
  PROVE  Least(T) \in T /\ \A y \in T : Least(T) <= y
<1> DEFINE R == OpToRel(<, Nat)
<1>1. IsWellFoundedOn(R, Nat)
  BY NatLessThanWellFounded
<1>2. PICK x \in T : \A y \in T : ~(<<y, x>> \in R)
  <2> HIDE DEF R
  <2> QED BY <1>1, WFMin
<1>3. ASSUME NEW y \in T PROVE x <= y
  <2>1. x \in Nat /\ y \in Nat
    OBVIOUS
  <2>2. ~(y < x)
    BY <1>2, <2>1 DEF OpToRel
  <2> QED BY <2>1, <2>2
<1> QED BY <1>3 DEF Least

(* The place behind a document.                                            *)
LEMMA NextOffsetFacts ==
  ASSUME NEW s \in Seq(Element), NEW k \in 1..Len(s)
  PROVE  /\ NextOffset(s, k) \in k + 1 .. Len(s) + 1
         /\ \A m \in k .. NextOffset(s, k) - 1 : s[m].offset = s[k].offset
         /\ NextOffset(s, k) <= Len(s) => s[NextOffset(s, k)].offset # s[k].offset
<1> DEFINE T == {n \in k + 1 .. Len(s) + 1 : n <= Len(s) => s[n].offset # s[k].offset}
           n0 == Least(T)
<1>1. Len(s) \in Nat
  BY ListFacts
<1>2. T \subseteq Nat /\ Len(s) + 1 \in T
  BY <1>1
<1>3. NextOffset(s, k) = n0
  BY DEF NextOffset
<1> HIDE DEF n0
<1>4. n0 \in T /\ \A y \in T : n0 <= y
  <2> HIDE DEF T
  <2> QED BY <1>2, LeastFacts DEF n0
<1>5. /\ n0 \in k + 1 .. Len(s) + 1
      /\ n0 <= Len(s) => s[n0].offset # s[k].offset
  BY <1>4
<1>6. ASSUME NEW m \in k .. n0 - 1 PROVE s[m].offset = s[k].offset
  <2>1. CASE m = k
    BY <2>1
  <2>2. CASE m # k
    <3>1. m \in k + 1 .. Len(s) + 1 /\ m <= Len(s) /\ ~(n0 <= m)
      BY <1>1, <1>5, <2>2
    <3>2. m \notin T
      <4> HIDE DEF T
      <4> QED BY <1>4, <3>1
    <3> QED BY <3>1, <3>2
  <2> QED BY <2>1, <2>2
<1> QED BY <1>3, <1>5, <1>6

(* A set holds a document once, with its event.                            *)
LEMMA AscendingFacts ==
  ASSUME NEW s \in Seq(Element), Ascending(s), NEW k \in 1..Len(s)
  PROVE  NextOffset(s, k) = k + 1 /\ MinScore(s, k) = s[k].score
<1>1. Len(s) \in Nat /\ s[k].offset \in Nat /\ s[k].score \in Int
  BY ListFacts
<1> DEFINE n0 == NextOffset(s, k)
<1>2. n0 \in k + 1 .. Len(s) + 1 /\ \A m \in k .. n0 - 1 : s[m].offset = s[k].offset
  BY NextOffsetFacts
<1> HIDE DEF n0
<1>3. n0 = k + 1
  <2> SUFFICES ASSUME n0 # k + 1 PROVE FALSE
    OBVIOUS
  <2>1. k + 1 \in k .. n0 - 1 /\ k + 1 \in 1..Len(s) /\ k < k + 1
    BY <1>1, <1>2
  <2>2. s[k].offset < s[k + 1].offset
    BY <2>1 DEF Ascending
  <2>3. s[k + 1].offset = s[k].offset
    BY <1>2, <2>1
  <2> QED BY <1>1, <2>2, <2>3
<1>4. k .. NextOffset(s, k) - 1 = {k}
  BY <1>3 DEF n0
<1>5. {s[n].score : n \in k .. NextOffset(s, k) - 1} = {s[k].score}
  BY <1>4
<1>6. Least({s[k].score}) = s[k].score
  BY <1>1 DEF Least
<1> QED BY <1>3, <1>5, <1>6 DEF MinScore, n0

(* Where a search from k on ends.                                          *)
LEMMA SkipToFacts ==
  ASSUME NEW s \in Seq(Element), NEW k \in 1 .. Len(s) + 1, keys[i].offset \in Nat
  PROVE  /\ SkipTo(s, k) \in k .. Len(s) + 1
         /\ \A m \in k .. SkipTo(s, k) - 1 : s[m].offset < keys[i].offset
         /\ SkipTo(s, k) <= Len(s) => s[SkipTo(s, k)].offset >= keys[i].offset
<1> DEFINE x == keys[i].offset
           T == {n \in k .. Len(s) + 1 : n <= Len(s) => s[n].offset >= x}
           n0 == Least(T)
<1>1. Len(s) \in Nat /\ x \in Nat /\ \A m \in 1..Len(s) : s[m].offset \in Nat
  BY ListFacts
<1>2. T \subseteq Nat /\ Len(s) + 1 \in T
  BY <1>1
<1>3. SkipTo(s, k) = n0
  BY DEF SkipTo
<1> HIDE DEF n0, x
<1>4. n0 \in T /\ \A y \in T : n0 <= y
  <2> HIDE DEF T
  <2> QED BY <1>2, LeastFacts DEF n0
<1>5. n0 \in k .. Len(s) + 1 /\ (n0 <= Len(s) => s[n0].offset >= x)
  BY <1>4
<1>6. ASSUME NEW m \in k .. n0 - 1 PROVE s[m].offset < x
  <2>1. m \in k .. Len(s) + 1 /\ m <= Len(s) /\ ~(n0 <= m) /\ m \in 1..Len(s)
    BY <1>1, <1>5
  <2>2. m \notin T
    <3> HIDE DEF T
    <3> QED BY <1>4, <2>1
  <2> QED BY <1>1, <2>1, <2>2
<1> QED BY <1>3, <1>5, <1>6 DEF x
-----------------------------------------------------------------------------
(* Elements that go leave no trace.                                        *)
LEMMA WroteNone ==
  ASSUME NEW s, NEW D, NEW ks, NEW r \in Nat, NEW w \in Nat,
         NEW r2 \in Nat, r <= r2, \A k \in r + 1 .. r2 : D[k] = {},
         Wrote(s, D, ks, r, w)
  PROVE  Wrote(s, D, ks, r2, w)
<1>1. PICK places \in [1..w -> 1..r] :
        /\ \A x, y \in 1..w : x < y => places[x] < places[y]
        /\ \A k \in 1..r : D[k] # {} <=> \E x \in 1..w : places[x] = k
        /\ \A x \in 1..w : /\ ks[x].offset = s[places[x]].offset
                           /\ ks[x].score \in D[places[x]]
  BY DEF Wrote
<1>2. \A k \in 1..r : k \in 1..r2
  OBVIOUS
<1>3. places \in [1..w -> 1..r2]
  BY <1>2
<1>4. ASSUME NEW k \in 1..r2
      PROVE  D[k] # {} <=> \E x \in 1..w : places[x] = k
  <2>1. CASE k \in 1..r
    BY <1>1, <2>1
  <2>2. CASE k \notin 1..r
    <3>1. D[k] = {}
      <4>1. k \in r + 1 .. r2
        BY <2>2
      <4> QED BY <4>1
    <3> QED BY <2>2, <3>1
  <2> QED BY <2>1, <2>2
<1> QED BY <1>1, <1>3, <1>4 DEF Wrote

(* An element that stays is written behind the others.                     *)
LEMMA WroteOne ==
  ASSUME NEW s, NEW D, NEW ks \in Seq(Element), NEW n \in 1..Len(ks), NEW o \in 1..n,
         NEW r2 \in Nat, n <= r2, \A k \in n + 1 .. r2 : D[k] = {},
         NEW v \in Element, v.offset = s[n].offset, v.score \in D[n],
         Wrote(s, D, ks, n - 1, o - 1)
  PROVE  Wrote(s, D, [ks EXCEPT ![o] = v], r2, o)
<1>1. PICK places \in [1 .. o - 1 -> 1 .. n - 1] :
        /\ \A x, y \in 1 .. o - 1 : x < y => places[x] < places[y]
        /\ \A k \in 1 .. n - 1 : D[k] # {} <=> \E x \in 1 .. o - 1 : places[x] = k
        /\ \A x \in 1 .. o - 1 : /\ ks[x].offset = s[places[x]].offset
                                 /\ ks[x].score \in D[places[x]]
  BY DEF Wrote
<1> DEFINE p == [x \in 1..o |-> IF x = o THEN n ELSE places[x]]
           new == [ks EXCEPT ![o] = v]
<1>2. /\ Len(ks) \in Nat /\ o \in 1..Len(ks) /\ n \in 1..r2
      /\ \A x \in 1..o : x # o => x \in 1 .. o - 1
      /\ \A x \in 1 .. o - 1 : x \in 1..o /\ x # o /\ x < o
      /\ \A k \in 1 .. n - 1 : k \in 1..r2 /\ k < n /\ k # n
  OBVIOUS
<1>3. p \in [1..o -> 1..r2] /\ p[o] = n /\ \A x \in 1 .. o - 1 : p[x] = places[x] /\ p[x] \in 1 .. n - 1
  BY <1>2
<1>4. /\ new[o] = v /\ \A x \in 1 .. o - 1 : new[x] = ks[x]
  BY <1>2
<1> HIDE DEF p, new
<1>5. ASSUME NEW x \in 1..o, NEW y \in 1..o, x < y PROVE p[x] < p[y]
  <2>1. x \in 1 .. o - 1
    BY <1>5
  <2>2. CASE y = o
    BY <1>2, <1>3, <2>1, <2>2
  <2>3. CASE y # o
    BY <1>1, <1>2, <1>3, <1>5, <2>1, <2>3
  <2> QED BY <2>2, <2>3
<1>6. ASSUME NEW k \in 1..r2
      PROVE  D[k] # {} <=> \E x \in 1..o : p[x] = k
  <2>1. CASE k \in 1 .. n - 1
    <3>1. ASSUME NEW x \in 1..o, p[x] = k PROVE D[k] # {}
      <4>1. x # o
        BY <1>2, <1>3, <2>1, <3>1
      <4>2. x \in 1 .. o - 1 /\ places[x] = k
        BY <1>2, <1>3, <3>1, <4>1
      <4> QED BY <1>1, <2>1, <4>2
    <3>2. ASSUME D[k] # {} PROVE \E x \in 1..o : p[x] = k
      <4>1. PICK x \in 1 .. o - 1 : places[x] = k
        BY <1>1, <2>1, <3>2
      <4> QED BY <1>2, <1>3, <4>1
    <3> QED BY <3>1, <3>2
  <2>2. CASE k = n
    BY <1>3, <2>2
  <2>3. CASE k > n
    <3>1. D[k] = {}
      <4>1. k \in n + 1 .. r2
        BY <2>3
      <4> QED BY <4>1
    <3>2. \A x \in 1..o : p[x] # k
      <4>1. ASSUME NEW x \in 1..o PROVE p[x] # k
        <5>1. CASE x = o
          BY <1>3, <2>3, <5>1
        <5>2. CASE x # o
          <6>1. p[x] \in 1 .. n - 1
            BY <1>2, <1>3, <5>2
          <6> QED BY <2>3, <6>1
        <5> QED BY <5>1, <5>2
      <4> QED BY <4>1
    <3> QED BY <3>1, <3>2
  <2> QED BY <2>1, <2>2, <2>3
<1>7. ASSUME NEW x \in 1..o
      PROVE  new[x].offset = s[p[x]].offset /\ new[x].score \in D[p[x]]
  <2>1. CASE x = o
    BY <1>3, <1>4, <2>1
  <2>2. CASE x # o
    <3>1. x \in 1 .. o - 1
      BY <1>2, <2>2
    <3> QED BY <1>1, <1>3, <1>4, <3>1
  <2> QED BY <2>1, <2>2
<1>8. Wrote(s, D, new, r2, o)
  <2>1. /\ \A x, y \in 1..o : x < y => p[x] < p[y]
        /\ \A k \in 1..r2 : D[k] # {} <=> \E x \in 1..o : p[x] = k
        /\ \A x \in 1..o : new[x].offset = s[p[x]].offset /\ new[x].score \in D[p[x]]
    BY <1>5, <1>6, <1>7
  <2> QED BY <1>3, <2>1 DEF Wrote
<1> QED BY <1>8 DEF new
-----------------------------------------------------------------------------
(* The event of a document of a set is the one it has there.               *)
LEMMA ScoresOfMember ==
  ASSUME NEW s \in Seq(Element), Ascending(s), NEW j \in 1..Len(s)
  PROVE  ScoresOf(s, s[j].offset) = {s[j].score}
<1>1. Len(s) \in Nat /\ \A m \in 1..Len(s) : s[m].offset \in Nat
  BY ListFacts
<1>2. ASSUME NEW m \in 1..Len(s), s[m].offset = s[j].offset PROVE m = j
  <2>1. CASE m < j
    BY <1>1, <1>2, <2>1 DEF Ascending
  <2>2. CASE j < m
    BY <1>1, <1>2, <2>2 DEF Ascending
  <2> QED BY <1>1, <2>1, <2>2
<1>3. {m \in 1..Len(s) : s[m].offset = s[j].offset} = {j}
  BY <1>2
<1> QED BY <1>3 DEF ScoresOf

LEMMA ScoresOfOther ==
  ASSUME NEW s, NEW x, x \notin OffsetsOf(s)
  PROVE  ScoresOf(s, x) = {}
<1>1. {m \in 1..Len(s) : s[m].offset = x} = {}
  BY DEF OffsetsOf
<1> QED BY <1>1 DEF ScoresOf

LEMMA EventFacts ==
  ASSUME CaseInv
  PROVE  /\ \A j \in 1..Len(A) : EventOf(A[j].offset) = {A[j].score}
         /\ mode = "events" => \A j \in 1..Len(B) : EventOf(B[j].offset) = {B[j].score}
         /\ \A x : (x \notin OffsetsOf(A) /\ (mode = "events" => x \notin OffsetsOf(B)))
                   => EventOf(x) = {}
<1>1. /\ A \in Seq(Element) /\ B \in Seq(Element) /\ Ascending(A) /\ Ascending(B)
      /\ OffsetsOf(A) \cap OffsetsOf(B) = {}
  BY DEF CaseInv
<1>2. ASSUME NEW j \in 1..Len(A) PROVE EventOf(A[j].offset) = {A[j].score}
  <2>1. A[j].offset \in OffsetsOf(A)
    BY DEF OffsetsOf
  <2>2. ScoresOf(B, A[j].offset) = {}
    BY <1>1, <2>1, ScoresOfOther
  <2>3. ScoresOf(A, A[j].offset) = {A[j].score}
    BY <1>1, ScoresOfMember
  <2> QED BY <2>2, <2>3 DEF EventOf
<1>3. ASSUME mode = "events", NEW j \in 1..Len(B) PROVE EventOf(B[j].offset) = {B[j].score}
  <2>1. B[j].offset \in OffsetsOf(B)
    BY DEF OffsetsOf
  <2>2. ScoresOf(A, B[j].offset) = {}
    BY <1>1, <2>1, ScoresOfOther
  <2>3. ScoresOf(B, B[j].offset) = {B[j].score}
    BY <1>1, ScoresOfMember
  <2> QED BY <1>3, <2>2, <2>3 DEF EventOf
<1>4. ASSUME NEW x, x \notin OffsetsOf(A), mode = "events" => x \notin OffsetsOf(B)
      PROVE  EventOf(x) = {}
  <2>1. ScoresOf(A, x) = {}
    BY <1>4, ScoresOfOther
  <2>2. CASE mode = "events"
    BY <1>4, <2>1, <2>2, ScoresOfOther DEF EventOf
  <2>3. CASE mode # "events"
    BY <2>1, <2>3 DEF EventOf
  <2> QED BY <2>2, <2>3
<1> QED BY <1>2, <1>3, <1>4

(* What becomes of a value of a document with an event, and without.       *)
LEMMA DaysWith ==
  ASSUME NEW k, NEW e, EventOf(series[k].offset) = {e}
  PROVE  /\ (FirstOf(series, k) /\ series[k].score < e) => DaysBefore(k) = {e - series[k].score}
         /\ ~(FirstOf(series, k) /\ series[k].score < e) => DaysBefore(k) = {}
<1> DEFINE v == series[k]
           late == {d \in {e} : v.score < d /\ FirstOf(series, k)}
<1>1. DaysBefore(k) = {d - v.score : d \in late}
  BY DEF DaysBefore
<1>2. (FirstOf(series, k) /\ v.score < e) => late = {e}
  OBVIOUS
<1>3. ~(FirstOf(series, k) /\ v.score < e) => late = {}
  OBVIOUS
<1> HIDE DEF late
<1> QED BY <1>1, <1>2, <1>3

LEMMA DaysWithout ==
  ASSUME NEW k, EventOf(series[k].offset) = {}
  PROVE  /\ (mode = "now" /\ series[k].offset < A[Len(A)].offset)
              => DaysBefore(k) = {Now - series[k].score}
         /\ ~(mode = "now" /\ series[k].offset < A[Len(A)].offset) => DaysBefore(k) = {}
<1> DEFINE v == series[k]
           early == {m \in {1} : mode = "now" /\ v.offset < A[Len(A)].offset}
<1>1. DaysBefore(k) = {Now - v.score : n \in early}
  BY DEF DaysBefore
<1>2. (mode = "now" /\ v.offset < A[Len(A)].offset) => early = {1}
  OBVIOUS
<1>3. ~(mode = "now" /\ v.offset < A[Len(A)].offset) => early = {}
  OBVIOUS
<1> HIDE DEF early
<1> QED BY <1>1, <1>2, <1>3
-----------------------------------------------------------------------------
(* The sets and the row stay, and so does what becomes of the values.      *)
LEMMA DaysStay ==
  ASSUME UNCHANGED caseVars
  PROVE  /\ Days' = Days /\ (CaseInv => CaseInv')
         /\ \A k \in 1..Len(series) : DaysBefore(k)' = DaysBefore(k)
<1>1. mode' = mode /\ A' = A /\ B' = B /\ series' = series
  BY DEF caseVars
<1>2. Days' = Days
  BY <1>1 DEF Days, DaysBefore, EventOf
<1>3. CaseInv => CaseInv'
  BY <1>1 DEF CaseInv, FiniteDays
<1>4. ASSUME NEW k \in 1..Len(series) PROVE DaysBefore(k)' = DaysBefore(k)
  <2>1. Days[k] = DaysBefore(k)
    BY DEF Days
  <2>2. Days'[k] = DaysBefore(k)'
    BY <1>1 DEF Days
  <2> QED BY <1>2, <2>1, <2>2
<1> QED BY <1>2, <1>3, <1>4

(* Where the cursors of the filter are when it has moved on.               *)
LEMMA MoveTo ==
  ASSUME NEW n \in Nat, NEW x \in 1 .. n + 1, NEW w \in 1..x, NEW y \in x .. n + 1
  PROVE  /\ x - 1 \in Nat /\ w - 1 \in Nat /\ y - 1 \in Nat /\ x - 1 <= y - 1
         /\ y \in 1 .. n + 1 /\ w \in 1..y /\ (x - 1) + 1 = x
         /\ \A m \in y..n : m \in x..n
         /\ \A k \in x .. y - 1 : k \in 1..n
  OBVIOUS

LEMMA MoveOn ==
  ASSUME NEW n \in Nat, NEW x \in 1..n, NEW w \in 1..x, NEW y \in x + 1 .. n + 1
  PROVE  /\ w \in 1..n /\ y - 1 \in Nat /\ x <= y - 1
         /\ y \in 1 .. n + 1 /\ w + 1 \in 1..y /\ (w + 1) - 1 = w
         /\ \A m \in y..n : m \in x..n /\ m # w /\ m \in 1..n
         /\ \A k \in x + 1 .. y - 1 : k \in 1..n
  OBVIOUS

(* The filter passes values that go.                                       *)
LEMMA PassNone ==
  ASSUME CaseInv, CopyInv, UNCHANGED caseVars, UNCHANGED <<keys, output>>,
         i' \in i .. Len(series) + 1, \A k \in i .. i' - 1 : DaysBefore(k) = {}
  PROVE  CopyInv'
<1> DEFINE D == Days
<1>1. Days' = D /\ series' = series /\ keys' = keys /\ output' = output
  BY DaysStay DEF caseVars
<1>2. Len(series) \in Nat
  BY ListFacts DEF CaseInv
<1>3. /\ keys \in Seq(Element) /\ Len(keys) = Len(series)
      /\ i \in 1 .. Len(series) + 1 /\ output \in 1..i
      /\ \A n \in i..Len(series) : keys[n] = series[n]
      /\ Wrote(series, D, keys, i - 1, output - 1)
  BY DEF CopyInv
<1>4. /\ i - 1 \in Nat /\ output - 1 \in Nat /\ i' - 1 \in Nat /\ i - 1 <= i' - 1
      /\ i' \in 1 .. Len(series) + 1 /\ output \in 1..i' /\ (i - 1) + 1 = i
      /\ \A n \in i'..Len(series) : n \in i..Len(series)
      /\ \A k \in i .. i' - 1 : k \in 1..Len(series)
  BY <1>2, <1>3, MoveTo
<1>5. \A k \in (i - 1) + 1 .. i' - 1 : D[k] = {}
  BY <1>4 DEF Days
<1> HIDE DEF D
<1>6. Wrote(series, D, keys, i' - 1, output - 1)
  <2>1. PICK r \in Nat, w \in Nat, r2 \in Nat : r = i - 1 /\ w = output - 1 /\ r2 = i' - 1
    BY <1>4
  <2>2. \A k \in r + 1 .. r2 : D[k] = {}
    BY <1>5, <2>1
  <2>3. Wrote(series, D, keys, r, w)
    BY <1>3, <2>1
  <2>4. r <= r2
    BY <1>4, <2>1
  <2>5. Wrote(series, D, keys, r2, w)
    BY <2>2, <2>3, <2>4, WroteNone
  <2> QED BY <2>1, <2>5
<1> QED BY <1>1, <1>3, <1>4, <1>6 DEF CopyInv

(* The filter writes a value, and passes others that go.                   *)
LEMMA PassOne ==
  ASSUME CaseInv, CopyInv, UNCHANGED caseVars, i <= Len(series),
         NEW v \in Element, Write(v), v.offset = series[i].offset, v.score \in DaysBefore(i),
         i' \in i + 1 .. Len(series) + 1, \A k \in i + 1 .. i' - 1 : DaysBefore(k) = {}
  PROVE  CopyInv'
<1> DEFINE D == Days
<1>1. Days' = D /\ series' = series /\ keys' = [keys EXCEPT ![output] = v] /\ output' = output + 1
  BY DaysStay DEF caseVars, Write
<1>2. Len(series) \in Nat
  BY ListFacts DEF CaseInv
<1>3. /\ keys \in Seq(Element) /\ Len(keys) = Len(series)
      /\ i \in 1 .. Len(series) + 1 /\ output \in 1..i
      /\ \A n \in i..Len(series) : keys[n] = series[n]
      /\ Wrote(series, D, keys, i - 1, output - 1)
  BY DEF CopyInv
<1>4. /\ i \in 1..Len(keys) /\ output \in 1..Len(keys) /\ i' - 1 \in Nat /\ i <= i' - 1
      /\ i' \in 1 .. Len(series) + 1 /\ output + 1 \in 1..i' /\ (output + 1) - 1 = output
      /\ \A n \in i'..Len(series) : n \in i..Len(series) /\ n # output /\ n \in 1..Len(series)
      /\ \A k \in i + 1 .. i' - 1 : k \in 1..Len(series)
  <2>1. i \in 1..Len(series)
    BY <1>2, <1>3
  <2> QED BY <1>2, <1>3, <2>1, MoveOn
<1>5. /\ D[i] = DaysBefore(i)
      /\ \A k \in i + 1 .. i' - 1 : D[k] = {}
  BY <1>3, <1>4 DEF Days
<1> HIDE DEF D
<1>6. Wrote(series, D, [keys EXCEPT ![output] = v], i' - 1, output)
  <2>1. PICK n \in 1..Len(keys), o \in 1..i, r2 \in Nat : n = i /\ o = output /\ r2 = i' - 1
    BY <1>3, <1>4
  <2>2. \A k \in n + 1 .. r2 : D[k] = {}
    BY <1>5, <2>1
  <2>3. Wrote(series, D, keys, n - 1, o - 1)
    BY <1>3, <2>1
  <2>4. o \in 1..n /\ n <= r2 /\ v.offset = series[n].offset /\ v.score \in D[n]
    BY <1>4, <1>5, <2>1
  <2>5. Wrote(series, D, [keys EXCEPT ![o] = v], r2, o)
    BY <1>3, <2>2, <2>3, <2>4, WroteOne
  <2> QED BY <2>1, <2>5
<1>7. /\ keys' \in Seq(Element) /\ Len(keys') = Len(series)
  BY <1>1, <1>3
<1>8. ASSUME NEW n \in i'..Len(series) PROVE keys'[n] = series[n]
  <2>1. n \in i..Len(series) /\ n # output /\ n \in 1..Len(keys)
    BY <1>3, <1>4
  <2>2. keys'[n] = keys[n]
    BY <1>1, <1>3, <2>1
  <2> QED BY <1>3, <2>1, <2>2
<1>9. output' - 1 = output /\ output' \in 1..i'
  BY <1>1, <1>4
<1>10. Wrote(series, D, keys', i' - 1, output' - 1)
  BY <1>1, <1>6, <1>9
<1> QED BY <1>1, <1>4, <1>7, <1>8, <1>9, <1>10 DEF CopyInv
-----------------------------------------------------------------------------
(* The list ks holds the row from x on.                                    *)
Unread(row, ks, x) ==
  /\ row \in Seq(Element) /\ SortedBy(row) /\ ks \in Seq(Element) /\ Len(ks) = Len(row)
  /\ x \in 1..Len(row) /\ \A n \in x..Len(row) : ks[n] = row[n]

(* The values of a document, and what is behind it.                        *)
LEMMA DocumentFacts ==
  ASSUME NEW row, NEW ks, NEW x, NEW y, Unread(row, ks, x), y = NextOffset(ks, x)
  PROVE  /\ y \in x + 1 .. Len(row) + 1
         /\ \A m \in x .. y - 1 : row[m].offset = row[x].offset
         /\ \A m \in x + 1 .. y - 1 : ~FirstOf(row, m)
         /\ \A m \in y..Len(row) : row[x].offset < row[m].offset
         /\ y <= Len(row) => FirstOf(row, y)
<1>0. /\ row \in Seq(Element) /\ SortedBy(row) /\ ks \in Seq(Element) /\ Len(ks) = Len(row)
      /\ x \in 1..Len(row) /\ \A n \in x..Len(row) : ks[n] = row[n]
  BY DEF Unread
<1>1. Len(row) \in Nat /\ \A m \in 1..Len(row) : row[m].offset \in Nat
  BY <1>0, ListFacts
<1>2. /\ y \in x + 1 .. Len(row) + 1
      /\ \A m \in x .. y - 1 : ks[m].offset = ks[x].offset
      /\ y <= Len(row) => ks[y].offset # ks[x].offset
  <2>1. x \in 1..Len(ks)
    BY <1>0
  <2>2. /\ NextOffset(ks, x) \in x + 1 .. Len(ks) + 1
        /\ \A m \in x .. NextOffset(ks, x) - 1 : ks[m].offset = ks[x].offset
        /\ NextOffset(ks, x) <= Len(ks) => ks[NextOffset(ks, x)].offset # ks[x].offset
    BY <1>0, <2>1, NextOffsetFacts
  <2> QED BY <1>0, <2>2
<1>3. /\ ks[x] = row[x] /\ \A m \in x .. y - 1 : m \in x..Len(row)
      /\ y <= Len(row) => ks[y] = row[y]
  <2>1. /\ x \in x..Len(row) /\ \A m \in x .. y - 1 : m \in x..Len(row)
        /\ y <= Len(row) => y \in x..Len(row)
    BY <1>0, <1>1, <1>2
  <2> QED BY <1>0, <2>1
<1>4. ASSUME NEW m \in x .. y - 1 PROVE row[m].offset = row[x].offset
  <2>1. ks[m] = row[m]
    BY <1>0, <1>3
  <2> QED BY <1>2, <1>3, <2>1
<1>5. ASSUME NEW m \in x + 1 .. y - 1 PROVE ~FirstOf(row, m)
  <2>1. m \in x .. y - 1 /\ m - 1 \in x .. y - 1 /\ m # 1
    BY <1>0, <1>1, <1>2
  <2>2. row[m - 1].offset = row[m].offset
    BY <1>4, <2>1
  <2> QED BY <2>1, <2>2 DEF FirstOf
<1>6. ASSUME y <= Len(row) PROVE row[x].offset < row[y].offset
  <2>1. y \in 1..Len(row) /\ x < y
    BY <1>0, <1>1, <1>2, <1>6
  <2>2. row[x].offset <= row[y].offset
    BY <1>0, <2>1 DEF SortedBy
  <2>3. row[x].offset # row[y].offset
    BY <1>2, <1>3, <1>6
  <2> QED BY <1>0, <1>1, <2>1, <2>2, <2>3
<1>7. ASSUME NEW m \in y..Len(row) PROVE row[x].offset < row[m].offset
  <2>1. y <= Len(row) /\ y \in 1..Len(row) /\ m \in 1..Len(row) /\ (m = y \/ y < m)
    BY <1>0, <1>1, <1>2
  <2>2. row[y].offset <= row[m].offset
    BY <1>0, <1>1, <2>1 DEF SortedBy
  <2> QED BY <1>0, <1>1, <1>6, <2>1, <2>2
<1>8. ASSUME y <= Len(row) PROVE FirstOf(row, y)
  <2>1. y - 1 \in x .. y - 1
    BY <1>0, <1>1, <1>2
  <2>2. row[y - 1].offset = row[x].offset
    BY <1>4, <2>1
  <2>3. row[y].offset # row[x].offset
    BY <1>2, <1>3, <1>8
  <2> QED BY <2>2, <2>3 DEF FirstOf
<1> QED BY <1>2, <1>4, <1>5, <1>7, <1>8

(* A cursor stays behind when the row's goes on, may pass what is before   *)
(* the row's next document, and that document too with the row's.          *)
LEMMA BehindOn ==
  ASSUME NEW s, NEW j, NEW row, NEW x \in Nat, NEW y \in Nat, x <= y, Len(row) \in Nat,
         Behind(s, j, row, x)
  PROVE  Behind(s, j, row, y)
<1>1. \A n \in y..Len(row) : n \in x..Len(row)
  OBVIOUS
<1> QED BY <1>1 DEF Behind

LEMMA BehindTo ==
  ASSUME NEW s \in Seq(Element), NEW row \in Seq(Element), SortedBy(row),
         NEW j \in 1 .. Len(s) + 1, NEW j2 \in j .. Len(s) + 1, NEW x \in 1..Len(row),
         \A m \in j .. j2 - 1 : s[m].offset < row[x].offset, Behind(s, j, row, x)
  PROVE  Behind(s, j2, row, x)
<1>1. /\ Len(row) \in Nat /\ \A m \in 1..Len(row) : row[m].offset \in Nat
      /\ Len(s) \in Nat /\ \A m \in 1..Len(s) : s[m].offset \in Nat
  BY ListFacts
<1>2. ASSUME NEW m \in 1 .. j2 - 1, NEW n \in x..Len(row) PROVE s[m].offset < row[n].offset
  <2>1. CASE m < j
    <3>1. m \in 1 .. j - 1
      BY <1>1, <2>1
    <3> QED BY <3>1 DEF Behind
  <2>2. CASE ~(m < j)
    <3>1. m \in j .. j2 - 1 /\ m \in 1..Len(s) /\ n \in 1..Len(row) /\ (x = n \/ x < n)
      BY <1>1, <2>2
    <3>2. row[x].offset <= row[n].offset
      BY <1>1, <3>1 DEF SortedBy
    <3>3. s[m].offset < row[x].offset
      BY <3>1
    <3> QED BY <1>1, <3>1, <3>2, <3>3
  <2> QED BY <2>1, <2>2
<1> QED BY <1>2 DEF Behind

LEMMA BehindPast ==
  ASSUME NEW s \in Seq(Element), NEW row \in Seq(Element),
         NEW j \in 1..Len(s), NEW x \in 1..Len(row), NEW y \in x + 1 .. Len(row) + 1,
         s[j].offset = row[x].offset, \A n \in y..Len(row) : row[x].offset < row[n].offset,
         Behind(s, j, row, x)
  PROVE  Behind(s, j + 1, row, y)
<1>1. Len(row) \in Nat /\ Len(s) \in Nat
  BY ListFacts
<1>2. ASSUME NEW m \in 1 .. (j + 1) - 1, NEW n \in y..Len(row) PROVE s[m].offset < row[n].offset
  <2>1. CASE m = j
    BY <2>1
  <2>2. CASE m # j
    <3>1. m \in 1 .. j - 1 /\ n \in x..Len(row)
      BY <1>1, <2>2
    <3> QED BY <3>1 DEF Behind
  <2> QED BY <2>1, <2>2
<1> QED BY <1>2 DEF Behind

(* What a cursor neither passed nor has before it is not in the set.       *)
LEMMA NotThere ==
  ASSUME NEW s \in Seq(Element), Ascending(s), NEW row \in Seq(Element),
         NEW j \in 1 .. Len(s) + 1, NEW x \in 1..Len(row), Behind(s, j, row, x),
         j <= Len(s) => row[x].offset < s[j].offset
  PROVE  row[x].offset \notin OffsetsOf(s)
<1>1. /\ Len(row) \in Nat /\ row[x].offset \in Nat
      /\ Len(s) \in Nat /\ \A m \in 1..Len(s) : s[m].offset \in Nat
  BY ListFacts
<1>2. ASSUME NEW m \in 1..Len(s) PROVE s[m].offset # row[x].offset
  <2>1. CASE m < j
    <3>1. m \in 1 .. j - 1 /\ x \in x..Len(row)
      BY <1>1, <2>1
    <3>2. s[m].offset < row[x].offset
      BY <3>1 DEF Behind
    <3> QED BY <1>1, <3>2
  <2>2. CASE ~(m < j)
    <3>1. j <= Len(s) /\ j \in 1..Len(s) /\ (m = j \/ j < m)
      BY <1>1, <2>2
    <3>2. s[j].offset <= s[m].offset
      BY <1>1, <3>1 DEF Ascending
    <3> QED BY <1>1, <3>1, <3>2
  <2> QED BY <2>1, <2>2
<1> QED BY <1>2 DEF OffsetsOf
-----------------------------------------------------------------------------
LEMMA CaseFacts ==
  ASSUME CaseInv
  PROVE  /\ A \in Seq(Element) /\ B \in Seq(Element) /\ series \in Seq(Element)
         /\ Ascending(A) /\ Ascending(B) /\ SortedBy(series)
         /\ Len(A) \in Nat /\ Len(B) \in Nat /\ Len(series) \in Nat
         /\ \A k \in 1..Len(A) : A[k].offset \in Nat /\ A[k].score \in Int
         /\ \A k \in 1..Len(B) : B[k].offset \in Nat /\ B[k].score \in Int
         /\ \A k \in 1..Len(series) :
              series[k] \in Element /\ series[k].offset \in Nat /\ series[k].score \in Int
<1>1. A \in Seq(Element) /\ B \in Seq(Element) /\ series \in Seq(Element)
  BY DEF CaseInv
<1> QED BY <1>1, ListFacts DEF CaseInv

(* The value at hand, and the document it begins.                          *)
LEMMA AtHand ==
  ASSUME CaseInv, CopyInv, i <= Len(series)
  PROVE  /\ i \in 1..Len(series) /\ keys[i] = series[i] /\ Len(keys) = Len(series)
         /\ keys[i] \in Element /\ keys[i].offset \in Nat /\ keys[i].score \in Int
         /\ NextOffset(keys, i) \in i + 1 .. Len(series) + 1
         /\ \A m \in i .. NextOffset(keys, i) - 1 : series[m].offset = series[i].offset
         /\ \A m \in i + 1 .. NextOffset(keys, i) - 1 : ~FirstOf(series, m)
         /\ \A m \in NextOffset(keys, i)..Len(series) : series[i].offset < series[m].offset
         /\ NextOffset(keys, i) <= Len(series) => FirstOf(series, NextOffset(keys, i))
<1>1. /\ keys \in Seq(Element) /\ Len(keys) = Len(series) /\ i \in 1 .. Len(series) + 1
      /\ \A n \in i..Len(series) : keys[n] = series[n]
  BY DEF CopyInv
<1>2. /\ series \in Seq(Element) /\ SortedBy(series) /\ Len(series) \in Nat
      /\ \A k \in 1..Len(series) :
           series[k] \in Element /\ series[k].offset \in Nat /\ series[k].score \in Int
  BY CaseFacts
<1>3. i \in 1..Len(series) /\ i \in i..Len(series)
  BY <1>1, <1>2
<1>4. keys[i] = series[i]
  BY <1>1, <1>3
<1>5. PICK y : y = NextOffset(keys, i)
  OBVIOUS
<1>6. /\ y \in i + 1 .. Len(series) + 1
      /\ \A m \in i .. y - 1 : series[m].offset = series[i].offset
      /\ \A m \in i + 1 .. y - 1 : ~FirstOf(series, m)
      /\ \A m \in y..Len(series) : series[i].offset < series[m].offset
      /\ y <= Len(series) => FirstOf(series, y)
  <2>1. Unread(series, keys, i)
    BY <1>1, <1>2, <1>3 DEF Unread
  <2> QED BY <1>5, <2>1, DocumentFacts
<1> QED BY <1>1, <1>2, <1>3, <1>4, <1>5, <1>6

(* The filter keeps the first value of a document if it is from before the *)
(* event, and no other of its values.                                      *)
LEMMA KeepPasses ==
  ASSUME CaseInv, CopyInv, UNCHANGED caseVars, i <= Len(series), FirstOf(series, i),
         NEW min \in Int, EventOf(series[i].offset) = {min},
         Keep(min), i' = NextOffset(keys, i)
  PROVE  CopyInv'
<1>1. /\ i \in 1..Len(series) /\ keys[i] = series[i]
      /\ keys[i] \in Element /\ keys[i].offset \in Nat /\ keys[i].score \in Int
      /\ i' \in i + 1 .. Len(series) + 1
      /\ \A m \in i .. i' - 1 : series[m].offset = series[i].offset
      /\ \A m \in i + 1 .. i' - 1 : ~FirstOf(series, m)
  BY AtHand
<1>2. Len(series) \in Nat
  BY CaseFacts
<1>3. \A m \in i + 1 .. i' - 1 : DaysBefore(m) = {}
  <2>1. ASSUME NEW m \in i + 1 .. i' - 1 PROVE DaysBefore(m) = {}
    <3>1. m \in i .. i' - 1
      BY <1>1, <1>2
    <3>2. EventOf(series[m].offset) = {min}
      BY <1>1, <3>1
    <3> QED BY <1>1, <3>2, DaysWith
  <2> QED BY <2>1
<1>4. CASE keys[i].score < min
  <2> DEFINE v == [offset |-> keys[i].offset, score |-> min - keys[i].score]
  <2>1. v \in Element /\ v.offset = series[i].offset /\ v.score = min - series[i].score
    BY <1>1 DEF Element
  <2>2. DaysBefore(i) = {min - series[i].score}
    BY <1>1, <1>4, DaysWith
  <2>3. Write(v)
    BY <1>4 DEF Keep
  <2> HIDE DEF v
  <2>4. v.score \in DaysBefore(i)
    BY <2>1, <2>2
  <2> QED BY <1>1, <1>3, <2>1, <2>3, <2>4, PassOne
<1>5. CASE ~(keys[i].score < min)
  <2>1. UNCHANGED <<keys, output>>
    BY <1>5 DEF Keep
  <2>2. DaysBefore(i) = {}
    BY <1>1, <1>5, DaysWith
  <2>3. i' \in i .. Len(series) + 1 /\ \A k \in i .. i' - 1 : k = i \/ k \in i + 1 .. i' - 1
    BY <1>1, <1>2
  <2>4. \A k \in i .. i' - 1 : DaysBefore(k) = {}
    BY <1>3, <2>2, <2>3
  <2> QED BY <2>1, <2>3, <2>4, PassNone
<1> QED BY <1>4, <1>5

(* A round of the filter with `now'.                                       *)
LEMMA NowStep ==
  ASSUME CaseInv, FilterInv, FilterNow, SeriesAssumption
  PROVE  FilterInv'
<1>1. /\ mode = "now" /\ i <= Len(keys) /\ a <= Len(A)
      /\ UNCHANGED <<mode, A, B, series, b>>
  BY DEF FilterNow, Reading
<1>2. /\ CopyInv /\ Len(keys) = Len(series) /\ i \in 1 .. Len(series) + 1
      /\ a \in 1 .. Len(A) + 1 /\ b \in 1 .. Len(B) + 1
      /\ Behind(A, a, series, i) /\ Behind(B, b, series, i)
      /\ \A k \in 1 .. i - 1 : series[k].offset < A[a].offset
  BY <1>1 DEF FilterInv, CopyInv
<1>3. /\ A \in Seq(Element) /\ B \in Seq(Element) /\ series \in Seq(Element)
      /\ Ascending(A) /\ Ascending(B) /\ SortedBy(series)
      /\ Len(A) \in Nat /\ Len(B) \in Nat /\ Len(series) \in Nat
      /\ \A k \in 1..Len(A) : A[k].offset \in Nat /\ A[k].score \in Int
      /\ \A k \in 1..Len(series) : series[k].offset \in Nat /\ series[k].score \in Int
  BY CaseFacts
<1>4. /\ i <= Len(series) /\ i \in 1..Len(series) /\ a \in 1..Len(A)
      /\ UNCHANGED caseVars
  BY <1>1, <1>2, <1>3 DEF caseVars
<1>5. /\ keys[i] = series[i] /\ keys[i] \in Element
      /\ NextOffset(keys, i) \in i + 1 .. Len(series) + 1
      /\ \A m \in i .. NextOffset(keys, i) - 1 : series[m].offset = series[i].offset
      /\ \A m \in NextOffset(keys, i)..Len(series) : series[i].offset < series[m].offset
  BY <1>2, <1>4, AtHand
<1>6. \A k \in 1..Len(A) : a < k => A[a].offset < A[k].offset
  BY <1>3, <1>4 DEF Ascending
<1>7. CASE keys[i].offset = A[a].offset
  <2>1. Keep(MinScore(A, a)) /\ i' = NextOffset(keys, i) /\ a' = NextOffset(A, a)
    <3>1. ~(keys[i].offset < A[a].offset) /\ ~(keys[i].offset > A[a].offset)
      BY <1>3, <1>4, <1>5, <1>7
    <3> QED BY <1>7, <3>1 DEF FilterNow
  <2>2. a' = a + 1 /\ MinScore(A, a) = A[a].score /\ A[a].score \in Int
    BY <1>3, <1>4, <2>1, AscendingFacts
  <2>3. FirstOf(series, i)
    <3> SUFFICES ASSUME i # 1 PROVE series[i - 1].offset # series[i].offset
      BY DEF FirstOf
    <3>1. i - 1 \in 1 .. i - 1 /\ i - 1 \in 1..Len(series)
      BY <1>3, <1>4
    <3>2. series[i - 1].offset < A[a].offset
      BY <1>2, <3>1
    <3> QED BY <1>3, <1>4, <1>5, <1>7, <3>1, <3>2
  <2>4. EventOf(series[i].offset) = {A[a].score}
    BY <1>4, <1>5, <1>7, EventFacts
  <2>5. CopyInv'
    BY <1>2, <1>4, <2>1, <2>2, <2>3, <2>4, KeepPasses
  <2>6. i' \in i + 1 .. Len(series) + 1 /\ \A m \in i'..Len(series) : series[i].offset < series[m].offset
    BY <1>5, <2>1
  <2>7. Behind(A, a + 1, series, i')
    BY <1>2, <1>3, <1>4, <1>5, <1>7, <2>6, BehindPast
  <2>8. Behind(B, b, series, i')
    <3>1. i \in Nat /\ i' \in Nat /\ i <= i'
      BY <1>3, <1>4, <2>6
    <3> QED BY <1>2, <1>3, <3>1, BehindOn
  <2>9. ASSUME a + 1 <= Len(A), NEW k \in 1 .. i' - 1 PROVE series[k].offset < A[a + 1].offset
    <3>1. /\ A[a].offset < A[a + 1].offset /\ A[a].offset \in Nat /\ A[a + 1].offset \in Nat
      <4>1. a + 1 \in 1..Len(A) /\ a < a + 1
        BY <1>3, <1>4, <2>9
      <4> QED BY <1>3, <1>4, <1>6, <4>1
    <3>2. /\ k \in 1..Len(series) /\ (k \in 1 .. i - 1 \/ k \in i .. i' - 1)
      <4>1. PICK y \in i + 1 .. Len(series) + 1 : y = i'
        BY <2>6
      <4>2. k \in 1 .. y - 1
        BY <4>1
      <4>3. k \in 1..Len(series) /\ (k \in 1 .. i - 1 \/ k \in i .. y - 1)
        BY <1>3, <1>4, <4>2
      <4> QED BY <4>1, <4>3
    <3>3. series[k].offset <= A[a].offset
      <4>1. CASE k \in 1 .. i - 1
        <5>1. series[k].offset < A[a].offset
          BY <1>2, <4>1
        <5>2. series[k].offset \in Nat
          BY <1>3, <3>2
        <5> QED BY <3>1, <5>1, <5>2
      <4>2. CASE k \in i .. i' - 1
        <5>1. series[k].offset = A[a].offset
          BY <1>5, <1>7, <2>1, <4>2
        <5> QED BY <3>1, <5>1
      <4> QED BY <3>2, <4>1, <4>2
    <3> QED BY <1>3, <3>1, <3>2, <3>3
  <2>10. a + 1 \in 1 .. Len(A) + 1
    BY <1>3, <1>4
  <2> QED BY <1>1, <1>2, <2>2, <2>5, <2>7, <2>8, <2>9, <2>10 DEF FilterInv
<1>8. CASE keys[i].offset < A[a].offset
  <2> DEFINE v == [keys[i] EXCEPT !.score = Now - @]
  <2>0. keys[i].offset # A[a].offset /\ ~(keys[i].offset > A[a].offset)
    BY <1>3, <1>4, <1>5, <1>8
  <2>1. Write(v) /\ i' = i + 1 /\ a' = a
    BY <1>8, <2>0 DEF FilterNow
  <2>2. v \in Element /\ v.offset = series[i].offset /\ v.score = Now - series[i].score
    <3>1. Now \in Int /\ series[i].score \in Int /\ series[i].offset \in Nat
      BY <1>3, <1>4 DEF SeriesAssumption
    <3>2. /\ v \in Element /\ v.offset = keys[i].offset /\ v.score = Now - keys[i].score
      <4>1. PICK e \in Element : e = keys[i]
        BY <1>5
      <4>2. /\ [e EXCEPT !.score = Now - @] \in Element
            /\ [e EXCEPT !.score = Now - @].offset = e.offset
            /\ [e EXCEPT !.score = Now - @].score = Now - e.score
        BY <3>1 DEF Element
      <4> QED BY <4>1, <4>2
    <3> QED BY <1>5, <3>2
  <2>3. series[i].offset \notin OffsetsOf(A)
    BY <1>2, <1>3, <1>4, <1>5, <1>8, NotThere
  <2>4. EventOf(series[i].offset) = {}
    BY <1>1, <2>3, EventFacts
  <2>5. series[i].offset < A[Len(A)].offset
    <3>1. Len(A) \in 1..Len(A) /\ (a = Len(A) \/ a < Len(A))
      BY <1>3, <1>4
    <3>2. A[a].offset <= A[Len(A)].offset
      BY <1>3, <1>4, <1>6, <3>1
    <3> QED BY <1>3, <1>4, <1>5, <1>8, <3>1, <3>2
  <2>6. DaysBefore(i) = {Now - series[i].score}
    BY <1>1, <2>4, <2>5, DaysWithout
  <2>7. i' \in i + 1 .. Len(series) + 1 /\ i + 1 .. i' - 1 = {} /\ i \in Nat /\ i' \in Nat /\ i <= i'
    BY <1>3, <1>4, <2>1
  <2>8. CopyInv'
    <3> HIDE DEF v
    <3>1. v.score \in DaysBefore(i)
      BY <2>2, <2>6
    <3> QED BY <1>2, <1>4, <2>1, <2>2, <2>7, <3>1, PassOne
  <2>9. Behind(A, a, series, i') /\ Behind(B, b, series, i')
    BY <1>2, <1>3, <2>7, BehindOn
  <2>10. ASSUME NEW k \in 1 .. i' - 1 PROVE series[k].offset < A[a].offset
    <3>1. k = i \/ k \in 1 .. i - 1
      BY <1>3, <1>4, <2>1
    <3> QED BY <1>2, <1>5, <1>8, <3>1
  <2> QED BY <1>1, <1>2, <2>1, <2>8, <2>9, <2>10 DEF FilterInv
<1>9. CASE keys[i].offset > A[a].offset
  <2>0. keys[i].offset # A[a].offset /\ ~(keys[i].offset < A[a].offset)
    BY <1>3, <1>4, <1>5, <1>9
  <2>1. UNCHANGED <<keys, output>> /\ i' = i /\ a' = a + 1
    BY <1>9, <2>0 DEF FilterNow
  <2>2. CopyInv'
    <3>1. i' \in i .. Len(series) + 1 /\ i .. i' - 1 = {}
      BY <1>3, <1>4, <2>1
    <3> QED BY <1>2, <1>4, <2>1, <3>1, PassNone
  <2>3. /\ a + 1 \in a .. Len(A) + 1 /\ a + 1 \in 1 .. Len(A) + 1
        /\ \A m \in a .. (a + 1) - 1 : m = a
    BY <1>3, <1>4
  <2>4. Behind(A, a + 1, series, i)
    <3>1. \A m \in a .. (a + 1) - 1 : A[m].offset < series[i].offset
      BY <1>3, <1>4, <1>5, <1>9, <2>3
    <3> QED BY <1>2, <1>3, <1>4, <2>3, <3>1, BehindTo
  <2>5. ASSUME a + 1 <= Len(A), NEW k \in 1 .. i - 1 PROVE series[k].offset < A[a + 1].offset
    <3>1. a + 1 \in 1..Len(A) /\ a < a + 1 /\ k \in 1..Len(series)
      BY <1>3, <1>4, <2>5
    <3>2. A[a].offset < A[a + 1].offset /\ series[k].offset < A[a].offset
      BY <1>2, <1>6, <3>1
    <3>3. series[k] \in Element /\ A[a] \in Element /\ A[a + 1] \in Element
      BY <1>3, <1>4, <3>1
    <3>4. series[k].offset \in Nat /\ A[a].offset \in Nat /\ A[a + 1].offset \in Nat
      BY <3>3 DEF Element
    <3> QED BY <3>2, <3>4
  <2> QED BY <1>1, <1>2, <2>1, <2>2, <2>3, <2>4, <2>5 DEF FilterInv
<1>10. keys[i].offset \in Nat /\ A[a].offset \in Nat
  BY <1>3, <1>4, <1>5
<1> QED BY <1>7, <1>8, <1>9, <1>10

(* A round of the filter with the events of both sets.                     *)
LEMMA EventsStep ==
  ASSUME CaseInv, FilterInv, FilterEvents
  PROVE  FilterInv'
<1>1. /\ mode = "events" /\ i <= Len(keys)
      /\ UNCHANGED <<mode, A, B, series>>
  BY DEF FilterEvents, Reading
<1>2. /\ CopyInv /\ Len(keys) = Len(series) /\ i \in 1 .. Len(series) + 1
      /\ a \in 1 .. Len(A) + 1 /\ b \in 1 .. Len(B) + 1
      /\ Behind(A, a, series, i) /\ Behind(B, b, series, i)
  BY <1>1 DEF FilterInv, CopyInv
<1>3. /\ A \in Seq(Element) /\ B \in Seq(Element) /\ series \in Seq(Element)
      /\ Ascending(A) /\ Ascending(B) /\ SortedBy(series)
      /\ Len(A) \in Nat /\ Len(B) \in Nat /\ Len(series) \in Nat
      /\ \A k \in 1..Len(A) : A[k].offset \in Nat /\ A[k].score \in Int
      /\ \A k \in 1..Len(B) : B[k].offset \in Nat /\ B[k].score \in Int
  BY CaseFacts
<1>4. /\ i <= Len(series) /\ i \in 1..Len(series) /\ FirstOf(series, i)
      /\ UNCHANGED caseVars
  BY <1>1, <1>2, <1>3 DEF caseVars, FilterInv
<1>5. /\ keys[i] = series[i] /\ keys[i] \in Element /\ keys[i].offset \in Nat
      /\ NextOffset(keys, i) \in i + 1 .. Len(series) + 1
      /\ \A m \in i .. NextOffset(keys, i) - 1 : series[m].offset = series[i].offset
      /\ \A m \in NextOffset(keys, i)..Len(series) : series[i].offset < series[m].offset
      /\ NextOffset(keys, i) <= Len(series) => FirstOf(series, NextOffset(keys, i))
  BY <1>2, <1>4, AtHand
<1>6. ASSUME i' = NextOffset(keys, i)
      PROVE  /\ Behind(A, a, series, i') /\ Behind(B, b, series, i')
             /\ i' \in i + 1 .. Len(series) + 1
             /\ \A m \in i'..Len(series) : series[i].offset < series[m].offset
             /\ i' <= Len(series) => FirstOf(series, i')
  <2>1. i' \in i + 1 .. Len(series) + 1
    BY <1>5, <1>6
  <2>2. i \in Nat /\ i' \in Nat /\ i <= i'
    BY <1>3, <1>4, <2>1
  <2>3. Behind(A, a, series, i') /\ Behind(B, b, series, i')
    BY <1>2, <1>3, <2>2, BehindOn
  <2> QED BY <1>5, <1>6, <2>1, <2>3
<1>7. CASE At(A, a)
  <2>1. Keep(MinScore(A, a)) /\ i' = NextOffset(keys, i) /\ a' = NextOffset(A, a) /\ b' = b
    BY <1>7 DEF FilterEvents
  <2>2. a \in 1..Len(A) /\ A[a].offset = series[i].offset
    BY <1>2, <1>3, <1>5, <1>7 DEF At
  <2>3. a' = a + 1 /\ MinScore(A, a) = A[a].score /\ A[a].score \in Int
    BY <1>3, <2>1, <2>2, AscendingFacts
  <2>4. EventOf(series[i].offset) = {A[a].score}
    <3>1. EventOf(A[a].offset) = {A[a].score}
      BY <2>2, EventFacts
    <3> QED BY <2>2, <3>1
  <2>5. CopyInv'
    BY <1>2, <1>4, <2>1, <2>3, <2>4, KeepPasses
  <2>6. Behind(A, a + 1, series, i')
    BY <1>2, <1>3, <1>4, <1>6, <2>1, <2>2, BehindPast
  <2>7. a + 1 \in 1 .. Len(A) + 1
    BY <1>3, <2>2
  <2> QED BY <1>1, <1>2, <1>6, <2>1, <2>3, <2>5, <2>6, <2>7 DEF FilterInv
<1>8. CASE ~At(A, a) /\ At(B, b)
  <2>1. Keep(MinScore(B, b)) /\ i' = NextOffset(keys, i) /\ b' = NextOffset(B, b) /\ a' = a
    BY <1>8 DEF FilterEvents
  <2>2. b \in 1..Len(B) /\ B[b].offset = series[i].offset
    BY <1>2, <1>3, <1>5, <1>8 DEF At
  <2>3. b' = b + 1 /\ MinScore(B, b) = B[b].score /\ B[b].score \in Int
    BY <1>3, <2>1, <2>2, AscendingFacts
  <2>4. EventOf(series[i].offset) = {B[b].score}
    <3>1. EventOf(B[b].offset) = {B[b].score}
      BY <1>1, <2>2, EventFacts
    <3> QED BY <2>2, <3>1
  <2>5. CopyInv'
    BY <1>2, <1>4, <2>1, <2>3, <2>4, KeepPasses
  <2>6. Behind(B, b + 1, series, i')
    BY <1>2, <1>3, <1>4, <1>6, <2>1, <2>2, BehindPast
  <2>7. b + 1 \in 1 .. Len(B) + 1
    BY <1>3, <2>2
  <2> QED BY <1>1, <1>2, <1>6, <2>1, <2>3, <2>5, <2>6, <2>7 DEF FilterInv
<1>9. ASSUME UNCHANGED <<keys, output, i>> PROVE CopyInv'
  <2>1. i' \in i .. Len(series) + 1 /\ i .. i' - 1 = {}
    BY <1>3, <1>4, <1>9
  <2> QED BY <1>2, <1>4, <1>9, <2>1, PassNone
<1>10. CASE ~At(A, a) /\ ~At(B, b) /\ Before(A, a)
  <2>1. a' = SkipTo(A, a) /\ UNCHANGED <<keys, output, i, b>>
    BY <1>10 DEF FilterEvents
  <2>2. a' \in a .. Len(A) + 1 /\ \A m \in a .. a' - 1 : A[m].offset < series[i].offset
    <3>1. /\ SkipTo(A, a) \in a .. Len(A) + 1
          /\ \A m \in a .. SkipTo(A, a) - 1 : A[m].offset < keys[i].offset
      BY <1>2, <1>3, <1>5, SkipToFacts
    <3> QED BY <1>5, <2>1, <3>1
  <2>3. Behind(A, a', series, i)
    BY <1>2, <1>3, <1>4, <2>2, BehindTo
  <2>4. a' \in 1 .. Len(A) + 1
    BY <1>2, <1>3, <2>2
  <2> QED BY <1>1, <1>2, <1>4, <1>9, <2>1, <2>3, <2>4 DEF FilterInv
<1>11. CASE ~At(A, a) /\ ~At(B, b) /\ ~Before(A, a) /\ Before(B, b)
  <2>1. b' = SkipTo(B, b) /\ UNCHANGED <<keys, output, i, a>>
    BY <1>11 DEF FilterEvents
  <2>2. b' \in b .. Len(B) + 1 /\ \A m \in b .. b' - 1 : B[m].offset < series[i].offset
    <3>1. /\ SkipTo(B, b) \in b .. Len(B) + 1
          /\ \A m \in b .. SkipTo(B, b) - 1 : B[m].offset < keys[i].offset
      BY <1>2, <1>3, <1>5, SkipToFacts
    <3> QED BY <1>5, <2>1, <3>1
  <2>3. Behind(B, b', series, i)
    BY <1>2, <1>3, <1>4, <2>2, BehindTo
  <2>4. b' \in 1 .. Len(B) + 1
    BY <1>2, <1>3, <2>2
  <2> QED BY <1>1, <1>2, <1>4, <1>9, <2>1, <2>3, <2>4 DEF FilterInv
<1>12. CASE ~At(A, a) /\ ~At(B, b) /\ ~Before(A, a) /\ ~Before(B, b)
  <2>1. i' = NextOffset(keys, i) /\ UNCHANGED <<keys, output, a, b>>
    BY <1>12 DEF FilterEvents
  <2>2. /\ a <= Len(A) => series[i].offset < A[a].offset
        /\ b <= Len(B) => series[i].offset < B[b].offset
    <3>1. a <= Len(A) => a \in 1..Len(A)
      BY <1>2, <1>3
    <3>2. b <= Len(B) => b \in 1..Len(B)
      BY <1>2, <1>3
    <3> QED BY <1>3, <1>5, <1>12, <3>1, <3>2 DEF At, Before
  <2>3. series[i].offset \notin OffsetsOf(A) /\ series[i].offset \notin OffsetsOf(B)
    BY <1>2, <1>3, <1>4, <2>2, NotThere
  <2>4. EventOf(series[i].offset) = {}
    BY <2>3, EventFacts
  <2>5. \A m \in i .. i' - 1 : DaysBefore(m) = {}
    <3>1. ASSUME NEW m \in i .. i' - 1 PROVE DaysBefore(m) = {}
      <4>1. EventOf(series[m].offset) = {}
        BY <1>5, <2>1, <2>4
      <4> QED BY <1>1, <4>1, DaysWithout
    <3> QED BY <3>1
  <2>6. i' \in i .. Len(series) + 1
    BY <1>3, <1>4, <1>6, <2>1
  <2>7. CopyInv'
    BY <1>2, <1>4, <2>1, <2>5, <2>6, PassNone
  <2> QED BY <1>1, <1>2, <1>6, <2>1, <2>7 DEF FilterInv
<1> QED BY <1>7, <1>8, <1>10, <1>11, <1>12

(* Days are finite scores.                                                 *)
LEMMA DaysFinite ==
  ASSUME CaseInv, NEW k \in 1..Len(series), NEW d \in DaysBefore(k)
  PROVE  Finite(d)
<1>1. /\ Finite(Now - series[k].score)
      /\ \A j \in 1..Len(A) : Finite(A[j].score - series[k].score)
      /\ \A j \in 1..Len(B) : Finite(B[j].score - series[k].score)
  BY DEF CaseInv, FiniteDays
<1> DEFINE events == EventOf(series[k].offset)
<1>2. ASSUME NEW e \in events PROVE Finite(e - series[k].score)
  <2>1. \/ \E j \in 1..Len(A) : e = A[j].score
        \/ \E j \in 1..Len(B) : e = B[j].score
    BY DEF EventOf, ScoresOf
  <2> QED BY <1>1, <2>1
<1> HIDE DEF events
<1>3. CASE events # {}
  <2>1. DaysBefore(k) = {e - series[k].score :
                           e \in {x \in events : series[k].score < x /\ FirstOf(series, k)}}
    BY <1>3 DEF DaysBefore, events
  <2> QED BY <1>2, <2>1
<1>4. CASE events = {}
  <2>1. d = Now - series[k].score
    BY <1>4 DEF DaysBefore, events
  <2> QED BY <1>1, <2>1
<1> QED BY <1>3, <1>4

(* What is left of the row when the filter ends goes.                      *)
LEMMA FilterWrote ==
  ASSUME CaseInv, FilterInv, i > Len(keys) \/ (mode = "now" /\ a > Len(A))
  PROVE  Wrote(series, Days, keys, Len(series), output - 1)
<1>1. /\ Len(A) \in Nat /\ Len(series) \in Nat
      /\ \A k \in 1..Len(A) : A[k].offset \in Nat
      /\ \A k \in 1..Len(series) : series[k].offset \in Nat
  BY CaseFacts
<1>2. /\ Len(keys) = Len(series) /\ i \in 1 .. Len(series) + 1 /\ output \in 1..i
      /\ Wrote(series, Days, keys, i - 1, output - 1)
      /\ a \in 1 .. Len(A) + 1 /\ Behind(A, a, series, i)
  BY DEF FilterInv, CopyInv
<1>3. ASSUME NEW k \in i..Len(series) PROVE DaysBefore(k) = {}
  <2>1. mode = "now" /\ a > Len(A) /\ k \in 1..Len(series)
    BY <1>1, <1>2
  <2>2. \A m \in 1..Len(A) : A[m].offset < series[k].offset
    <3>1. \A m \in 1..Len(A) : m \in 1 .. a - 1
      BY <1>1, <1>2, <2>1
    <3> QED BY <1>2, <3>1 DEF Behind
  <2>3. series[k].offset \notin OffsetsOf(A)
    BY <1>1, <2>1, <2>2 DEF OffsetsOf
  <2>4. EventOf(series[k].offset) = {}
    BY <2>1, <2>3, EventFacts
  <2>5. ~(series[k].offset < A[Len(A)].offset)
    <3>1. Len(A) \in 1..Len(A)
      BY <1>1 DEF CaseInv
    <3> QED BY <1>1, <2>1, <2>2, <3>1
  <2> QED BY <2>4, <2>5, DaysWithout
<1>4. PICK D : D = Days
  OBVIOUS
<1>5. /\ i - 1 \in Nat /\ output - 1 \in Nat /\ i - 1 <= Len(series) /\ (i - 1) + 1 = i
      /\ \A k \in i..Len(series) : k \in 1..Len(series)
  BY <1>1, <1>2
<1>6. \A k \in (i - 1) + 1 .. Len(series) : D[k] = {}
  BY <1>3, <1>4, <1>5 DEF Days
<1> QED BY <1>1, <1>2, <1>4, <1>5, <1>6, WroteNone

(* What the filter leaves is what it should.                               *)
LEMMA EndStep ==
  ASSUME CaseInv, FilterInv, FilterEnd
  PROVE  KeysInv' /\ FilteredSome'
<1>1. /\ series \in Seq(Element) /\ SortedBy(series) /\ Len(series) \in Nat
      /\ \A k \in 1..Len(series) : series[k].offset \in Nat
  BY CaseFacts
<1>2. /\ keys \in Seq(Element) /\ Len(keys) = Len(series)
      /\ i \in 1 .. Len(series) + 1 /\ output \in 1..i
  BY DEF FilterInv, CopyInv
<1>3. PICK w \in Nat : w = output - 1 /\ w <= Len(keys)
  BY <1>1, <1>2
<1>4. /\ UNCHANGED caseVars /\ series' = series /\ keys' = SubSeq(keys, 1, w)
      /\ i > Len(keys) \/ (mode = "now" /\ a > Len(A))
  BY <1>3 DEF FilterEnd, caseVars
<1>5. /\ keys' \in Seq(Element) /\ Len(keys') = w
      /\ \A x \in 1..w : keys'[x] = keys[x]
  BY <1>2, <1>3, <1>4, SubSeqProperties
<1>6. PICK places \in [1..w -> 1..Len(series)] :
        /\ \A x, y \in 1..w : x < y => places[x] < places[y]
        /\ \A k \in 1..Len(series) : Days[k] # {} <=> \E x \in 1..w : places[x] = k
        /\ \A x \in 1..w : /\ keys[x].offset = series[places[x]].offset
                           /\ keys[x].score \in Days[places[x]]
  BY <1>3, <1>4, FilterWrote DEF Wrote
<1>7. \A k \in 1..Len(series) : Days[k] = DaysBefore(k) /\ DaysBefore(k)' = DaysBefore(k)
  BY <1>4, DaysStay DEF Days
<1>8. \A x \in 1..w : /\ keys'[x].offset = series[places[x]].offset
                      /\ keys'[x].score \in DaysBefore(places[x])
  <2>1. ASSUME NEW x \in 1..w
        PROVE  /\ keys'[x].offset = series[places[x]].offset
               /\ keys'[x].score \in DaysBefore(places[x])
    <3>1. keys'[x] = keys[x] /\ Days[places[x]] = DaysBefore(places[x])
      BY <1>5, <1>7
    <3> QED BY <1>6, <3>1
  <2> QED BY <2>1
<1>9. FilteredSome'
  <2>1. {places[n] : n \in 1..w} = {k \in 1..Len(series) : DaysBefore(k) # {}}
    <3>1. ASSUME NEW k \in 1..Len(series)
          PROVE  DaysBefore(k) # {} <=> \E x \in 1..w : places[x] = k
      BY <1>6, <1>7
    <3>2. \A n \in 1..w : places[n] \in 1..Len(series)
      OBVIOUS
    <3> QED BY ONLY <3>1, <3>2
  <2>2. {k \in 1..Len(series) : DaysBefore(k)' # {}} = {k \in 1..Len(series) : DaysBefore(k) # {}}
    BY <1>7
  <2>3. \A n \in 1..w : keys'[n].score \in DaysBefore(places[n])'
    BY <1>7, <1>8
  <2>4. Filtered(places)'
    BY <1>4, <1>5, <1>6, <1>8, <2>1, <2>2, <2>3 DEF Filtered
  <2> QED BY <1>4, <1>5, <2>4 DEF FilteredSome
<1>10. SortedBy(keys')
  <2>1. ASSUME NEW x \in 1..w, NEW y \in 1..w, x < y PROVE keys'[x].offset <= keys'[y].offset
    <3>1. places[x] \in 1..Len(series) /\ places[y] \in 1..Len(series) /\ places[x] < places[y]
      BY <1>6, <2>1
    <3>2. series[places[x]].offset <= series[places[y]].offset
      BY <1>1, <3>1 DEF SortedBy
    <3> QED BY <1>8, <3>2
  <2> QED BY <1>5, <2>1 DEF SortedBy
<1>11. \A x \in 1..w : Finite(keys'[x].score)
  BY <1>8, DaysFinite
<1> QED BY <1>5, <1>9, <1>10, <1>11 DEF KeysInv
-----------------------------------------------------------------------------
(* The ranges hold each value that counts once: the whole, and the two     *)
(* sides of a cut between two scores that follow each other.               *)
LEMMA WholePartitions ==
  ASSUME KeysInv, SeriesAssumption
  PROVE  PartitionedBy(Whole)
<1>1. Len(Whole) = 1 /\ Whole[1] = [min |-> MinusInf, max |-> Inf]
  BY DEF Whole
<1>2. ASSUME NEW k \in Classes PROVE InRange(keys[k], Whole[1])
  <2>1. k \in 1..Len(keys)
    BY DEF Classes
  <2>2. Finite(keys[k].score)
    BY <2>1 DEF KeysInv
  <2> QED BY <1>1, <2>2 DEF InRange, Finite
<1>3. ASSUME NEW k \in Classes
      PROVE  \E n \in 1..Len(Whole) :
               \A m \in 1..Len(Whole) : InRange(keys[k], Whole[m]) <=> m = n
  <2>1. 1 \in 1..Len(Whole) /\ \A m \in 1..Len(Whole) : m = 1
    BY <1>1
  <2> QED BY <1>2, <2>1
<1> QED BY <1>3 DEF PartitionedBy

LEMMA CutSides ==
  ASSUME Sorts(agg), agg \in Seq(Int), NEW n \in 1 .. Len(agg) - 1, NEW k \in Classes
  PROVE  \/ keys[k].score <= agg[n] /\ ~(agg[n + 1] <= keys[k].score)
         \/ ~(keys[k].score <= agg[n]) /\ agg[n + 1] <= keys[k].score
<1>1. /\ Len(agg) \in Nat /\ \A m \in 1..Len(agg) : agg[m] \in Int
  BY LenProperties
<1>2. n \in 1..Len(agg) /\ n + 1 \in 1..Len(agg) /\ n < n + 1
  BY <1>1
<1>3. \A x, y \in 1..Len(agg) : x < y => agg[x] < agg[y]
  BY DEF Sorts
<1>4. PICK m \in 1..Len(agg) : agg[m] = keys[k].score
  BY DEF Sorts
<1>5. CASE m <= n
  <2>1. m = n \/ m < n
    BY <1>1, <1>5
  <2>2. agg[m] <= agg[n]
    BY <1>1, <1>2, <1>3, <2>1
  <2>3. agg[n] < agg[n + 1]
    BY <1>2, <1>3
  <2> QED BY <1>1, <1>2, <1>4, <2>2, <2>3
<1>6. CASE ~(m <= n)
  <2>1. n < m /\ (m = n + 1 \/ n + 1 < m)
    BY <1>1, <1>6
  <2>2. agg[n] < agg[m] /\ agg[n + 1] <= agg[m]
    BY <1>1, <1>2, <1>3, <2>1
  <2> QED BY <1>1, <1>2, <1>4, <2>2
<1> QED BY <1>5, <1>6

LEMMA CutPartitions ==
  ASSUME KeysInv, Sorts(agg), agg \in Seq(Int), NEW n \in 1 .. Len(agg) - 1,
         NEW cs, cs = <<[min |-> MinusInf, max |-> agg[n]], [min |-> agg[n + 1], max |-> Inf]>>
  PROVE  PartitionedBy(cs)
<1>1. /\ Len(cs) = 2 /\ cs[1] = [min |-> MinusInf, max |-> agg[n]]
      /\ cs[2] = [min |-> agg[n + 1], max |-> Inf]
  OBVIOUS
<1>5. ASSUME NEW k \in Classes
      PROVE  \/ InRange(keys[k], cs[1]) /\ ~InRange(keys[k], cs[2])
             \/ ~InRange(keys[k], cs[1]) /\ InRange(keys[k], cs[2])
  <2>1. k \in 1..Len(keys)
    BY DEF Classes
  <2>2. MinusInf <= keys[k].score /\ keys[k].score <= Inf
    BY <2>1 DEF KeysInv, Finite
  <2>3. \/ keys[k].score <= agg[n] /\ ~(agg[n + 1] <= keys[k].score)
        \/ ~(keys[k].score <= agg[n]) /\ agg[n + 1] <= keys[k].score
    BY CutSides
  <2>4. /\ InRange(keys[k], cs[1]) <=> keys[k].score <= agg[n]
        /\ InRange(keys[k], cs[2]) <=> agg[n + 1] <= keys[k].score
    BY <1>1, <2>2 DEF InRange
  <2> QED BY <2>3, <2>4
<1>6. ASSUME NEW k \in Classes
      PROVE  \E x \in 1..Len(cs) :
               \A m \in 1..Len(cs) : InRange(keys[k], cs[m]) <=> m = x
  <2>1. 1 \in 1..Len(cs) /\ 2 \in 1..Len(cs) /\ \A m \in 1..Len(cs) : m = 1 \/ m = 2
    BY <1>1
  <2>2. CASE InRange(keys[k], cs[1]) /\ ~InRange(keys[k], cs[2])
    BY <2>1, <2>2
  <2>3. CASE ~InRange(keys[k], cs[1]) /\ InRange(keys[k], cs[2])
    BY <2>1, <2>3
  <2> QED BY <1>5, <2>2, <2>3
<1> QED BY <1>6 DEF PartitionedBy
-----------------------------------------------------------------------------
(* A value out of range is not seen.                                       *)
LEMMA SeenNone ==
  ASSUME NEW ks \in Seq(Element), SortedBy(ks), NEW x \in 1..Len(ks), NEW call,
         ~InRange(ks[x], call), ks[x].offset \notin Seen(ks, x - 1, call)
  PROVE  /\ Seen(ks, (x + 1) - 1, call) = Seen(ks, x - 1, call)
         /\ x + 1 <= Len(ks) => ks[x + 1].offset \notin Seen(ks, (x + 1) - 1, call)
<1>1. Len(ks) \in Nat /\ \A m \in 1..Len(ks) : ks[m].offset \in Nat
  BY ListFacts
<1>2. (x + 1) - 1 = x /\ \A m : m \in 1..x <=> (m \in 1 .. x - 1 \/ m = x)
  BY <1>1
<1>3. {m \in 1..x : InRange(ks[m], call)} = {m \in 1 .. x - 1 : InRange(ks[m], call)}
  BY <1>2
<1>4. Seen(ks, x, call) = Seen(ks, x - 1, call)
  BY <1>3 DEF Seen
<1>5. ASSUME x + 1 <= Len(ks), ks[x + 1].offset \in Seen(ks, x - 1, call) PROVE FALSE
  <2>1. PICK m \in 1 .. x - 1 : InRange(ks[m], call) /\ ks[m].offset = ks[x + 1].offset
    BY <1>5 DEF Seen
  <2>2. m \in 1..Len(ks) /\ x + 1 \in 1..Len(ks) /\ m < x /\ x < x + 1
    BY <1>1, <1>5, <2>1
  <2>3. ks[m].offset <= ks[x].offset /\ ks[x].offset <= ks[x + 1].offset
    BY <2>2 DEF SortedBy
  <2>4. ks[m].offset = ks[x].offset
    BY <1>1, <2>1, <2>2, <2>3
  <2>5. ks[x].offset \in Seen(ks, x - 1, call)
    BY <2>1, <2>4 DEF Seen
  <2> QED BY <2>5
<1> QED BY <1>2, <1>4, <1>5

(* A document with its first value in range is seen, whatever its others.  *)
LEMMA SeenDocument ==
  ASSUME NEW ks \in Seq(Element), SortedBy(ks), NEW x \in 1..Len(ks), NEW call,
         InRange(ks[x], call), NEW y, y = NextOffset(ks, x)
  PROVE  /\ Seen(ks, y - 1, call) = Seen(ks, x - 1, call) \cup {ks[x].offset}
         /\ y <= Len(ks) => ks[y].offset \notin Seen(ks, y - 1, call)
<1>1. Len(ks) \in Nat /\ \A m \in 1..Len(ks) : ks[m].offset \in Nat
  BY ListFacts
<1>2. Unread(ks, ks, x)
  BY DEF Unread
<1>3. /\ y \in x + 1 .. Len(ks) + 1
      /\ \A m \in x .. y - 1 : ks[m].offset = ks[x].offset
      /\ \A m \in y..Len(ks) : ks[x].offset < ks[m].offset
  BY <1>2, DocumentFacts
<1>4. /\ \A m \in 1 .. y - 1 : m \in 1 .. x - 1 \/ m \in x .. y - 1
      /\ \A m \in 1 .. x - 1 : m \in 1 .. y - 1
      /\ x \in 1 .. y - 1
  BY <1>1, <1>3
<1>5. ASSUME NEW o \in Seen(ks, y - 1, call) PROVE o \in Seen(ks, x - 1, call) \cup {ks[x].offset}
  <2>1. PICK m \in 1 .. y - 1 : InRange(ks[m], call) /\ ks[m].offset = o
    BY DEF Seen
  <2>2. CASE m \in 1 .. x - 1
    BY <2>1, <2>2 DEF Seen
  <2>3. CASE m \in x .. y - 1
    BY <1>3, <2>1, <2>3
  <2> QED BY <1>4, <2>2, <2>3
<1>6. ASSUME NEW o \in Seen(ks, x - 1, call) PROVE o \in Seen(ks, y - 1, call)
  <2>1. PICK m \in 1 .. x - 1 : InRange(ks[m], call) /\ ks[m].offset = o
    BY DEF Seen
  <2> QED BY <1>4, <2>1 DEF Seen
<1>7. ks[x].offset \in Seen(ks, y - 1, call)
  BY <1>4 DEF Seen
<1>8. ASSUME y <= Len(ks), ks[y].offset \in Seen(ks, y - 1, call) PROVE FALSE
  <2>1. PICK m \in 1 .. y - 1 : InRange(ks[m], call) /\ ks[m].offset = ks[y].offset
    BY <1>8 DEF Seen
  <2>2. ks[x].offset < ks[y].offset /\ y \in 1..Len(ks)
    BY <1>1, <1>3, <1>8
  <2>3. m \in 1..Len(ks) /\ (m \in x .. y - 1 \/ m < x)
    BY <1>1, <1>3, <2>1
  <2>4. ks[m].offset <= ks[x].offset
    BY <1>1, <1>3, <2>3 DEF SortedBy
  <2> QED BY <1>1, <2>1, <2>2, <2>3, <2>4
<1> QED BY <1>5, <1>6, <1>7, <1>8

(* What is seen is finitely many documents.                                *)
LEMMA SeenFinite ==
  ASSUME NEW ks, NEW n \in Int, NEW call
  PROVE  IsFiniteSet(Seen(ks, n, call))
<1>1. IsFiniteSet(1..n)
  BY FS_Interval
<1> DEFINE T == {m \in 1..n : InRange(ks[m], call)}
<1>2. IsFiniteSet(T)
  BY <1>1, FS_Subset
<1> HIDE DEF T
<1>3. Seen(ks, n, call) = {ks[k].offset : k \in T}
  BY DEF Seen, T
<1> DEFINE R == {ks[k].offset : k \in T}
           f == [k \in T |-> ks[k].offset]
<1>4. f \in Surjection(T, R)
  BY DEF Surjection
<1> HIDE DEF f, R
<1>5. IsFiniteSet(R)
  BY <1>2, <1>4, FS_Surjection
<1> QED BY <1>3, <1>5 DEF R

(* A document that was not seen before is counted where it is.             *)
LEMMA AddsOne ==
  ASSUME NEW S, IsFiniteSet(S), NEW x, x \notin S, NEW T
  PROVE  /\ Cardinality(S \cap T) \in Nat
         /\ Cardinality((S \cup {x}) \cap T) = Cardinality(S \cap T) + One(x \in T)
<1>1. IsFiniteSet(S \cap T) /\ x \notin S \cap T
  BY FS_Subset
<1>2. Cardinality(S \cap T) \in Nat
  BY <1>1, FS_CardinalityType
<1>3. CASE x \in T
  <2>1. (S \cup {x}) \cap T = (S \cap T) \cup {x}
    BY <1>3
  <2>2. Cardinality((S \cap T) \cup {x}) = Cardinality(S \cap T) + 1
    BY <1>1, FS_AddElement
  <2>3. One(x \in T) = 1
    BY <1>3 DEF One
  <2> QED BY <1>2, <2>1, <2>2, <2>3
<1>4. CASE x \notin T
  <2>1. (S \cup {x}) \cap T = S \cap T
    BY <1>4
  <2>2. One(x \in T) = 0
    BY <1>4 DEF One
  <2>3. Cardinality(S \cap T) = Cardinality(S \cap T) + One(x \in T)
    BY <1>2, <2>2
  <2> QED BY <1>2, <2>1, <2>3
<1> QED BY <1>2, <1>3, <1>4

LEMMA CountsAdd ==
  ASSUME NEW S, IsFiniteSet(S), NEW x, x \notin S, NEW inA, NEW inB, NEW c, c = CountsOf(S, inA, inB)
  PROVE  CountsOf(S \cup {x}, inA, inB) =
           <<c[1] + One(x \in inA), c[2] + One(x \in inB), c[3] + One(x \in inA \cup inB)>>
<1>1. /\ c[1] = Cardinality(S \cap inA) /\ c[2] = Cardinality(S \cap inB)
      /\ c[3] = Cardinality(S \cap (inA \cup inB))
  BY DEF CountsOf
<1>2. /\ Cardinality((S \cup {x}) \cap inA) = c[1] + One(x \in inA)
      /\ Cardinality((S \cup {x}) \cap inB) = c[2] + One(x \in inB)
      /\ Cardinality((S \cup {x}) \cap (inA \cup inB)) = c[3] + One(x \in inA \cup inB)
  BY <1>1, AddsOne
<1> QED BY <1>2 DEF CountsOf

LEMMA CountsType ==
  ASSUME NEW S, IsFiniteSet(S), NEW inA, NEW inB
  PROVE  CountsOf(S, inA, inB) \in Nat \X Nat \X Nat
<1>1. IsFiniteSet(S \cap inA) /\ IsFiniteSet(S \cap inB) /\ IsFiniteSet(S \cap (inA \cup inB))
  BY FS_Subset
<1>2. /\ Cardinality(S \cap inA) \in Nat /\ Cardinality(S \cap inB) \in Nat
      /\ Cardinality(S \cap (inA \cup inB)) \in Nat
  BY <1>1, FS_CardinalityType
<1> QED BY <1>2 DEF CountsOf

LEMMA NoneSeen ==
  ASSUME NEW ks, NEW call, NEW inA, NEW inB
  PROVE  Seen(ks, 0, call) = {} /\ CountsOf({}, inA, inB) = <<0, 0, 0>>
<1>1. Seen(ks, 0, call) = {}
  <2>1. 1..0 = {}
    OBVIOUS
  <2> QED BY <2>1 DEF Seen
<1>2. /\ {} \cap inA = {} /\ {} \cap inB = {} /\ {} \cap (inA \cup inB) = {}
  OBVIOUS
<1>3. Cardinality({}) = 0
  BY FS_EmptySet
<1> QED BY <1>1, <1>2, <1>3 DEF CountsOf

(* A search finds the document that the series is at if the set has it.    *)
LEMMA SearchFinds ==
  ASSUME NEW s \in Seq(Element), Ascending(s), KeysInv, i \in 1..Len(keys),
         NEW j \in 1 .. Len(s) + 1, Behind(s, j, keys, i)
  PROVE  /\ SkipTo(s, j) \in 1 .. Len(s) + 1
         /\ Behind(s, SkipTo(s, j), keys, i)
         /\ At(s, SkipTo(s, j)) <=> keys[i].offset \in OffsetsOf(s)
<1>1. keys \in Seq(Element) /\ SortedBy(keys)
  BY DEF KeysInv
<1>2. /\ Len(s) \in Nat /\ \A m \in 1..Len(s) : s[m].offset \in Nat
      /\ keys[i].offset \in Nat
  BY <1>1, ListFacts
<1>3. PICK n : n = SkipTo(s, j)
  OBVIOUS
<1>4. /\ n \in j .. Len(s) + 1
      /\ \A m \in j .. n - 1 : s[m].offset < keys[i].offset
      /\ n <= Len(s) => s[n].offset >= keys[i].offset
  BY <1>2, <1>3, SkipToFacts
<1>5. n \in 1 .. Len(s) + 1
  BY <1>2, <1>4
<1>6. Behind(s, n, keys, i)
  BY <1>1, <1>4, BehindTo
<1>7. ASSUME At(s, n) PROVE keys[i].offset \in OffsetsOf(s)
  <2>1. n \in 1..Len(s) /\ s[n].offset = keys[i].offset
    BY <1>2, <1>5, <1>7 DEF At
  <2> QED BY <2>1 DEF OffsetsOf
<1>8. ASSUME ~At(s, n) PROVE keys[i].offset \notin OffsetsOf(s)
  <2>1. n <= Len(s) => n \in 1..Len(s)
    BY <1>2, <1>5
  <2>2. n <= Len(s) => keys[i].offset < s[n].offset
    BY <1>2, <1>4, <1>8, <2>1 DEF At
  <2> QED BY <1>1, <1>5, <1>6, <2>2, NotThere
<1> QED BY <1>3, <1>5, <1>6, <1>7, <1>8

(* A round of ProcessRange.                                                *)
LEMMA CountStep ==
  ASSUME CaseInv, KeysInv, RangeInv, CountDocument
  PROVE  RangeInv'
<1>1. /\ A \in Seq(Element) /\ B \in Seq(Element) /\ Ascending(A) /\ Ascending(B)
      /\ Len(A) \in Nat /\ Len(B) \in Nat
  BY CaseFacts
<1>2. /\ keys \in Seq(Element) /\ SortedBy(keys) /\ Len(keys) \in Nat
  BY ListFacts DEF KeysInv
<1>3. /\ i \in 1..Len(keys) /\ i <= Len(keys)
      /\ UNCHANGED <<A, B, keys, calls, ranges>>
  BY <1>2 DEF CountDocument, RangeInv, filterVars
<1>4. PICK call : call = calls[Current]
  OBVIOUS
<1>5. /\ a \in 1 .. Len(A) + 1 /\ b \in 1 .. Len(B) + 1
      /\ Behind(A, a, keys, i) /\ Behind(B, b, keys, i)
      /\ Len(calls) \in Nat /\ Current <= Len(calls)
      /\ count = CountsOf(Seen(keys, i - 1, call), OffsetsOf(A), OffsetsOf(B))
      /\ keys[i].offset \notin Seen(keys, i - 1, call)
  BY <1>3, <1>4 DEF RangeInv
<1>6. calls'[Current'] = call /\ Current' <= Len(calls') /\ Len(calls') \in Nat
  BY <1>3, <1>4, <1>5 DEF Current
<1>7. CASE ~InRange(keys[i], call)
  <2>1. i' = i + 1 /\ UNCHANGED <<a, b, count>>
    BY <1>4, <1>7 DEF CountDocument
  <2>2. /\ Seen(keys, (i + 1) - 1, call) = Seen(keys, i - 1, call)
        /\ i + 1 <= Len(keys) => keys[i + 1].offset \notin Seen(keys, (i + 1) - 1, call)
    BY <1>2, <1>3, <1>5, <1>7, SeenNone
  <2>3. i + 1 \in 1 .. Len(keys) + 1 /\ i \in Nat /\ i + 1 \in Nat /\ i <= i + 1
    BY <1>2, <1>3
  <2>4. Behind(A, a, keys, i + 1) /\ Behind(B, b, keys, i + 1)
    BY <1>2, <1>5, <2>3, BehindOn
  <2> QED BY <1>3, <1>5, <1>6, <2>1, <2>2, <2>3, <2>4 DEF RangeInv
<1>8. CASE InRange(keys[i], call)
  <2> DEFINE inA == At(A, SkipTo(A, a))
             inB == At(B, SkipTo(B, b))
             o == keys[i].offset
  <2>1. /\ a' = SkipTo(A, a) /\ b' = SkipTo(B, b) /\ i' = NextOffset(keys, i)
        /\ count' = <<count[1] + One(inA), count[2] + One(inB), count[3] + One(inA \/ inB)>>
    BY <1>4, <1>8 DEF CountDocument, NextDocument
  <2>2. /\ a' \in 1 .. Len(A) + 1 /\ Behind(A, a', keys, i) /\ (inA <=> o \in OffsetsOf(A))
    BY <1>1, <1>3, <1>5, <2>1, SearchFinds
  <2>3. /\ b' \in 1 .. Len(B) + 1 /\ Behind(B, b', keys, i) /\ (inB <=> o \in OffsetsOf(B))
    BY <1>1, <1>3, <1>5, <2>1, SearchFinds
  <2>4. One(inA) = One(o \in OffsetsOf(A)) /\ One(inB) = One(o \in OffsetsOf(B))
        /\ One(inA \/ inB) = One(o \in OffsetsOf(A) \cup OffsetsOf(B))
    BY <2>2, <2>3 DEF One
  <2>5. PICK y : y = i' /\ y = NextOffset(keys, i)
    BY <2>1
  <2>6. /\ Seen(keys, y - 1, call) = Seen(keys, i - 1, call) \cup {o}
        /\ y <= Len(keys) => keys[y].offset \notin Seen(keys, y - 1, call)
    BY <1>2, <1>3, <1>8, <2>5, SeenDocument
  <2>7. /\ y \in i + 1 .. Len(keys) + 1
    BY <1>2, <1>3, <2>5, NextOffsetFacts
  <2>8. y \in 1 .. Len(keys) + 1 /\ i \in Nat /\ y \in Nat /\ i <= y
    BY <1>2, <1>3, <2>7
  <2>9. Behind(A, a', keys, y) /\ Behind(B, b', keys, y)
    BY <1>2, <2>2, <2>3, <2>8, BehindOn
  <2>10. IsFiniteSet(Seen(keys, i - 1, call))
    <3>1. i - 1 \in Int
      BY <1>2, <1>3
    <3> QED BY <3>1, SeenFinite
  <2>11. count' = CountsOf(Seen(keys, y - 1, call), OffsetsOf(A), OffsetsOf(B))
    <3> HIDE DEF inA, inB, o
    <3>1. CountsOf(Seen(keys, i - 1, call) \cup {o}, OffsetsOf(A), OffsetsOf(B)) =
            <<count[1] + One(o \in OffsetsOf(A)), count[2] + One(o \in OffsetsOf(B)),
              count[3] + One(o \in OffsetsOf(A) \cup OffsetsOf(B))>>
      <4>1. o \notin Seen(keys, i - 1, call)
        BY <1>5 DEF o
      <4>2. PICK S, p, q, x, c : /\ S = Seen(keys, i - 1, call) /\ x = o /\ c = count
                                 /\ p = OffsetsOf(A) /\ q = OffsetsOf(B)
        OBVIOUS
      <4>3. IsFiniteSet(S) /\ x \notin S /\ c = CountsOf(S, p, q)
        BY <1>5, <2>10, <4>1, <4>2
      <4>4. CountsOf(S \cup {x}, p, q) =
              <<c[1] + One(x \in p), c[2] + One(x \in q), c[3] + One(x \in p \cup q)>>
        BY <4>3, CountsAdd
      <4> QED BY <4>2, <4>4
    <3> QED BY <2>1, <2>4, <2>6, <3>1
  <2> QED BY <1>3, <1>6, <2>2, <2>3, <2>5, <2>6, <2>8, <2>9, <2>11 DEF RangeInv
<1> QED BY <1>7, <1>8

(* The loops of ProcessRange start with nothing seen.                      *)
LEMMA RangeStarts ==
  ASSUME CaseInv, KeysInv, StartRange, UNCHANGED <<A, B, keys>>, Len(calls') \in Nat,
         Current' <= Len(calls')
  PROVE  RangeInv'
<1>1. Len(A) \in Nat /\ Len(B) \in Nat /\ Len(keys) \in Nat
  BY CaseFacts, ListFacts DEF KeysInv
<1>2. /\ i' = 1 /\ a' = 1 /\ b' = 1 /\ count' = <<0, 0, 0>> /\ A' = A /\ B' = B /\ keys' = keys
  BY DEF StartRange
<1>3. 1 - 1 = 0 /\ 1 \in 1 .. Len(keys) + 1 /\ 1 \in 1 .. Len(A) + 1 /\ 1 \in 1 .. Len(B) + 1
  BY <1>1
<1>4. Behind(A, 1, keys, 1) /\ Behind(B, 1, keys, 1)
  BY DEF Behind
<1>5. PICK call : call = calls'[Current']
  OBVIOUS
<1>6. /\ Seen(keys, 0, call) = {}
      /\ CountsOf({}, OffsetsOf(A), OffsetsOf(B)) = <<0, 0, 0>>
  BY NoneSeen
<1>7. count' = CountsOf(Seen(keys, i' - 1, call), OffsetsOf(A), OffsetsOf(B))
  BY <1>2, <1>3, <1>6
<1>8. keys[i'].offset \notin Seen(keys, i' - 1, call)
  BY <1>2, <1>3, <1>6
<1> QED BY <1>2, <1>3, <1>4, <1>5, <1>7, <1>8 DEF RangeInv

(* The call that ends has counted the documents of its range.              *)
LEMMA ReturnCounts ==
  ASSUME KeysInv, RangeInv, i > Len(keys)
  PROVE  /\ count = CountsOf(DocumentsIn(calls[Current]), OffsetsOf(A), OffsetsOf(B))
         /\ count \in Nat \X Nat \X Nat
<1>1. Len(keys) \in Nat
  BY ListFacts DEF KeysInv
<1>2. i - 1 = Len(keys)
  BY <1>1 DEF RangeInv
<1>3. PICK call : call = calls[Current]
  OBVIOUS
<1>4. Seen(keys, i - 1, call) = DocumentsIn(call)
  BY <1>2 DEF Seen, DocumentsIn
<1>5. count = CountsOf(Seen(keys, i - 1, call), OffsetsOf(A), OffsetsOf(B))
  BY <1>3 DEF RangeInv
<1>6. IsFiniteSet(Seen(keys, i - 1, call))
  BY <1>1, <1>2, SeenFinite
<1> QED BY <1>3, <1>4, <1>5, <1>6, CountsType

(* What is said of the calls and the ranges stays true.                    *)
LEMMA RangesStay ==
  ASSUME UNCHANGED <<A, B, keys, calls>>
  PROVE  /\ CallsPartition => CallsPartition'
         /\ (ranges' = ranges /\ CountsDocumentsOnce) => CountsDocumentsOnce'
         /\ KeysInv => KeysInv'
<1>1. A' = A /\ B' = B /\ keys' = keys /\ calls' = calls
  OBVIOUS
<1>2. Classes' = Classes
  BY <1>1 DEF Classes, Matches
<1>3. CallsPartition => CallsPartition'
  BY <1>1, <1>2 DEF CallsPartition
<1>4. ASSUME ranges' = ranges, CountsDocumentsOnce PROVE CountsDocumentsOnce'
  <2>1. \A n \in 1..Len(ranges) : DocumentsIn(calls[n])' = DocumentsIn(calls[n])
    BY <1>1 DEF DocumentsIn
  <2>2. \A n \in 1..Len(ranges) :
          ranges[n].count = CountsOf(DocumentsIn(calls[n]), OffsetsOf(A), OffsetsOf(B))
    BY <1>4 DEF CountsDocumentsOnce, CountsOf
  <2>3. ASSUME NEW n \in 1..Len(ranges')
        PROVE  ranges'[n].count = CountsOf(DocumentsIn(calls[n])', OffsetsOf(A'), OffsetsOf(B'))
    BY <1>1, <1>4, <2>1, <2>2
  <2> QED BY <2>3 DEF CountsDocumentsOnce, CountsOf
<1>5. KeysInv => KeysInv'
  BY <1>1 DEF KeysInv
<1> QED BY <1>3, <1>4, <1>5

LEMMA ReturnStep ==
  ASSUME CaseInv, KeysInv, RangeInv, ReturnRange, ranges \in Seq(RangeRecord),
         CallsPartition, CountsDocumentsOnce
  PROVE  /\ ranges' \in Seq(RangeRecord) /\ CallsPartition' /\ CountsDocumentsOnce'
         /\ taskPhase' = "range" => RangeInv'
<1>1. /\ i > Len(keys) /\ StartRange
      /\ UNCHANGED <<A, B, keys, calls>>
      /\ taskPhase' = IF Current = Len(calls) THEN "done" ELSE "range"
  BY DEF ReturnRange, filterVars
<1>2. /\ count = CountsOf(DocumentsIn(calls[Current]), OffsetsOf(A), OffsetsOf(B))
      /\ count \in Nat \X Nat \X Nat
  BY <1>1, ReturnCounts
<1>3. PICK r \in RangeRecord : r.count = count /\ ranges' = Append(ranges, r)
  <2> DEFINE p == /\ count[1] >= LimitOf(A) \/ count[2] >= LimitOf(B)
                  /\ ~Exceeds(<<55, 45>>, Gain(count[1], count[3]))
  <2>1. p \in BOOLEAN
    OBVIOUS
  <2>2. ranges' = Append(ranges, [count |-> count, printed |-> p])
    BY DEF ReturnRange
  <2> HIDE DEF p
  <2>3. [count |-> count, printed |-> p] \in RangeRecord
    BY <1>2, <2>1 DEF RangeRecord
  <2> QED BY <2>2, <2>3
<1>4. /\ ranges' \in Seq(RangeRecord) /\ Len(ranges) \in Nat /\ Len(ranges') = Len(ranges) + 1
      /\ \A n \in 1..Len(ranges) : ranges'[n] = ranges[n]
      /\ ranges'[Len(ranges) + 1] = r
  BY <1>3, AppendProperties
<1>5. CallsPartition'
  BY <1>1, RangesStay
<1>6. CountsDocumentsOnce'
  <2>1. ASSUME NEW n \in 1 .. Len(ranges) + 1
        PROVE  ranges'[n].count = CountsOf(DocumentsIn(calls[n]), OffsetsOf(A), OffsetsOf(B))
    <3>1. CASE n = Len(ranges) + 1
      BY <1>2, <1>3, <1>4, <3>1 DEF Current
    <3>2. CASE n # Len(ranges) + 1
      <4>1. n \in 1..Len(ranges)
        BY <1>4, <3>2
      <4>2. ranges[n].count = CountsOf(DocumentsIn(calls[n]), OffsetsOf(A), OffsetsOf(B))
        BY <4>1 DEF CountsDocumentsOnce, CountsOf
      <4> QED BY <1>4, <4>1, <4>2
    <3> QED BY <3>1, <3>2
  <2>2. \A n \in 1..Len(ranges') :
          ranges'[n].count = CountsOf(DocumentsIn(calls[n]), OffsetsOf(A), OffsetsOf(B))
    BY <1>4, <2>1
  <2>3. \A n \in 1..Len(ranges') : DocumentsIn(calls[n])' = DocumentsIn(calls[n])
    BY <1>1 DEF DocumentsIn
  <2>4. ASSUME NEW n \in 1..Len(ranges')
        PROVE  ranges'[n].count = CountsOf(DocumentsIn(calls[n])', OffsetsOf(A'), OffsetsOf(B'))
    BY <1>1, <2>2, <2>3
  <2> QED BY <2>4 DEF CountsDocumentsOnce, CountsOf
<1>7. ASSUME taskPhase' = "range" PROVE RangeInv'
  <2>1. Current # Len(calls) /\ Current <= Len(calls) /\ Len(calls) \in Nat /\ Current = Len(ranges) + 1
    BY <1>1, <1>7 DEF RangeInv, Current
  <2>2. Current' = (Len(ranges) + 1) + 1
    BY <1>4 DEF Current
  <2>3. Current' <= Len(calls') /\ Len(calls') \in Nat
    BY <1>1, <1>4, <2>1, <2>2
  <2> QED BY <1>1, <2>3, RangeStarts
<1> QED BY <1>4, <1>5, <1>6, <1>7

(* A round of the search for a cut.                                        *)
LEMMA TryStep ==
  ASSUME CutInv, TryMid
  PROVE  CutInv'
<1>1. /\ agg \in Seq(Int) /\ Len(agg) \in Nat /\ Len(agg) > 0 /\ Sorts(agg)
      /\ best.mid \in 1..Len(agg) /\ mid \in Nat \ {0}
  BY LenProperties DEF CutInv
<1>2. /\ mid <= Len(agg) /\ mid' = mid + 1 /\ agg' = agg /\ UNCHANGED <<A, B, keys>>
      /\ best' = Better(Better(best, LowerGain(agg[mid])), UpperGain(agg[mid]))
  BY DEF TryMid, filterVars
<1>3. mid \in 1..Len(agg) /\ mid + 1 \in Nat \ {0}
  BY <1>1, <1>2
<1>4. \A old, gain : old.mid \in 1..Len(agg) => Better(old, gain).mid \in 1..Len(agg)
  BY <1>3 DEF Better
<1>5. best'.mid \in 1..Len(agg)
  BY <1>1, <1>2, <1>4
<1>6. Sorts(agg)'
  BY <1>1, <1>2 DEF Sorts, Classes, Matches
<1> QED BY <1>1, <1>2, <1>3, <1>5, <1>6 DEF CutInv

(* The search for a cut ends in one range, or the two sides of one.        *)
LEMMA SplitPartitions ==
  ASSUME KeysInv, CutInv, SeriesAssumption
  PROVE  PartitionedBy(Split) /\ Len(Split) \in Nat /\ Len(Split) > 0
<1>1. CASE Split = Whole
  <2>1. Len(Whole) = 1
    BY DEF Whole
  <2>2. PartitionedBy(Whole)
    BY WholePartitions
  <2> QED BY <1>1, <2>1, <2>2
<1>2. CASE Split # Whole
  <2>1. /\ best.mid # 1 /\ best.mid # Len(agg)
        /\ Split = <<[min |-> MinusInf, max |-> agg[best.mid]],
                     [min |-> agg[best.mid + 1], max |-> Inf]>>
    BY <1>2 DEF Split
  <2>2. best.mid \in 1..Len(agg) /\ Len(agg) \in Nat /\ agg \in Seq(Int) /\ Sorts(agg)
    BY LenProperties DEF CutInv
  <2>3. PICK n \in 1 .. Len(agg) - 1 : n = best.mid
    BY <2>1, <2>2
  <2>4. PICK cs : cs = Split
    OBVIOUS
  <2>5. cs = <<[min |-> MinusInf, max |-> agg[n]], [min |-> agg[n + 1], max |-> Inf]>>
    BY <2>1, <2>3, <2>4
  <2>6. PartitionedBy(cs)
    BY <2>2, <2>5, CutPartitions
  <2>7. Len(cs) = 2
    BY <2>5
  <2> QED BY <2>4, <2>6, <2>7
<1> QED BY <1>1, <1>2

(* ProcessRange is called for ranges that hold each value once.            *)
LEMMA CallStep ==
  ASSUME CaseInv, KeysInv, NEW cs, PartitionedBy(cs), Len(cs) \in Nat, Len(cs) > 0,
         calls' = cs, StartRange, UNCHANGED <<A, B, keys>>, ranges = <<>>, ranges' = ranges
  PROVE  RangeInv' /\ CallsPartition' /\ CountsDocumentsOnce'
<1>1. Len(ranges') = 0
  OBVIOUS
<1>2. RangeInv'
  <2>1. Current' <= Len(calls') /\ Len(calls') \in Nat
    BY <1>1 DEF Current
  <2> QED BY <2>1, RangeStarts
<1>3. Classes' = Classes
  BY DEF Classes, Matches
<1>4. CallsPartition'
  BY <1>3 DEF CallsPartition, PartitionedBy
<1>5. CountsDocumentsOnce'
  BY <1>1 DEF CountsDocumentsOnce
<1> QED BY <1>2, <1>4, <1>5

(* ProcessSeries leaves a series alone, tries it whole, or looks for a cut.*)
LEMMA ProcessStep ==
  ASSUME SeriesInv, ProcessSeries, SeriesAssumption
  PROVE  SeriesInv'
<1>1. /\ taskPhase = "process" /\ CaseInv /\ KeysInv /\ mid = 1 /\ best.mid = 1
      /\ calls = <<>> /\ ranges = <<>>
      /\ ranges \in Seq(RangeRecord)
  BY DEF ProcessSeries, SeriesInv
<1>2. /\ UNCHANGED <<A, B, keys, mid, best, ranges>> /\ UNCHANGED caseVars
  BY DEF ProcessSeries, filterVars, caseVars
<1>3. CaseInv' /\ KeysInv'
  <2>1. CaseInv'
    BY <1>1, <1>2, DaysStay
  <2>2. KeysInv'
    BY <1>1, <1>2 DEF KeysInv
  <2> QED BY <2>1, <2>2
<1>4. CountsDocumentsOnce' /\ (calls' = <<>> => CallsPartition')
  <2>1. Len(ranges') = 0
    BY <1>1, <1>2
  <2> QED BY <2>1 DEF CountsDocumentsOnce, CallsPartition
<1>5. CASE Hopeless
  <2>1. taskPhase' = "done" /\ calls' = <<>>
    BY <1>1, <1>5 DEF ProcessSeries
  <2> QED BY <1>1, <1>2, <1>3, <1>4, <2>1 DEF SeriesInv
<1>6. CASE ~Hopeless /\ ~NeedBinning
  <2>1. taskPhase' = "range" /\ calls' = Whole /\ StartRange
    BY <1>6 DEF ProcessSeries
  <2>2. PartitionedBy(Whole) /\ Len(Whole) = 1
    BY <1>1, WholePartitions DEF Whole
  <2>3. PICK cs : cs = Whole
    OBVIOUS
  <2>4. PartitionedBy(cs) /\ Len(cs) \in Nat /\ Len(cs) > 0 /\ calls' = cs
    BY <2>1, <2>2, <2>3
  <2>5. RangeInv' /\ CallsPartition' /\ CountsDocumentsOnce'
    BY <1>1, <1>2, <2>1, <2>4, CallStep
  <2> QED BY <1>1, <1>2, <1>3, <2>1, <2>5 DEF SeriesInv
<1>7. CASE ~Hopeless /\ NeedBinning
  <2>1. /\ taskPhase' = "cut" /\ calls' = calls
        /\ \E n \in 1..Len(keys) : \E s \in [1..n -> {keys[k].score : k \in Classes}] :
             Sorts(s) /\ agg' = s
    BY <1>7 DEF ProcessSeries
  <2>2. PICK n \in 1..Len(keys) : \E s \in [1..n -> {keys[k].score : k \in Classes}] :
                                    Sorts(s) /\ agg' = s
    BY <2>1
  <2>8. PICK s \in [1..n -> {keys[k].score : k \in Classes}] : Sorts(s) /\ agg' = s
    BY <2>2
  <2>3. Len(keys) \in Nat /\ \A k \in Classes : keys[k].score \in Int
    BY <1>1, ListFacts DEF KeysInv, Classes
  <2>4. s \in [1..n -> Int] /\ n \in Nat /\ n > 0
    BY <2>3
  <2>5. s \in Seq(Int) /\ Len(s) = n
    BY <2>4
  <2>6. Sorts(agg)'
    <3>1. keys' = keys /\ Classes' = Classes
      BY <1>2 DEF Classes, Matches
    <3>2. /\ \A m, q \in 1..Len(s) : m < q => s[m] < s[q]
          /\ {s[q] : q \in 1..Len(s)} = {keys[k].score : k \in Classes}
      BY <2>8 DEF Sorts
    <3>3. {keys[k].score : k \in Classes}' = {keys[k].score : k \in Classes}
      BY <3>1
    <3>4. /\ \A m, q \in 1..Len(agg') : m < q => agg'[m] < agg'[q]
          /\ {agg'[q] : q \in 1..Len(agg')} = {keys[k].score : k \in Classes}'
      BY <2>8, <3>2, <3>3
    <3> QED BY <3>4 DEF Sorts
  <2>7. CutInv'
    <3>1. agg' \in Seq(Int) /\ Len(agg') \in Nat /\ Len(agg') > 0
      BY <2>4, <2>5, <2>8
    <3>2. best'.mid \in 1..Len(agg') /\ mid' \in Nat \ {0}
      BY <1>1, <1>2, <3>1
    <3> QED BY <2>6, <3>1, <3>2 DEF CutInv
  <2> QED BY <1>1, <1>2, <1>3, <1>4, <2>1, <2>7 DEF SeriesInv
<1> QED BY <1>5, <1>6, <1>7

(* At the start nothing is written.                                        *)
LEMMA WroteStart ==
  ASSUME NEW s, NEW D, NEW ks
  PROVE  Wrote(s, D, ks, 0, 0)
<1>1. 1..0 = {}
  OBVIOUS
<1> DEFINE p == [x \in 1..0 |-> 1]
<1>2. p \in [1..0 -> 1..0]
  BY <1>1
<1> HIDE DEF p
<1>3. /\ \A x, y \in 1..0 : x < y => p[x] < p[y]
      /\ \A k \in 1..0 : D[k] # {} <=> \E x \in 1..0 : p[x] = k
      /\ \A x \in 1..0 : ks[x].offset = s[p[x]].offset /\ ks[x].score \in D[p[x]]
  BY <1>1
<1> QED BY <1>2, <1>3 DEF Wrote

LEMMA SeriesStarts ==
  ASSUME SeriesInit, SeriesAssumption
  PROVE  SeriesInv
<1>1. PICK c \in Cases : A = c[1] /\ B = c[2] /\ series = c[3]
  BY DEF SeriesInit
<1>2. /\ mode \in Modes /\ keys = series /\ i = 1 /\ a = 1 /\ b = 1 /\ output = 1
      /\ mid = 1 /\ best.mid = 1 /\ calls = <<>> /\ ranges = <<>>
      /\ taskPhase = (IF mode = "none" THEN "process" ELSE "filter")
  BY DEF SeriesInit
<1>3. CaseInv
  <2>1. /\ A \in Seq(Element) /\ B \in Seq(Element) /\ series \in Seq(Element)
    BY <1>1 DEF SeriesAssumption
  <2>2. 1 \in 1..2 /\ 2 \in 1..2
    OBVIOUS
  <2>3. A # <<>> /\ B # <<>> /\ Ascending(A) /\ Ascending(B)
    <3>1. \A n \in 1..2 : c[n] # <<>> /\ \A j, k \in 1..Len(c[n]) : j < k => c[n][j].offset < c[n][k].offset
      BY DEF SeriesAssumption
    <3> QED BY <1>1, <2>2, <3>1 DEF Ascending
  <2>4. SortedBy(series)
    BY <1>1 DEF SeriesAssumption, SortedBy
  <2>5. OffsetsOf(A) \cap OffsetsOf(B) = {}
    BY <1>1 DEF SeriesAssumption
  <2>6. FiniteDays
    <3>1. ASSUME NEW k \in 1..Len(series)
          PROVE  /\ Finite(series[k].score) /\ Finite(Now - series[k].score)
                 /\ \A n \in 1..2 : \A j \in 1..Len(c[n]) : Finite(c[n][j].score - series[k].score)
      BY <1>1 DEF SeriesAssumption
    <3>2. ASSUME NEW k \in 1..Len(series)
          PROVE  /\ \A j \in 1..Len(A) : Finite(A[j].score - series[k].score)
                 /\ \A j \in 1..Len(B) : Finite(B[j].score - series[k].score)
      BY <1>1, <2>2, <3>1
    <3> QED BY <3>1, <3>2 DEF FiniteDays
  <2>7. mode \in {"none", "now", "events"}
    BY <1>2 DEF SeriesAssumption
  <2> QED BY <2>1, <2>3, <2>4, <2>5, <2>6, <2>7 DEF CaseInv
<1>4. /\ Len(A) \in Nat /\ Len(B) \in Nat /\ Len(series) \in Nat /\ series \in Seq(Element)
  BY <1>3, CaseFacts
<1>5. KeysInv
  <2>1. \A k \in 1..Len(series) : Finite(series[k].score)
    BY <1>3 DEF CaseInv, FiniteDays
  <2> QED BY <1>2, <1>3, <1>4, <2>1 DEF KeysInv, CaseInv
<1>6. ASSUME mode # "none" PROVE FilterInv
  <2>1. mode \in {"now", "events"}
    BY <1>3, <1>6 DEF CaseInv
  <2>2. 1 - 1 = 0 /\ 1 \in 1 .. Len(series) + 1 /\ 1 \in 1..1
        /\ 1 \in 1 .. Len(A) + 1 /\ 1 \in 1 .. Len(B) + 1 /\ 1..0 = {}
    BY <1>4
  <2>3. Wrote(series, Days, keys, i - 1, output - 1)
    BY <1>2, <2>2, WroteStart
  <2>4. CopyInv
    BY <1>2, <1>4, <2>2, <2>3 DEF CopyInv
  <2>5. Behind(A, a, series, i) /\ Behind(B, b, series, i)
    BY <1>2, <2>2 DEF Behind
  <2>6. FirstOf(series, i)
    BY <1>2 DEF FirstOf
  <2>7. \A k \in 1 .. i - 1 : series[k].offset < A[a].offset
    BY <1>2, <2>2
  <2> QED BY <1>2, <2>1, <2>2, <2>4, <2>5, <2>6, <2>7 DEF FilterInv
<1>7. CallsPartition /\ CountsDocumentsOnce /\ ranges \in Seq(RangeRecord)
  <2>1. Len(ranges) = 0
    BY <1>2
  <2> QED BY <1>2, <2>1 DEF CallsPartition, CountsDocumentsOnce
<1>8. CASE mode = "none"
  BY <1>2, <1>3, <1>5, <1>7, <1>8 DEF SeriesInv
<1>9. CASE mode # "none"
  BY <1>2, <1>3, <1>6, <1>7, <1>9 DEF SeriesInv
<1> QED BY <1>8, <1>9

(* A round of the filter.                                                  *)
LEMMA FilterStep ==
  ASSUME SeriesInv, SeriesAssumption, FilterNow \/ FilterEvents
  PROVE  SeriesInv'
<1>1. /\ taskPhase = "filter" /\ CaseInv /\ FilterInv /\ mid = 1 /\ best.mid = 1
      /\ calls = <<>> /\ ranges = <<>>
      /\ UNCHANGED <<mid, best, calls, ranges, taskPhase>> /\ UNCHANGED caseVars
  BY DEF FilterNow, FilterEvents, Reading, SeriesInv, caseVars
<1>2. CaseInv'
  BY <1>1, DaysStay
<1>3. FilterInv'
  BY <1>1, NowStep, EventsStep
<1>4. CallsPartition' /\ CountsDocumentsOnce' /\ ranges' \in Seq(RangeRecord)
  <2>1. Len(ranges') = 0 /\ calls' = <<>> /\ ranges' = <<>>
    BY <1>1
  <2> QED BY <2>1 DEF CallsPartition, CountsDocumentsOnce
<1> QED BY <1>1, <1>2, <1>3, <1>4 DEF SeriesInv

(* The end of the filter.                                                  *)
LEMMA FilterEnds ==
  ASSUME SeriesInv, FilterEnd
  PROVE  SeriesInv'
<1>1. /\ taskPhase = "filter" /\ CaseInv /\ FilterInv /\ mid = 1 /\ best.mid = 1
      /\ calls = <<>> /\ ranges = <<>> /\ taskPhase' = "process"
      /\ UNCHANGED <<mid, best, calls, ranges>> /\ UNCHANGED caseVars
  BY DEF FilterEnd, SeriesInv, caseVars
<1>2. CaseInv'
  BY <1>1, DaysStay
<1>3. KeysInv' /\ FilteredSome'
  BY <1>1, EndStep
<1>4. CallsPartition' /\ CountsDocumentsOnce' /\ ranges' \in Seq(RangeRecord)
  <2>1. Len(ranges') = 0 /\ calls' = <<>> /\ ranges' = <<>>
    BY <1>1
  <2> QED BY <2>1 DEF CallsPartition, CountsDocumentsOnce
<1> QED BY <1>1, <1>2, <1>3, <1>4 DEF SeriesInv

LEMMA SeriesStutters ==
  ASSUME SeriesInv, UNCHANGED seriesVars
  PROVE  SeriesInv'
<1>1. /\ UNCHANGED <<mode, A, B, series, keys, output, i, a, b, agg, mid, best>>
      /\ UNCHANGED <<calls, count, ranges, taskPhase>> /\ UNCHANGED caseVars
  BY DEF seriesVars, filterVars, caseVars
<1>2. Days' = Days /\ (CaseInv => CaseInv')
  BY <1>1, DaysStay
<1>3. FilterInv => FilterInv'
  BY <1>1, <1>2 DEF FilterInv, CopyInv
<1>4. FilteredSome => FilteredSome'
  <2>1. \A k \in 1..Len(series) : DaysBefore(k)' = DaysBefore(k)
    BY <1>1, DaysStay
  <2>2. ASSUME NEW places \in [1..Len(keys) -> 1..Len(series)], Filtered(places)
        PROVE  Filtered(places)'
    <3>1. {k \in 1..Len(series) : DaysBefore(k)' # {}} = {k \in 1..Len(series) : DaysBefore(k) # {}}
      BY <2>1
    <3>2. \A n \in 1..Len(keys) : DaysBefore(places[n])' = DaysBefore(places[n])
      BY <2>1
    <3> QED BY <1>1, <2>2, <3>1, <3>2 DEF Filtered
  <2> QED BY <1>1, <2>2 DEF FilteredSome
<1>5. CutInv => CutInv'
  BY <1>1 DEF CutInv, Sorts, Classes, Matches
<1>6. RangeInv => RangeInv'
  BY <1>1 DEF RangeInv, Current
<1>7. /\ KeysInv => KeysInv'
      /\ CallsPartition => CallsPartition'
      /\ CountsDocumentsOnce => CountsDocumentsOnce'
  BY <1>1, RangesStay
<1> QED BY <1>1, <1>2, <1>3, <1>4, <1>5, <1>6, <1>7 DEF SeriesInv

(* Every state of a task.                                                  *)
THEOREM SeriesInvariant == SeriesSpec => []SeriesInv
<1>1. SeriesInit => SeriesInv
  BY SeriesAssumption, SeriesStarts
<1>2. ASSUME SeriesInv, [SeriesNext]_seriesVars PROVE SeriesInv'
  <2>1. /\ CaseInv /\ ranges \in Seq(RangeRecord) /\ CallsPartition /\ CountsDocumentsOnce
        /\ taskPhase # "filter" => KeysInv
    BY <1>2 DEF SeriesInv
  <2>2. CASE FilterNow \/ FilterEvents
    BY <1>2, <2>2, SeriesAssumption, FilterStep
  <2>3. CASE FilterEnd
    BY <1>2, <2>3, FilterEnds
  <2>4. CASE ProcessSeries
    BY <1>2, <2>4, SeriesAssumption, ProcessStep
  <2>5. CASE FrontOfEmpty
    <3>1. /\ taskPhase = "process" /\ taskPhase' = "undefined"
          /\ UNCHANGED <<A, B, keys, calls, ranges>> /\ UNCHANGED caseVars
      BY <2>5 DEF FrontOfEmpty, filterVars, caseVars
    <3>2. CaseInv' /\ KeysInv' /\ CallsPartition' /\ CountsDocumentsOnce'
      BY <2>1, <3>1, DaysStay, RangesStay
    <3> QED BY <2>1, <3>1, <3>2 DEF SeriesInv
  <2>6. CASE TryMid
    <3>1. /\ taskPhase = "cut" /\ taskPhase' = "cut" /\ calls = <<>> /\ ranges = <<>> /\ CutInv
          /\ UNCHANGED <<A, B, keys, calls, ranges>> /\ UNCHANGED caseVars
      BY <1>2, <2>6 DEF TryMid, filterVars, caseVars, SeriesInv
    <3>2. CaseInv' /\ KeysInv' /\ CallsPartition' /\ CountsDocumentsOnce'
      BY <2>1, <3>1, DaysStay, RangesStay
    <3>3. CutInv'
      BY <2>6, <3>1, TryStep
    <3> QED BY <2>1, <3>1, <3>2, <3>3 DEF SeriesInv
  <2>7. CASE EndCut
    <3>1. /\ taskPhase = "cut" /\ taskPhase' = "range" /\ ranges = <<>> /\ CutInv /\ KeysInv
          /\ calls' = Split /\ StartRange
          /\ UNCHANGED <<A, B, keys, ranges>> /\ UNCHANGED caseVars
      BY <1>2, <2>7 DEF EndCut, filterVars, caseVars, SeriesInv
    <3>2. CaseInv' /\ KeysInv'
      <4>1. CaseInv'
        BY <2>1, <3>1, DaysStay
      <4>2. KeysInv'
        BY <3>1 DEF KeysInv
      <4> QED BY <4>1, <4>2
    <3>3. PICK cs : cs = Split
      OBVIOUS
    <3>4. PartitionedBy(cs) /\ Len(cs) \in Nat /\ Len(cs) > 0 /\ calls' = cs
      BY <3>1, <3>3, SeriesAssumption, SplitPartitions
    <3>5. RangeInv' /\ CallsPartition' /\ CountsDocumentsOnce'
      BY <2>1, <3>1, <3>4, CallStep
    <3> QED BY <2>1, <3>1, <3>2, <3>5 DEF SeriesInv
  <2>8. CASE CountDocument
    <3>1. /\ taskPhase = "range" /\ taskPhase' = "range" /\ RangeInv /\ KeysInv
          /\ UNCHANGED <<A, B, keys, calls, ranges>> /\ UNCHANGED caseVars
      BY <1>2, <2>8 DEF CountDocument, filterVars, caseVars, SeriesInv
    <3>2. CaseInv' /\ KeysInv' /\ CallsPartition' /\ CountsDocumentsOnce'
      BY <2>1, <3>1, DaysStay, RangesStay
    <3>3. RangeInv'
      BY <2>1, <2>8, <3>1, CountStep
    <3> QED BY <2>1, <3>1, <3>2, <3>3 DEF SeriesInv
  <2>9. CASE ReturnRange
    <3>1. /\ taskPhase = "range" /\ taskPhase' \in {"range", "done"} /\ RangeInv /\ KeysInv
          /\ UNCHANGED <<A, B, keys, calls>> /\ UNCHANGED caseVars
      BY <1>2, <2>9 DEF ReturnRange, filterVars, caseVars, SeriesInv
    <3>2. CaseInv' /\ KeysInv'
      BY <2>1, <3>1, DaysStay, RangesStay
    <3>3. /\ ranges' \in Seq(RangeRecord) /\ CallsPartition' /\ CountsDocumentsOnce'
          /\ taskPhase' = "range" => RangeInv'
      BY <2>1, <2>9, <3>1, ReturnStep
    <3> QED BY <3>1, <3>2, <3>3 DEF SeriesInv
  <2>10. CASE UNCHANGED seriesVars
    BY <1>2, <2>10, SeriesStutters
  <2> QED BY <1>2, <2>2, <2>3, <2>4, <2>5, <2>6, <2>7, <2>8, <2>9, <2>10 DEF SeriesNext
<1> QED BY <1>1, <1>2, PTL DEF SeriesSpec

(* FilterByTimestamp leaves of any series, for any two sets, exactly the   *)
(* values it should, in their order, as the days before the event; and it  *)
(* overwrites nothing that it has yet to read.                             *)
THEOREM FilterIsExact == SeriesSpec => []FiltersByEvent
<1>1. SeriesInv => FiltersByEvent
  <2> SUFFICES ASSUME SeriesInv PROVE FiltersByEvent
    OBVIOUS
  <2>1. FilterReadsRow
    <3> SUFFICES ASSUME taskPhase = "filter"
                 PROVE  /\ output <= i /\ Len(keys) = Len(series)
                        /\ \A n \in i..Len(series) : keys[n] = series[n]
      BY DEF FilterReadsRow
    <3>1. CopyInv /\ Len(series) \in Nat
      BY CaseFacts DEF SeriesInv, FilterInv
    <3> QED BY <3>1 DEF CopyInv
  <2>2. (taskPhase = "process" /\ mode # "none") => FilteredSome
    BY DEF SeriesInv
  <2> QED BY <2>1, <2>2 DEF FiltersByEvent, FilteredSome
<1> QED BY <1>1, SeriesInvariant, PTL

(* However ProcessSeries cuts a series, each value of a document of either *)
(* set is in one of the ranges, and ProcessRange counts each document of a *)
(* range once.                                                             *)
THEOREM RangesAreExact == SeriesSpec => []RangesPartition
<1>1. SeriesInv => RangesPartition
  BY DEF SeriesInv, RangesPartition
<1> QED BY <1>1, SeriesInvariant, PTL
=============================================================================
