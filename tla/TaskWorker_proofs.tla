-------------------------- MODULE TaskWorker_proofs -------------------------
(***************************************************************************)
(* Proofs about TaskWorker: type correctness, SinglePlace, AttemptBudget    *)
(* and PermitConservation, from one inductive invariant, and where          *)
(* submissions end, from a second one on top of it.                         *)
(***************************************************************************)
EXTENDS TaskWorker, FiniteSetTheorems, TLAPS

(* The types, with counters that Safe below keeps inside their ranges. *)
Types ==
    /\ queue \in Seq(Job)
    /\ dlq \subseteq Job /\ failures \subseteq Job
    /\ pc \in [Workers -> LoopPc]
    /\ held \in [Workers -> Job \cup {NoJob}]
    /\ permits \in [Workers -> Int]
    /\ active \in [Workers -> SUBSET Exec]
    /\ cell \in [Workers -> Keys \cup Job \cup {NoKey}]
    /\ processed \in [Workers -> SUBSET (Keys \cup Job \cup {NoKey})]
    /\ heartbeat \in [Workers -> {"NONE", "ACTIVE", "STOPPED"}]
    /\ faults \in 0 .. MaxFaults
    /\ submitted \subseteq Tasks /\ executed \subseteq Tasks
    /\ starts \in [Tasks -> Nat]

(* A queued message has attempts left and carries the number of starts. *)
QueueCounts ==
    \A i \in DOMAIN queue :
        /\ queue[i].attempts < MaxRetries
        /\ queue[i].attempts = starts[queue[i].task]
        /\ queue[i].task \in submitted

(* So does a coroutine, which backs off only with attempts left. *)
ActiveCounts ==
    \A w \in Workers : \A e \in active[w] :
        /\ e.job.attempts = starts[e.job.task]
        /\ e.phase = "backoff" => e.job.attempts < MaxRetries
        /\ e.job.task \in submitted

(* What was never submitted was never started; the loop holds an unknown job
   exactly while it rejects it. *)
Rest ==
    /\ \A t \in Tasks : starts[t] <= MaxRetries
    /\ \A t \in Tasks : t \notin submitted => starts[t] = 0
    /\ \A w \in Workers : held[w] # NoJob =>
          pc[w] \in {"reject", "rejectRecord"} /\ held[w].task \in submitted
    /\ \A w \in Workers : pc[w] \in {"reject", "rejectRecord"} => held[w] # NoJob
    /\ \A w \in Workers : pc[w] = "stopped" => active[w] = {}
    /\ StoppedMeansIdle

LoopPermit(w) == IF pc[w] = "acquire" THEN 0 ELSE 1

(* PermitConservation, and what is left of it once the loop has ended. *)
Permits ==
    \A w \in Workers :
        /\ IsFiniteSet(active[w])
        /\ pc[w] \notin {"draining", "stopped"} =>
              permits[w] + Cardinality(active[w]) + LoopPermit(w) = Slots
        /\ permits[w] + Cardinality(active[w]) <= Slots
        /\ permits[w] >= 0

Inv == Types /\ QueueCounts /\ ActiveCounts /\ Rest /\ SinglePlace /\ Permits

-----------------------------------------------------------------------------
(* What Head, Tail and Append do to a queue. *)
LEMMA QueueFacts ==
    ASSUME NEW S, NEW q \in Seq(S)
    PROVE  /\ q # <<>> => /\ Head(q) \in S /\ Head(q) = q[1] /\ 1 \in DOMAIN q
                          /\ Tail(q) \in Seq(S)
                          /\ \A i \in DOMAIN Tail(q) :
                                i + 1 \in DOMAIN q /\ Tail(q)[i] = q[i + 1] /\ i \in Nat \ {0}
           /\ \A x \in S : /\ Append(q, x) \in Seq(S)
                            /\ Append(q, x)[Len(q) + 1] = x
                            /\ \A i \in DOMAIN Append(q, x) :
                                  \/ i = Len(q) + 1
                                  \/ i \in DOMAIN q /\ Append(q, x)[i] = q[i]
  OBVIOUS

(* What the helpers on jobs and coroutines return. *)
LEMMA JobFacts ==
    ASSUME NEW job \in Job
    PROVE  /\ job.task \in Tasks /\ job.attempts \in 0 .. MaxRetries /\ job # NoJob
           /\ IdempotencyKey(job) \in Keys \cup Job
           /\ AfterFailure(job) = "backoff" => job.attempts < MaxRetries
           /\ AfterFailure(job) \in Phase
           /\ Attempt(job).task = job.task
           /\ Attempt(job).attempts = job.attempts + 1
           /\ job.attempts < MaxRetries => Attempt(job) \in Job
           /\ \A p \in Phase : [job |-> job, phase |-> p] \in Exec
  BY TaskWorkerAssumption
     DEF Job, NoJob, IdempotencyKey, AfterFailure, Phase, Attempt, Exec

LEMMA ExecFacts ==
    ASSUME NEW e \in Exec, NEW p \in Phase
    PROVE  /\ e.job \in Job /\ e.phase \in Phase
           /\ [e EXCEPT !.phase = p] \in Exec
           /\ [e EXCEPT !.phase = p].job = e.job
           /\ [e EXCEPT !.phase = p].phase = p
  BY DEF Exec

LEMMA InitInv == Init => Inv
<1> SUFFICES ASSUME Init PROVE Inv
  OBVIOUS
<1>1. Types /\ QueueCounts /\ ActiveCounts /\ Rest /\ SinglePlace
  BY TaskWorkerAssumption
     DEF Init, Types, QueueCounts, ActiveCounts, Rest, SinglePlace, StoppedMeansIdle,
         Queued, Running, Held, Job, NoJob, LoopPc
<1>2. Permits
  BY FS_EmptySet, TaskWorkerAssumption DEF Init, Permits, LoopPermit
<1> QED BY <1>1, <1>2 DEF Inv

LEMMA NextTypes == Inv /\ [Next]_vars => Types'
<1> SUFFICES ASSUME Inv, [Next]_vars PROVE Types'
  OBVIOUS
<1> USE TaskWorkerAssumption DEF Inv, Types, queueVars, workerVars, observers
<1>1. ASSUME NEW t \in Tasks, Enqueue(t) PROVE Types'
  <2>1. [task |-> t, attempts |-> 0] \in Job
    BY DEF Job
  <2> QED BY <1>1, <2>1, QueueFacts DEF Enqueue
<1>2. ASSUME NEW w \in Workers, Acquire(w) \/ ReceiveNothing(w) \/ ReceiveFails(w)
      PROVE  Types'
  <2>1. CASE Acquire(w)
    BY <2>1 DEF Acquire, LoopPc
  <2>2. CASE ReceiveNothing(w)
    BY <2>2 DEF ReceiveNothing, LoopPc
  <2>3. CASE ReceiveFails(w)
    BY <2>3 DEF ReceiveFails, Fault, LoopPc
  <2> QED BY <1>2, <2>1, <2>2, <2>3
<1>3. ASSUME NEW w \in Workers, Receive(w) PROVE Types'
  <2> DEFINE job == Head(queue)
  <2>1. job \in Job /\ Tail(queue) \in Seq(Job) /\ job.attempts < MaxRetries
    BY <1>3, QueueFacts DEF Receive, QueueCounts
  <2>2. /\ IdempotencyKey(job) \in Keys \cup Job
        /\ [job |-> Attempt(job), phase |-> "running"] \in Exec
        /\ job.task \in Tasks
    BY <2>1, JobFacts DEF Phase
  <2>3. ASSUME Skip(w, job) PROVE Types'
    BY <1>3, <2>1, <2>2, <2>3 DEF Receive, Popped, Skip, LoopPc
  <2>4. ASSUME SetAside(w, job) PROVE Types'
    BY <1>3, <2>1, <2>2, <2>4 DEF Receive, Popped, SetAside, LoopPc
  <2>5. ASSUME Spawn(w, job) PROVE Types'
    BY <1>3, <2>1, <2>2, <2>5 DEF Receive, Popped, Spawn, LoopPc
  <2> QED BY <1>3, <2>3, <2>4, <2>5 DEF Receive
<1>4. ASSUME NEW w \in Workers, RejectToDlq(w) \/ RejectRecord(w) \/ RejectAborts(w)
      PROVE  Types'
  <2>1. held[w] \in Job
    BY <1>4 DEF RejectToDlq, RejectRecord, RejectAborts, Rest
  <2>2. CASE RejectToDlq(w)
    BY <2>1, <2>2 DEF RejectToDlq, LoopPc
  <2>3. CASE RejectRecord(w)
    BY <2>1, <2>3 DEF RejectRecord, Fault, LoopPc
  <2>4. CASE RejectAborts(w)
    BY <2>4 DEF RejectAborts, Fault, LoopPc
  <2> QED BY <1>4, <2>2, <2>3, <2>4
<1>5. ASSUME NEW w \in Workers, NEW e \in active[w], Coroutine(w, e) \/ RouteFails(w, e)
      PROVE  Types'
  <2>1. /\ e \in Exec /\ e.job \in Job /\ e.job.task \in Tasks
        /\ \A p \in Phase : [e EXCEPT !.phase = p] \in Exec
    <3>1. e \in Exec /\ "running" \in Phase
      BY DEF Phase
    <3> QED BY <3>1, ExecFacts, JobFacts
  <2>2. CASE Succeed(w, e)
    BY <2>1, <2>2 DEF Succeed, Finish, Remember
  <2>3. CASE Fail(w, e)
    <3>1. AfterFailure(e.job) \in Phase
      BY <2>1, JobFacts
    <3> QED BY <2>1, <2>3, <3>1 DEF Fail
  <2>4. CASE Retry(w, e)
    BY <2>1, <2>4, QueueFacts DEF Retry, Finish
  <2>5. CASE DeadLetter(w, e)
    BY <2>1, <2>5 DEF DeadLetter, Phase
  <2>6. CASE RecordFailure(w, e)
    BY <2>1, <2>6 DEF RecordFailure, Finish, Fault
  <2>7. CASE RouteFails(w, e)
    BY <2>7 DEF RouteFails, Finish, Fault
  <2> QED BY <1>5, <2>2, <2>3, <2>4, <2>5, <2>6, <2>7 DEF Coroutine
<1>6. ASSUME NEW w \in Workers, Beat(w) PROVE Types'
  BY <1>6 DEF Beat
<1>7. ASSUME NEW w \in Workers, Shutdown(w) \/ Stop(w) PROVE Types'
  BY <1>7 DEF Shutdown, Stop, LoopPc
<1>8. ASSUME NEW w \in Workers, Crash(w) PROVE Types'
  BY <1>8 DEF Crash, Fault, LoopPc
<1>9. ASSUME NEW w \in Workers, Restart(w) PROVE Types'
  BY <1>9 DEF Restart, LoopPc
<1>10. CASE UNCHANGED vars
  BY <1>10 DEF vars
<1> QED BY <1>1, <1>2, <1>3, <1>4, <1>5, <1>6, <1>7, <1>8, <1>9, <1>10 DEF Next, Loop

(* SinglePlace talks about the queue, the coroutines and the held jobs only. *)
LEMMA SinglePlaceFrame ==
    ASSUME SinglePlace, UNCHANGED <<queue, active, held>>
    PROVE  SinglePlace'
  BY DEF SinglePlace, Queued, Running, Held

LEMMA NextSinglePlace == Inv /\ [Next]_vars => SinglePlace'
<1> SUFFICES ASSUME Inv, [Next]_vars PROVE SinglePlace'
  OBVIOUS
<1> USE DEF Inv
<1>0. queue \in Seq(Job) /\ held \in [Workers -> Job \cup {NoJob}]
      /\ active \in [Workers -> SUBSET Exec]
  BY DEF Types
<1>1. ASSUME NEW t \in Tasks, Enqueue(t) PROVE SinglePlace'
  <2>1. \A w \in Workers : ~Running(w, t) /\ ~Held(w, t)
    BY <1>1, TaskWorkerAssumption DEF Enqueue, Running, Held, ActiveCounts, Rest, NoJob
  <2>2. ~Queued(t)
    BY <1>1 DEF Enqueue, Queued, QueueCounts
  <2> QED BY <1>0, <1>1, <2>1, <2>2, QueueFacts DEF Enqueue, SinglePlace, Queued, Running, Held, workerVars
<1>2. ASSUME NEW w \in Workers, Receive(w) PROVE SinglePlace'
  <2>0. PICK job \in Job : job = Head(queue)
    BY <1>0, <1>2, QueueFacts DEF Receive
  <2>1. /\ job = queue[1] /\ 1 \in DOMAIN queue
        /\ queue' = Tail(queue) /\ queue' \in Seq(Job)
        /\ \A i \in DOMAIN queue' :
              i + 1 \in DOMAIN queue /\ queue'[i] = queue[i + 1] /\ i \in Nat \ {0}
    BY <1>0, <1>2, <2>0, QueueFacts DEF Receive, Popped
  <2>2. job.task \in Tasks /\ Attempt(job).task = job.task
    BY JobFacts
  <2>3. /\ \A t \in Tasks : Queued(t)' => Queued(t)
        /\ Queued(job.task)
    BY <2>1 DEF Queued
  <2>4. ~Queued(job.task)'
    <3>1. \A i, j \in DOMAIN queue :
             queue[i].task = job.task /\ queue[j].task = job.task => i = j
      BY <2>2 DEF SinglePlace
    <3> QED BY <2>1, <3>1 DEF Queued
  <2>5. \A v \in Workers : ~Running(v, job.task) /\ ~Held(v, job.task)
    BY <2>2, <2>3 DEF SinglePlace
  <2>6. \A t \in Tasks : \A i, j \in DOMAIN queue' :
            queue'[i].task = t /\ queue'[j].task = t => i = j
    BY <2>1 DEF SinglePlace
  <2>7. CASE Skip(w, job)
    BY <1>0, <2>3, <2>6, <2>7 DEF Skip, SinglePlace, Running, Held
  <2>8. CASE SetAside(w, job)
    <3>1. \A v \in Workers, t \in Tasks :
             /\ Running(v, t)' <=> Running(v, t)
             /\ Held(v, t)' => Held(v, t) \/ (v = w /\ t = job.task)
      BY <1>0, <2>8 DEF SetAside, Running, Held
    <3>2. \A v \in Workers : active'[v] = active[v]
      BY <2>8 DEF SetAside
    <3> QED BY <2>2, <2>3, <2>4, <2>5, <2>6, <3>1, <3>2 DEF SinglePlace
  <2>9. CASE Spawn(w, job)
    <3> DEFINE new == [job |-> Attempt(job), phase |-> "running"]
    <3>1. \A v \in Workers : \A e \in active'[v] :
             e \in active[v] \/ (v = w /\ e.job.task = job.task /\ e = new)
      BY <1>0, <2>2, <2>9 DEF Spawn
    <3> HIDE DEF new
    <3>2. \A v \in Workers, t \in Tasks :
             /\ Held(v, t)' <=> Held(v, t)
             /\ Running(v, t)' => Running(v, t) \/ (v = w /\ t = job.task)
      BY <2>9, <3>1 DEF Spawn, Running, Held
    <3>3. \A v \in Workers : \A e \in active[v] : e.job.task # job.task
      BY <2>5 DEF Running
    <3> QED BY <2>2, <2>3, <2>4, <2>5, <2>6, <3>1, <3>2, <3>3 DEF SinglePlace
  <2> QED BY <1>2, <2>0, <2>7, <2>8, <2>9 DEF Receive
<1>3. ASSUME NEW w \in Workers, RejectRecord(w) \/ RejectAborts(w) PROVE SinglePlace'
  <2>1. queue' = queue /\ active' = active /\ held' = [held EXCEPT ![w] = NoJob]
    BY <1>3 DEF RejectRecord, RejectAborts, queueVars
  <2>2. NoJob.task \notin Tasks
    BY TaskWorkerAssumption DEF NoJob
  <2>3. \A v \in Workers, t \in Tasks :
           /\ Running(v, t)' <=> Running(v, t)
           /\ Held(v, t)' => Held(v, t)
           /\ Queued(t)' <=> Queued(t)
    BY <1>0, <2>1, <2>2 DEF Queued, Running, Held
  <2> QED BY <2>1, <2>3 DEF SinglePlace
<1>4. ASSUME NEW w \in Workers, NEW e \in active[w], Coroutine(w, e) \/ RouteFails(w, e)
      PROVE  SinglePlace'
  <2>1. CASE Succeed(w, e)
    BY <1>0, <2>1 DEF Succeed, Finish, queueVars, SinglePlace, Queued, Running, Held
  <2>2. CASE RecordFailure(w, e)
    BY <1>0, <2>2 DEF RecordFailure, Finish, queueVars, SinglePlace, Queued, Running, Held
  <2>3. CASE RouteFails(w, e)
    BY <1>0, <2>3 DEF RouteFails, Finish, queueVars, SinglePlace, Queued, Running, Held
  <2>4. CASE Retry(w, e)
    BY <1>0, <2>4, QueueFacts, ExecFacts
       DEF Retry, Finish, queueVars, SinglePlace, Queued, Running, Held
  <2>5. ASSUME NEW p \in Phase, UNCHANGED <<queue, held>>,
               active' = [active EXCEPT ![w] = (@ \ {e}) \cup {[e EXCEPT !.phase = p]}]
        PROVE  SinglePlace'
    <3> DEFINE new == [e EXCEPT !.phase = p]
    <3>1. new.job = e.job
      BY <1>0, <2>5, ExecFacts
    <3>2. \A v \in Workers : \A f \in active'[v] :
             (f \in active[v] /\ (v = w => f # e)) \/ (v = w /\ f = new)
      BY <1>0, <2>5
    <3> HIDE DEF new
    <3>3. \A v \in Workers, t \in Tasks :
             /\ Held(v, t)' <=> Held(v, t)
             /\ Running(v, t)' => Running(v, t)
             /\ Queued(t)' <=> Queued(t)
      BY <2>5, <3>1, <3>2 DEF Queued, Running, Held
    <3> QED BY <2>5, <3>1, <3>2, <3>3 DEF SinglePlace
  <2>6. CASE Fail(w, e)
    <3>1. AfterFailure(e.job) \in Phase
      BY <1>0, ExecFacts, JobFacts DEF AfterFailure, Phase
    <3> QED BY <2>5, <2>6, <3>1 DEF Fail, queueVars
  <2>7. CASE DeadLetter(w, e)
    BY <2>5, <2>7 DEF DeadLetter, Phase
  <2> QED BY <1>4, <2>1, <2>2, <2>3, <2>4, <2>6, <2>7 DEF Coroutine
<1>5. ASSUME NEW w \in Workers, Crash(w) PROVE SinglePlace'
  BY <1>0, <1>5, TaskWorkerAssumption
     DEF Crash, queueVars, SinglePlace, Queued, Running, Held, NoJob
<1>6. ASSUME NEW w \in Workers,
             \/ Acquire(w) \/ ReceiveNothing(w) \/ ReceiveFails(w) \/ RejectToDlq(w)
             \/ Beat(w) \/ Shutdown(w) \/ Stop(w) \/ Restart(w)
      PROVE  SinglePlace'
  BY <1>6, SinglePlaceFrame
     DEF Acquire, ReceiveNothing, ReceiveFails, RejectToDlq, Beat, Shutdown, Stop, Restart,
         queueVars
<1>7. CASE UNCHANGED vars
  BY <1>7, SinglePlaceFrame DEF vars, queueVars, workerVars
<1> QED BY <1>1, <1>2, <1>3, <1>4, <1>5, <1>6, <1>7 DEF Next, Loop

Counts == QueueCounts /\ ActiveCounts

LEMMA CountsFrame ==
    ASSUME Counts, UNCHANGED <<queue, active, starts, submitted>>
    PROVE  Counts'
  BY DEF Counts, QueueCounts, ActiveCounts

LEMMA NextCounts == Inv /\ [Next]_vars => Counts'
<1> SUFFICES ASSUME Inv, [Next]_vars PROVE Counts'
  OBVIOUS
<1> USE DEF Inv, Counts
<1>0. /\ queue \in Seq(Job) /\ active \in [Workers -> SUBSET Exec]
      /\ submitted \subseteq Tasks /\ starts \in [Tasks -> Nat]
  BY DEF Types
<1>1. ASSUME NEW t \in Tasks, Enqueue(t) PROVE Counts'
  <2>1. starts[t] = 0 /\ 0 < MaxRetries
    BY <1>1, TaskWorkerAssumption DEF Enqueue, Rest
  <2>2. [task |-> t, attempts |-> 0] \in Job
    BY TaskWorkerAssumption DEF Job
  <2>3. QueueCounts'
    BY <1>0, <1>1, <2>1, <2>2, QueueFacts DEF Enqueue, QueueCounts
  <2>4. ActiveCounts'
    BY <1>1 DEF Enqueue, ActiveCounts, workerVars
  <2> QED BY <2>3, <2>4
<1>2. ASSUME NEW w \in Workers, Receive(w) PROVE Counts'
  <2>0. PICK job \in Job : job = Head(queue)
    BY <1>0, <1>2, QueueFacts DEF Receive
  <2>1. /\ job = queue[1] /\ 1 \in DOMAIN queue
        /\ queue' = Tail(queue) /\ queue' \in Seq(Job) /\ submitted' = submitted
        /\ \A i \in DOMAIN queue' :
              i + 1 \in DOMAIN queue /\ queue'[i] = queue[i + 1] /\ i \in Nat \ {0}
    BY <1>0, <1>2, <2>0, QueueFacts DEF Receive, Popped
  <2>2. /\ job.task \in Tasks /\ Attempt(job).task = job.task
        /\ Attempt(job).attempts = job.attempts + 1
    BY JobFacts
  <2>3. /\ job.attempts = starts[job.task] /\ job.task \in submitted
        /\ \A i \in DOMAIN queue' : queue'[i].task # job.task /\ queue'[i].task \in Tasks
        /\ \A v \in Workers : \A e \in active[v] : e.job.task # job.task /\ e.job.task \in Tasks
    <3>1. Queued(job.task)
      BY <2>1 DEF Queued
    <3>2. \A i \in DOMAIN queue : queue[i].task = job.task => i = 1
      BY <2>1, <2>2 DEF SinglePlace
    <3>3. \A v \in Workers : \A e \in active[v] : e.job.task # job.task
      BY <2>2, <3>1 DEF SinglePlace, Running
    <3>4. \A v \in Workers : \A e \in active[v] : e.job.task \in Tasks
      BY <1>0 DEF Exec, Job
    <3>5. \A i \in DOMAIN queue' : queue'[i].task \in Tasks
      BY <2>1, JobFacts
    <3> QED BY <2>1, <3>2, <3>3, <3>4, <3>5 DEF QueueCounts
  <2>4. CASE Skip(w, job) \/ SetAside(w, job)
    BY <2>1, <2>4 DEF Skip, SetAside, QueueCounts, ActiveCounts
  <2>5. CASE Spawn(w, job)
    <3>1. QueueCounts'
      BY <1>0, <2>1, <2>2, <2>3, <2>5 DEF Spawn, QueueCounts
    <3> DEFINE new == [job |-> Attempt(job), phase |-> "running"]
    <3>2. \A v \in Workers : \A e \in active'[v] : e \in active[v] \/ e = new
      BY <1>0, <2>5 DEF Spawn
    <3>3. new.job.attempts = starts'[new.job.task] /\ new.phase # "backoff"
          /\ new.job.task \in submitted
      BY <1>0, <2>2, <2>3, <2>5 DEF Spawn
    <3> HIDE DEF new
    <3>4. \A v \in Workers : \A e \in active[v] : starts'[e.job.task] = starts[e.job.task]
      BY <1>0, <2>3, <2>5 DEF Spawn
    <3>5. ActiveCounts'
      BY <2>1, <3>2, <3>3, <3>4 DEF ActiveCounts
    <3> QED BY <3>1, <3>5
  <2> QED BY <1>2, <2>0, <2>4, <2>5 DEF Receive
<1>3. ASSUME NEW w \in Workers, NEW e \in active[w], Coroutine(w, e) \/ RouteFails(w, e)
      PROVE  Counts'
  <2>1. e \in Exec /\ e.job \in Job
    BY <1>0, ExecFacts DEF Exec
  <2>2. CASE Succeed(w, e)
    BY <1>0, <2>2 DEF Succeed, Finish, queueVars, QueueCounts, ActiveCounts
  <2>3. CASE RecordFailure(w, e)
    BY <1>0, <2>3 DEF RecordFailure, Finish, observers, QueueCounts, ActiveCounts
  <2>4. CASE RouteFails(w, e)
    BY <1>0, <2>4 DEF RouteFails, Finish, queueVars, observers, QueueCounts, ActiveCounts
  <2>5. CASE Retry(w, e)
    <3>1. e.job.attempts < MaxRetries /\ e.job.attempts = starts[e.job.task]
          /\ e.job.task \in submitted
      BY <2>5 DEF Retry, ActiveCounts
    <3>2. QueueCounts'
      BY <1>0, <2>1, <2>5, <3>1, QueueFacts DEF Retry, observers, QueueCounts
    <3>3. ActiveCounts'
      BY <1>0, <2>5 DEF Retry, Finish, observers, ActiveCounts
    <3> QED BY <3>2, <3>3
  <2>6. ASSUME NEW p \in Phase, p = "backoff" => e.job.attempts < MaxRetries,
               UNCHANGED <<queue, starts, submitted>>,
               active' = [active EXCEPT ![w] = (@ \ {e}) \cup {[e EXCEPT !.phase = p]}]
        PROVE  Counts'
    <3> DEFINE new == [e EXCEPT !.phase = p]
    <3>1. new.job = e.job /\ new.phase = p
      BY <2>1, <2>6, ExecFacts
    <3>2. \A v \in Workers : \A f \in active'[v] : f \in active[v] \/ f = new
      BY <1>0, <2>6
    <3> HIDE DEF new
    <3> QED BY <2>6, <3>1, <3>2 DEF QueueCounts, ActiveCounts
  <2>7. CASE Fail(w, e)
    <3>1. /\ AfterFailure(e.job) \in Phase
          /\ AfterFailure(e.job) = "backoff" => e.job.attempts < MaxRetries
      BY <2>1, JobFacts
    <3> QED BY <2>6, <2>7, <3>1 DEF Fail, queueVars, observers
  <2>8. CASE DeadLetter(w, e)
    BY <2>6, <2>8 DEF DeadLetter, Phase, observers
  <2> QED BY <1>3, <2>2, <2>3, <2>4, <2>5, <2>7, <2>8 DEF Coroutine
<1>4. ASSUME NEW w \in Workers, Crash(w) PROVE Counts'
  BY <1>0, <1>4 DEF Crash, queueVars, observers, QueueCounts, ActiveCounts
<1>5. ASSUME NEW w \in Workers,
             \/ Acquire(w) \/ ReceiveNothing(w) \/ ReceiveFails(w)
             \/ RejectToDlq(w) \/ RejectRecord(w) \/ RejectAborts(w)
             \/ Beat(w) \/ Shutdown(w) \/ Stop(w) \/ Restart(w)
      PROVE  Counts'
  BY <1>5, CountsFrame
     DEF Acquire, ReceiveNothing, ReceiveFails, RejectToDlq, RejectRecord, RejectAborts,
         Beat, Shutdown, Stop, Restart, queueVars, observers
<1>6. CASE UNCHANGED vars
  BY <1>6, CountsFrame DEF vars, queueVars, workerVars, observers
<1> QED BY <1>1, <1>2, <1>3, <1>4, <1>5, <1>6 DEF Next, Loop

LEMMA NextRest == Inv /\ [Next]_vars => Rest'
<1> SUFFICES ASSUME Inv, [Next]_vars PROVE Rest'
  OBVIOUS
<1> USE DEF Inv
<1>0. /\ queue \in Seq(Job) /\ active \in [Workers -> SUBSET Exec]
      /\ pc \in [Workers -> LoopPc] /\ held \in [Workers -> Job \cup {NoJob}]
      /\ heartbeat \in [Workers -> {"NONE", "ACTIVE", "STOPPED"}]
      /\ submitted \subseteq Tasks /\ starts \in [Tasks -> Nat]
  BY DEF Types
<1>1. ASSUME NEW t \in Tasks, Enqueue(t) PROVE Rest'
  BY <1>1 DEF Enqueue, workerVars, Rest, StoppedMeansIdle
<1>2. ASSUME NEW w \in Workers, Receive(w) PROVE Rest'
  <2>0. PICK job \in Job : job = Head(queue)
    BY <1>0, <1>2, QueueFacts DEF Receive
  <2>1. /\ job = queue[1] /\ 1 \in DOMAIN queue
        /\ job.task \in submitted /\ job.task \in Tasks
        /\ starts[job.task] < MaxRetries
    BY <1>0, <1>2, <2>0, QueueFacts, JobFacts DEF Receive, QueueCounts
  <2>2. job # NoJob
    BY JobFacts
  <2>3. /\ heartbeat' = heartbeat /\ submitted' = submitted
        /\ pc[w] = "receive"
    BY <1>2, <2>0 DEF Receive
  <2>4. CASE Skip(w, job)
    BY <1>0, <2>1, <2>2, <2>3, <2>4 DEF Skip, Rest, StoppedMeansIdle
  <2>5. CASE SetAside(w, job)
    BY <1>0, <2>1, <2>2, <2>3, <2>5 DEF SetAside, Rest, StoppedMeansIdle
  <2>6. CASE Spawn(w, job)
    BY <1>0, <2>1, <2>2, <2>3, <2>6, TaskWorkerAssumption DEF Spawn, Rest, StoppedMeansIdle
  <2> QED BY <1>2, <2>0, <2>4, <2>5, <2>6 DEF Receive
<1>3. ASSUME NEW w \in Workers, NEW e \in active[w], Coroutine(w, e) \/ RouteFails(w, e)
      PROVE  Rest'
  <2>1. /\ UNCHANGED <<pc, held, heartbeat, submitted, starts>>
        /\ \E s \in SUBSET Exec : active' = [active EXCEPT ![w] = s]
    <3>1. \A p \in Phase : [e EXCEPT !.phase = p] \in Exec
      BY <1>0, ExecFacts
    <3>2. AfterFailure(e.job) \in Phase /\ "record" \in Phase
      BY DEF AfterFailure, Phase
    <3>3. CASE Succeed(w, e)
      BY <1>0, <3>3 DEF Succeed, Finish, observers
    <3>4. CASE Fail(w, e)
      BY <1>0, <3>1, <3>2, <3>4 DEF Fail, observers
    <3>5. CASE Retry(w, e)
      BY <1>0, <3>5 DEF Retry, Finish, observers
    <3>6. CASE DeadLetter(w, e)
      BY <1>0, <3>1, <3>2, <3>6 DEF DeadLetter, observers
    <3>7. CASE RecordFailure(w, e)
      BY <1>0, <3>7 DEF RecordFailure, Finish, observers
    <3>8. CASE RouteFails(w, e)
      BY <1>0, <3>8 DEF RouteFails, Finish, observers
    <3> QED BY <1>3, <3>3, <3>4, <3>5, <3>6, <3>7, <3>8 DEF Coroutine
  <2>2. active[w] # {} /\ pc[w] # "stopped" /\ heartbeat[w] # "STOPPED"
    BY DEF Rest, StoppedMeansIdle
  <2> QED BY <1>0, <2>1, <2>2 DEF Rest, StoppedMeansIdle
<1>4. ASSUME NEW w \in Workers, Acquire(w) \/ ReceiveNothing(w) \/ ReceiveFails(w) \/ Shutdown(w)
      PROVE  Rest'
  BY <1>0, <1>4
     DEF Acquire, ReceiveNothing, ReceiveFails, Shutdown, observers, Rest, StoppedMeansIdle
<1>5. ASSUME NEW w \in Workers, RejectToDlq(w) PROVE Rest'
  BY <1>0, <1>5 DEF RejectToDlq, observers, Rest, StoppedMeansIdle
<1>6. ASSUME NEW w \in Workers, RejectRecord(w) \/ RejectAborts(w) PROVE Rest'
  BY <1>0, <1>6 DEF RejectRecord, RejectAborts, observers, Rest, StoppedMeansIdle
<1>7. ASSUME NEW w \in Workers, Beat(w) \/ Stop(w) PROVE Rest'
  BY <1>0, <1>7 DEF Beat, Stop, observers, Rest, StoppedMeansIdle
<1>8. ASSUME NEW w \in Workers, Crash(w) PROVE Rest'
  BY <1>0, <1>8 DEF Crash, observers, Rest, StoppedMeansIdle
<1>9. ASSUME NEW w \in Workers, Restart(w) PROVE Rest'
  BY <1>0, <1>9 DEF Restart, observers, Rest, StoppedMeansIdle
<1>10. CASE UNCHANGED vars
  BY <1>10 DEF vars, workerVars, observers, Rest, StoppedMeansIdle
<1> QED BY <1>1, <1>2, <1>3, <1>4, <1>5, <1>6, <1>7, <1>8, <1>9, <1>10 DEF Next, Loop

(* A coroutine leaves with its permit given back, or changes its phase. *)
LEMMA NextPermits == Inv /\ [Next]_vars => Permits'
<1> SUFFICES ASSUME Inv, [Next]_vars PROVE Permits'
  OBVIOUS
<1> USE DEF Inv
<1>0. /\ queue \in Seq(Job) /\ active \in [Workers -> SUBSET Exec]
      /\ pc \in [Workers -> LoopPc] /\ permits \in [Workers -> Int]
      /\ Slots \in Nat \ {0}
      /\ \A w \in Workers : IsFiniteSet(active[w]) /\ Cardinality(active[w]) \in Nat
  BY TaskWorkerAssumption, FS_CardinalityType DEF Types, Permits
<1>1. CASE \E t \in Tasks : Enqueue(t)
  BY <1>1 DEF Enqueue, workerVars, Permits, LoopPermit
<1>2. ASSUME NEW w \in Workers, Receive(w) PROVE Permits'
  <2>0. PICK job \in Job : job = Head(queue)
    BY <1>0, <1>2, QueueFacts DEF Receive
  <2>1. CASE Skip(w, job)
    BY <1>0, <1>2, <2>1 DEF Receive, Skip, Permits, LoopPermit
  <2>2. CASE SetAside(w, job)
    BY <1>0, <1>2, <2>2 DEF Receive, SetAside, Permits, LoopPermit
  <2>3. CASE Spawn(w, job)
    <3> DEFINE new == [job |-> Attempt(job), phase |-> "running"]
    <3>1. new \notin active[w]
      <4>1. Queued(job.task) /\ job.task \in Tasks
        BY <1>0, <1>2, <2>0, QueueFacts, JobFacts DEF Receive, Queued
      <4>2. ~Running(w, job.task)
        BY <4>1 DEF SinglePlace
      <4>3. new.job.task = job.task
        BY JobFacts
      <4> QED BY <4>2, <4>3 DEF Running
    <3>2. /\ IsFiniteSet(active[w] \cup {new})
          /\ Cardinality(active[w] \cup {new}) = Cardinality(active[w]) + 1
      BY <1>0, <3>1, FS_AddElement
    <3>3. /\ active' = [active EXCEPT ![w] = @ \cup {new}]
          /\ permits' = permits /\ pc' = [pc EXCEPT ![w] = "acquire"] /\ pc[w] = "receive"
      BY <1>2, <2>3 DEF Receive, Spawn
    <3> HIDE DEF new
    <3> QED BY <1>0, <3>2, <3>3 DEF Permits, LoopPermit
  <2> QED BY <1>2, <2>0, <2>1, <2>2, <2>3 DEF Receive
<1>3. ASSUME NEW w \in Workers, NEW e \in active[w], Coroutine(w, e) \/ RouteFails(w, e)
      PROVE  Permits'
  <2>1. /\ IsFiniteSet(active[w] \ {e})
        /\ Cardinality(active[w] \ {e}) = Cardinality(active[w]) - 1
        /\ Cardinality(active[w] \ {e}) \in Nat
    <3> DEFINE S == active[w]
    <3>1. IsFiniteSet(S) /\ e \in S
      BY <1>0
    <3> HIDE DEF S
    <3>2. IsFiniteSet(S \ {e}) /\ Cardinality(S \ {e}) = Cardinality(S) - 1
      BY <3>1, FS_RemoveElement
    <3> QED BY <3>2, FS_CardinalityType DEF S
  <2>2. ASSUME Finish(w, e), pc' = pc PROVE Permits'
    <3>1. /\ permits'[w] = permits[w] + 1 /\ active'[w] = active[w] \ {e}
          /\ \A v \in Workers \ {w} : permits'[v] = permits[v] /\ active'[v] = active[v]
      BY <1>0, <2>2 DEF Finish
    <3>2. permits'[w] + Cardinality(active'[w]) = permits[w] + Cardinality(active[w])
      BY <1>0, <2>1, <3>1
    <3>3. IsFiniteSet(active'[w]) /\ permits'[w] >= permits[w]
      BY <1>0, <2>1, <3>1
    <3>4. ASSUME NEW v \in Workers
          PROVE  /\ permits'[v] + Cardinality(active'[v]) = permits[v] + Cardinality(active[v])
                 /\ IsFiniteSet(active'[v]) /\ permits'[v] >= permits[v]
      <4>1. CASE v = w
        BY <3>2, <3>3, <4>1
      <4>2. CASE v # w
        BY <1>0, <3>1, <4>2
      <4> QED BY <4>1, <4>2
    <3>5. \A v \in Workers : /\ permits'[v] \in Int /\ permits[v] \in Int /\ permits[v] >= 0
                             /\ Cardinality(active'[v]) \in Nat
      <4>1. Finish(w, e) => permits' \in [Workers -> Int]
        BY <1>0 DEF Finish
      <4> QED BY <1>0, <2>2, <3>4, <4>1, FS_CardinalityType DEF Permits
    <3> HIDE DEF Inv
    <3> QED BY <1>0, <2>2, <3>4, <3>5 DEF Inv, Permits, LoopPermit
  <2>3. ASSUME NEW p \in Phase, e.phase # p, UNCHANGED <<pc, permits>>,
               active' = [active EXCEPT ![w] = (@ \ {e}) \cup {[e EXCEPT !.phase = p]}]
        PROVE  Permits'
    <3> DEFINE new == [e EXCEPT !.phase = p]
    <3>1. new \notin active[w] \ {e}
      <4>1. e \in Exec /\ e.job.task \in Tasks /\ new.job = e.job /\ new.phase = p
        BY <1>0, <2>3, ExecFacts, JobFacts
      <4>2. \A f \in active[w] : f.job.task = e.job.task => f = e
        BY <4>1 DEF SinglePlace
      <4> QED BY <2>3, <4>1, <4>2
    <3> HIDE DEF new
    <3>2. /\ IsFiniteSet((active[w] \ {e}) \cup {new})
          /\ Cardinality((active[w] \ {e}) \cup {new}) = Cardinality(active[w])
      <4> DEFINE S == active[w] \ {e}
      <4>1. IsFiniteSet(S) /\ new \notin S /\ Cardinality(S) = Cardinality(active[w]) - 1
        BY <2>1, <3>1
      <4> HIDE DEF S
      <4>2. IsFiniteSet(S \cup {new}) /\ Cardinality(S \cup {new}) = Cardinality(S) + 1
        BY <4>1, FS_AddElement
      <4> QED BY <1>0, <4>1, <4>2 DEF S
    <3> QED BY <1>0, <2>3, <3>2 DEF Permits, LoopPermit, new
  <2>4. CASE Fail(w, e)
    <3>1. AfterFailure(e.job) \in Phase /\ e.phase # AfterFailure(e.job)
      BY <2>4 DEF Fail, AfterFailure, Phase
    <3> QED BY <2>3, <2>4, <3>1 DEF Fail
  <2>5. CASE DeadLetter(w, e)
    BY <2>3, <2>5 DEF DeadLetter, Phase
  <2> QED BY <1>3, <2>2, <2>4, <2>5 DEF Coroutine, Succeed, Retry, RecordFailure, RouteFails
<1>4. ASSUME NEW w \in Workers,
             Acquire(w) \/ ReceiveNothing(w) \/ ReceiveFails(w) \/ Shutdown(w)
      PROVE  Permits'
  BY <1>0, <1>4 DEF Acquire, ReceiveNothing, ReceiveFails, Shutdown, Permits, LoopPermit
<1>5. ASSUME NEW w \in Workers, RejectToDlq(w) \/ RejectRecord(w) \/ RejectAborts(w)
      PROVE  Permits'
  <2>1. CASE RejectToDlq(w)
    BY <1>0, <2>1 DEF RejectToDlq, Permits, LoopPermit
  <2>2. CASE RejectRecord(w)
    BY <1>0, <2>2 DEF RejectRecord, Permits, LoopPermit
  <2>3. CASE RejectAborts(w)
    BY <1>0, <2>3 DEF RejectAborts, Permits, LoopPermit
  <2> QED BY <1>5, <2>1, <2>2, <2>3
<1>6. ASSUME NEW w \in Workers, Beat(w) \/ Stop(w) PROVE Permits'
  BY <1>0, <1>6 DEF Beat, Stop, Permits, LoopPermit
<1>7. ASSUME NEW w \in Workers, Crash(w) PROVE Permits'
  <2>1. /\ active' = [active EXCEPT ![w] = {}] /\ permits' = permits
        /\ pc' = [pc EXCEPT ![w] = "stopped"]
    BY <1>7 DEF Crash
  <2> QED BY <1>0, <2>1, FS_EmptySet DEF Permits, LoopPermit
<1>8. ASSUME NEW w \in Workers, Restart(w) PROVE Permits'
  <2>1. /\ active[w] = {} /\ active' = active /\ permits' = [permits EXCEPT ![w] = Slots]
        /\ pc' = [pc EXCEPT ![w] = "acquire"]
    BY <1>8 DEF Restart, Rest
  <2> QED BY <1>0, <2>1, FS_EmptySet DEF Permits, LoopPermit
<1>9. CASE UNCHANGED vars
  BY <1>9 DEF vars, workerVars, Permits, LoopPermit
<1> QED BY <1>1, <1>2, <1>3, <1>4, <1>5, <1>6, <1>7, <1>8, <1>9 DEF Next, Loop
-----------------------------------------------------------------------------
THEOREM Invariance == Spec => []Inv
<1>1. Inv /\ [Next]_vars => Inv'
  BY NextTypes, NextCounts, NextRest, NextSinglePlace, NextPermits DEF Inv, Counts
<1> QED BY InitInv, <1>1, PTL DEF Spec

(* Every reachable state is well typed; in particular a semaphore never has
   more free permits than worker_concurrency, nor fewer than none. *)
THEOREM TypeCorrect == Spec => []TypeOK
<1>1. Inv => TypeOK
  <2> SUFFICES ASSUME Inv PROVE TypeOK
    OBVIOUS
  <2>1. \A w \in Workers : permits[w] \in 0 .. Slots
    BY TaskWorkerAssumption, FS_CardinalityType DEF Inv, Types, Permits
  <2> QED BY <2>1 DEF Inv, Types, TypeOK
<1> QED BY Invariance, <1>1, PTL

(* For every number of workers, slots, retries and faults: no permit of a
   worker is leaked or released twice. *)
THEOREM PermitsAreConserved == Spec => []PermitConservation
<1>1. Inv => PermitConservation
  BY DEF Inv, Permits, LoopPermit, PermitConservation
<1> QED BY Invariance, <1>1, PTL

(* No submission is ever queued twice, run twice at the same time, or queued
   while it runs. *)
THEOREM SubmissionsStaySingle == Spec => []SinglePlace
<1>1. Inv => SinglePlace
  BY DEF Inv
<1> QED BY Invariance, <1>1, PTL

(* No handler is started more often than the retry budget allows. *)
THEOREM AttemptsAreBounded == Spec => []AttemptBudget
<1>1. Inv => AttemptBudget
  BY DEF Inv, Rest, AttemptBudget
<1> QED BY Invariance, <1>1, PTL

(* A worker reported STOPPED runs nothing. *)
THEOREM StoppedIsIdle == Spec => []StoppedMeansIdle
<1>1. Inv => StoppedMeansIdle
  BY DEF Inv, Rest
<1> QED BY Invariance, <1>1, PTL
-----------------------------------------------------------------------------
(* Where submissions end. *)

(* What was executed is nowhere any more, only a known task runs and only an
   unknown one is set aside, a coroutine routes to the dead-letter list with its
   attempts used up, and records what is there already. *)
Ends ==
    /\ \A t \in executed : t \in submitted /\ t \notin Unknown /\ ~InFlight(t)
    /\ \A w \in Workers : \A e \in active[w] :
          /\ e.job.task \notin Unknown
          /\ e.phase = "deadletter" => e.job.attempts = MaxRetries
          /\ e.phase = "record" => e.job \in dlq
    /\ \A w \in Workers : held[w] # NoJob => held[w].task \in Unknown
    /\ \A w \in Workers : pc[w] = "rejectRecord" => held[w] \in dlq
    /\ \A job \in dlq : job.task \in submitted
    /\ DeadLetterFinal

(* A job id that a worker knows belongs to a message that is gone for good: its
   attempt was made, or nobody knows its task. *)
Gone(job) == job.attempts < starts[job.task] \/ (job.task \in Unknown /\ job.task \in submitted /\ ~Queued(job.task))
KnownJobsGone == \A w \in Workers : \A job \in (processed[w] \cup {cell[w]}) \cap Job : Gone(job)

Fates == Ends /\ KnownJobsGone /\ KeylessNeverLost

LEMMA InitFates == Init => Fates
<1> SUFFICES ASSUME Init PROVE Fates
  OBVIOUS
<1>1. Ends
  BY DEF Init, Ends, DeadLetterFinal
<1>2. KnownJobsGone
  BY TaskWorkerAssumption DEF Init, KnownJobsGone, Job
<1>3. KeylessNeverLost
  BY DEF Init, KeylessNeverLost
<1> QED BY <1>1, <1>2, <1>3 DEF Fates

(* A step that moves no message, coroutine or held job. *)
LEMMA EndsFrame ==
    ASSUME Ends, UNCHANGED <<queue, active, held, dlq, starts, submitted, executed>>,
           \A w \in Workers : pc'[w] = "rejectRecord" => pc[w] = "rejectRecord"
    PROVE  Ends'
  BY DEF Ends, DeadLetterFinal, InFlight, Queued, Running, Held

LEMMA NextEnds == Inv /\ Fates /\ [Next]_vars => Ends'
<1> SUFFICES ASSUME Inv, Fates, [Next]_vars PROVE Ends'
  OBVIOUS
<1> USE DEF Inv, Fates
<1>0. /\ queue \in Seq(Job) /\ active \in [Workers -> SUBSET Exec] /\ dlq \subseteq Job
      /\ pc \in [Workers -> LoopPc] /\ held \in [Workers -> Job \cup {NoJob}]
      /\ submitted \subseteq Tasks /\ executed \subseteq Tasks /\ starts \in [Tasks -> Nat]
      /\ \A w \in Workers : \A e \in active[w] : e \in Exec /\ e.job \in Job /\ e.job.task \in Tasks
  BY DEF Types, Exec, Job
<1>1. ASSUME NEW t \in Tasks, Enqueue(t) PROVE Ends'
  <2>1. \A u : Queued(u)' => Queued(u) \/ u = t
    <3>1. [task |-> t, attempts |-> 0] \in Job
      BY TaskWorkerAssumption DEF Job
    <3> QED BY <1>0, <1>1, <3>1, QueueFacts DEF Enqueue, Queued
  <2>2. t \notin executed /\ \A job \in dlq : job.task # t
    BY <1>1 DEF Enqueue, Ends
  <2>3. UNCHANGED <<active, held, dlq, starts, executed, pc>> /\ submitted \subseteq submitted'
    BY <1>1 DEF Enqueue, workerVars
  <2> QED BY <2>1, <2>2, <2>3 DEF Ends, DeadLetterFinal, InFlight, Running, Held
<1>2. ASSUME NEW w \in Workers, Receive(w) PROVE Ends'
  <2>0. PICK job \in Job : job = Head(queue)
    BY <1>0, <1>2, QueueFacts DEF Receive
  <2>1. /\ job = queue[1] /\ 1 \in DOMAIN queue /\ queue' = Tail(queue)
        /\ \A i \in DOMAIN queue' : i + 1 \in DOMAIN queue /\ queue'[i] = queue[i + 1]
        /\ UNCHANGED <<dlq, submitted, executed>> /\ pc[w] = "receive"
    BY <1>0, <1>2, <2>0, QueueFacts DEF Receive, Popped
  <2>2. /\ \A u : Queued(u)' => Queued(u)
        /\ Queued(job.task) /\ job.task \in Tasks /\ job.task \in submitted
        /\ Attempt(job).task = job.task
    BY <2>1, JobFacts DEF Queued, QueueCounts
  <2>3. job.task \notin executed /\ \A j \in dlq : j.task # job.task
    BY <2>2 DEF Ends, DeadLetterFinal, InFlight
  <2>4. CASE Skip(w, job)
    BY <1>0, <2>1, <2>2, <2>4 DEF Skip, Ends, DeadLetterFinal, InFlight, Running, Held
  <2>5. CASE SetAside(w, job)
    <3>1. UNCHANGED <<active, starts>> /\ job.task \in Unknown /\ held' = [held EXCEPT ![w] = job]
          /\ pc' = [pc EXCEPT ![w] = "reject"]
      BY <2>5 DEF SetAside
    <3>2. \A v \in Workers : \A u : /\ Running(v, u)' <=> Running(v, u)
                                    /\ Held(v, u)' => Held(v, u) \/ u = job.task
      BY <1>0, <3>1 DEF Running, Held
    <3>3. \A u \in executed : ~InFlight(u)'
      BY <2>2, <2>3, <3>2 DEF Ends, InFlight
    <3>4. DeadLetterFinal'
      BY <2>1, <2>2, <3>1 DEF Ends, DeadLetterFinal
    <3>5. \A v \in Workers : /\ held'[v] # NoJob => held'[v].task \in Unknown
                             /\ pc'[v] = "rejectRecord" => held'[v] \in dlq
      BY <1>0, <3>1 DEF Ends
    <3> QED BY <2>1, <3>1, <3>3, <3>4, <3>5 DEF Ends
  <2>6. CASE Spawn(w, job)
    <3> DEFINE new == [job |-> Attempt(job), phase |-> "running"]
    <3>1. /\ UNCHANGED held /\ job.task \notin Unknown
          /\ pc' = [pc EXCEPT ![w] = "acquire"]
          /\ \A v \in Workers : \A e \in active'[v] : e \in active[v] \/ e = new
      BY <1>0, <2>6 DEF Spawn
    <3>2. new.job.task = job.task /\ new.phase = "running"
      BY <2>2
    <3>3. \A u \in Tasks : u # job.task => starts'[u] = starts[u]
      BY <1>0, <2>2, <2>6 DEF Spawn
    <3> HIDE DEF new
    <3>4. \A v \in Workers : \A u : /\ Held(v, u)' <=> Held(v, u)
                                    /\ Running(v, u)' => Running(v, u) \/ u = job.task
      BY <3>1, <3>2 DEF Running, Held
    <3>5. \A u \in executed : ~InFlight(u)'
      BY <2>2, <2>3, <3>4 DEF Ends, InFlight
    <3>6. DeadLetterFinal'
      <4> SUFFICES ASSUME NEW j \in dlq
                   PROVE  /\ j.task \in Unknown \/ (j.attempts = MaxRetries /\ starts'[j.task] = MaxRetries)
                          /\ j.task \notin executed' /\ ~Queued(j.task)'
                          /\ \A v \in Workers : \A e \in active'[v] : e.job.task = j.task => e.phase = "record"
        BY <2>1 DEF DeadLetterFinal
      <4>1. j.task \in Tasks /\ j.task # job.task
        BY <1>0, <2>3, JobFacts
      <4> QED BY <2>1, <2>2, <3>1, <3>2, <3>3, <4>1 DEF Ends, DeadLetterFinal
    <3>7. \A v \in Workers : /\ held'[v] # NoJob => held'[v].task \in Unknown
                             /\ pc'[v] = "rejectRecord" => held'[v] \in dlq
      BY <1>0, <3>1 DEF Ends
    <3>8. \A v \in Workers : \A e \in active'[v] :
             /\ e.job.task \notin Unknown
             /\ e.phase = "deadletter" => e.job.attempts = MaxRetries
             /\ e.phase = "record" => e.job \in dlq
      BY <3>1, <3>2 DEF Ends
    <3> QED BY <2>1, <3>5, <3>6, <3>7, <3>8 DEF Ends
  <2> QED BY <1>2, <2>0, <2>4, <2>5, <2>6 DEF Receive
<1>3. ASSUME NEW w \in Workers, RejectToDlq(w) PROVE Ends'
  <2>1. /\ held[w] \in Job /\ held[w] # NoJob /\ held[w].task \in Tasks
        /\ held[w].task \in Unknown /\ held[w].task \in submitted
    BY <1>0, <1>3, JobFacts DEF RejectToDlq, Rest, Ends
  <2>2. /\ ~Queued(held[w].task) /\ held[w].task \notin executed
        /\ \A v \in Workers : ~Running(v, held[w].task)
    BY <2>1 DEF SinglePlace, Ends, InFlight, Held
  <2>3. /\ UNCHANGED <<queue, active, held, starts, submitted, executed>>
        /\ dlq' = dlq \cup {held[w]} /\ pc' = [pc EXCEPT ![w] = "rejectRecord"]
    BY <1>3 DEF RejectToDlq, observers
  <2>4. DeadLetterFinal'
    BY <2>1, <2>2, <2>3 DEF Ends, DeadLetterFinal, Queued, Running
  <2>5. \A u \in executed : ~InFlight(u)'
    BY <2>3 DEF Ends, InFlight, Queued, Running, Held
  <2> QED BY <1>0, <2>1, <2>3, <2>4, <2>5 DEF Ends
<1>4. ASSUME NEW w \in Workers, RejectRecord(w) \/ RejectAborts(w) PROVE Ends'
  <2>1. /\ UNCHANGED <<queue, active, dlq, starts, submitted, executed>>
        /\ held' = [held EXCEPT ![w] = NoJob]
        /\ pc' = [pc EXCEPT ![w] = "acquire"] \/ pc' = [pc EXCEPT ![w] = "draining"]
    BY <1>4 DEF RejectRecord, RejectAborts, queueVars, observers
  <2>2. \A v \in Workers : \A u \in Tasks : Held(v, u)' => Held(v, u)
    BY <1>0, <2>1, TaskWorkerAssumption DEF Held, NoJob
  <2>3. \A u \in executed : ~InFlight(u)'
    BY <1>0, <2>1, <2>2 DEF Ends, InFlight, Queued, Running
  <2>4. DeadLetterFinal'
    BY <2>1 DEF Ends, DeadLetterFinal, Queued
  <2>5. \A v \in Workers : /\ held'[v] # NoJob => held'[v].task \in Unknown
                           /\ pc'[v] = "rejectRecord" => held'[v] \in dlq
    BY <1>0, <2>1 DEF Ends
  <2> QED BY <2>1, <2>3, <2>4, <2>5 DEF Ends
<1>5. ASSUME NEW w \in Workers, NEW e \in active[w], Coroutine(w, e) \/ RouteFails(w, e)
      PROVE  Ends'
  <2>0. /\ e \in Exec /\ e.job \in Job /\ e.job.task \in Tasks /\ e.job.task \notin Unknown
        /\ e.job.task \in submitted /\ e.job.attempts = starts[e.job.task]
        /\ ~Queued(e.job.task) /\ e.job.task \notin executed
        /\ e.phase # "record" => \A job \in dlq : job.task # e.job.task
    <3>1. e \in Exec /\ e.job \in Job /\ e.job.task \in Tasks
      BY <1>0
    <3>2. Running(w, e.job.task)
      BY DEF Running
    <3> QED BY <3>1, <3>2 DEF Ends, DeadLetterFinal, InFlight, SinglePlace, ActiveCounts
  <2>1. \A v \in Workers : \A f \in active[v] : f.job.task = e.job.task => v = w /\ f = e
    BY <2>0 DEF SinglePlace, Running
  <2>2. /\ UNCHANGED <<pc, held, starts, submitted>>
        /\ \A v \in Workers : \A u : Held(v, u)' <=> Held(v, u)
    BY <1>5 DEF Coroutine, Succeed, Fail, Retry, DeadLetter, RecordFailure, RouteFails, observers, Held
  <2>3. ASSUME Finish(w, e) PROVE \A v \in Workers : \A f \in active'[v] : f \in active[v] /\ f # e
    <3>1. active' = [active EXCEPT ![w] = @ \ {e}]
      BY <2>3 DEF Finish
    <3>2. \A v \in Workers : active'[v] = IF v = w THEN active[w] \ {e} ELSE active[v]
      BY <1>0, <3>1
    <3>3. \A v \in Workers \ {w} : e \notin active[v]
      BY <2>1
    <3> QED BY <3>2, <3>3
  <2>4. CASE Succeed(w, e)
    <3>1. UNCHANGED <<queue, dlq>> /\ executed' = executed \cup {e.job.task}
          /\ \A v \in Workers : \A f \in active'[v] : f \in active[v] /\ f # e
      BY <2>3, <2>4 DEF Succeed, queueVars
    <3>2. \A v \in Workers : ~Held(v, e.job.task)
      BY <2>0 DEF SinglePlace, Running
    <3>3. \A u \in executed' : ~InFlight(u)'
      <4> TAKE u \in executed'
      <4>1. \A v \in Workers : Running(v, u)' => Running(v, u)
        BY <3>1 DEF Running
      <4>2. Queued(u)' <=> Queued(u)
        BY <3>1 DEF Queued
      <4>3. CASE u \in executed
        BY <2>2, <4>1, <4>2, <4>3 DEF Ends, InFlight
      <4>4. CASE u = e.job.task
        <5>1. \A v \in Workers : ~Running(v, u)'
          BY <2>1, <3>1, <4>4 DEF Running
        <5> QED BY <2>0, <2>2, <3>2, <4>2, <4>4, <5>1 DEF InFlight
      <4> QED BY <3>1, <4>3, <4>4
    <3>4. e.phase = "running"
      BY <2>4 DEF Succeed
    <3>5. DeadLetterFinal'
      BY <2>0, <2>2, <3>1, <3>4 DEF Ends, DeadLetterFinal, Queued
    <3> QED BY <2>0, <2>2, <3>1, <3>3, <3>5 DEF Ends
  <2>5. CASE Retry(w, e)
    <3>1. UNCHANGED <<dlq, executed>> /\ queue' = Append(queue, e.job) /\ e.phase = "backoff"
          /\ \A v \in Workers : \A f \in active'[v] : f \in active[v] /\ f # e
      BY <2>3, <2>5 DEF Retry, observers
    <3>2. \A u : Queued(u)' => Queued(u) \/ u = e.job.task
      BY <1>0, <2>0, <3>1, QueueFacts DEF Queued
    <3>3. \A v \in Workers : \A u : Running(v, u)' => Running(v, u)
      BY <3>1 DEF Running
    <3>4. \A u \in executed : ~InFlight(u)'
      BY <2>0, <2>2, <3>2, <3>3 DEF Ends, InFlight
    <3>5. DeadLetterFinal'
      BY <2>0, <2>2, <3>1, <3>2 DEF Ends, DeadLetterFinal
    <3> QED BY <2>2, <3>1, <3>4, <3>5 DEF Ends
  <2>6. CASE RecordFailure(w, e) \/ RouteFails(w, e)
    <3>1. UNCHANGED <<queue, dlq, executed>>
          /\ \A v \in Workers : \A f \in active'[v] : f \in active[v] /\ f # e
      BY <2>3, <2>6 DEF RecordFailure, RouteFails, queueVars, observers
    <3>2. \A v \in Workers : \A u : Running(v, u)' => Running(v, u)
      BY <3>1 DEF Running
    <3>3. \A u \in executed : ~InFlight(u)'
      BY <2>2, <3>1, <3>2 DEF Ends, InFlight, Queued
    <3>4. DeadLetterFinal'
      BY <2>2, <3>1 DEF Ends, DeadLetterFinal, Queued
    <3> QED BY <2>2, <3>1, <3>3, <3>4 DEF Ends
  <2>7. ASSUME NEW p \in Phase, UNCHANGED <<queue, executed>>, e.phase # "record",
               active' = [active EXCEPT ![w] = (@ \ {e}) \cup {[e EXCEPT !.phase = p]}],
               p = "deadletter" => e.job.attempts = MaxRetries,
               IF p = "record" THEN dlq' = dlq \cup {e.job} /\ e.job.attempts = MaxRetries ELSE dlq' = dlq
        PROVE  Ends'
    <3> DEFINE new == [e EXCEPT !.phase = p]
    <3>1. new.job = e.job /\ new.phase = p
      BY <2>0, <2>7, ExecFacts
    <3>2. \A v \in Workers : \A f \in active'[v] : (f \in active[v] /\ f # e) \/ f = new
      <4>1. \A v \in Workers : active'[v] = IF v = w THEN (active[w] \ {e}) \cup {new} ELSE active[v]
        BY <1>0, <2>7
      <4>2. \A v \in Workers \ {w} : e \notin active[v]
        BY <2>1
      <4> HIDE DEF new
      <4> QED BY <4>1, <4>2
    <3> HIDE DEF new
    <3>3. \A v \in Workers : \A u : Running(v, u)' => Running(v, u) \/ u = e.job.task
      BY <3>1, <3>2 DEF Running
    <3>4. \A u \in executed : ~InFlight(u)'
      BY <2>0, <2>2, <2>7, <3>3 DEF Ends, InFlight, Queued
    <3>5. \A v \in Workers : \A f \in active'[v] : f.job.task = e.job.task => f = new
      BY <2>1, <3>2
    <3>6. DeadLetterFinal'
      <4> SUFFICES ASSUME NEW j \in dlq'
                   PROVE  /\ j.task \in Unknown \/ (j.attempts = MaxRetries /\ starts'[j.task] = MaxRetries)
                          /\ j.task \notin executed' /\ ~Queued(j.task)'
                          /\ \A v \in Workers : \A f \in active'[v] : f.job.task = j.task => f.phase = "record"
        BY DEF DeadLetterFinal
      <4>1. CASE j \in dlq
        <5>1. j.task # e.job.task
          BY <2>0, <2>7, <4>1
        <5> QED BY <2>2, <2>7, <3>1, <3>2, <4>1, <5>1 DEF Ends, DeadLetterFinal, Queued
      <4>2. CASE j \notin dlq
        <5>1. p = "record" /\ j = e.job /\ e.job.attempts = MaxRetries
          BY <2>7, <4>2
        <5>2. ~Queued(e.job.task)'
          BY <2>0, <2>7 DEF Queued
        <5> QED BY <2>0, <2>2, <2>7, <3>1, <3>5, <5>1, <5>2
      <4> QED BY <4>1, <4>2
    <3>7. dlq \subseteq dlq' /\ \A job \in dlq' : job.task \in submitted
      BY <2>0, <2>7 DEF Ends
    <3>8. \A v \in Workers : \A f \in active'[v] :
             /\ f.job.task \notin Unknown
             /\ f.phase = "deadletter" => f.job.attempts = MaxRetries
             /\ f.phase = "record" => f.job \in dlq'
      BY <2>0, <2>7, <3>1, <3>2, <3>7 DEF Ends
    <3> QED BY <2>2, <2>7, <3>4, <3>6, <3>7, <3>8 DEF Ends
  <2>8. CASE Fail(w, e)
    <3>1. AfterFailure(e.job) \in {"backoff", "deadletter"}
          /\ (AfterFailure(e.job) = "deadletter" => e.job.attempts = MaxRetries)
      BY <2>0, JobFacts, TaskWorkerAssumption DEF AfterFailure
    <3> QED BY <2>7, <2>8, <3>1 DEF Fail, Phase, queueVars, observers
  <2>9. CASE DeadLetter(w, e)
    <3>1. e.job.attempts = MaxRetries
      BY <2>9 DEF DeadLetter, Ends
    <3> QED BY <2>7, <2>9, <3>1 DEF DeadLetter, Phase, observers
  <2> QED BY <1>5, <2>4, <2>5, <2>6, <2>8, <2>9 DEF Coroutine
<1>6. ASSUME NEW w \in Workers, Crash(w) PROVE Ends'
  <2>1. /\ UNCHANGED <<queue, dlq, starts, submitted, executed>>
        /\ held' = [held EXCEPT ![w] = NoJob] /\ pc' = [pc EXCEPT ![w] = "stopped"]
        /\ active' = [active EXCEPT ![w] = {}]
    BY <1>6 DEF Crash, queueVars, observers
  <2>2. \A v \in Workers : \A u \in Tasks : /\ Held(v, u)' => Held(v, u)
                                            /\ Running(v, u)' => Running(v, u)
    BY <1>0, <2>1, TaskWorkerAssumption DEF Held, Running, NoJob
  <2>3. \A u \in executed : ~InFlight(u)'
    BY <1>0, <2>1, <2>2 DEF Ends, InFlight, Queued
  <2>4. \A v \in Workers : active'[v] \subseteq active[v]
    BY <1>0, <2>1
  <2>5. DeadLetterFinal'
    BY <2>1, <2>4 DEF Ends, DeadLetterFinal, Queued
  <2>6. \A v \in Workers : /\ held'[v] # NoJob => held'[v].task \in Unknown
                           /\ pc'[v] = "rejectRecord" => held'[v] \in dlq
    BY <1>0, <2>1 DEF Ends
  <2> QED BY <2>1, <2>3, <2>4, <2>5, <2>6 DEF Ends
<1>7. ASSUME NEW w \in Workers,
             \/ Acquire(w) \/ ReceiveNothing(w) \/ ReceiveFails(w)
             \/ Beat(w) \/ Shutdown(w) \/ Stop(w) \/ Restart(w)
      PROVE  Ends'
  <2>1. /\ UNCHANGED <<queue, active, held, dlq, starts, submitted, executed>>
        /\ \A v \in Workers : pc'[v] = "rejectRecord" => pc[v] = "rejectRecord"
    BY <1>0, <1>7 DEF Acquire, ReceiveNothing, ReceiveFails, Beat, Shutdown, Stop, Restart, queueVars, observers
  <2> QED BY <2>1, EndsFrame
<1>8. CASE UNCHANGED vars
  BY <1>8, EndsFrame DEF vars, queueVars, workerVars, observers
<1> QED BY <1>1, <1>2, <1>3, <1>4, <1>5, <1>6, <1>7, <1>8 DEF Next, Loop

(* What is gone stays gone: attempts are only added, and an unknown task is queued
   once. *)
LEMMA GoneStays ==
    ASSUME Inv, NEW job \in Job, Gone(job),
           \A t \in Tasks : starts[t] <= starts'[t], starts' \in [Tasks -> Nat], submitted \subseteq submitted',
           job.task \in Unknown /\ job.task \in submitted /\ ~Queued(job.task) => ~Queued(job.task)'
    PROVE  Gone(job)'
<1>1. /\ starts \in [Tasks -> Nat] /\ job.task \in Tasks /\ job.attempts \in Nat
      /\ starts[job.task] \in Nat /\ starts'[job.task] \in Nat
  BY JobFacts, TaskWorkerAssumption DEF Inv, Types
<1> QED BY <1>1 DEF Gone

(* A message with its own id as key is never skipped. *)
LEMMA KeylessNotSkipped ==
    ASSUME Inv, Fates, NEW w \in Workers, NEW job \in Job, queue # <<>>, job = Head(queue), KeyOf[job.task] = NoKey
    PROVE  job \notin processed[w]
<1>1. job = queue[1] /\ 1 \in DOMAIN queue /\ queue \in Seq(Job)
  BY QueueFacts DEF Inv, Types
<1>2. Queued(job.task) /\ job.attempts = starts[job.task] /\ job.attempts \in Nat
  BY <1>1, JobFacts, TaskWorkerAssumption DEF Inv, Queued, QueueCounts
<1> QED BY <1>2 DEF Fates, KnownJobsGone, Gone

LEMMA NextKnown == Inv /\ Inv' /\ Fates /\ [Next]_vars => KnownJobsGone'
<1> SUFFICES ASSUME Inv, Inv', Fates, [Next]_vars PROVE KnownJobsGone'
  OBVIOUS
<1>0. /\ queue \in Seq(Job) /\ active \in [Workers -> SUBSET Exec]
      /\ cell \in [Workers -> Keys \cup Job \cup {NoKey}]
      /\ processed \in [Workers -> SUBSET (Keys \cup Job \cup {NoKey})]
      /\ starts \in [Tasks -> Nat] /\ starts' \in [Tasks -> Nat]
      /\ \A w \in Workers : \A e \in active[w] : e \in Exec /\ e.job \in Job /\ e.job.task \in Tasks
      /\ (Keys \cup {NoKey}) \cap Job = {}
  BY TaskWorkerAssumption DEF Inv, Types, Exec, Job
<1>1. ASSUME NEW t \in Tasks, Enqueue(t) PROVE KnownJobsGone'
  <2>1. \A u : Queued(u)' => Queued(u) \/ u = t
    <3>1. [task |-> t, attempts |-> 0] \in Job
      BY TaskWorkerAssumption DEF Job
    <3> QED BY <1>0, <1>1, <3>1, QueueFacts DEF Enqueue, Queued
  <2>2. t \notin submitted /\ UNCHANGED <<cell, processed, starts>> /\ submitted \subseteq submitted'
    BY <1>1 DEF Enqueue, workerVars
  <2>3. \A u \in Tasks : starts[u] <= starts'[u]
    BY <1>0, <2>2
  <2>4. ASSUME NEW job \in Job, Gone(job) PROVE Gone(job)'
    BY <1>0, <2>1, <2>2, <2>3, <2>4, GoneStays
  <2> QED BY <2>2, <2>4 DEF Fates, KnownJobsGone
<1>2. ASSUME NEW w \in Workers, Receive(w) PROVE KnownJobsGone'
  <2>0. PICK job \in Job : job = Head(queue) /\ queue # <<>>
    BY <1>0, <1>2, QueueFacts DEF Receive
  <2>1. /\ job = queue[1] /\ 1 \in DOMAIN queue /\ queue' = Tail(queue)
        /\ \A i \in DOMAIN queue' : i \in Nat \ {0} /\ i + 1 \in DOMAIN queue /\ queue'[i] = queue[i + 1]
        /\ UNCHANGED <<processed, submitted>> /\ cell' = [cell EXCEPT ![w] = IdempotencyKey(job)]
    BY <1>0, <1>2, <2>0, QueueFacts DEF Receive, Popped
  <2>2. /\ \A u : Queued(u)' => Queued(u)
        /\ job.task \in Tasks /\ job.task \in submitted /\ job.attempts = starts[job.task]
    BY <2>1, JobFacts DEF Inv, Queued, QueueCounts
  <2>3. \A u \in Tasks : starts[u] <= starts'[u]
    <3>1. starts' = starts \/ starts' = [starts EXCEPT ![job.task] = @ + 1]
      BY <1>2, <2>0 DEF Receive, Skip, SetAside, Spawn
    <3> QED BY <1>0, <2>2, <3>1
  <2>4. ASSUME NEW j \in Job, Gone(j) PROVE Gone(j)'
    BY <1>0, <2>1, <2>2, <2>3, <2>4, GoneStays
  <2>5. KeyOf[job.task] # NoKey => IdempotencyKey(job) \notin Job
    BY <1>0, <2>2, TaskWorkerAssumption DEF IdempotencyKey
  <2>6. ASSUME KeyOf[job.task] = NoKey PROVE IdempotencyKey(job) = job /\ Gone(job)'
    <3>1. IdempotencyKey(job) = job
      BY <2>6 DEF IdempotencyKey
    <3>2. job \notin processed[w]
      BY <2>0, <2>6, KeylessNotSkipped
    <3>3. CASE SetAside(w, job)
      <4>1. ~Queued(job.task)'
        <5>1. \A i, j \in DOMAIN queue : queue[i].task = job.task /\ queue[j].task = job.task => i = j
          BY <2>2 DEF Inv, SinglePlace
        <5> QED BY <2>1, <5>1 DEF Queued
      <4> QED BY <2>1, <2>2, <3>1, <3>3, <4>1 DEF SetAside, Gone
    <3>4. CASE Spawn(w, job)
      <4>1. starts'[job.task] = starts[job.task] + 1
        BY <1>0, <2>2, <3>4 DEF Spawn
      <4> QED BY <1>0, <2>2, <3>1, <4>1 DEF Gone
    <3> QED BY <1>2, <2>0, <3>1, <3>2, <3>3, <3>4 DEF Receive, Skip
  <2>7. ASSUME NEW v \in Workers, NEW j \in (processed'[v] \cup {cell'[v]}) \cap Job
        PROVE  Gone(j)'
    <3>1. j \in processed[v] \cup {cell[v]} \/ j = IdempotencyKey(job)
      BY <1>0, <2>1
    <3>2. CASE j = IdempotencyKey(job)
      BY <2>5, <2>6, <3>2
    <3>3. CASE j \in processed[v] \cup {cell[v]}
      BY <2>4, <3>3 DEF Fates, KnownJobsGone
    <3> QED BY <3>1, <3>2, <3>3
  <2> QED BY <2>7 DEF KnownJobsGone
<1>3. ASSUME NEW w \in Workers, NEW e \in active[w], Coroutine(w, e) \/ RouteFails(w, e)
      PROVE  KnownJobsGone'
  <2>1. UNCHANGED <<cell, starts, submitted>>
    BY <1>3 DEF Coroutine, Succeed, Fail, Retry, DeadLetter, RecordFailure, RouteFails, observers
  <2>2. e.job.task \notin Unknown
    BY DEF Fates, Ends
  <2>3. \A u : Queued(u)' => Queued(u) \/ u = e.job.task
    <3>0. PICK job \in Job : job = e.job
      BY <1>0
    <3>1. queue' = queue \/ queue' = Append(queue, e.job)
      BY <1>3 DEF Coroutine, Succeed, Fail, Retry, DeadLetter, RecordFailure, RouteFails, queueVars
    <3>2. CASE queue' = queue
      BY <3>2 DEF Queued
    <3>3. CASE queue' = Append(queue, job)
      BY <1>0, <3>0, <3>3, QueueFacts DEF Queued
    <3> QED BY <3>0, <3>1, <3>2, <3>3
  <2>4. ASSUME NEW v \in Workers
        PROVE  processed'[v] \subseteq processed[v] \cup {cell[v]}
    <3>1. CASE Succeed(w, e)
      <4>1. processed' = [processed EXCEPT ![w] = {}] \/ processed' = [processed EXCEPT ![w] = processed[w] \cup {cell[w]}]
        BY <3>1 DEF Succeed, Remember
      <4> QED BY <1>0, <4>1
    <3>2. CASE ~Succeed(w, e)
      BY <1>3, <3>2 DEF Coroutine, Fail, Retry, DeadLetter, RecordFailure, RouteFails
    <3> QED BY <3>1, <3>2
  <2>5. \A u \in Tasks : starts[u] <= starts'[u]
    BY <1>0, <2>1
  <2>6. ASSUME NEW job \in Job, Gone(job) PROVE Gone(job)'
    BY <1>0, <2>1, <2>2, <2>3, <2>5, <2>6, GoneStays
  <2> QED BY <2>1, <2>4, <2>6 DEF Fates, KnownJobsGone
<1>4. ASSUME NEW w \in Workers,
             \/ Acquire(w) \/ ReceiveNothing(w) \/ ReceiveFails(w)
             \/ RejectToDlq(w) \/ RejectRecord(w) \/ RejectAborts(w)
             \/ Beat(w) \/ Shutdown(w) \/ Stop(w) \/ Crash(w) \/ Restart(w)
      PROVE  KnownJobsGone'
  <2>1. UNCHANGED <<queue, starts, submitted>>
    BY <1>4 DEF Acquire, ReceiveNothing, ReceiveFails, RejectToDlq, RejectRecord, RejectAborts,
                Beat, Shutdown, Stop, Crash, Restart, queueVars, observers
  <2>2. \A v \in Workers : (processed'[v] \cup {cell'[v]}) \cap Job \subseteq processed[v] \cup {cell[v]}
    <3>1. CASE Crash(w)
      BY <1>0, <3>1 DEF Crash
    <3>2. CASE Restart(w)
      BY <1>0, <3>2 DEF Restart
    <3>3. CASE ~Crash(w) /\ ~Restart(w)
      BY <1>4, <3>3 DEF Acquire, ReceiveNothing, ReceiveFails, RejectToDlq, RejectRecord, RejectAborts,
                        Beat, Shutdown, Stop
    <3> QED BY <3>1, <3>2, <3>3
  <2>3. \A job : Gone(job) => Gone(job)'
    BY <2>1 DEF Gone, Queued
  <2> QED BY <2>2, <2>3 DEF Fates, KnownJobsGone
<1>5. CASE UNCHANGED vars
  BY <1>5 DEF vars, queueVars, workerVars, observers, Fates, KnownJobsGone, Gone, Queued
<1> QED BY <1>1, <1>2, <1>3, <1>4, <1>5 DEF Next, Loop

LEMMA NextKeyless == Inv /\ Fates /\ [Next]_vars => KeylessNeverLost'
<1> SUFFICES ASSUME Inv, Fates, [Next]_vars, faults' = 0,
                    NEW t \in submitted', KeyOf[t] = NoKey
             PROVE  InFlight(t)' \/ t \in executed' \/ DeadLettered(t)'
  BY DEF KeylessNeverLost
<1>0. /\ queue \in Seq(Job) /\ active \in [Workers -> SUBSET Exec] /\ faults \in Nat
      /\ held \in [Workers -> Job \cup {NoJob}] /\ submitted \subseteq Tasks
      /\ \A w \in Workers : \A e \in active[w] : e \in Exec /\ e.job \in Job /\ e.job.task \in Tasks
  BY TaskWorkerAssumption DEF Inv, Types, Exec, Job
<1>1. ~Fault
  BY <1>0 DEF Fault
<1>2. faults = 0 => (t \in submitted => InFlight(t) \/ t \in executed \/ DeadLettered(t))
  BY DEF Fates, KeylessNeverLost
<1>3. ASSUME NEW u \in Tasks, Enqueue(u)
      PROVE  InFlight(t)' \/ t \in executed' \/ DeadLettered(t)'
  <2>1. /\ queue' = Append(queue, [task |-> u, attempts |-> 0]) /\ submitted' = submitted \cup {u}
        /\ UNCHANGED <<dlq, active, held, faults, executed>>
    BY <1>3 DEF Enqueue, workerVars
  <2>2. Len(queue) + 1 \in DOMAIN queue' /\ queue'[Len(queue) + 1].task = u
        /\ \A i \in DOMAIN queue : i \in DOMAIN queue' /\ queue'[i] = queue[i]
    BY <1>0, <2>1
  <2>3. \A x : Queued(x) \/ x = u => Queued(x)'
    BY <2>2 DEF Queued
  <2> QED BY <1>2, <2>1, <2>3 DEF InFlight, Running, Held, DeadLettered
<1>4. ASSUME NEW w \in Workers, Receive(w)
      PROVE  InFlight(t)' \/ t \in executed' \/ DeadLettered(t)'
  <2>0. PICK job \in Job : job = Head(queue) /\ queue # <<>>
    BY <1>0, <1>4, QueueFacts DEF Receive
  <2>1. /\ queue' = Tail(queue) /\ UNCHANGED <<dlq, faults, submitted, executed>>
    BY <1>4, <2>0 DEF Receive, Popped
  <2>2. \A x : Queued(x) => x = job.task \/ Queued(x)'
    <3>1. \A i \in DOMAIN queue : i = 1 \/ (i - 1 \in DOMAIN queue' /\ queue'[i - 1] = queue[i])
      BY <1>0, <2>0, <2>1
    <3>2. job = queue[1]
      BY <1>0, <2>0, QueueFacts
    <3> QED BY <3>1, <3>2 DEF Queued
  <2>3. \A v \in Workers : Held(v, t) => v # w
    <3>1. held[w] = NoJob
      BY <1>4 DEF Receive, Inv, Rest
    <3> QED BY <1>0, <2>1, <3>1, TaskWorkerAssumption DEF Held, NoJob
  <2>4. \A v \in Workers : (Running(v, t) => Running(v, t)') /\ (Held(v, t) => Held(v, t)')
    <3>1. CASE Skip(w, job)
      BY <3>1 DEF Skip, Running, Held
    <3>2. CASE SetAside(w, job)
      BY <1>0, <2>3, <3>2 DEF SetAside, Running, Held
    <3>3. CASE Spawn(w, job)
      <4>1. \A v \in Workers : active[v] \subseteq active'[v]
        BY <1>0, <3>3 DEF Spawn
      <4> QED BY <3>3, <4>1 DEF Spawn, Running, Held
    <3> QED BY <1>4, <2>0, <3>1, <3>2, <3>3 DEF Receive
  <2>5. CASE t = job.task
    <3>1. IdempotencyKey(job) = job /\ job \notin processed[w]
      BY <2>0, <2>5, KeylessNotSkipped DEF IdempotencyKey
    <3>2. CASE SetAside(w, job)
      <4>1. held'[w] = job
        BY <1>0, <3>2 DEF SetAside
      <4> QED BY <2>5, <4>1 DEF InFlight, Held
    <3>3. CASE Spawn(w, job)
      <4> DEFINE new == [job |-> Attempt(job), phase |-> "running"]
      <4>1. new \in active'[w]
        BY <1>0, <3>3 DEF Spawn
      <4>2. new.job.task = t
        BY <2>5, JobFacts
      <4> HIDE DEF new
      <4> QED BY <4>1, <4>2 DEF InFlight, Running
    <3> QED BY <1>4, <2>0, <3>1, <3>2, <3>3 DEF Receive, Skip
  <2>6. CASE t # job.task
    BY <1>2, <2>1, <2>2, <2>4, <2>6 DEF InFlight, DeadLettered
  <2> QED BY <2>5, <2>6
<1>5. ASSUME NEW w \in Workers, RejectToDlq(w) \/ RejectRecord(w)
      PROVE  InFlight(t)' \/ t \in executed' \/ DeadLettered(t)'
  <2>1. UNCHANGED <<queue, active, faults, submitted, executed>> /\ dlq \subseteq dlq'
    BY <1>1, <1>5 DEF RejectToDlq, RejectRecord, observers
  <2>2. \A v \in Workers : Held(v, t) => Held(v, t)' \/ DeadLettered(t)'
    <3>1. CASE RejectToDlq(w)
      BY <3>1 DEF RejectToDlq, Held
    <3>2. CASE RejectRecord(w)
      <4>1. held[w] \in dlq
        BY <3>2 DEF RejectRecord, Fates, Ends
      <4>2. Held(w, t) => DeadLettered(t)'
        BY <2>1, <4>1 DEF Held, DeadLettered
      <4>3. \A v \in Workers \ {w} : held'[v] = held[v]
        BY <1>0, <3>2 DEF RejectRecord
      <4> QED BY <4>2, <4>3 DEF Held
    <3> QED BY <1>5, <3>1, <3>2
  <2> QED BY <1>2, <2>1, <2>2 DEF InFlight, Queued, Running, DeadLettered
<1>6. ASSUME NEW w \in Workers, NEW e \in active[w], Coroutine(w, e)
      PROVE  InFlight(t)' \/ t \in executed' \/ DeadLettered(t)'
  <2>0. e \in Exec /\ e.job \in Job
    BY <1>0
  <2>1. /\ UNCHANGED <<held, faults, submitted>> /\ dlq \subseteq dlq' /\ executed \subseteq executed'
        /\ \A x : Queued(x) => Queued(x)'
    <3>1. /\ UNCHANGED <<held, faults, submitted>> /\ dlq \subseteq dlq' /\ executed \subseteq executed'
      BY <1>1, <1>6 DEF Coroutine, Succeed, Fail, Retry, DeadLetter, RecordFailure, queueVars, observers
    <3>2. queue' = queue \/ queue' = Append(queue, e.job)
      BY <1>6 DEF Coroutine, Succeed, Fail, Retry, DeadLetter, RecordFailure, queueVars
    <3>3. \A i \in DOMAIN queue : i \in DOMAIN queue' /\ queue'[i] = queue[i]
      BY <1>0, <2>0, <3>2
    <3> QED BY <3>1, <3>3 DEF Queued
  <2>2. \A v \in Workers : \A f \in active[v] : (v = w /\ f = e) \/ f \in active'[v]
    <3>1. \E s : active' = [active EXCEPT ![w] = (@ \ {e}) \cup s]
      <4>1. CASE Fail(w, e) \/ DeadLetter(w, e)
        BY <4>1 DEF Fail, DeadLetter
      <4>2. CASE Succeed(w, e) \/ Retry(w, e) \/ RecordFailure(w, e)
        <5>1. active' = [active EXCEPT ![w] = (@ \ {e}) \cup {}]
          BY <4>2 DEF Succeed, Retry, RecordFailure, Finish
        <5> QED BY <5>1
      <4> QED BY <1>6, <4>1, <4>2 DEF Coroutine
    <3> QED BY <1>0, <3>1
  <2>3. e.job.task = t => InFlight(t)' \/ t \in executed' \/ DeadLettered(t)'
    <3>1. CASE Succeed(w, e)
      BY <3>1 DEF Succeed
    <3>2. CASE Retry(w, e)
      <4>1. Len(queue) + 1 \in DOMAIN queue' /\ queue'[Len(queue) + 1] = e.job
        BY <1>0, <2>0, <3>2 DEF Retry
      <4> QED BY <4>1 DEF InFlight, Queued
    <3>3. CASE RecordFailure(w, e)
      <4>1. e.job \in dlq
        BY <3>3 DEF RecordFailure, Fates, Ends
      <4> QED BY <2>1, <4>1 DEF DeadLettered
    <3>4. CASE DeadLetter(w, e)
      BY <3>4 DEF DeadLetter, DeadLettered
    <3>5. CASE Fail(w, e)
      <4> DEFINE new == [e EXCEPT !.phase = AfterFailure(e.job)]
      <4>1. new \in active'[w]
        BY <1>0, <3>5 DEF Fail
      <4>2. new.job = e.job
        BY <2>0, ExecFacts, JobFacts
      <4> HIDE DEF new
      <4> QED BY <4>1, <4>2 DEF InFlight, Running
    <3> QED BY <1>6, <3>1, <3>2, <3>3, <3>4, <3>5 DEF Coroutine
  <2> QED BY <1>2, <2>1, <2>2, <2>3 DEF InFlight, Running, Held, DeadLettered
<1>7. ASSUME NEW w \in Workers,
             \/ Acquire(w) \/ ReceiveNothing(w) \/ Beat(w) \/ Shutdown(w) \/ Stop(w) \/ Restart(w)
      PROVE  InFlight(t)' \/ t \in executed' \/ DeadLettered(t)'
  <2>1. UNCHANGED <<queue, active, held, dlq, faults, submitted, executed>>
    BY <1>7 DEF Acquire, ReceiveNothing, Beat, Shutdown, Stop, Restart, queueVars, observers
  <2> QED BY <1>2, <2>1 DEF InFlight, Queued, Running, Held, DeadLettered
<1>8. \A w \in Workers : /\ ~ReceiveFails(w) /\ ~RejectAborts(w) /\ ~Crash(w)
                         /\ \A e \in active[w] : ~RouteFails(w, e)
  BY <1>1 DEF ReceiveFails, RejectAborts, Crash, RouteFails
<1>9. CASE UNCHANGED vars
  BY <1>2, <1>9 DEF vars, queueVars, workerVars, observers, InFlight, Queued, Running, Held, DeadLettered
<1> QED BY <1>3, <1>4, <1>5, <1>6, <1>7, <1>8, <1>9 DEF Next, Loop

LEMMA FatesHold == Spec => []Fates
<1>1. Inv /\ Inv' /\ Fates /\ [Next]_vars => Fates'
  BY NextEnds, NextKnown, NextKeyless DEF Fates
<1> QED BY Invariance, InitFates, <1>1, PTL DEF Spec

(* Dead-lettering is final: for every number of workers, retries and faults, a
   job on the dead-letter list used up its attempts or has no handler, its handler
   never returned, and nothing is left that would run it again (execute_task and
   the unknown-task branch of run_worker). *)
THEOREM DeadLettersAreFinal == Spec => []DeadLetterFinal
<1>1. Fates => DeadLetterFinal
  BY DEF Fates, Ends
<1> QED BY FatesHold, <1>1, PTL

(* Without a crash or a failed write, a submission without an explicit key is
   never lost, although coroutines remember the key of another message: a job id
   that a worker remembers is never that of a message still to come. *)
THEOREM KeylessSubmissionsAreNeverLost == Spec => []KeylessNeverLost
<1>1. Fates => KeylessNeverLost
  BY DEF Fates
<1> QED BY FatesHold, <1>1, PTL
=============================================================================
