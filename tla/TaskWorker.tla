----------------------------- MODULE TaskWorker -----------------------------
(***************************************************************************)
(* The background worker: apps/api/app/workers/worker.py over the queue of  *)
(* apps/api/app/workers/queue.py.  API handlers append task messages to one *)
(* shared list; every worker process runs a loop that takes a permit of its *)
(* semaphore, pops a message, skips it when its idempotency key is already  *)
(* in the process-local set, and otherwise spawns a coroutine that runs the *)
(* handler, retries it with back-off or dead-letters it, and gives the      *)
(* permit back.                                                             *)
(*                                                                          *)
(* A step is what one coroutine does between two awaits.  A message is the  *)
(* submission it carries and the attempts already made: every enqueue draws *)
(* a fresh job id, and a submission is enqueued once per attempt, so the    *)
(* pair stands for the job id.                                              *)
(***************************************************************************)
EXTENDS Integers, Sequences, FiniteSets

CONSTANTS
    Tasks,         \* submissions made by the API handlers
    Workers,       \* worker processes
    Keys,          \* explicit "idempotency_key" values a payload may carry
    NoKey,         \* a payload without one
    KeyOf,         \* [Tasks -> Keys \cup {NoKey}]
    Unknown,       \* submissions whose task name is not in TASK_REGISTRY
    Slots,         \* worker_concurrency
    MaxRetries,    \* _max_retries
    ProcessedCap,  \* size at which the processed set is cleared (10000)
    MaxFaults      \* bound on crashes and Redis or database errors

ASSUME TaskWorkerAssumption ==
    /\ KeyOf \in [Tasks -> Keys \cup {NoKey}]
    /\ Unknown \subseteq Tasks
    /\ Slots \in Nat \ {0}
    /\ MaxRetries \in Nat \ {0}
    /\ ProcessedCap \in Nat
    /\ MaxFaults \in Nat
    /\ NoKey \notin Keys \cup Tasks
    /\ (Keys \cup {NoKey}) \cap [task : Tasks, attempts : 0 .. MaxRetries] = {}  \* no key is a job id, a fresh uuid

VARIABLES
    queue,      \* the Redis list, head first
    dlq,        \* the dead-letter list, as a set of jobs
    failures,   \* rows of task_failures, as a set of jobs
    pc,         \* where the main loop of each worker is
    held,       \* the unknown job the main loop is rejecting
    permits,    \* free permits of the worker's semaphore
    active,     \* the coroutines each worker has spawned
    cell,       \* idempotency_key of run_worker, shared by all its coroutines
    processed,  \* processed_jobs of each worker process
    heartbeat,  \* status of the worker's heartbeat row
    faults,     \* faults so far
    submitted,  \* observer: submissions made
    executed,   \* observer: submissions whose handler returned
    starts      \* observer: how often each submission's handler was started

queueVars == <<queue, dlq, failures>>
workerVars == <<pc, held, permits, active, cell, processed, heartbeat>>
observers == <<submitted, executed, starts>>
vars == <<queueVars, workerVars, faults, observers>>
-----------------------------------------------------------------------------
Job == [task : Tasks, attempts : 0 .. MaxRetries]
NoJob == [task |-> NoKey, attempts |-> 0]
Phase == {"running", "backoff", "deadletter", "record"}
Exec == [job : Job, phase : Phase]
LoopPc == {"acquire", "receive", "reject", "rejectRecord", "draining", "stopped"}

SubmissionKey(job) == IF KeyOf[job.task] = NoKey THEN [job EXCEPT !.attempts = 0] ELSE KeyOf[job.task]

(* payload.get("idempotency_key") or job_id *)
IdempotencyKey(job) == IF KeyOf[job.task] = NoKey THEN job ELSE KeyOf[job.task]

TypeOK ==
    /\ queue \in Seq(Job)
    /\ dlq \subseteq Job /\ failures \subseteq Job
    /\ pc \in [Workers -> LoopPc]
    /\ held \in [Workers -> Job \cup {NoJob}]
    /\ permits \in [Workers -> 0 .. Slots]
    /\ active \in [Workers -> SUBSET Exec]
    /\ cell \in [Workers -> Keys \cup Job \cup {NoKey}]
    /\ processed \in [Workers -> SUBSET (Keys \cup Job \cup {NoKey})]
    /\ heartbeat \in [Workers -> {"NONE", "ACTIVE", "STOPPED"}]
    /\ faults \in 0 .. MaxFaults
    /\ submitted \subseteq Tasks /\ executed \subseteq Tasks
    /\ starts \in [Tasks -> Nat]

(* blpop removes the message before the handler sees it *)
Peeked == queue
Popped == Tail(queue)

(* pload["_attempts"] = pload.get("_attempts", 0) + 1 *)
Uncounted(job) == job
Attempt(job) == [job EXCEPT !.attempts = @ + 1]

(* attempts < max_retries: back off and retry, else route to the DLQ *)
EarlyDeadLetter(job) == IF job.attempts < MaxRetries - 1 THEN "backoff" ELSE "deadletter"
AfterFailure(job) == IF job.attempts < MaxRetries THEN "backoff" ELSE "deadletter"

Init ==
    /\ queue = <<>> /\ dlq = {} /\ failures = {}
    /\ pc = [w \in Workers |-> "acquire"]
    /\ held = [w \in Workers |-> NoJob]
    /\ permits = [w \in Workers |-> Slots]
    /\ active = [w \in Workers |-> {}]
    /\ cell = [w \in Workers |-> NoKey]
    /\ processed = [w \in Workers |-> {}]
    /\ heartbeat = [w \in Workers |-> "NONE"]
    /\ faults = 0
    /\ submitted = {} /\ executed = {}
    /\ starts = [t \in Tasks |-> 0]
-----------------------------------------------------------------------------
Fault == faults < MaxFaults /\ faults' = faults + 1

(* enqueue: a service appends the message of a new submission. *)
Enqueue(t) ==
    /\ t \notin submitted
    /\ submitted' = submitted \cup {t}
    /\ queue' = Append(queue, [task |-> t, attempts |-> 0])
    /\ UNCHANGED <<dlq, failures, workerVars, faults, executed, starts>>

(* await sem.acquire() at the head of the loop *)
Acquire(w) ==
    /\ pc[w] = "acquire" /\ permits[w] > 0
    /\ permits' = [permits EXCEPT ![w] = @ - 1]
    /\ pc' = [pc EXCEPT ![w] = "receive"]
    /\ UNCHANGED <<queueVars, held, active, cell, processed, heartbeat, faults, observers>>

(* dequeue returned None after its time-out, so the permit goes back *)
ReceiveNothing(w) ==
    /\ pc[w] = "receive" /\ queue = <<>>
    /\ permits' = [permits EXCEPT ![w] = @ + 1]
    /\ pc' = [pc EXCEPT ![w] = "acquire"]
    /\ UNCHANGED <<queueVars, held, active, cell, processed, heartbeat, faults, observers>>

(* dequeue raised: the loop releases the permit, sleeps and goes on *)
ReceiveFails(w) ==
    /\ pc[w] = "receive"
    /\ Fault
    /\ permits' = [permits EXCEPT ![w] = @ + 1]
    /\ pc' = [pc EXCEPT ![w] = "acquire"]
    /\ UNCHANGED <<queueVars, held, active, cell, processed, heartbeat, observers>>

(* The three things the loop does with a message it received: skip one whose
   key is processed, set aside an unknown task, or spawn a coroutine. *)
Skip(w, job) ==
    /\ IdempotencyKey(job) \in processed[w]
    /\ permits' = [permits EXCEPT ![w] = @ + 1]
    /\ pc' = [pc EXCEPT ![w] = "acquire"]
    /\ UNCHANGED <<held, active, starts>>

SetAside(w, job) ==
    /\ IdempotencyKey(job) \notin processed[w]
    /\ job.task \in Unknown
    /\ held' = [held EXCEPT ![w] = job]
    /\ pc' = [pc EXCEPT ![w] = "reject"]
    /\ UNCHANGED <<permits, active, starts>>

Spawn(w, job) ==
    /\ IdempotencyKey(job) \notin processed[w]
    /\ job.task \notin Unknown
    /\ active' = [active EXCEPT ![w] = @ \cup {[job |-> Attempt(job), phase |-> "running"]}]
    /\ starts' = [starts EXCEPT ![job.task] = @ + 1]
    /\ pc' = [pc EXCEPT ![w] = "acquire"]
    /\ UNCHANGED <<held, permits>>

(* dequeue returned a message, and idempotency_key is rebound to its key *)
Receive(w) ==
    /\ pc[w] = "receive" /\ queue # <<>>
    /\ queue' = Popped
    /\ cell' = [cell EXCEPT ![w] = IdempotencyKey(Head(queue))]
    /\ Skip(w, Head(queue)) \/ SetAside(w, Head(queue)) \/ Spawn(w, Head(queue))
    /\ UNCHANGED <<dlq, failures, processed, heartbeat, faults, submitted, executed>>

(* an unknown task: enqueue_dlq, then _record_task_failure, then release *)
RejectToDlq(w) ==
    /\ pc[w] = "reject"
    /\ dlq' = dlq \cup {held[w]}
    /\ pc' = [pc EXCEPT ![w] = "rejectRecord"]
    /\ UNCHANGED <<queue, failures, held, permits, active, cell, processed, heartbeat,
                   faults, observers>>

RejectRecord(w) ==
    /\ pc[w] = "rejectRecord"
    /\ \/ failures' = failures \cup {held[w]} /\ UNCHANGED faults
       \/ Fault /\ UNCHANGED failures        \* the error is only logged
    /\ held' = [held EXCEPT ![w] = NoJob]
    /\ permits' = [permits EXCEPT ![w] = @ + 1]
    /\ pc' = [pc EXCEPT ![w] = "acquire"]
    /\ UNCHANGED <<queue, dlq, active, cell, processed, heartbeat, observers>>

(* enqueue_dlq raised, or the loop was cancelled while it awaited it: nothing
   catches it, so the loop ends and the job it held is gone. *)
RejectAborts(w) ==
    /\ pc[w] \in {"reject", "rejectRecord"}
    /\ Fault
    /\ held' = [held EXCEPT ![w] = NoJob]
    /\ pc' = [pc EXCEPT ![w] = "draining"]
    /\ UNCHANGED <<queueVars, permits, active, cell, processed, heartbeat, observers>>
-----------------------------------------------------------------------------
FinishKeepsPermit(w, e) ==
    /\ active' = [active EXCEPT ![w] = @ \ {e}]
    /\ UNCHANGED permits
FinishTwice(w, e) ==
    /\ active' = [active EXCEPT ![w] = @ \ {e}]
    /\ permits' = [permits EXCEPT ![w] = @ + 2]

(* A coroutine ends: its permit is released by the finally clause. *)
Finish(w, e) ==
    /\ active' = [active EXCEPT ![w] = @ \ {e}]
    /\ permits' = [permits EXCEPT ![w] = @ + 1]

(* processed_jobs.add(idempotency_key): the name is looked up when the
   coroutine runs, so it is the key of the message received last. *)
Remember(w) == processed[w] \cup {cell[w]}

Succeed(w, e) ==
    /\ e.phase = "running"
    /\ processed' = [processed EXCEPT ![w] =
                        IF Cardinality(Remember(w)) > ProcessedCap THEN {} ELSE Remember(w)]
    /\ executed' = executed \cup {e.job.task}
    /\ Finish(w, e)
    /\ UNCHANGED <<queueVars, pc, held, cell, heartbeat, faults, submitted, starts>>

(* the handler raised or ran into the time-out of wait_for *)
Fail(w, e) ==
    /\ e.phase = "running"
    /\ active' = [active EXCEPT ![w] = (@ \ {e}) \cup {[e EXCEPT !.phase = AfterFailure(e.job)]}]
    /\ UNCHANGED <<queueVars, pc, held, permits, cell, processed, heartbeat, faults, observers>>

(* after the back-off the payload, with its attempts, is enqueued again *)
Retry(w, e) ==
    /\ e.phase = "backoff"
    /\ queue' = Append(queue, e.job)
    /\ Finish(w, e)
    /\ UNCHANGED <<dlq, failures, pc, held, cell, processed, heartbeat, faults, observers>>

DeadLetter(w, e) ==
    /\ e.phase = "deadletter"
    /\ dlq' = dlq \cup {e.job}
    /\ active' = [active EXCEPT ![w] = (@ \ {e}) \cup {[e EXCEPT !.phase = "record"]}]
    /\ UNCHANGED <<queue, failures, pc, held, permits, cell, processed, heartbeat, faults,
                   observers>>

RecordFailure(w, e) ==
    /\ e.phase = "record"
    /\ \/ failures' = failures \cup {e.job} /\ UNCHANGED faults
       \/ Fault /\ UNCHANGED failures        \* the error is only logged
    /\ Finish(w, e)
    /\ UNCHANGED <<queue, dlq, pc, held, cell, processed, heartbeat, observers>>

(* enqueue or enqueue_dlq raised inside the except clause: the coroutine ends
   with that exception, which nobody reads. *)
RouteFails(w, e) ==
    /\ e.phase \in {"backoff", "deadletter"}
    /\ Fault
    /\ Finish(w, e)
    /\ UNCHANGED <<queueVars, pc, held, cell, processed, heartbeat, observers>>
-----------------------------------------------------------------------------
(* the heartbeat coroutine, cancelled before the loop drains its tasks *)
Beat(w) ==
    /\ pc[w] \notin {"draining", "stopped"} /\ heartbeat[w] # "ACTIVE"
    /\ heartbeat' = [heartbeat EXCEPT ![w] = "ACTIVE"]
    /\ UNCHANGED <<queueVars, pc, held, permits, active, cell, processed, faults, observers>>

(* the loop is cancelled while it waits for a permit or a message *)
Shutdown(w) ==
    /\ pc[w] \in {"acquire", "receive"}
    /\ pc' = [pc EXCEPT ![w] = "draining"]
    /\ UNCHANGED <<queueVars, held, permits, active, cell, processed, heartbeat, faults,
                   observers>>

StopWithoutGather(w) ==
    /\ pc[w] = "draining"
    /\ pc' = [pc EXCEPT ![w] = "stopped"]
    /\ heartbeat' = [heartbeat EXCEPT ![w] = "STOPPED"]
    /\ UNCHANGED <<queueVars, held, permits, active, cell, processed, faults, observers>>

(* gather over the active tasks returned; the STOPPED heartbeat is the last write *)
Stop(w) ==
    /\ pc[w] = "draining" /\ active[w] = {}
    /\ pc' = [pc EXCEPT ![w] = "stopped"]
    /\ heartbeat' = [heartbeat EXCEPT ![w] = "STOPPED"]
    /\ UNCHANGED <<queueVars, held, permits, active, cell, processed, faults, observers>>

(* the process dies: what it popped and its processed set die with it *)
Crash(w) ==
    /\ pc[w] # "stopped"
    /\ Fault
    /\ pc' = [pc EXCEPT ![w] = "stopped"]
    /\ held' = [held EXCEPT ![w] = NoJob]
    /\ active' = [active EXCEPT ![w] = {}]
    /\ processed' = [processed EXCEPT ![w] = {}]
    /\ UNCHANGED <<queueVars, permits, cell, heartbeat, observers>>

(* a new process in its place: fresh semaphore, set and heartbeat row *)
Restart(w) ==
    /\ pc[w] = "stopped"
    /\ pc' = [pc EXCEPT ![w] = "acquire"]
    /\ permits' = [permits EXCEPT ![w] = Slots]
    /\ cell' = [cell EXCEPT ![w] = NoKey]
    /\ processed' = [processed EXCEPT ![w] = {}]
    /\ heartbeat' = [heartbeat EXCEPT ![w] = "NONE"]
    /\ UNCHANGED <<queueVars, held, active, faults, observers>>
-----------------------------------------------------------------------------
Loop(w) ==
    \/ Acquire(w) \/ ReceiveNothing(w) \/ Receive(w)
    \/ RejectToDlq(w) \/ RejectRecord(w)

Coroutine(w, e) ==
    \/ Succeed(w, e) \/ Fail(w, e) \/ Retry(w, e)
    \/ DeadLetter(w, e) \/ RecordFailure(w, e)

Next ==
    \/ \E t \in Tasks : Enqueue(t)
    \/ \E w \in Workers :
          \/ Loop(w) \/ ReceiveFails(w) \/ RejectAborts(w)
          \/ \E e \in active[w] : Coroutine(w, e) \/ RouteFails(w, e)
          \/ Beat(w) \/ Shutdown(w) \/ Stop(w) \/ Crash(w) \/ Restart(w)

Spec == Init /\ [][Next]_vars

(* The event loop of a live process keeps scheduling its main loop and its
   coroutines, wait_for bounds every handler, and the process supervisor
   restarts a stopped worker.  Nobody is obliged to submit, fail or shut down. *)
Fairness ==
    \A w \in Workers :
        /\ WF_vars(Loop(w))
        /\ WF_vars(\E e \in active[w] : Coroutine(w, e))
        /\ WF_vars(Stop(w)) /\ WF_vars(Restart(w))

FairSpec == Spec /\ Fairness
-----------------------------------------------------------------------------
Queued(t) == \E i \in DOMAIN queue : queue[i].task = t
Running(w, t) == \E e \in active[w] : e.job.task = t
Held(w, t) == held[w].task = t
InFlight(t) == Queued(t) \/ \E w \in Workers : Running(w, t) \/ Held(w, t)
DeadLettered(t) == \E job \in dlq : job.task = t
SameKey(t, u) == t = u \/ (KeyOf[t] # NoKey /\ KeyOf[t] = KeyOf[u])

(* Permits are neither leaked nor released twice: as long as the main loop of
   a worker runs, its free permits, its coroutines and the permit the loop
   itself holds add up to worker_concurrency (the release calls of run_worker
   and of the finally clause of execute_task). *)
PermitConservation ==
    \A w \in Workers : pc[w] \notin {"draining", "stopped"} =>
        permits[w] + Cardinality(active[w])
            + (IF pc[w] = "acquire" THEN 0 ELSE 1) = Slots

(* A submission is never in two places: whatever retries, crashes and
   outages happen, there is one message or one coroutine for it, so its handler
   never runs twice at the same time. *)
SinglePlace ==
    \A t \in Tasks :
        /\ \A i, j \in DOMAIN queue : queue[i].task = t /\ queue[j].task = t => i = j
        /\ \A w \in Workers : Running(w, t) \/ Held(w, t) => ~Queued(t)
        /\ \A w \in Workers : ~(Running(w, t) /\ Held(w, t))
        /\ \A w, v \in Workers : w # v =>
              ~((Running(w, t) \/ Held(w, t)) /\ (Running(v, t) \/ Held(v, t)))
        /\ \A w \in Workers : \A e, f \in active[w] :
              e.job.task = t /\ f.job.task = t => e = f

(* Retries never exceed the budget carried in the payload: the handler of a
   submission is started at most _max_retries times, over all workers, crashes
   and re-enqueues. *)
AttemptBudget == \A t \in Tasks : starts[t] <= MaxRetries

(* Dead-lettering is final and justified: a job on the dead-letter list used
   up its attempts or has no handler, its handler never returned, and no message
   or coroutine is left that would run it again. *)
DeadLetterFinal ==
    \A job \in dlq :
        /\ job.task \in Unknown \/ (job.attempts = MaxRetries /\ starts[job.task] = MaxRetries)
        /\ job.task \notin executed
        /\ ~Queued(job.task)
        /\ \A w \in Workers : \A e \in active[w] : e.job.task = job.task => e.phase = "record"

(* Only a fault loses work: until a process crashes or a write to Redis or the
   database fails, a submission without an explicit idempotency key is waiting,
   running, executed or dead-lettered, in spite of the shared key variable. *)
KeylessNeverLost ==
    faults = 0 =>
        \A t \in submitted : KeyOf[t] = NoKey =>
            InFlight(t) \/ t \in executed \/ DeadLettered(t)

(* The STOPPED heartbeat is truthful: it is written after the last coroutine
   of the worker has ended, so no handler runs on a worker reported stopped. *)
StoppedMeansIdle ==
    \A w \in Workers : heartbeat[w] = "STOPPED" => pc[w] = "stopped" /\ active[w] = {}

(* Without faults every submission without a key is eventually executed or
   dead-lettered, whatever handlers fail and time out, provided the workers are
   not shut down over and over again. *)
EventuallySettled ==
    <>[](\A w \in Workers : pc[w] \notin {"draining", "stopped"}) =>
        \A t \in Tasks : KeyOf[t] = NoKey =>
            (t \in submitted ~> t \in executed \/ DeadLettered(t))

(* "Dead-letter failure logging to task_failures ensuring zero silent task
   loss": without faults a submission is in flight, dead-lettered, or it or a
   submission with its key was executed. *)
NoSilentTaskLoss ==
    faults = 0 =>
        \A t \in submitted :
            InFlight(t) \/ DeadLettered(t) \/ \E u \in executed : SameKey(t, u)
=============================================================================
