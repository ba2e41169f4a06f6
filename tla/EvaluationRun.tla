---------------------------- MODULE EvaluationRun ---------------------------
(***************************************************************************)
(* One evaluation run: services/evaluation.py creates, queues and cancels   *)
(* it, evaluations/runner.py executes it in worker jobs, and every worker   *)
(* loop recovers stale runs.  Creation queues one job and POST              *)
(* /evaluations/{id}/run queues another as long as the run is QUEUED, so    *)
(* several jobs may execute the same run at once.                           *)
(*                                                                          *)
(* A step is a database transaction, or one statement of the long           *)
(* transaction that persists results.  Sessions keep what they loaded       *)
(* (expire_on_commit is off) and an UPDATE writes only attributes that      *)
(* differ from it, with no check of the row's current value.  The database  *)
(* is PostgreSQL at READ COMMITTED: an INSERT that meets an uncommitted row *)
(* with its key waits for that transaction to end.                          *)
(***************************************************************************)
EXTENDS Integers, FiniteSets

CONSTANTS
    Jobs,         \* worker jobs that may be queued for the run
    Cases,        \* test cases of the frozen dataset version
    StopOnError,  \* execution.stop_on_error of the configuration
    MaxRetries,   \* worker_max_retries: deliveries of one job
    MaxFaults     \* bound on crashes of workers and of the API server

ASSUME EvaluationAssumption ==
    /\ IsFiniteSet(Jobs) /\ IsFiniteSet(Cases)
    /\ StopOnError \in BOOLEAN
    /\ MaxRetries \in Nat \ {0} /\ MaxFaults \in Nat

VARIABLES
    status,      \* evaluation_runs.status, "NONE" before the row exists
    heartbeat,   \* heartbeat_at: "NULL", "FRESH", or "STALE" past the time-out
    counts,      \* completed_tests and passed_tests
    results,     \* committed rows of evaluation_results
    api,         \* the create request: "new", "committed", "queued" or "lost"
    canceller,   \* a cancel request between its check and its commit
    recoverer,   \* a stale-run recovery between its query and its commit
    phase,       \* where each job is
    tries,       \* deliveries of each job so far
    seen,        \* run.status as loaded by the session of each job
    outcomes,    \* outcomes each job computed, by test case
    todo,        \* outcomes it has not tried to insert yet
    mine,        \* cases whose row it has inserted but not committed
    want,        \* the case whose INSERT is waiting for another job
    faults

row == <<status, heartbeat, counts, results>>
requests == <<api, canceller, recoverer>>
sessions == <<seen, outcomes, todo, mine, want>>
vars == <<row, requests, phase, tries, sessions, faults>>
-----------------------------------------------------------------------------
Terminal == {"COMPLETED", "FAILED", "CANCELLED"}
Status == {"NONE", "QUEUED", "RUNNING"} \cup Terminal
ResultStatus == {"PASS", "ERROR"}
Result == [case : Cases, job : Jobs, status : ResultStatus]
Outcomes == UNION {[S -> ResultStatus] : S \in SUBSET Cases}
NoCase == "NO_CASE"
NoOutcomes == [c \in {} |-> "PASS"]
InSession == {"loaded", "started", "persisting", "blocked", "failing"}
JobPhase == {"absent", "queued", "done", "dead", "lost"} \cup InSession

Committed == {r.case : r \in results}
Passed(f) == Cardinality({c \in DOMAIN f : f[c] = "PASS"})

TypeOK ==
    /\ status \in Status /\ heartbeat \in {"NULL", "FRESH", "STALE"}
    /\ counts \in [completed : 0 .. Cardinality(Cases), passed : 0 .. Cardinality(Cases)]
    /\ results \subseteq Result
    /\ api \in {"new", "committed", "queued", "lost"}
    /\ canceller \in {"idle", "checked"} /\ recoverer \in {"idle", "checked"}
    /\ phase \in [Jobs -> JobPhase] /\ tries \in [Jobs -> 0 .. MaxRetries]
    /\ seen \in [Jobs -> Status \cup {"EXPIRED"}]
    /\ outcomes \in [Jobs -> Outcomes]
    /\ todo \in [Jobs -> SUBSET Cases] /\ mine \in [Jobs -> SUBSET Cases]
    /\ want \in [Jobs -> Cases \cup {NoCase}]
    /\ faults \in 0 .. MaxFaults

Init ==
    /\ status = "NONE" /\ heartbeat = "NULL" /\ results = {}
    /\ counts = [completed |-> 0, passed |-> 0]
    /\ api = "new" /\ canceller = "idle" /\ recoverer = "idle"
    /\ phase = [j \in Jobs |-> "absent"] /\ tries = [j \in Jobs |-> 0]
    /\ seen = [j \in Jobs |-> "NONE"]
    /\ outcomes = [j \in Jobs |-> NoOutcomes]
    /\ todo = [j \in Jobs |-> {}] /\ mine = [j \in Jobs |-> {}]
    /\ want = [j \in Jobs |-> NoCase]
    /\ faults = 0

Fault == faults < MaxFaults /\ faults' = faults + 1
-----------------------------------------------------------------------------
(* EvaluationService.create: the row is committed first, the job is queued
   afterwards. *)
Create ==
    /\ api = "new"
    /\ api' = "committed" /\ status' = "QUEUED"
    /\ UNCHANGED <<heartbeat, counts, results, canceller, recoverer, phase, tries, sessions, faults>>

Queue(j) ==
    /\ phase[j] = "absent"
    /\ phase' = [phase EXCEPT ![j] = "queued"]
    /\ UNCHANGED <<row, canceller, recoverer, tries, sessions, faults>>

QueueCreated(j) == api = "committed" /\ api' = "queued" /\ Queue(j)

(* the server dies, or Redis refuses the message, between the two *)
QueueCreatedFails ==
    /\ api = "committed" /\ api' = "lost"
    /\ Fault
    /\ UNCHANGED <<row, canceller, recoverer, phase, tries, sessions>>

(* POST /evaluations/{id}/run *)
Start(j) == status = "QUEUED" /\ api # "committed" /\ Queue(j) /\ UNCHANGED api

(* cancel: the transition is validated against the status just read, the new
   status is committed later *)
CheckCancel ==
    /\ canceller = "idle" /\ status \in {"QUEUED", "RUNNING"}
    /\ canceller' = "checked"
    /\ UNCHANGED <<row, api, recoverer, phase, tries, sessions, faults>>

CommitCancel ==
    /\ canceller = "checked"
    /\ canceller' = "idle" /\ status' = "CANCELLED"
    /\ UNCHANGED <<heartbeat, counts, results, api, recoverer, phase, tries, sessions, faults>>

(* time passes: a heartbeat grows older than evaluation_stale_timeout_seconds *)
Age ==
    /\ heartbeat = "FRESH"
    /\ heartbeat' = "STALE"
    /\ UNCHANGED <<status, counts, results, requests, phase, tries, sessions, faults>>

(* recover_stale_runs: stale_runs compares heartbeat_at with the threshold,
   and NULL compares as unknown *)
Stale == status = "RUNNING" /\ heartbeat = "STALE"

CheckStale ==
    /\ recoverer = "idle" /\ Stale
    /\ recoverer' = "checked"
    /\ UNCHANGED <<row, api, canceller, phase, tries, sessions, faults>>

CommitStale ==
    /\ recoverer = "checked"
    /\ recoverer' = "idle" /\ status' = "FAILED"
    /\ UNCHANGED <<heartbeat, counts, results, api, canceller, phase, tries, sessions, faults>>
-----------------------------------------------------------------------------
(* The session of a job ends: uncommitted rows are gone, locals forgotten. *)
EndSession(j, p) ==
    /\ phase' = [phase EXCEPT ![j] = p]
    /\ seen' = [seen EXCEPT ![j] = "NONE"]
    /\ outcomes' = [outcomes EXCEPT ![j] = NoOutcomes]
    /\ todo' = [todo EXCEPT ![j] = {}]
    /\ mine' = [mine EXCEPT ![j] = {}]
    /\ want' = [want EXCEPT ![j] = NoCase]

RedeliveryOften(j) == IF tries[j] <= MaxRetries THEN "queued" ELSE "dead"

(* execute_task enqueues a failed job again until its attempts are used up *)
Redelivery(j) == IF tries[j] < MaxRetries THEN "queued" ELSE "dead"

LoadedPhaseOnce(s) == IF s = "QUEUED" THEN "loaded" ELSE "done"

LoadedPhaseUnchecked(s) == IF s = "QUEUED" THEN "loaded" ELSE "started"

(* run: a terminal run is left alone, a QUEUED one is marked RUNNING, and a
   RUNNING one (a retry or a second job) is executed as it is *)
LoadedPhase(s) == IF s \in Terminal THEN "done" ELSE IF s = "QUEUED" THEN "loaded" ELSE "started"

Load(j) ==
    /\ phase[j] = "queued"
    /\ tries' = [tries EXCEPT ![j] = @ + 1]
    /\ phase' = [phase EXCEPT ![j] = LoadedPhase(status)]
    /\ UNCHANGED <<row, requests, sessions, faults>>

MarkRunning(j) ==
    /\ phase[j] = "loaded"
    /\ status' = "RUNNING"
    /\ phase' = [phase EXCEPT ![j] = "started"]
    /\ UNCHANGED <<heartbeat, counts, results, requests, tries, sessions, faults>>

DropsCases(f) == DOMAIN f # {}

(* Which outcomes the model calls and evaluators may produce: one for every
   case, or fewer once an error stops the scheduling of further cases. *)
Produced(f) ==
    DOMAIN f = Cases \/ (StopOnError /\ \E c \in DOMAIN f : f[c] = "ERROR")

(* _execute refreshes the row, whose status it does not look at, and runs the
   test cases; or it raises before there is anything to persist *)
Execute(j) ==
    /\ phase[j] = "started"
    /\ seen' = [seen EXCEPT ![j] = status]
    /\ \/ \E f \in Outcomes :
             /\ Produced(f)
             /\ outcomes' = [outcomes EXCEPT ![j] = f]
             /\ todo' = [todo EXCEPT ![j] = DOMAIN f]
             /\ phase' = [phase EXCEPT ![j] = "persisting"]
       \/ phase' = [phase EXCEPT ![j] = "failing"] /\ UNCHANGED <<outcomes, todo>>
    /\ UNCHANGED <<row, requests, tries, mine, want, faults>>

Held(c) == \E k \in Jobs : c \in mine[k]

InsertAndCommit(j, c) ==
    /\ phase[j] = "persisting" /\ c \in todo[j]
    /\ todo' = [todo EXCEPT ![j] = @ \ {c}]
    /\ results' = IF c \in Committed THEN results
                  ELSE results \cup {[case |-> c, job |-> j, status |-> outcomes[j][c]]}
    /\ UNCHANGED <<status, heartbeat, counts, requests, phase, tries, seen, outcomes, mine, want, faults>>

InsertBlindly(j, c) ==
    /\ phase[j] = "persisting" /\ c \in todo[j]
    /\ todo' = [todo EXCEPT ![j] = @ \ {c}]
    /\ mine' = [mine EXCEPT ![j] = @ \cup {c}]
    /\ UNCHANGED <<row, requests, phase, tries, seen, outcomes, want, faults>>

(* create_result: skip a case that has a committed row, else INSERT, which
   waits while another transaction holds the key *)
Insert(j, c) ==
    /\ phase[j] = "persisting" /\ c \in todo[j]
    /\ todo' = [todo EXCEPT ![j] = @ \ {c}]
    /\ \/ c \in Committed /\ UNCHANGED <<phase, mine, want>>
       \/ /\ c \notin Committed /\ ~Held(c)
          /\ mine' = [mine EXCEPT ![j] = @ \cup {c}]
          /\ UNCHANGED <<phase, want>>
       \/ /\ c \notin Committed /\ Held(c)
          /\ phase' = [phase EXCEPT ![j] = "blocked"]
          /\ want' = [want EXCEPT ![j] = c]
          /\ UNCHANGED mine
    /\ UNCHANGED <<row, requests, tries, seen, outcomes, faults>>

(* The other transaction ended.  If it committed the row, the INSERT raises
   IntegrityError, and session.rollback() undoes everything this job inserted
   and expires what it loaded; if it rolled back, the INSERT goes through. *)
Unblock(j) ==
    /\ phase[j] = "blocked" /\ ~Held(want[j])
    /\ phase' = [phase EXCEPT ![j] = "persisting"]
    /\ want' = [want EXCEPT ![j] = NoCase]
    /\ \/ /\ want[j] \in Committed
          /\ mine' = [mine EXCEPT ![j] = {}]
          /\ seen' = [seen EXCEPT ![j] = "EXPIRED"]
       \/ /\ want[j] \notin Committed
          /\ mine' = [mine EXCEPT ![j] = @ \cup {want[j]}]
          /\ UNCHANGED seen
    /\ UNCHANGED <<row, requests, tries, outcomes, todo, faults>>

(* An UPDATE is emitted only when the attribute differs from what was loaded. *)
Overwrite(j, s) == status' = IF seen[j] = s THEN status ELSE s

Rows(j) == {[case |-> c, job |-> j, status |-> outcomes[j][c]] : c \in mine[j]}

Recorded(j) ==
    /\ counts' = [completed |-> Cardinality(DOMAIN outcomes[j]), passed |-> Passed(outcomes[j])]
    /\ heartbeat' = "FRESH"

(* The end of _execute: rows, counts, COMPLETED and heartbeat in one commit.
   The time-out of the task may strike while the worker awaits that commit. *)
Finish(j) ==
    /\ phase[j] = "persisting" /\ todo[j] = {}
    /\ results' = results \cup Rows(j)
    /\ Overwrite(j, "COMPLETED")
    /\ Recorded(j)
    /\ \E p \in {"done", Redelivery(j)} : EndSession(j, p)
    /\ UNCHANGED <<requests, tries, faults>>

(* The except clause of run commits FAILED, with whatever the session holds:
   nothing when the execution raised, all rows when computing the metrics or
   publishing the evidence did.  Reading created_by of an expired row raises
   again, which leaves run as an interrupt does. *)
FailEarly(j) ==
    /\ phase[j] = "failing"
    /\ Overwrite(j, "FAILED")
    /\ \E p \in {"done", Redelivery(j)} : EndSession(j, p)
    /\ UNCHANGED <<heartbeat, counts, results, requests, tries, faults>>

FailLate(j) ==
    /\ phase[j] = "persisting" /\ todo[j] = {} /\ seen[j] # "EXPIRED"
    /\ results' = results \cup Rows(j)
    /\ Overwrite(j, "FAILED")
    /\ Recorded(j) \/ UNCHANGED <<counts, heartbeat>>
    /\ \E p \in {"done", Redelivery(j)} : EndSession(j, p)
    /\ UNCHANGED <<requests, tries, faults>>

(* The time-out of wait_for cancels the job, or a database error (a deadlock
   victim among them) leaves run: nothing is committed, and the worker
   queues the job again or dead-letters it. *)
Interrupt(j) ==
    /\ phase[j] \in InSession
    /\ EndSession(j, Redelivery(j))
    /\ UNCHANGED <<row, requests, tries, faults>>

(* The worker process dies with the message it popped. *)
Crash(j) ==
    /\ phase[j] \in InSession
    /\ Fault
    /\ EndSession(j, "lost")
    /\ UNCHANGED <<row, requests, tries>>
-----------------------------------------------------------------------------
Run(j) ==
    \/ Load(j) \/ MarkRunning(j) \/ Execute(j)
    \/ (\E c \in Cases : Insert(j, c)) \/ Unblock(j)
    \/ Finish(j) \/ FailEarly(j) \/ FailLate(j)

Recovery == Age \/ CheckStale \/ CommitStale

Next ==
    \/ Create \/ (\E j \in Jobs : QueueCreated(j) \/ Start(j)) \/ QueueCreatedFails
    \/ CheckCancel \/ CommitCancel
    \/ Recovery
    \/ \E j \in Jobs : Run(j) \/ Interrupt(j) \/ Crash(j)

Spec == Init /\ [][Next]_vars

(* The API server finishes a request it began, the worker pool takes every
   queued job and bounds it by the task time-out, and the recovery runs in
   every iteration of every worker loop.  A job may be interrupted as long as
   it has tries left. *)
Fairness ==
    /\ WF_vars(\E j \in Jobs : QueueCreated(j)) /\ WF_vars(CommitCancel)
    /\ WF_vars(Recovery)
    /\ \A j \in Jobs : WF_vars(Run(j)) /\ WF_vars(phase[j] = "blocked" /\ Interrupt(j))

FairSpec == Spec /\ Fairness
-----------------------------------------------------------------------------
(* However many jobs execute a run, retry and roll each other back, no test
   case has two result rows (create_result and uq_evaluation_run_case). *)
OneResultPerCase == \A r, s \in results : r.case = s.case => r = s

(* A COMPLETED run has a result for every test case, or an error that stopped
   it: a job that loses the race for the unique key, and with it what it had
   inserted, relies on rows another job has committed. *)
CompletedIsComplete ==
    status = "COMPLETED" =>
        Committed = Cases \/ (StopOnError /\ \E r \in results : r.status = "ERROR")

(* at most one job has been delivered so far *)
Sole == \A j, k \in Jobs : tries[j] > 0 /\ tries[k] > 0 => j = k

(* The counters shown for a finished run agree with its rows as long as only
   one job executed it, through retries, cancellations and recoveries. *)
CountsMatchRows ==
    status = "COMPLETED" /\ Sole =>
        /\ counts.completed = Cardinality(results)
        /\ counts.passed = Cardinality({r \in results : r.status = "PASS"})

Idle == recoverer = "idle" /\ \A j \in Jobs : phase[j] \notin InSession

(* A run cancelled before any job has begun with it is never executed: it
   stays cancelled, gets no results and starts no session, whatever is still
   queued for it. *)
CancelledBeforeStart ==
    [][status = "CANCELLED" /\ Idle =>
          status' = "CANCELLED" /\ results' = results /\ Idle']_vars

(* Two jobs never both hold an uncommitted row for the same case, so a blocked
   INSERT waits for exactly one transaction. *)
ExclusiveInserts ==
    \A j, k \in Jobs : j # k => mine[j] \cap mine[k] = {} /\ mine[j] \cap Committed = {}

(* With fair scheduling every queued run ends, unless a job of it was
   dead-lettered after its last try or lost in a crash. *)
EndsUnlessJobLost ==
    api = "queued" ~> status \in Terminal \/ \E j \in Jobs : phase[j] \in {"dead", "lost"}

(* While a single job executes the run, through all its deliveries, every step
   is one the readers' contract allows; and only a job that loaded the run before
   a cancellation, whatever the number of jobs, moves it on from there. *)
Contract == INSTANCE EvaluationContract WITH
    covered <- Committed,
    Publishable <- {Cases} \cup (IF StopOnError THEN (SUBSET Cases) \ {{}} ELSE {})
ImplementsContract ==
    /\ Contract!ContractInit
    /\ [][Sole' => Contract!ContractNext \/ UNCHANGED <<status, Committed>>]_vars
    /\ CancelledBeforeStart

(* evaluations/state.py: "COMPLETED": set(), "FAILED": set(),
   "CANCELLED": set() -- no transition leaves a terminal status. *)
TerminalIsFinal == [][(status \in Terminal) => UNCHANGED status]_vars

(* "A crashed run is never left permanently RUNNING: stale-run recovery is
   provided by recover_stale_runs" *)
NeverStuckRunning == status = "RUNNING" ~> status # "RUNNING"
=============================================================================
