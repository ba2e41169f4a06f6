---------------------------- MODULE ExperimentRun ----------------------------
(***************************************************************************)
(* Experiment runs and the CI runs that start them:                         *)
(* services/experiment.py, evaluations/experiment_runner.py,                *)
(* services/ci.py and their repositories, over the slots of one worker.     *)
(*                                                                          *)
(* The job of an experiment run creates two evaluation runs, which other    *)
(* jobs of the same worker execute, and polls them from inside its slot.    *)
(* A transaction that only reads before it writes is one step; where the    *)
(* code commits between, or writes back a row it loaded earlier, there are  *)
(* two.  Each run has its own experiment, which is how a CI call makes them.*)
(* The worker itself is TaskWorker: here a delivery either returns, is      *)
(* interrupted (retried, then dead-lettered) or dies with the process, and  *)
(* the messages wait in no particular order.                                *)
(***************************************************************************)
EXTENDS Integers, FiniteSets

CONSTANTS
    Runs,          \* experiment runs, one per experiment
    Scenarios,     \* bounds: which runs users start, which calls of create_ci_run
                   \* do, which users may cancel or delete, and how many faults
                   \* (crashes and unexpected exceptions) happen
    IdemKey,       \* [Runs -> idempotency keys]
    Slots,         \* worker_concurrency
    MaxAttempts    \* _max_retries

ASSUME ExperimentAssumption ==
    /\ Scenarios \subseteq [users : SUBSET Runs, calls : SUBSET Runs, cancels : SUBSET Runs,
                            deletes : SUBSET Runs, faults : Nat]
    /\ \A s \in Scenarios : s.users \cap s.calls = {}   \* a run has one request that starts it
    /\ Slots \in Nat \ {0} /\ MaxAttempts \in Nat \ {0}

VARIABLES
    scope,     \* the scenario of this behaviour
    run,       \* status of each experiment_runs row, and whether it refers to evals
    cancel,    \* the cancel_run request of each run, and what it read
    exp,       \* status of each experiments row
    job,       \* the delivery of each run's message and what it has read
    evals,     \* status of the evaluation_runs rows
    ci,        \* the ci_runs row of each CI call, and where the call is
    verdict,   \* observer: what the gates the caller asked for say of the results
    early,     \* observer: runs cancelled while no delivery had a stale copy
    expFaults  \* faults still to come

expVars == <<scope, run, cancel, exp, job, evals, ci, verdict, early, expFaults>>
-----------------------------------------------------------------------------
Terminal == {"COMPLETED", "FAILED", "CANCELLED"}
RunStatus == Terminal \cup {"absent", "QUEUED", "RUNNING", "DELETED"}
ExpStatus == Terminal \cup {"absent", "DRAFT", "QUEUED", "RUNNING", "INCONCLUSIVE"}
Gate == {"PASS", "FAIL", "INCONCLUSIVE"}

(* The evaluations created by the latest delivery of each run.  Those of an
   interrupted delivery still execute, but nothing reads them once the run
   refers to others, so they are left out. *)
Evaluations == Runs \X {"BASELINE", "CANDIDATE"}
Pair(r) == {e \in Evaluations : e[1] = r}

InSlot == {"loaded", "baseline", "candidate", "store", "poll", "decide"}
Executing == InSlot \ {"loaded"}
JobStage == InSlot \cup {"none", "unsent", "queued", "done", "dead", "lost"}
CIStage == {"none", "idle", "looked", "created", "inserted", "linked", "ended"}

Delivery(stage, n) == [stage |-> stage, attempt |-> n, seen |-> "absent", seenExp |-> "absent"]

RunRow == [status : RunStatus, pair : BOOLEAN]
CancelCall == [stage : {"idle", "open", "done"}, hits : SUBSET Evaluations]
JobRow == [stage : JobStage, attempt : 0 .. MaxAttempts, seen : RunStatus, seenExp : ExpStatus]
EvalStatus == Terminal \cup {"absent", "QUEUED", "RUNNING"}
CIRow == [stage : CIStage, status : {"none", "RUNNING", "COMPLETED", "FAILED"},
          outcome : {"none", "PASS", "FAIL"}]

ExperimentTypeOK ==
    /\ scope \in Scenarios
    /\ run \in [Runs -> RunRow] /\ cancel \in [Runs -> CancelCall]
    /\ exp \in [Runs -> ExpStatus] /\ job \in [Runs -> JobRow]
    /\ evals \in [Evaluations -> EvalStatus] /\ ci \in [Runs -> CIRow]
    /\ verdict \in [Runs -> Gate \cup {"none"}]
    /\ early \subseteq Runs
    /\ expFaults \in Nat

ExperimentInit ==
    /\ run = [r \in Runs |-> [status |-> "absent", pair |-> FALSE]]
    /\ cancel = [r \in Runs |-> [stage |-> "idle", hits |-> {}]]
    /\ exp = [r \in Runs |-> "absent"]
    /\ job = [r \in Runs |-> Delivery("none", 0)]
    /\ evals = [e \in Evaluations |-> "absent"]
    /\ scope \in Scenarios
    /\ ci = [r \in Runs |-> [stage |-> IF r \in scope.calls THEN "idle" ELSE "none",
                             status |-> "none", outcome |-> "none"]]
    /\ verdict = [r \in Runs |-> "none"]
    /\ early = {} /\ expFaults = scope.faults

ExpFault == expFaults > 0 /\ expFaults' = expFaults - 1

(* The ORM updates only the columns that differ from what it loaded. *)
Overwrite(seen, new, current) == IF seen = new THEN current ELSE new

FreeSlot == Cardinality({r \in Runs : job[r].stage \in InSlot}) < Slots

Stage(r, s) == job' = [job EXCEPT ![r].stage = s, ![r].seen = "absent", ![r].seenExp = "absent"]
-----------------------------------------------------------------------------
(* ExperimentService.create: experiment, variants, prompts and gates in one
   transaction.  The requests are valid ones. *)
CreateExperiment(r) ==
    /\ r \in scope.users /\ exp[r] = "absent" /\ run[r].status = "absent"
    /\ exp' = [exp EXCEPT ![r] = "DRAFT"]
    /\ UNCHANGED <<scope, cancel, run, job, evals, ci, verdict, early, expFaults>>

(* start_run commits a QUEUED run, whatever the experiment's status ... *)
StartedRun(r) ==
    /\ run[r].status = "absent"
    /\ run' = [run EXCEPT ![r].status = "QUEUED"]
    /\ exp' = [exp EXCEPT ![r] = "QUEUED"]
    /\ Stage(r, "unsent")

StartRun(r) ==
    /\ r \in scope.users /\ exp[r] = "DRAFT"
    /\ StartedRun(r)
    /\ UNCHANGED <<scope, cancel, evals, ci, verdict, early, expFaults>>

(* ... and enqueues its job afterwards; the process may die in between. *)
Send(r) ==
    /\ job[r].stage = "unsent"
    /\ job' = [job EXCEPT ![r].stage = "queued", ![r].attempt = 1]
    /\ UNCHANGED <<scope, cancel, run, exp, evals, ci, verdict, early, expFaults>>

SendLost(r) ==
    /\ job[r].stage = "unsent"
    /\ ExpFault
    /\ Stage(r, "lost")
    /\ ci' = [ci EXCEPT ![r].stage = IF @ = "inserted" THEN "ended" ELSE @]
    /\ UNCHANGED <<scope, cancel, run, exp, evals, verdict, early>>

(* cancel_run reads the run and the evaluations it knows, refuses a terminal
   run, and commits CANCELLED over whatever happened meanwhile. *)
CancelRead(r) ==
    /\ r \in scope.cancels /\ cancel[r].stage = "idle"
    /\ run[r].status \in {"QUEUED", "RUNNING"}
    /\ cancel' = [cancel EXCEPT ![r] =
                    [stage |-> "open",
                     hits |-> {e \in Pair(r) : run[r].pair /\ evals[e] \in {"QUEUED", "RUNNING"}}]]
    /\ UNCHANGED <<scope, run, exp, job, evals, ci, verdict, early, expFaults>>

CancelCommit(r) ==
    /\ cancel[r].stage = "open" /\ run[r].status # "DELETED"
    /\ cancel' = [cancel EXCEPT ![r].stage = "done"]
    /\ run' = [run EXCEPT ![r].status = "CANCELLED"]
    /\ exp' = [exp EXCEPT ![r] = "CANCELLED"]
    /\ evals' = [e \in Evaluations |-> IF e \in cancel[r].hits THEN "CANCELLED" ELSE evals[e]]
    /\ early' = IF job[r].stage \in {"loaded", "decide"} THEN early ELSE early \cup {r}
    /\ UNCHANGED <<scope, job, ci, verdict, expFaults>>

(* delete_experiment cascades to its runs; a CI run loses its reference *)
DeleteExperiment(r) ==
    /\ r \in scope.deletes /\ exp[r] # "absent"
    /\ exp' = [exp EXCEPT ![r] = "absent"]
    /\ run' = [run EXCEPT ![r].status = IF @ = "absent" THEN @ ELSE "DELETED"]
    /\ ci' = [ci EXCEPT ![r].stage = IF @ = "linked" THEN "ended" ELSE @]
    /\ UNCHANGED <<scope, cancel, job, evals, verdict, early, expFaults>>
-----------------------------------------------------------------------------
(* A delivery starts with recover_stale_experiments.  The time-out for stale
   heartbeats (600 s) is longer than a delivery may last (300 s), so only runs
   that no delivery has marked lately can be stale. *)
Stale(q) == run[q].status = "RUNNING" /\ job[q].stage \notin Executing

Recovered(dead) ==
    /\ run' = [q \in Runs |-> IF q \in dead THEN [run[q] EXCEPT !.status = "FAILED"] ELSE run[q]]
    /\ exp' = [q \in Runs |-> IF q \in dead THEN "FAILED" ELSE exp[q]]

(* Then ExperimentRunner.run loads the run; it skips a terminal or missing one. *)
Take(r) ==
    /\ job[r].stage = "queued" /\ FreeSlot
    /\ \E dead \in SUBSET {q \in Runs : Stale(q)} : Recovered(dead)
    /\ job' = [job EXCEPT ![r] =
                 IF run'[r].status \in {"QUEUED", "RUNNING"}
                 THEN [@ EXCEPT !.stage = "loaded", !.seen = run'[r].status, !.seenExp = exp'[r]]
                 ELSE Delivery("done", @.attempt)]
    /\ UNCHANGED <<scope, cancel, evals, ci, verdict, early, expFaults>>

Present(r, s) == job[r].stage = s /\ run[r].status # "DELETED"

MarkRunning(r) ==
    /\ Present(r, "loaded")
    /\ run' = [run EXCEPT ![r].status = Overwrite(job[r].seen, "RUNNING", @)]
    /\ exp' = [exp EXCEPT ![r] = Overwrite(job[r].seenExp, "RUNNING", @)]
    /\ Stage(r, "baseline")
    /\ UNCHANGED <<scope, cancel, evals, ci, verdict, early, expFaults>>

(* EvaluationService.create commits and queues each evaluation by itself ... *)
CreateBaseline(r) ==
    /\ Present(r, "baseline")
    /\ evals' = [evals EXCEPT ![<<r, "BASELINE">>] = "QUEUED", ![<<r, "CANDIDATE">>] = "absent"]
    /\ run' = [run EXCEPT ![r].pair = FALSE]
    /\ cancel' = [cancel EXCEPT ![r].hits = {}]
    /\ Stage(r, "candidate")
    /\ UNCHANGED <<scope, exp, ci, verdict, early, expFaults>>

CreateCandidate(r) ==
    /\ Present(r, "candidate")
    /\ evals' = [evals EXCEPT ![<<r, "CANDIDATE">>] = "QUEUED"]
    /\ Stage(r, "store")
    /\ UNCHANGED <<scope, run, cancel, exp, ci, verdict, early, expFaults>>

(* ... and only then does the run learn their ids. *)
StoreIds(r) ==
    /\ Present(r, "store")
    /\ run' = [run EXCEPT ![r].pair = TRUE]
    /\ Stage(r, "poll")
    /\ UNCHANGED <<scope, cancel, exp, evals, ci, verdict, early, expFaults>>

PairEnded(r) == \A e \in Pair(r) : evals[e] \in Terminal
OneEnded(r) == \E e \in Pair(r) : evals[e] \in Terminal
PairCompleted(r) == \A e \in Pair(r) : evals[e] = "COMPLETED"

(* One turn of the polling loop.  A turn that finds the evaluations unfinished
   only refreshes the heartbeats. *)
PollCancelled(r) ==
    /\ Present(r, "poll") /\ run[r].status = "CANCELLED"
    /\ Stage(r, "done")
    /\ UNCHANGED <<scope, cancel, run, exp, evals, ci, verdict, early, expFaults>>

PollBlindly(r) ==
    /\ Present(r, "poll") /\ PairCompleted(r)
    /\ job' = [job EXCEPT ![r].stage = "decide", ![r].seen = run[r].status,
                          ![r].seenExp = exp[r]]
    /\ UNCHANGED <<scope, cancel, run, exp, evals, ci, verdict, early, expFaults>>
PollEither(r) ==
    /\ Present(r, "poll") /\ run[r].status # "CANCELLED" /\ OneEnded(r)
    /\ job' = [job EXCEPT ![r].stage = "decide", ![r].seen = run[r].status,
                          ![r].seenExp = exp[r]]
    /\ UNCHANGED <<scope, cancel, run, exp, evals, ci, verdict, early, expFaults>>

(* both ended and completed: their results are compared, against a fresh copy
   of the run *)
PollCompleted(r) ==
    /\ Present(r, "poll") /\ run[r].status # "CANCELLED" /\ PairCompleted(r)
    /\ job' = [job EXCEPT ![r].stage = "decide", ![r].seen = run[r].status,
                          ![r].seenExp = exp[r]]
    /\ UNCHANGED <<scope, cancel, run, exp, evals, ci, verdict, early, expFaults>>

(* The CI run whose experiment_run_id is this run, if the call has stored it. *)
Resolve(r, status, outcome) ==
    ci' = [ci EXCEPT ![r] = IF @.stage = "linked"
                            THEN [@ EXCEPT !.status = status, !.outcome = outcome] ELSE @]

(* create_ci_run passes its gates to ExperimentCreate as "gates", a field the
   schema does not have, so the experiment of a CI run is stored without gates,
   and without gates the overall status is PASS. *)
StoredGates(r, gate) == IF r \in scope.calls THEN "PASS" ELSE gate

Finish(r) ==
    /\ Present(r, "decide")
    /\ run' = [run EXCEPT ![r].status = Overwrite(job[r].seen, "COMPLETED", @)]
    /\ \E gate \in Gate :
          /\ verdict' = [verdict EXCEPT ![r] = gate]
          /\ exp' = [exp EXCEPT ![r] = Overwrite(job[r].seenExp,
                        CASE StoredGates(r, gate) = "PASS" -> "COMPLETED"
                          [] StoredGates(r, gate) = "FAIL" -> "FAILED"
                          [] OTHER -> "INCONCLUSIVE", @)]
          /\ Resolve(r, "COMPLETED", IF StoredGates(r, gate) = "FAIL" THEN "FAIL" ELSE "PASS")
    /\ Stage(r, "done")
    /\ UNCHANGED <<scope, cancel, evals, early, expFaults>>

(* The except clause of run: no look at the status, and no exception for the
   worker to retry.  It runs when an evaluation did not complete, and on any
   unexpected error. *)
Fail(r) ==
    /\ job[r].stage \in Executing /\ run[r].status # "DELETED"
    /\ \/ /\ job[r].stage = "poll" /\ run[r].status # "CANCELLED"
          /\ PairEnded(r) /\ ~PairCompleted(r)
          /\ UNCHANGED expFaults
       \/ ExpFault
    /\ run' = [run EXCEPT ![r].status = "FAILED"]
    /\ exp' = [exp EXCEPT ![r] = "FAILED"]
    /\ Resolve(r, "FAILED", "FAIL")
    /\ Stage(r, "done")
    /\ UNCHANGED <<scope, cancel, evals, verdict, early>>

InterruptOutsidePolling(r) ==
    /\ job[r].stage \in InSlot \ {"poll"}
    /\ IF job[r].attempt < MaxAttempts
       THEN job' = [job EXCEPT ![r] = Delivery("queued", @.attempt + 1)]
       ELSE job' = [job EXCEPT ![r] = Delivery("dead", @.attempt)]
    /\ UNCHANGED <<scope, cancel, run, exp, evals, ci, verdict, early, expFaults>>
InterruptForever(r) ==
    /\ job[r].stage \in InSlot
    /\ job' = [job EXCEPT ![r] = Delivery("queued", @.attempt + 1)]
    /\ UNCHANGED <<scope, run, cancel, exp, evals, ci, verdict, early, expFaults>>

(* wait_for cancels the handler after worker_task_timeout_seconds, or an error
   escapes it (the row is gone): execute_task retries or dead-letters. *)
Interrupt(r) ==
    /\ job[r].stage \in InSlot
    /\ IF job[r].attempt < MaxAttempts
       THEN job' = [job EXCEPT ![r] = Delivery("queued", @.attempt + 1)]
       ELSE job' = [job EXCEPT ![r] = Delivery("dead", @.attempt)]
    /\ UNCHANGED <<scope, cancel, run, exp, evals, ci, verdict, early, expFaults>>
(* the process dies with everything in its slots *)
Crash ==
    /\ ExpFault
    /\ job' = [r \in Runs |-> IF job[r].stage \in InSlot THEN Delivery("lost", job[r].attempt)
                                                        ELSE job[r]]
    /\ UNCHANGED <<scope, run, cancel, exp, evals, ci, verdict, early>>
-----------------------------------------------------------------------------
(* The job of an evaluation, of which EvaluationRun is the model, is one step
   here: it takes a slot, and ends the evaluation, or dies with its process and
   leaves it RUNNING.  One that had loaded the row before it was cancelled
   ends it all the same. *)
Evaluate(e) ==
    /\ evals[e] \in {"QUEUED", "CANCELLED"} /\ FreeSlot
    /\ \/ \E status \in {"COMPLETED", "FAILED"} : evals' = [evals EXCEPT ![e] = status]
          /\ UNCHANGED expFaults
       \/ evals' = [evals EXCEPT ![e] = "RUNNING"] /\ ExpFault
    /\ UNCHANGED <<scope, run, cancel, exp, job, ci, verdict, early>>

(* recover_stale_runs, at the start of some evaluation job *)
RecoverEvaluation(e) ==
    /\ evals[e] = "RUNNING" /\ FreeSlot
    /\ evals' = [evals EXCEPT ![e] = "FAILED"]
    /\ UNCHANGED <<scope, run, cancel, exp, job, ci, verdict, early, expFaults>>
-----------------------------------------------------------------------------
(* create_ci_run: first the run with this idempotency key is looked up ... *)
KeyTaken(r) == \E q \in scope.calls : IdemKey[q] = IdemKey[r] /\ ci[q].status # "none"

LookUpKey(r) ==
    /\ ci[r].stage = "idle"
    /\ ci' = [ci EXCEPT ![r].stage = IF KeyTaken(r) THEN "ended" ELSE "looked"]
    /\ UNCHANGED <<scope, run, cancel, exp, job, evals, verdict, early, expFaults>>

(* ... then the experiment is created, in a transaction of its own ... *)
CreateCIExperiment(r) ==
    /\ ci[r].stage = "looked"
    /\ exp' = [exp EXCEPT ![r] = "DRAFT"]
    /\ ci' = [ci EXCEPT ![r].stage = "created"]
    /\ UNCHANGED <<scope, run, cancel, job, evals, verdict, early, expFaults>>

(* ... then the CI run is inserted under its unique key with start_run's run ... *)
InsertCIBlindly(r) ==
    /\ ci[r].stage = "created" /\ exp[r] = "DRAFT"
    /\ StartedRun(r)
    /\ ci' = [ci EXCEPT ![r].stage = "inserted", ![r].status = "RUNNING"]
    /\ UNCHANGED <<scope, cancel, evals, verdict, early, expFaults>>

InsertCI(r) ==
    /\ ci[r].stage = "created" /\ exp[r] = "DRAFT" /\ ~KeyTaken(r)
    /\ StartedRun(r)
    /\ ci' = [ci EXCEPT ![r].stage = "inserted", ![r].status = "RUNNING"]
    /\ UNCHANGED <<scope, cancel, evals, verdict, early, expFaults>>

(* (the key was taken, or the experiment deleted: the experiment of this call
   is left behind without a run) *)
InsertRefused(r) ==
    /\ ci[r].stage = "created" /\ (KeyTaken(r) \/ exp[r] # "DRAFT")
    /\ ci' = [ci EXCEPT ![r].stage = "ended"]
    /\ UNCHANGED <<scope, run, cancel, exp, job, evals, verdict, early, expFaults>>

(* ... and only after the job was queued does the CI run learn its run. *)
LinkRun(r) ==
    /\ ci[r].stage = "inserted" /\ job[r].stage # "unsent"
    /\ ci' = [ci EXCEPT ![r].stage = IF run[r].status = "DELETED" THEN "ended" ELSE "linked"]
    /\ UNCHANGED <<scope, run, cancel, exp, job, evals, verdict, early, expFaults>>
-----------------------------------------------------------------------------
Deliver(r) ==
    \/ Take(r) \/ MarkRunning(r)
    \/ CreateBaseline(r) \/ CreateCandidate(r) \/ StoreIds(r)
    \/ PollCancelled(r) \/ PollCompleted(r) \/ Finish(r) \/ Fail(r)

CICall(r) ==
    \/ LookUpKey(r) \/ CreateCIExperiment(r)
    \/ InsertCI(r) \/ InsertRefused(r) \/ LinkRun(r)

ExperimentNext ==
    \/ \E r \in Runs :
          \/ CreateExperiment(r) \/ StartRun(r) \/ Send(r) \/ SendLost(r)
          \/ CancelRead(r) \/ CancelCommit(r) \/ DeleteExperiment(r)
          \/ Deliver(r) \/ Interrupt(r) \/ CICall(r)
    \/ \E e \in Evaluations : Evaluate(e) \/ RecoverEvaluation(e)
    \/ Crash

ExperimentSpec == ExperimentInit /\ [][ExperimentNext]_expVars

(* A live worker takes a message when it has a slot and goes on with what it
   took, or wait_for ends that delivery.  No evaluation is obliged to end. *)
ExperimentFairness == \A r \in Runs : WF_expVars(Deliver(r) \/ Interrupt(r))

ExperimentFairSpec == ExperimentSpec /\ ExperimentFairness
-----------------------------------------------------------------------------
(* What a COMPLETED run compared is real: the two evaluations it refers to were
   queued by one delivery and both completed, unless a cancellation whose
   request read them earlier was committed afterwards (evaluations/
   experiment_runner.py:221-264, with retries that queue a second pair). *)
CompletedFromItsPair ==
    \A r \in Runs : run[r].status = "COMPLETED" =>
        /\ run[r].pair
        /\ \A e \in Pair(r) : evals[e] = "COMPLETED" \/ e \in cancel[r].hits

(* A cancellation sticks unless the job had read the run before: committed
   while no delivery holds a copy of the row (between loading and marking it, or
   between polling and deciding), neither a running delivery nor a retry nor the
   recovery completes the run or its experiment afterwards. *)
EarlyCancelSticks ==
    \A r \in early :
        /\ run[r].status \in {"CANCELLED", "FAILED", "DELETED"}
        /\ exp[r] \in {"CANCELLED", "FAILED", "absent"}

(* However the calls of create_ci_run interleave, one idempotency key has one
   CI run, and a CI run that reports PASS belongs to a run whose evaluations
   both completed. *)
CITruthful ==
    /\ \A q, r \in scope.calls :
          ci[q].status # "none" /\ ci[r].status # "none" /\ IdemKey[q] = IdemKey[r] => q = r
    /\ \A r \in scope.calls : ci[r].outcome = "PASS" =>
          verdict[r] # "none" /\ \A e \in Pair(r) :
              evals[e] = "COMPLETED" \/ e \in cancel[r].hits

(* Nobody waits for ever: even when every slot holds a job that polls for
   evaluations which need a slot themselves, the job of a run eventually
   returns, is dead-lettered or has died with its process. *)
JobsEnd ==
    \A r \in Runs : job[r].stage = "queued" ~> job[r].stage \in {"done", "dead", "lost"}

(* "exit code is non-zero when the quality gate fails" (docs/ARCHITECTURE/
   INTEGRATION_ARCHITECTURE.md:61): a CI run whose results violate the gates of
   its configuration is not reported as passed.  It does not hold: create_ci_run
   passes them under a name the experiment's schema does not have. *)
CIGateBlocks ==
    \A r \in scope.calls : verdict[r] = "FAIL" => ci[r].outcome # "PASS"
=============================================================================
