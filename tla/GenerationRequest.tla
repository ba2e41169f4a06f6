-------------------------- MODULE GenerationRequest -------------------------
(***************************************************************************)
(* One test-generation request: services/generation.py creates, queues and  *)
(* cancels it, generation/runner.py executes it in a worker job, and every  *)
(* worker loop recovers requests whose heartbeat is stale.  Unlike an       *)
(* evaluation run it has a single job, delivered up to MaxRetries times, and *)
(* every change of status touches its heartbeat.                            *)
(*                                                                          *)
(* A step is a database transaction or the work between two of them.  The   *)
(* session of a delivery keeps the row as it loaded it; the runner never    *)
(* reads it again before it overwrites the status.                          *)
(***************************************************************************)
EXTENDS Integers, FiniteSets

CONSTANTS
    Fingerprints,  \* contents of candidates, up to normalisation
    MaxItems,      \* bound on the valid candidates a provider returns
    MaxRetries,    \* worker_max_retries: deliveries of the job
    MaxFaults      \* bound on crashes of the worker and of the API server

ASSUME GenerationAssumption ==
    /\ MaxItems \in Nat /\ MaxRetries \in Nat \ {0} /\ MaxFaults \in Nat

VARIABLES
    requestStatus,  \* generation_requests.status, "NONE" before the row exists
    heartbeat,   \* heartbeat_at: "NULL", "FRESH", or "STALE" past the time-out
    candidates,  \* committed rows of generation_candidates
    api,         \* the create request: "new", "committed", "queued" or "lost"
    canceller,   \* a cancel request between its check and its commit
    recoverer,   \* a stale recovery between its query and its commit
    job,         \* where the job is
    tries,       \* deliveries so far
    items,       \* fingerprints of the valid candidates, in their order
    faults

row == <<requestStatus, heartbeat, candidates>>
requests == <<api, canceller, recoverer>>
requestVars == <<row, requests, job, tries, items, faults>>
-----------------------------------------------------------------------------
Terminal == {"COMPLETED", "FAILED", "CANCELLED"}
Status == {"NONE", "QUEUED", "RUNNING"} \cup Terminal
InSession == {"loaded", "started", "persisting", "failing"}
JobPhase == {"absent", "queued", "done", "dead", "lost"} \cup InSession
Items == UNION {[1 .. n -> Fingerprints] : n \in 0 .. MaxItems}
NoItems == [k \in {} |-> 0]
Candidate == [delivery : 1 .. MaxRetries, index : 1 .. MaxItems,
              fingerprint : Fingerprints, duplicateOf : 0 .. MaxItems]

RequestTypeOK ==
    /\ requestStatus \in Status /\ heartbeat \in {"NULL", "FRESH", "STALE"}
    /\ candidates \subseteq Candidate
    /\ api \in {"new", "committed", "queued", "lost"}
    /\ canceller \in {"idle", "checked"} /\ recoverer \in {"idle", "checked"}
    /\ job \in JobPhase /\ tries \in 0 .. MaxRetries
    /\ items \in Items \cup {NoItems}
    /\ faults \in 0 .. MaxFaults

RequestInit ==
    /\ requestStatus = "NONE" /\ heartbeat = "NULL" /\ candidates = {}
    /\ api = "new" /\ canceller = "idle" /\ recoverer = "idle"
    /\ job = "absent" /\ tries = 0 /\ items = NoItems
    /\ faults = 0

Fault == faults < MaxFaults /\ faults' = faults + 1

(* set_status touches the heartbeat whatever the status *)
SetRequestStatusOnly(s) == requestStatus' = s /\ UNCHANGED heartbeat
SetRequestStatus(s) == requestStatus' = s /\ heartbeat' = "FRESH"
-----------------------------------------------------------------------------
(* GenerationService.create: commit, then enqueue *)
Create ==
    /\ api = "new"
    /\ api' = "committed" /\ requestStatus' = "QUEUED"
    /\ UNCHANGED <<heartbeat, candidates, canceller, recoverer, job, tries, items, faults>>

Queue ==
    /\ api = "committed"
    /\ api' = "queued" /\ job' = "queued"
    /\ UNCHANGED <<row, canceller, recoverer, tries, items, faults>>

QueueFails ==
    /\ api = "committed"
    /\ Fault
    /\ api' = "lost"
    /\ UNCHANGED <<row, canceller, recoverer, job, tries, items>>

CheckCancel ==
    /\ canceller = "idle" /\ requestStatus \in {"QUEUED", "RUNNING"}
    /\ canceller' = "checked"
    /\ UNCHANGED <<row, api, recoverer, job, tries, items, faults>>

CommitCancel ==
    /\ canceller = "checked"
    /\ canceller' = "idle" /\ SetRequestStatus("CANCELLED")
    /\ UNCHANGED <<candidates, api, recoverer, job, tries, items, faults>>

(* Time passes.  generation_stale_timeout_seconds (600) is longer than
   worker_task_timeout_seconds (300), so the heartbeat of the first delivery
   does not go stale while that delivery lasts; a retry does not touch it. *)
Age ==
    /\ heartbeat = "FRESH"
    /\ ~(job \in InSession /\ tries = 1)
    /\ heartbeat' = "STALE"
    /\ UNCHANGED <<requestStatus, candidates, requests, job, tries, items, faults>>

(* stale_requests and recover_stale_generations *)
CheckStale ==
    /\ recoverer = "idle" /\ requestStatus = "RUNNING" /\ heartbeat = "STALE"
    /\ recoverer' = "checked"
    /\ UNCHANGED <<row, api, canceller, job, tries, items, faults>>

CommitStale ==
    /\ recoverer = "checked"
    /\ recoverer' = "idle" /\ SetRequestStatus("FAILED")
    /\ UNCHANGED <<candidates, api, canceller, job, tries, items, faults>>
-----------------------------------------------------------------------------
EndSession(p) == job' = p /\ items' = NoItems
RedeliveryOften == IF tries <= MaxRetries THEN "queued" ELSE "dead"
Redelivery == IF tries < MaxRetries THEN "queued" ELSE "dead"

LoadedPhaseAgain(s) == IF s = "QUEUED" THEN "loaded" ELSE "started"

(* run: leave a terminal request alone, mark a QUEUED one RUNNING, execute a
   RUNNING one again *)
LoadedPhase(s) == IF s \in Terminal THEN "done" ELSE IF s = "QUEUED" THEN "loaded" ELSE "started"

Load ==
    /\ job = "queued"
    /\ tries' = tries + 1
    /\ job' = LoadedPhase(requestStatus)
    /\ UNCHANGED <<row, requests, items, faults>>

MarkRunning ==
    /\ job = "loaded"
    /\ SetRequestStatus("RUNNING")
    /\ job' = "started"
    /\ UNCHANGED <<candidates, requests, tries, items, faults>>

(* the provider is called and its output parsed; either may raise *)
Generate ==
    /\ job = "started"
    /\ \/ \E f \in Items : items' = f /\ job' = "persisting"
       \/ job' = "failing" /\ UNCHANGED items
    /\ UNCHANGED <<row, requests, tries, faults>>

FirstOf(f, k) == CHOOSE m \in 1 .. k : f[m] = f[k] /\ \A l \in 1 .. m - 1 : f[l] # f[k]

DuplicateOfPrevious(f, k) == IF k > 1 /\ f[k - 1] = f[k] THEN k - 1 ELSE 0

(* duplicate_of: the first candidate of the batch with the fingerprint *)
DuplicateOf(f, k) == IF FirstOf(f, k) = k THEN 0 ELSE FirstOf(f, k)

Batch ==
    {[delivery |-> tries, index |-> k, fingerprint |-> items[k],
      duplicateOf |-> DuplicateOf(items, k)] : k \in DOMAIN items}

(* Candidates, heartbeat and COMPLETED in one commit; the time-out of the task
   may strike while the worker awaits that commit. *)
Finish ==
    /\ job = "persisting"
    /\ candidates' = candidates \cup Batch
    /\ SetRequestStatus("COMPLETED")
    /\ \E p \in {"done", Redelivery} : EndSession(p)
    /\ UNCHANGED <<requests, tries, faults>>

(* _mark_failed *)
MarkFailed ==
    /\ job = "failing"
    /\ SetRequestStatus("FAILED")
    /\ \E p \in {"done", Redelivery} : EndSession(p)
    /\ UNCHANGED <<candidates, requests, tries, faults>>

(* the time-out of wait_for, or a database error, ends the delivery *)
Interrupt ==
    /\ job \in InSession
    /\ EndSession(Redelivery)
    /\ UNCHANGED <<row, requests, tries, faults>>

Crash ==
    /\ job \in InSession
    /\ Fault
    /\ EndSession("lost")
    /\ UNCHANGED <<row, requests, tries>>
-----------------------------------------------------------------------------
Run == Load \/ MarkRunning \/ Generate \/ Finish \/ MarkFailed
Recovery == Age \/ CheckStale \/ CommitStale

RequestNext ==
    \/ Create \/ Queue \/ QueueFails
    \/ CheckCancel \/ CommitCancel
    \/ Recovery
    \/ Run \/ Interrupt \/ Crash

RequestSpec == RequestInit /\ [][RequestNext]_requestVars

(* Workers take queued jobs and bound each delivery by a time-out, time passes
   and the worker loops keep calling the recovery. *)
FairRequestSpec == RequestSpec /\ WF_requestVars(Queue) /\ WF_requestVars(CommitCancel) /\ WF_requestVars(Recovery) /\ WF_requestVars(Run)
-----------------------------------------------------------------------------
(* A request gets the candidates of one delivery at most, even if the worker
   times out or dies around the commit and the job is delivered again. *)
OneBatch == \A c, d \in candidates : c.delivery = d.delivery

(* Every fingerprint has exactly one original, and its duplicates point to it. *)
OneOriginal ==
    \A c \in candidates :
        \E d \in candidates :
            /\ d.fingerprint = c.fingerprint /\ d.duplicateOf = 0
            /\ c.duplicateOf \in {0, d.index}
            /\ c.duplicateOf = 0 => c = d
            /\ \A e \in candidates : e.fingerprint = c.fingerprint /\ e.duplicateOf = 0 => e = d

(* Whoever crashes, and even if the job is dead-lettered, a RUNNING request
   ends (recover_stale_generations: "a crashed worker must never leave a
   generation permanently RUNNING"). *)
NeverStuckRunning == requestStatus = "RUNNING" ~> requestStatus # "RUNNING"

(* generation/state.py: no transition leaves COMPLETED, FAILED or CANCELLED *)
TerminalIsFinal == [][(requestStatus \in Terminal) => UNCHANGED requestStatus]_requestVars
=============================================================================
