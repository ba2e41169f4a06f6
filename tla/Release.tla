-------------------------------- MODULE Release --------------------------------
(* Release policies and decisions of one model and environment: collecting the
   evidence, deciding, superseding the decision before, and the canonical evidence
   published about it (services/intelligence_service.py, evidence_service.py,
   repositories/release_decision.py).

   An evaluation is one transaction. Its first statement updates its decision, so
   evaluations of one decision wait for each other; the collections of evidence
   and checks were loaded before that. *)
EXTENDS DecisionEngine, Evidence

CONSTANTS Decisions, Policies, Worlds, \* the policies a user may write, the evidence there may be
          PolicyWriters, AskedRules,   \* who updates the policy; the rules one request may name
          MaxUpdates, MaxWorlds, MaxStarts

ASSUME ReleaseAssumption == Policies \subseteq PolicyRules /\ Worlds \subseteq WorldRows

VARIABLES policy, updates,      \* the row of the policy, and the updates under way
          policies, contested,  \* what was stored under each version; versions that updates may share
          world, worlds, starts, decision, evaluation, waiting, registry, doubled,
          clock,    \* orders the times of evaluations
          crossed   \* pairs: each was decided before the other saw it

policyVars == <<policy, updates, policies, contested>>
releaseVars == <<policyVars, world, worlds, starts, decision, evaluation, waiting, registry, crossed, doubled, clock>>

NoDecision == [status |-> "NONE", outcome |-> "NONE", version |-> 0, evidence |-> {}, evaluated |-> 0]
NoEvaluation == [at |-> "idle", policy |-> 0, rules |-> {}, found |-> {}, loaded |-> {}, job |-> FALSE, marks |-> {}, time |-> 0]
NoUpdate == [version |-> 0, rules |-> {}, beside |-> FALSE]
NoRecord == [print |-> <<>>, state |-> "NONE"]
Evaluating == {d \in Decisions : evaluation[d].at # "idle"}

ReleaseInit ==
    /\ \E p \in Policies : policy = [version |-> 1, rules |-> p] /\ policies = <<{p}>>
    /\ updates = [u \in PolicyWriters |-> NoUpdate] /\ contested = {}
    /\ world \in Worlds /\ worlds = 0 /\ starts = 0
    /\ decision = [d \in Decisions |-> NoDecision]
    /\ evaluation = [d \in Decisions |-> NoEvaluation]
    /\ waiting = [d \in Decisions |-> NoEvaluation]
    /\ registry = [d \in Decisions |-> NoRecord] /\ crossed = {} /\ doubled = {} /\ clock = 0

decisionVars == <<world, worlds, starts, decision, evaluation, waiting, registry, crossed, doubled, clock>>

(* An update loads the row and stores into it with no lock in between. *)
LoadPolicy(u) ==
    /\ updates[u] = NoUpdate /\ policy.version <= MaxUpdates
    /\ updates' = [updates EXCEPT ![u] = [version |-> policy.version, rules |-> {policy.rules}, beside |-> FALSE]]
    /\ UNCHANGED <<policy, policies, contested, decisionVars>>

(* None in a request leaves a rule as it is: no update takes a rule back. *)
AskedFor(p, f) ==
    CASE f \in {"reqEval", "reqBench", "gates"} -> TRUE
      [] f = "dataset" -> p.dataset
      [] OTHER -> p[f] # Unset

(* Only columns that differ from what was loaded are written. *)
Merged(row, loaded, p, asked) ==
    [f \in DOMAIN row |-> IF f \in asked /\ AskedFor(p, f) /\ p[f] # loaded[f] THEN p[f] ELSE row[f]]

(* The version stored is the next one of what was loaded: updates that overlapped
   may give their number, and those above it, a second time. *)
StorePolicy(u) ==
    /\ updates[u] # NoUpdate
    /\ \E p \in Policies, asked \in AskedRules, loaded \in updates[u].rules :
         LET version == updates[u].version + 1
             rules == Merged(policy.rules, loaded, p, asked)
         IN /\ policy' = [version |-> version, rules |-> rules]
            /\ policies' = IF version > Len(policies) THEN Append(policies, {rules})
                           ELSE [policies EXCEPT ![version] = @ \union {rules}]
            /\ contested' = IF updates[u].beside THEN contested \union version .. Len(policies) ELSE contested
    /\ updates' = [v \in PolicyWriters |->
           IF v = u THEN NoUpdate ELSE [updates[v] EXCEPT !.beside = updates[v] # NoUpdate]]
    /\ UNCHANGED decisionVars

UpdatePolicy == \E u \in PolicyWriters : LoadPolicy(u) \/ StorePolicy(u)

(* Evaluations, experiments, benchmarks, traces, alerts and agent runs come and go. *)
WorldChanges ==
    /\ worlds < MaxWorlds /\ worlds' = worlds + 1
    /\ world' \in Worlds \ {world}
    /\ UNCHANGED <<policyVars, starts, decision, evaluation, waiting, registry, crossed, doubled, clock>>

CreateDecision(d) ==
    /\ decision[d].status = "NONE"
    /\ decision' = [decision EXCEPT ![d] = [NoDecision EXCEPT !.status = "DRAFT", !.version = policy.version]]
    /\ UNCHANGED <<policyVars, world, worlds, starts, evaluation, waiting, registry, crossed, doubled, clock>>

(* The decision with its collections and the policy are read; the update of the
   status then waits for another evaluation of the decision. *)
Snapshot(d, job) ==
    [NoEvaluation EXCEPT !.at = "collect", !.policy = policy.version, !.rules = {policy.rules},
                         !.loaded = decision[d].evidence, !.job = job]

StartEvaluating(d, job) ==
    /\ decision[d].status # "NONE" /\ starts < MaxStarts /\ starts' = starts + 1
    /\ IF evaluation[d].at = "idle"
       THEN evaluation' = [evaluation EXCEPT ![d] = Snapshot(d, job)] /\ UNCHANGED <<waiting, doubled>>
       ELSE /\ waiting[d].at = "idle"
            /\ waiting' = [waiting EXCEPT ![d] = Snapshot(d, job)]
            /\ doubled' = doubled \union {d} /\ UNCHANGED evaluation
    /\ UNCHANGED <<policyVars, world, worlds, decision, registry, crossed, clock>>

(* The end of an evaluation lets the one that waits for its row go on. *)
NextEvaluation(d) ==
    /\ evaluation' = [evaluation EXCEPT ![d] = waiting[d]]
    /\ waiting' = [waiting EXCEPT ![d] = NoEvaluation]

(* Each statement sees what is committed by then: the world may change between two. *)
Collect(d, from, to, found) ==
    /\ evaluation[d].at = from
    /\ evaluation' = [evaluation EXCEPT ![d].at = to, ![d].found = {found}]
    /\ UNCHANGED <<policyVars, world, worlds, starts, decision, waiting, registry, crossed, doubled, clock>>

CollectRuns(d) == Collect(d, "collect", "observe", RunEvidence(world))
CollectOperation(d) ==
    \E runs \in evaluation[d].found : Collect(d, "observe", "decide", Join(runs, OperationEvidence(world)))

(* Of a decision the fingerprint holds the status and the outcome. *)
Fingerprint(row) == <<row.status, row.outcome>>

Others(d) == Decisions \ {d}

(* An update finds the decided rows as they are committed when it starts. *)
Supersedable(d) == {o \in Others(d) : decision[o].status \in {"DECIDED", "READY"}}

(* The time of the outcome is taken and the update that supersedes is issued: it
   does not find what another evaluation has decided but not committed. *)
FindSuperseded(d) ==
    /\ evaluation[d].at = "decide"
    /\ clock' = clock + 1
    /\ evaluation' = [evaluation EXCEPT ![d].at = "supersede", ![d].marks = Supersedable(d), ![d].time = clock + 1]
    /\ UNCHANGED <<policyVars, world, worlds, starts, decision, waiting, registry, crossed, doubled>>

(* The evidence an evaluation has collected, and the rules it was checked with. *)
Entries(run) == {[seen |-> ev, rules |-> p] : ev \in run.found, p \in run.rules}

(* clear() deletes the evidence and the checks that were loaded, not what was added
   since; the checks follow from the evidence and the rules they were made with. *)
Decided(d) ==
    LET run == evaluation[d] IN
    [status |-> "DECIDED", version |-> run.policy, evaluated |-> run.time,
     evidence |-> (decision[d].evidence \ run.loaded) \union Entries(run),
     outcome |-> Outcome(CHOOSE p \in run.rules : TRUE, CHOOSE ev \in run.found : TRUE)]

(* The update waits for the rows it found that other evaluations hold, and skips
   those that are superseded by then. *)
CommitDecision(d, row) ==
    LET marks == evaluation[d].marks
        unseen == {o \in Others(d) : evaluation[o].at = "supersede" /\ d \notin evaluation[o].marks}
    IN /\ evaluation[d].at = "supersede" /\ marks \intersect Evaluating = {}
       /\ decision' = [o \in Decisions |->
              IF o = d THEN row
              ELSE IF o \in marks \intersect Supersedable(d) THEN [decision[o] EXCEPT !.status = "SUPERSEDED"]
              ELSE decision[o]]
       /\ crossed' = (crossed \ {{d, o} : o \in marks}) \union {{d, o} : o \in unseen}
       /\ registry' = IF evaluation[d].job
                      THEN [registry EXCEPT ![d] = [print |-> Fingerprint(row), state |-> "VALID"]]
                      ELSE registry
       /\ NextEvaluation(d)
       /\ UNCHANGED <<policyVars, world, worlds, starts, doubled, clock>>

DecideAtCurrentVersion(d) == CommitDecision(d, [Decided(d) EXCEPT !.version = policy.version])

DecideRelease(d) == CommitDecision(d, Decided(d))

(* An error, a lost worker or a deadlock the database broke: nothing was written. *)
AbortEvaluation(d) ==
    /\ evaluation[d].at # "idle" /\ NextEvaluation(d)
    /\ UNCHANGED <<policyVars, world, worlds, starts, decision, registry, crossed, doubled, clock>>

(* verify_evidence_integrity computes the fingerprint again from the decision as it is. *)
VerifyEvidence(d) ==
    /\ registry[d].state # "NONE"
    /\ registry' = [registry EXCEPT ![d].state =
           IF registry[d].print = Fingerprint(decision[d]) THEN "VALID" ELSE "TAMPERED"]
    /\ UNCHANGED <<policyVars, world, worlds, starts, decision, evaluation, waiting, crossed, doubled, clock>>

ReleaseNext ==
    \/ UpdatePolicy \/ WorldChanges
    \/ \E d \in Decisions :
         \/ CreateDecision(d) \/ \E job \in BOOLEAN : StartEvaluating(d, job)
         \/ CollectRuns(d) \/ CollectOperation(d) \/ FindSuperseded(d) \/ DecideRelease(d)
         \/ AbortEvaluation(d) \/ VerifyEvidence(d)

ReleaseSpec == ReleaseInit /\ [][ReleaseNext]_releaseVars

-----------------------------------------------------------------------------
ReleaseTypeOK ==
    /\ policy.version \in DOMAIN policies /\ contested \subseteq DOMAIN policies
    /\ \A d \in Decisions : /\ decision[d].status \in {"NONE", "DRAFT", "DECIDED", "SUPERSEDED"}
                            /\ evaluation[d].at \in {"idle", "collect", "observe", "decide", "supersede"}
                            /\ registry[d].state \in {"NONE", "VALID", "TAMPERED"}

DecidedOnes == {d \in Decisions : decision[d].status = "DECIDED"}

(* The outcome a decision shows follows from the evidence stored with it and from
   rules stored under its version of the policy, whatever was updated meanwhile,
   unless it was evaluated twice at once; no other rules were ever stored under that
   version, unless updates of the policy overlapped; and of two decisions one is
   current, unless each was decided before the other saw it.  evaluate_decision,
   update_policy and mark_superseded. *)
DecisionsExplained ==
    /\ \A d \in Decisions \ doubled : decision[d].outcome # "NONE" =>
          \A e \in decision[d].evidence :
              e.rules \in policies[decision[d].version] /\ decision[d].outcome = Outcome(e.rules, e.seen)
    /\ \A v \in DOMAIN policies \ contested : \A p, q \in policies[v] : p = q
    /\ \A d, o \in DecidedOnes : d # o => {d, o} \in crossed

(* A policy that asks for a number of samples and requires no source is met with no
   sample at all: the check is MISSING, which nothing then looks at. *)
UnnoticedSamples(p, ev) ==
    /\ p.minSample # Unset /\ ~p.reqEval /\ ~p.reqBench
    /\ ev.bench.sample = 0 /\ ev.eval.tests = 0 /\ (p.minSample * 8) \div 10 > 0

(* An approval is earned: every rule of the policy was met on fresh evidence that
   was there, but for the number of samples; and what has earned one gets it. The
   readiness score is a percentage. *)
ApprovalEarned(p, ev) ==
    /\ Earned(p, ev) => Outcome(p, ev) = "APPROVED"
    /\ Outcome(p, ev) = "APPROVED" =>
          Earned(p, ev) \/ (UnnoticedSamples(p, ev) /\ Earned([p EXCEPT !.minSample = Unset], ev))
    /\ Readiness(ev) \in 0..10000

EarnedOnEvidence(p, w) ==
    LET ev == Aggregate(w)
    IN /\ ApprovalEarned(p, ev)
       /\ Borrowed(w) \/ Aggregate(OwnRows(w)) = ev

(* At first, and whenever the policy or the rows have changed: an approval on them is
   earned, and what belongs to other models and projects decides nothing, unless it
   stands in for an experiment or a benchmark the model lacks.
   EvidenceAggregator.aggregate and DecisionEngine.evaluate. *)
ApprovalIsEarned ==
    /\ EarnedOnEvidence(policy.rules, world)
    /\ [][world' # world \/ policy' # policy => EarnedOnEvidence(policy'.rules, world')]_releaseVars
=============================================================================
