------------------------------ MODULE Compliance -------------------------------
(* Compliance frameworks and their assessment (services/compliance_service.py):
   the versions of one framework, one assessment of a version and the remediations
   that its executions open.

   Calls are transactions under READ COMMITTED: each reads, and writes when it
   commits. A column that a call leaves as it loaded it is not written. *)
EXTENDS Integers, Sequences, FiniteSets

CONSTANTS Controls, Needs,      \* [Controls -> sets of evidence types]; none: self-attested
          Automated, Unwatched, \* controls with an automated check, and the one whose check finds nothing
          EvidenceTypes, Authors, Executions, Reviewers, MaxFrameworks, MaxEvidence

VARIABLES framework, authoring, crept, evidence, changes, assessment, items, execution, verdict,
          remediation, approved, overlapped

complianceVars == <<framework, authoring, crept, evidence, changes, assessment, items, execution,
                    verdict, remediation, approved, overlapped>>

NotAuthoring == [call |-> "idle", version |-> 0, draft |-> FALSE]
NotExecuting == [at |-> "idle", loaded |-> "", score |-> 0, gone |-> {}, after |-> {}, found |-> {},
                 firm |-> FALSE]

ComplianceInit ==
    /\ framework = <<>> /\ crept = <<>>
    /\ authoring = [q \in Authors |-> NotAuthoring]
    /\ evidence = [t \in EvidenceTypes |-> "absent"] /\ changes = 0
    /\ assessment = [status |-> "absent", version |-> 0, score |-> 0]
    /\ items = {} /\ execution = [e \in Executions |-> NotExecuting]
    /\ verdict = [u \in Reviewers |-> [at |-> "idle", loaded |-> ""]]
    /\ remediation = [r \in Executions \X Controls |-> "none"]
    /\ approved = {} /\ overlapped = FALSE
-----------------------------------------------------------------------------
(* The third version of a name is refused: scalar_one_or_none finds two. *)
ReadFrameworks(q) ==
    /\ authoring[q].call = "idle" /\ Len(framework) <= 1
    /\ authoring' = [authoring EXCEPT ![q] = [call |-> "framework", version |-> Len(framework) + 1, draft |-> TRUE]]
    /\ UNCHANGED <<framework, crept, evidence, changes, assessment, items, execution, verdict, remediation,
                   approved, overlapped>>

CreateFramework(q) ==
    /\ authoring[q].call = "framework" /\ Len(framework) < MaxFrameworks
    /\ framework' = Append(framework, [version |-> authoring[q].version, active |-> FALSE, controls |-> {}])
    /\ crept' = Append(crept, {})
    /\ authoring' = [authoring EXCEPT ![q] = NotAuthoring]
    /\ UNCHANGED <<evidence, changes, assessment, items, execution, verdict, remediation, approved, overlapped>>

(* Activating twice changes nothing. *)
ActivateFramework(f) ==
    /\ f \in DOMAIN framework /\ ~framework[f].active
    /\ framework' = [framework EXCEPT ![f].active = TRUE]
    /\ UNCHANGED <<authoring, crept, evidence, changes, assessment, items, execution, verdict, remediation, approved, overlapped>>

ReadFramework(q, f) ==
    /\ authoring[q].call = "idle" /\ f \in DOMAIN framework /\ ~framework[f].active
    /\ authoring' = [authoring EXCEPT ![q] = [call |-> "control", version |-> f, draft |-> ~framework[f].active]]
    /\ UNCHANGED <<framework, crept, evidence, changes, assessment, items, execution, verdict, remediation,
                   approved, overlapped>>

(* Whether the version was activated meanwhile is not looked at again. *)
CreateControl(q, k) ==
    /\ authoring[q].call = "control"
    /\ LET f == authoring[q].version
       IN /\ k \notin framework[f].controls
          /\ framework' = [framework EXCEPT ![f].controls = @ \union {k}]
          /\ crept' = IF framework[f].active /\ authoring[q].draft THEN [crept EXCEPT ![f] = @ \union {k}] ELSE crept
    /\ authoring' = [authoring EXCEPT ![q] = NotAuthoring]
    /\ UNCHANGED <<evidence, changes, assessment, items, execution, verdict, remediation, approved, overlapped>>

(* The registry records evidence, and verifies it when asked to. *)
EvidenceChanges(t) ==
    /\ changes < MaxEvidence /\ changes' = changes + 1
    /\ evidence' \in {[evidence EXCEPT ![t] = s] : s \in {"VALID", "TAMPERED"} \ {evidence[t]}}
    /\ evidence[t] = "absent" => evidence'[t] = "VALID"
    /\ UNCHANGED <<framework, authoring, crept, assessment, items, execution, verdict, remediation, approved, overlapped>>
-----------------------------------------------------------------------------
(* The check of the worker fleet looks for a name the readiness report does not
   use, so its control is never compliant. *)
CheckPasses(k) == k # Unwatched

ItemStatus(k, sound) ==
    CASE k \in Automated -> IF sound /\ CheckPasses(k) THEN "COMPLIANT" ELSE "NON_COMPLIANT"
      [] \E t \in Needs[k] : evidence[t] = "TAMPERED" -> "NON_COMPLIANT"
      [] \E t \in Needs[k] : evidence[t] = "absent" -> "INSUFFICIENT_EVIDENCE"
      [] OTHER -> "COMPLIANT"

Gaps(found) == {i.control : i \in {j \in found : j.status # "COMPLIANT"}}

(* Percent of the controls that are compliant, all of none. *)
Score(found) ==
    IF found = {} THEN 100
    ELSE (100 * (Cardinality(found) - Cardinality(Gaps(found)))) \div Cardinality(found)

CreateAssessment(f) ==
    /\ assessment.status = "absent" /\ f \in DOMAIN framework
    /\ assessment' = [status |-> "DRAFT", version |-> f, score |-> 0]
    /\ UNCHANGED <<framework, authoring, crept, evidence, changes, items, execution, verdict, remediation,
                   approved, overlapped>>

LoadAssessment(e) ==
    /\ execution[e].at = "idle" /\ assessment.status # "absent"
    /\ execution' = [execution EXCEPT ![e].at = "loaded", ![e].loaded = assessment.status,
                                      ![e].score = assessment.score]
    /\ UNCHANGED <<framework, authoring, crept, evidence, changes, assessment, items, verdict, remediation,
                   approved, overlapped>>

(* Controls, evidence and checks are read, and the items there are deleted; the
   deletion waits for one of the same rows that has not committed. *)
AssessControls(e) ==
    /\ execution[e].at = "loaded"
    /\ \E sound \in BOOLEAN :
          execution' = [execution EXCEPT ![e].at = "assessed", ![e].gone = items,
              ![e].after = {o \in Executions : execution[o].at = "assessed" /\ execution[o].gone \intersect items # {}},
              ![e].firm = framework[assessment.version].active,
              ![e].found = {[control |-> k, status |-> ItemStatus(k, sound)] :
                            k \in framework[assessment.version].controls}]
    /\ UNCHANGED <<framework, authoring, crept, evidence, changes, assessment, items, verdict, remediation,
                   approved, overlapped>>

(* Another call wrote the assessment between this call's read and its commit. *)
Interferes(loaded, score) == assessment.status # loaded \/ assessment.score # score

Commits(e) ==
    /\ execution[e].at = "assessed"
    /\ \A o \in execution[e].after : execution[o].at # "assessed"
    /\ items' = (items \ execution[e].gone) \union
                {[run |-> e, control |-> i.control, status |-> i.status] : i \in execution[e].found}
    /\ remediation' = [r \in DOMAIN remediation |->
           IF r[1] = e /\ r[2] \in Gaps(execution[e].found) THEN "OPEN" ELSE remediation[r]]
    /\ execution' = [execution EXCEPT ![e].at = "done"]
    /\ overlapped' = (overlapped \/ Interferes(execution[e].loaded, execution[e].score) \/ items # execution[e].gone)
    /\ UNCHANGED <<framework, authoring, crept, evidence, changes, verdict, approved>>

ExecuteKeepingApproval(e) ==
    /\ Commits(e)
    /\ assessment' = [assessment EXCEPT
           !.status = IF @ = "APPROVED" THEN @ ELSE "READY_FOR_REVIEW",
           !.score = IF Score(execution[e].found) # execution[e].score THEN Score(execution[e].found) ELSE @]

ExecuteAssessment(e) ==
    /\ Commits(e)
    /\ assessment' = [assessment EXCEPT
           !.status = IF execution[e].loaded # "READY_FOR_REVIEW" THEN "READY_FOR_REVIEW" ELSE @,
           !.score = IF Score(execution[e].found) # execution[e].score THEN Score(execution[e].found) ELSE @]

LoadVerdict(u) ==
    /\ verdict[u].at = "idle" /\ assessment.status # "absent"
    /\ verdict' = [verdict EXCEPT ![u] = [at |-> "loaded", loaded |-> assessment.status]]
    /\ UNCHANGED <<framework, authoring, crept, evidence, changes, assessment, items, execution, remediation,
                   approved, overlapped>>

(* Any assessment can be approved or rejected, one that was never executed too. *)
ActOnAssessment(u, outcome) ==
    /\ verdict[u].at = "loaded"
    /\ assessment' = [assessment EXCEPT !.status = IF verdict[u].loaded # outcome THEN outcome ELSE @]
    /\ approved' = IF outcome = "APPROVED" THEN items ELSE approved
    /\ overlapped' = (overlapped \/ assessment.status # verdict[u].loaded)
    /\ verdict' = [verdict EXCEPT ![u].at = "done"]
    /\ UNCHANGED <<framework, authoring, crept, evidence, changes, items, execution, remediation>>

(* No status is asked for: a resolved remediation can be accepted as a risk. *)
SettleRemediation(r, status) ==
    /\ remediation[r] # "none" /\ remediation[r] # status
    /\ remediation' = [remediation EXCEPT ![r] = status]
    /\ UNCHANGED <<framework, authoring, crept, evidence, changes, assessment, items, execution, verdict,
                   approved, overlapped>>

ComplianceNext ==
    \/ \E q \in Authors : \/ ReadFrameworks(q) \/ CreateFramework(q)
                          \/ \E f \in DOMAIN framework : ReadFramework(q, f)
                          \/ \E k \in Controls : CreateControl(q, k)
    \/ \E f \in DOMAIN framework : ActivateFramework(f) \/ CreateAssessment(f)
    \/ \E t \in EvidenceTypes : EvidenceChanges(t)
    \/ \E e \in Executions : LoadAssessment(e) \/ AssessControls(e) \/ ExecuteAssessment(e)
    \/ \E u \in Reviewers : LoadVerdict(u) \/ \E o \in {"APPROVED", "REJECTED"} : ActOnAssessment(u, o)
    \/ \E r \in DOMAIN remediation, s \in {"RESOLVED", "ACCEPTED_RISK"} : SettleRemediation(r, s)

ComplianceSpec == ComplianceInit /\ [][ComplianceNext]_complianceVars
-----------------------------------------------------------------------------
(* An approval is about what it saw: while an assessment is approved its items are
   the ones there when it was approved; until then its score is that of its items,
   one for each control, unless calls about it overlapped. If its version was active
   when it was executed, the items are of all its controls but those whose creation
   had found a draft. execute_assessment, act_on_assessment, create_control. *)
ApprovalCoversItems ==
    /\ overlapped \/
       /\ assessment.status = "APPROVED" => items = approved
       /\ assessment.status = "READY_FOR_REVIEW" =>
             /\ assessment.score = Score({[control |-> i.control, status |-> i.status] : i \in items})
             /\ \A i, j \in items : i.control = j.control => i = j
    /\ \A e \in Executions : execution[e].at = "done" /\ execution[e].firm =>
          framework[assessment.version].controls \ {i.control : i \in execution[e].found}
              \subseteq crept[assessment.version]
=============================================================================
