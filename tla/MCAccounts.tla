------------------------------ MODULE MCAccounts ------------------------------
(* Small instances for TLC of what an organization keeps and of how the platform is
   operated: a behaviour is of one part. *)
EXTENDS Governance, Sessions, Retention, Compliance, Backup, Operations, Alerts, TLC

CONSTANTS u1, u2, u3, a1, a2, r1, r2, o1, o2, k1, k2, e1, d1, d2, x1, x2

VARIABLE part

accountVars == <<part, sessVars, orgVars, govVars, retentionVars, complianceVars, backupVars, opsVars,
                 alertVars>>

StartRoles == {[u \in Users |-> IF u = u3 THEN "VIEWER" ELSE "OWNER"],
               [u \in Users |-> IF u = u1 THEN "OWNER" ELSE IF u = u2 THEN "ADMIN" ELSE "NONE"]}
CallerOf == [q \in Approvers |-> IF q = a1 THEN u1 ELSE u2]

(* A candidate of one organization and a trace of the other. *)
OwnerOf == (r1 :> o1 @@ r2 :> o2)
KindOf == (r1 :> "candidates" @@ r2 :> "traces")

Rule(org, kind) == [org |-> org, kind |-> kind, days |-> 0, active |-> TRUE]

(* Policies are created, or two there are in force and cleanups run. *)
CleanupInit ==
    /\ rules \in {<<Rule(o1, k), Rule(o2, l)>> : k \in PolicyKinds, l \in PolicyKinds}
                 \union {<<Rule(o2, "candidates"), Rule(o2, "traces")>>}
    /\ today = 0 /\ present = Records /\ holds = <<>> /\ cleanups = 0
    /\ writing = [q \in PolicyWriters |-> NotWriting] /\ cleanup = [c \in Cleaners |-> NoCleanup]
    /\ wiped = {} /\ crowded = {}

(* A control that needs evidence and one with an automated check. *)
NeedsOf == (k1 :> {"RELEASE"} @@ k2 :> {})

(* Versions and controls are written, or a version with every control is assessed. *)
AssessmentInit ==
    /\ framework = <<[version |-> 1, active |-> TRUE, controls |-> Controls]>> /\ crept = <<{}>>
    /\ authoring = [q \in Authors |-> NotAuthoring]
    /\ evidence = [t \in EvidenceTypes |-> "absent"] /\ changes = 0
    /\ assessment = [status |-> "absent", version |-> 0, score |-> 0]
    /\ items = {} /\ execution = [e \in Executions |-> NotExecuting]
    /\ verdict = [u \in Reviewers |-> [at |-> "idle", loaded |-> ""]]
    /\ remediation = [r \in Executions \X Controls |-> "none"]
    /\ approved = {} /\ overlapped = FALSE

(* A platform that is well and one where everything is over its threshold; each
   dependency away; the queue in memory; a single connection, which is in use; and
   six of seven, 85.7 percent. *)
GoodPlant == [db |-> TRUE, schema |-> "head", queue |-> "up", key |-> TRUE, disk |-> TRUE, depth |-> "none",
              dlq |-> FALSE, traffic |-> "quiet", open |-> 20, checkedOut |-> 17, alertRows |-> FALSE]
BadPlant == [GoodPlant EXCEPT !.disk = FALSE, !.depth = "many", !.dlq = TRUE, !.traffic = "errors", !.checkedOut = 18]
FewPlants == {GoodPlant, BadPlant, [BadPlant EXCEPT !.queue = "down", !.traffic = "slow"], [GoodPlant EXCEPT !.db = FALSE],
              [GoodPlant EXCEPT !.schema = "unreadable"], [GoodPlant EXCEPT !.schema = "other", !.key = FALSE],
              [GoodPlant EXCEPT !.queue = "memory", !.depth = "some"], [GoodPlant EXCEPT !.open = 1, !.checkedOut = 1],
              [GoodPlant EXCEPT !.open = 7, !.checkedOut = 6],
              [GoodPlant EXCEPT !.alertRows = TRUE]}

AccountsInit ==
    /\ part \in {"sessions", "members", "access", "identity", "policies", "approvals", "review",
                "retention", "cleanup", "frameworks", "assessment", "backup", "operations", "alerts"}
    /\ SessionsInit /\ OrganizationInit /\ GovernanceInit
    /\ IF part = "cleanup" THEN CleanupInit ELSE RetentionInit
    /\ IF part = "assessment" THEN AssessmentInit ELSE ComplianceInit
    /\ BackupInit /\ AlertsInit /\ OperationsInit /\ plant = GoodPlant
    /\ part \notin {"members", "access", "identity", "policies", "approvals", "review"} =>
          member = CHOOSE r \in FirstRoles : TRUE
    /\ part # "identity" => sso.policy = "DISABLED" /\ sso.listed /\ sso.role = "VIEWER"
    /\ part # "approvals" => release.outcome = "REVIEW"

RetentionPart ==
    /\ RetentionNext
    /\ IF part = "retention" THEN UNCHANGED <<holds, cleanups>> ELSE UNCHANGED <<rules, writing>>

(* Controls are added to the first version alone when it is assessed. *)
CompliancePart ==
    /\ ComplianceNext
    /\ part = "frameworks" => UNCHANGED <<evidence, verdict, remediation>> /\ execution'[e1] = NotExecuting
    /\ part = "assessment" => UNCHANGED <<framework, authoring>>

(* Three backups and one restoration, or two of each; of two in the same state only the
   first moves. *)
BackupPart ==
    /\ BackupNext /\ backups' + restores' <= 4
    /\ dumper[d1] = dumper[d2] => UNCHANGED dumper[d2]
    /\ restorer[x1] = restorer[x2] => UNCHANGED restorer[x2]

(* The memberships change under an open review too. *)
AccountsPart ==
    /\ UNCHANGED <<retentionVars, complianceVars, backupVars, opsVars, alertVars>>
    /\ \/ part = "sessions" /\ SessionsNext /\ UNCHANGED <<orgVars, govVars>>
       \/ part = "members" /\ (MemberNext \/ IdentityNext) /\ UNCHANGED <<sessVars, govVars>>
       \/ part = "access" /\ AccessNext /\ UNCHANGED <<sessVars, govVars>>
       \/ part = "identity" /\ IdentityNext /\ UNCHANGED <<sessVars, govVars>>
       \/ part = "policies" /\ PolicyNext /\ UNCHANGED sessVars
       \/ part = "approvals" /\ ApprovalNext /\ UNCHANGED sessVars
       \/ part = "review" /\ ReviewNext /\ UNCHANGED sessVars

OperationsPart ==
    /\ UNCHANGED <<sessVars, orgVars, govVars>>
    /\ part \in {"retention", "cleanup"} \/ UNCHANGED retentionVars
    /\ part \in {"frameworks", "assessment"} \/ UNCHANGED complianceVars
    /\ part = "backup" \/ UNCHANGED backupVars
    /\ part = "operations" \/ UNCHANGED opsVars
    /\ part = "alerts" \/ UNCHANGED alertVars
    /\ \/ part \in {"retention", "cleanup"} /\ RetentionPart
       \/ part \in {"frameworks", "assessment"} /\ CompliancePart
       \/ part = "backup" /\ BackupPart
       \/ part = "operations" /\ OperationsNext
       \/ part = "alerts" /\ AlertsNext

AccountsNext == UNCHANGED part /\ (AccountsPart \/ OperationsPart)

AccountsSpec == AccountsInit /\ [][AccountsNext]_accountVars

(* Every variable has its type. *)
AccountsTypeOK == SessionsTypeOK /\ OrganizationTypeOK /\ GovernanceTypeOK /\ AlertsTypeOK
=============================================================================
