------------------------------ MODULE Governance -------------------------------
(***************************************************************************)
(* Governance of an organization (services/governance_service.py) and the   *)
(* CI service tokens it reviews (services/ci.py): versions of one policy,   *)
(* one approval of a release decision, one access review.  Memberships are  *)
(* those of Organization.  A call that reads and then writes has two steps. *)
(***************************************************************************)
EXTENDS Organization, Sequences

CONSTANTS
    PolicyCalls,  \* calls of activate_policy
    Approvers,    \* calls of act_on_approval, each with the user who makes it
    CallUser,     \* [Approvers -> Users]
    MaxVersions,  \* bound on policy versions
    MaxTokens     \* bound on service tokens

VARIABLES
    policy,      \* status of the versions of the policy; the index is the number
    activation,  \* the activate_policy calls, with what each read
    approval,    \* the approval request: status, requester, number of decisions
    decision,    \* the act_on_approval calls
    release,     \* outcome and status of the release decision it is about
    token,       \* service tokens: whether revoked, and the one it replaces
    review,      \* the access review: status, its items, and what it has read
    verdictOf,   \* decision on each item
    late         \* observer: items decided after the review read the decisions

govVars == <<policy, activation, approval, decision, release, token, review, verdictOf, late>>
-----------------------------------------------------------------------------
Tokens == 1 .. MaxTokens
Subjects == [kind : {"member"}, id : Users] \cup [kind : {"token"}, id : Tokens]
PolicyStatus == {"DRAFT", "ACTIVE", "ARCHIVED", "DISABLED"}
Outcomes == {"APPROVED", "REJECTED"}

GovernanceTypeOK ==
    /\ policy \in Seq(PolicyStatus) /\ Len(policy) <= MaxVersions
    /\ activation \in [PolicyCalls -> [stage : {"idle", "read", "done"}, id : 0 .. MaxVersions,
                                       seen : Seq(PolicyStatus)]]
    /\ approval \in [status : Outcomes \cup {"absent", "PENDING"}, requester : Users \cup {"none"},
                     decisions : Nat]
    /\ decision \in [Approvers -> {"idle", "read", "done"}]
    /\ release \in [outcome : Outcomes \cup {"REVIEW"}, status : {"DECIDED", "READY"}]
    /\ token \in Seq([revoked : BOOLEAN, old : 0 .. MaxTokens])
    /\ review \in [status : {"absent", "OPEN", "reading", "COMPLETED"}, items : SUBSET Subjects,
                   revokes : SUBSET Subjects]
    /\ verdictOf \in [Subjects -> {"NO_ACTION", "KEEP", "REVOKE"}]
    /\ late \subseteq Subjects

(* The decision engine leaves a decision in any state. *)
GovernanceInit ==
    /\ policy = <<>>
    /\ activation = [q \in PolicyCalls |-> [stage |-> "idle", id |-> 0, seen |-> <<>>]]
    /\ approval = [status |-> "absent", requester |-> "none", decisions |-> 0]
    /\ decision = [q \in Approvers |-> "idle"]
    /\ release \in [outcome : {"REVIEW", "APPROVED"}, status : {"DECIDED"}]
    /\ token = <<>>
    /\ review = [status |-> "absent", items |-> {}, revokes |-> {}]
    /\ verdictOf = [x \in Subjects |-> "NO_ACTION"]
    /\ late = {}
-----------------------------------------------------------------------------
(* latest number plus one; uq_gov_policy_org_name_ver refuses the loser of a race *)
CreatePolicy ==
    /\ Len(policy) < MaxVersions /\ Managers # {}
    /\ policy' = Append(policy, "DRAFT")
    /\ UNCHANGED <<activation, approval, decision, release, token, review, verdictOf, late, orgVars>>

ReadPolicies(q) ==
    /\ activation[q].stage = "idle" /\ Managers # {}
    /\ \E i \in DOMAIN policy :
          activation' = [activation EXCEPT ![q] = [stage |-> "read", id |-> i, seen |-> policy]]
    /\ UNCHANGED <<policy, approval, decision, release, token, review, verdictOf, late, orgVars>>

(* The other versions read ACTIVE are archived; a status is written only if it
   differs from the one read. *)
Activated(a) ==
    [i \in DOMAIN policy |->
        CASE i = a.id /\ a.seen[i] # "ACTIVE" -> "ACTIVE"
          [] i # a.id /\ i \in DOMAIN a.seen /\ a.seen[i] = "ACTIVE" -> "ARCHIVED"
          [] OTHER -> policy[i]]

ActivatePolicy(q) ==
    /\ activation[q].stage = "read"
    /\ policy' = Activated(activation[q])
    /\ raced' = (raced \/ policy # activation[q].seen)
    /\ activation' = [activation EXCEPT ![q] = [stage |-> "done", id |-> 0, seen |-> <<>>]]
    /\ UNCHANGED <<approval, decision, release, token, review, verdictOf, late,
                   account, member, request, project, envs, team, direct, sso>>

DisablePolicy(i) ==
    /\ i \in DOMAIN policy /\ Managers # {}
    /\ policy' = [policy EXCEPT ![i] = "DISABLED"]
    /\ UNCHANGED <<activation, approval, decision, release, token, review, verdictOf, late, orgVars>>
-----------------------------------------------------------------------------
RequestApproval(u) ==
    /\ approval.status = "absent" /\ member[u] # "NONE"
    /\ approval' = [approval EXCEPT !.status = "PENDING", !.requester = u]
    /\ UNCHANGED <<policy, activation, decision, release, token, review, verdictOf, late, orgVars>>

(* an independent manager finds the request pending ... *)
ReadApproval(q) ==
    /\ decision[q] = "idle" /\ approval.status = "PENDING"
    /\ CallUser[q] \in Managers /\ CallUser[q] # approval.requester
    /\ decision' = [decision EXCEPT ![q] = "read"]
    /\ UNCHANGED <<policy, activation, approval, release, token, review, verdictOf, late, orgVars>>

(* ... and writes the decision, the request and the release decision, which it
   loads after its UPDATE of the request was flushed and holds that row.  The
   release decision is written only where it differs. *)
Released(outcome) ==
    [outcome |-> outcome, status |-> IF outcome = "APPROVED" THEN "READY" ELSE "DECIDED"]

ReleasedIfApproved(outcome) ==
    IF outcome = "APPROVED" THEN [outcome |-> outcome, status |-> "READY"] ELSE release

DecideIfApproved(q, outcome) ==
    /\ decision[q] = "read"
    /\ approval' = [approval EXCEPT !.status = outcome, !.decisions = @ + 1]
    /\ raced' = (raced \/ approval.status # "PENDING")
    /\ release' = ReleasedIfApproved(outcome)
    /\ decision' = [decision EXCEPT ![q] = "done"]
    /\ UNCHANGED <<policy, activation, token, review, verdictOf, late,
                   account, member, request, project, envs, team, direct, sso>>

DecideByAction(q, outcome) ==
    /\ decision[q] = "read"
    /\ approval' = [approval EXCEPT !.status = "approval." \o outcome, !.decisions = @ + 1]
    /\ release' = Released(outcome)
    /\ decision' = [decision EXCEPT ![q] = "done"]
    /\ UNCHANGED <<policy, activation, token, review, verdictOf, late, raced,
                   account, member, request, project, envs, team, direct, sso>>

DecideApproval(q, outcome) ==
    /\ decision[q] = "read"
    /\ approval' = [approval EXCEPT !.status = outcome, !.decisions = @ + 1]
    /\ raced' = (raced \/ approval.status # "PENDING")
    /\ release' = Released(outcome)
    /\ decision' = [decision EXCEPT ![q] = "done"]
    /\ UNCHANGED <<policy, activation, token, review, verdictOf, late,
                   account, member, request, project, envs, team, direct, sso>>
-----------------------------------------------------------------------------
CreateToken ==
    /\ project /\ Managers # {} /\ Len(token) < MaxTokens
    /\ token' = Append(token, [revoked |-> FALSE, old |-> 0])
    /\ UNCHANGED <<policy, activation, approval, decision, release, review, verdictOf, late, orgVars>>

RevokeToken(i) ==
    /\ i \in DOMAIN token /\ Managers # {}
    /\ token' = [token EXCEPT ![i].revoked = TRUE]
    /\ UNCHANGED <<policy, activation, approval, decision, release, review, verdictOf, late, orgVars>>

(* a token that is revoked already can still be rotated *)
RotateToken(i) ==
    /\ i \in DOMAIN token /\ Managers # {} /\ Len(token) < MaxTokens
    /\ token' = Append([token EXCEPT ![i].revoked = TRUE], [revoked |-> FALSE, old |-> i])
    /\ UNCHANGED <<policy, activation, approval, decision, release, review, verdictOf, late, orgVars>>
-----------------------------------------------------------------------------
(* an item for every member and every token that is not revoked *)
CreateAccessReview ==
    /\ review.status = "absent" /\ Managers # {}
    /\ review' = [status |-> "OPEN", revokes |-> {},
                  items |-> {x \in Subjects :
                      \/ x.kind = "member" /\ member[x.id] # "NONE"
                      \/ x.kind = "token" /\ x.id \in DOMAIN token /\ ~token[x.id].revoked}]
    /\ UNCHANGED <<policy, activation, approval, decision, release, token, verdictOf, late, orgVars>>

(* whatever the status of the review *)
DecideItem(x, v) ==
    /\ x \in review.items /\ Managers # {} /\ verdictOf[x] # v
    /\ verdictOf' = [verdictOf EXCEPT ![x] = v]
    /\ late' = IF review.status = "OPEN" THEN late ELSE late \cup {x}
    /\ UNCHANGED <<policy, activation, approval, decision, release, token, review, orgVars>>

RevokesOfMembers == {x \in review.items : x.kind = "member" /\ verdictOf[x] = "REVOKE"}

Revokes == {x \in review.items : verdictOf[x] = "REVOKE"}

ReadRevokes ==
    /\ review.status = "OPEN" /\ Managers # {}
    /\ review' = [review EXCEPT !.status = "reading", !.revokes = Revokes]
    /\ UNCHANGED <<policy, activation, approval, decision, release, token, verdictOf, late, orgVars>>

(* Tokens are revoked; memberships end, but for an OWNER. *)
CompleteReview ==
    /\ review.status = "reading"
    /\ review' = [review EXCEPT !.status = "COMPLETED"]
    /\ token' = [i \in DOMAIN token |->
                    IF [kind |-> "token", id |-> i] \in review.revokes
                    THEN [token[i] EXCEPT !.revoked = TRUE] ELSE token[i]]
    /\ member' = [u \in Users |->
                    IF [kind |-> "member", id |-> u] \in review.revokes /\ member[u] # "OWNER"
                    THEN "NONE" ELSE member[u]]
    /\ UNCHANGED <<policy, activation, approval, decision, release, verdictOf, late,
                   account, request, project, envs, team, direct, sso, raced>>

PolicyNext ==
    \/ CreatePolicy \/ \E q \in PolicyCalls : ReadPolicies(q) \/ ActivatePolicy(q)
    \/ \E i \in 1 .. MaxVersions : DisablePolicy(i)

ApprovalNext ==
    \/ \E u \in Users : RequestApproval(u)
    \/ \E q \in Approvers : ReadApproval(q) \/ \E o \in Outcomes : DecideApproval(q, o)

ReviewNext ==
    \/ CreateToken \/ \E i \in Tokens : RevokeToken(i) \/ RotateToken(i)
    \/ CreateAccessReview \/ ReadRevokes \/ CompleteReview
    \/ \E x \in Subjects, v \in {"KEEP", "REVOKE"} : DecideItem(x, v)

(* What changes the memberships leaves the rest of governance alone. *)
GovernanceNext ==
    \/ PolicyNext \/ ApprovalNext \/ ReviewNext
    \/ (MemberNext \/ AccessNext \/ IdentityNext) /\ UNCHANGED govVars

GovernanceSpec == OrganizationInit /\ GovernanceInit /\ [][GovernanceNext]_<<orgVars, govVars>>
-----------------------------------------------------------------------------
(* As long as no request writes over what another changed since it looked, the
   organization keeps an owner, a policy has one active version and an approval
   is decided once (services/member.py:106-111, 133-137;
   services/governance_service.py:85-97, 171-173).  Nothing but the absence of
   such a race makes this true: the checks hold no lock. *)
RulesHoldUnlessRaced ==
    ~raced =>
        /\ Owners(member) # {}
        /\ Cardinality({i \in DOMAIN policy : policy[i] = "ACTIVE"}) <= 1
        /\ approval.decisions <= 1

(* Races or not, a decided approval and the release decision it is about say
   the same (services/governance_service.py:191-204). *)
ReleaseFollowsApproval ==
    approval.status \in Outcomes => release = Released(approval.status)

(* A completed review is enforced: no token that was marked for revocation while
   the review was open is valid, nor ever again
   (services/governance_service.py:331-352).  The tokens that replaced it are not
   in the review, and a decision taken later is kept but not enforced. *)
ReviewEnforced ==
    review.status = "COMPLETED" =>
        \A x \in review.items \ late :
            x.kind = "token" /\ verdictOf[x] = "REVOKE" => token[x.id].revoked
=============================================================================
