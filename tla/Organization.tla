----------------------------- MODULE Organization ------------------------------
(***************************************************************************)
(* One organization: its members, a project with its environments, teams    *)
(* and grants, and single sign-on (services/organization.py, member.py,     *)
(* project.py, environment.py, team_service.py, identity_service.py and     *)
(* core/permissions.py).                                                    *)
(*                                                                          *)
(* The requests that change a membership check what they read and write     *)
(* back later, so they have two steps.  The others are one step: what they  *)
(* check is a unique constraint too, and the loser of a race changes        *)
(* nothing.                                                                 *)
(***************************************************************************)
EXTENDS Integers, FiniteSets

CONSTANTS
    Users,      \* accounts that may belong to the organization
    Teams,
    EnvTypes,   \* environment types
    Requests,   \* membership requests
    Roles,      \* the roles used, a subset of DOMAIN Rank
    FirstRoles  \* the memberships a behaviour may start with

Rank == [OWNER |-> 4, ADMIN |-> 3, ENGINEER |-> 2, VIEWER |-> 1, NONE |-> 0]
MaybeRole == Roles \cup {"NONE"}

ASSUME OrganizationAssumption ==
    /\ Roles \subseteq {"OWNER", "ADMIN", "ENGINEER", "VIEWER"}
    /\ FirstRoles \subseteq [Users -> MaybeRole]

VARIABLES
    account,  \* which users have an account
    member,   \* role of each user in the organization, or NONE
    request,  \* the membership requests in flight, with what each has read
    project,  \* whether the project exists
    envs,     \* the types its environments have
    team,     \* each team: existence, people, role on the project or NONE
    direct,   \* user_project_access: role of each user on the project
    sso,      \* the identity provider (status, policy, whether allowed_domains lists
              \* the domain, default_role) and the status of the domain
    raced     \* observer: a request wrote back over a membership it had not read

orgVars == <<account, member, request, project, envs, team, direct, sso, raced>>
-----------------------------------------------------------------------------
NoTeam == [exists |-> FALSE, people |-> {}, access |-> "NONE"]
IdleRequest == [kind |-> "idle", actor |-> "none", target |-> "none", role |-> "NONE",
                seen |-> [u \in Users |-> "NONE"]]
IdPStatus == {"DRAFT", "ACTIVE", "DISABLED", "ERROR"}
Policies == {"ALLOW_ALL", "ALLOW_APPROVED_DOMAINS_ONLY", "DISABLED"}

OrganizationTypeOK ==
    /\ account \subseteq Users
    /\ member \in [Users -> MaybeRole]
    /\ request \in [Requests -> [kind : {"idle", "add", "change", "remove", "done"},
                                 actor : Users \cup {"none"}, target : Users \cup {"none"},
                                 role : MaybeRole, seen : [Users -> MaybeRole]]]
    /\ project \in BOOLEAN /\ envs \subseteq EnvTypes
    /\ team \in [Teams -> [exists : BOOLEAN, people : SUBSET Users, access : MaybeRole]]
    /\ direct \in [Users -> MaybeRole]
    /\ sso \in [idp : IdPStatus, policy : Policies, listed : BOOLEAN, role : MaybeRole,
                domain : {"absent", "PENDING", "VERIFIED"}]
    /\ raced \in BOOLEAN

(* register and create make the organization with its creator as OWNER; any
   memberships with an owner may follow. *)
OrganizationInit ==
    /\ member \in {f \in FirstRoles : \E u \in Users : f[u] = "OWNER"}
    /\ account = {u \in Users : member[u] # "NONE"}
    /\ request = [q \in Requests |-> IdleRequest]
    /\ project = TRUE /\ envs = {}
    /\ team = [t \in Teams |-> NoTeam]
    /\ direct = [u \in Users |-> "NONE"]
    /\ \E p \in Policies, listed \in BOOLEAN, r \in Roles \ {"OWNER"} :
          sso = [idp |-> "DRAFT", policy |-> p, listed |-> listed, domain |-> "absent", role |-> r]
    /\ raced = FALSE
-----------------------------------------------------------------------------
(* Role -> capabilities, by the roles that have them all *)
Can(role, capability) ==
    role \in CASE capability = "manage" -> {"OWNER", "ADMIN"}
               [] capability = "run"    -> {"OWNER", "ADMIN", "ENGINEER"}
               [] capability = "view"   -> {"OWNER", "ADMIN", "ENGINEER", "VIEWER"}

Managers == {u \in Users : Can(member[u], "manage")}
Owners(m) == {u \in Users : m[u] = "OWNER"}

(* resolve_user_project_access: direct over team over organization; a project
   somebody has a grant on is closed to the members who have none. *)
TeamRoles(u) == {team[t].access : t \in {x \in Teams : u \in team[x].people}} \ {"NONE"}
Best(roles) == CHOOSE r \in roles : \A s \in roles : Rank[s] <= Rank[r]
Restricted == (\E u \in Users : direct[u] # "NONE") \/ (\E t \in Teams : team[t].access # "NONE")

EffectiveOfAnyTeam(u) ==
    CASE member[u] = "NONE" -> "NONE"
      [] member[u] # "NONE" /\ direct[u] # "NONE" -> direct[u]
      [] OTHER -> Best({team[t].access : t \in Teams} \cup {member[u]})

EffectiveRole(u) ==
    CASE member[u] = "NONE" -> "NONE"
      [] member[u] # "NONE" /\ direct[u] # "NONE" -> direct[u]
      [] member[u] # "NONE" /\ direct[u] = "NONE" /\ TeamRoles(u) # {} -> Best(TeamRoles(u))
      [] OTHER -> IF Restricted /\ member[u] \notin {"OWNER", "ADMIN"} THEN "NONE" ELSE member[u]
-----------------------------------------------------------------------------
(* What MemberService checks before it adds, changes or removes a member. *)
MayAdd(u) == member[u] = "NONE"

MayChangeAnyOwner(actor, u, role) ==
    /\ member[u] # "NONE"
    /\ member[actor] = "ADMIN" => member[u] # "OWNER" /\ role # "OWNER"

MayChange(actor, u, role) ==
    /\ member[u] # "NONE"
    /\ member[actor] = "ADMIN" => member[u] # "OWNER" /\ role # "OWNER"
    /\ member[u] = "OWNER" /\ role # "OWNER" => Cardinality(Owners(member)) > 1

MayRemove(actor, u) ==
    /\ member[u] # "NONE"
    /\ member[u] = "OWNER" => member[actor] = "OWNER" /\ Cardinality(Owners(member)) > 1

AskMember(q, kind) ==
    /\ request[q].kind = "idle"
    /\ \E actor \in Managers, u \in account, role \in Roles :
          /\ CASE kind = "add"    -> MayAdd(u)
               [] kind = "change" -> MayChange(actor, u, role)
               [] kind = "remove" -> MayRemove(actor, u)
          /\ request' = [request EXCEPT ![q] = [kind |-> kind, actor |-> actor, target |-> u,
                            role |-> IF kind = "remove" THEN "NONE" ELSE role, seen |-> member]]
    /\ UNCHANGED <<account, member, project, envs, team, direct, sso, raced>>

(* The write.  A second row for a user is refused by uq_org_member_org_user; an
   UPDATE of a removed row fails; an unchanged role is not written. *)
WriteMember(q) ==
    /\ request[q].kind \in {"add", "change", "remove"}
    /\ LET r == request[q]
           present == member[r.target] # "NONE"
           lands == IF r.kind = "add" THEN ~present
                    ELSE present /\ (r.kind = "change" => r.role # r.seen[r.target])
       IN  /\ member' = IF lands THEN [member EXCEPT ![r.target] = r.role] ELSE member
           /\ raced' = (raced \/ (lands /\ member # r.seen))
    /\ request' = [request EXCEPT ![q] = [IdleRequest EXCEPT !.kind = "done"]]
    /\ UNCHANGED <<account, project, envs, team, direct, sso>>

MemberNext ==
    \E q \in Requests :
        (\E k \in {"add", "change", "remove"} : AskMember(q, k)) \/ WriteMember(q)
-----------------------------------------------------------------------------
RestUnchanged == UNCHANGED <<account, member, request, sso, raced>>

CreateTeam(t) ==
    /\ ~team[t].exists
    /\ \E u \in Managers : team' = [team EXCEPT ![t] = [NoTeam EXCEPT !.exists = TRUE, !.people = {u}]]
    /\ RestUnchanged /\ UNCHANGED <<project, envs, direct>>

(* its memberships and its access go with it *)
DeleteTeam(t) ==
    /\ team[t].exists /\ Managers # {}
    /\ team' = [team EXCEPT ![t] = NoTeam]
    /\ RestUnchanged /\ UNCHANGED <<project, envs, direct>>

(* Only a member of the organization can join; leaving the organization does not
   leave the team. *)
JoinTeam(t, u) ==
    /\ team[t].exists /\ member[u] # "NONE" /\ u \notin team[t].people /\ Managers # {}
    /\ team' = [team EXCEPT ![t].people = @ \cup {u}]
    /\ RestUnchanged /\ UNCHANGED <<project, envs, direct>>

LeaveTeam(t, u) ==
    /\ u \in team[t].people /\ Managers # {}
    /\ team' = [team EXCEPT ![t].people = @ \ {u}]
    /\ RestUnchanged /\ UNCHANGED <<project, envs, direct>>

GrantTeam(t, role) ==
    /\ team[t].exists /\ project /\ Managers # {}
    /\ team' = [team EXCEPT ![t].access = role]
    /\ RestUnchanged /\ UNCHANGED <<project, envs, direct>>

RevokeTeam(t) ==
    /\ team[t].access # "NONE" /\ Managers # {}
    /\ team' = [team EXCEPT ![t].access = "NONE"]
    /\ RestUnchanged /\ UNCHANGED <<project, envs, direct>>

(* The target need not be a member; no operation removes a direct grant. *)
GrantUser(u, role) ==
    /\ project /\ u \in account /\ Managers # {}
    /\ direct' = [direct EXCEPT ![u] = role]
    /\ RestUnchanged /\ UNCHANGED <<project, envs, team>>

CreateProject ==
    /\ ~project /\ Managers # {}
    /\ project' = TRUE
    /\ RestUnchanged /\ UNCHANGED <<envs, team, direct>>

(* environments and grants go with it *)
DeleteProject ==
    /\ project /\ Managers # {}
    /\ project' = FALSE /\ envs' = {}
    /\ team' = [t \in Teams |-> [team[t] EXCEPT !.access = "NONE"]]
    /\ direct' = [u \in Users |-> "NONE"]
    /\ RestUnchanged

CreateEnvironment(e) ==
    /\ project /\ e \notin envs /\ Managers # {}
    /\ envs' = envs \cup {e}
    /\ RestUnchanged /\ UNCHANGED <<project, team, direct>>

DeleteEnvironment(e) ==
    /\ e \in envs /\ Managers # {}
    /\ envs' = envs \ {e}
    /\ RestUnchanged /\ UNCHANGED <<project, team, direct>>

AccessNext ==
    \/ \E t \in Teams :
          \/ CreateTeam(t) \/ DeleteTeam(t) \/ RevokeTeam(t)
          \/ \E u \in Users : JoinTeam(t, u) \/ LeaveTeam(t, u)
          \/ \E role \in Roles \ {"OWNER"} : GrantTeam(t, role)
    \/ \E u \in Users, role \in Roles \ {"OWNER"} : GrantUser(u, role)
    \/ CreateProject \/ DeleteProject
    \/ \E e \in EnvTypes : CreateEnvironment(e) \/ DeleteEnvironment(e)
-----------------------------------------------------------------------------
SetIdPStatus(s) ==
    /\ Managers # {} /\ sso.idp # s
    /\ sso' = [sso EXCEPT !.idp = s]
    /\ UNCHANGED <<account, member, request, project, envs, team, direct, raced>>

RegisterDomain ==
    /\ Managers # {} /\ sso.domain = "absent"
    /\ sso' = [sso EXCEPT !.domain = "PENDING"]
    /\ UNCHANGED <<account, member, request, project, envs, team, direct, raced>>

VerifyDomain ==
    /\ Managers # {} /\ sso.domain = "PENDING"
    /\ sso' = [sso EXCEPT !.domain = "VERIFIED"]
    /\ UNCHANGED <<account, member, request, project, envs, team, direct, raced>>

RemoveDomain ==
    /\ Managers # {} /\ sso.domain # "absent"
    /\ sso' = [sso EXCEPT !.domain = "absent"]
    /\ UNCHANGED <<account, member, request, project, envs, team, direct, raced>>

(* handle_sso_callback: a new account needs the policy's consent; an account
   that exists joins, or rejoins, whatever the policy says. *)
Provisions ==
    \/ sso.policy = "ALLOW_ALL"
    \/ sso.policy = "ALLOW_APPROVED_DOMAINS_ONLY" /\ (sso.domain = "VERIFIED" \/ sso.listed)

SsoLogin(u) ==
    /\ sso.idp = "ACTIVE" /\ (u \in account \/ Provisions)
    /\ account' = account \cup {u}
    /\ member' = IF member[u] = "NONE" THEN [member EXCEPT ![u] = sso.role] ELSE member
    /\ UNCHANGED <<request, project, envs, team, direct, sso, raced>>

IdentityNext ==
    \/ \E s \in IdPStatus : SetIdPStatus(s)
    \/ RegisterDomain \/ VerifyDomain \/ RemoveDomain
    \/ \E u \in Users : SsoLogin(u)
-----------------------------------------------------------------------------
(* Granting somebody else access to a project may close it to me, but never
   gives me more than I had: the grants of a team I am not in, or of another
   user, do not count for me (core/permissions.py:190-272). *)
OthersGrantsNeverRaise ==
    [][\A u \in Users, role \in Roles :
          \/ \E v \in Users \ {u} : GrantUser(v, role)
          \/ \E t \in Teams : u \notin team[t].people /\ GrantTeam(t, role)
          => Rank[EffectiveRole(u)'] <= Rank[EffectiveRole(u)]]_orgVars
=============================================================================
