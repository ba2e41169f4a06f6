------------------------------- MODULE Sessions --------------------------------
(***************************************************************************)
(* The refresh-token sessions of one user: services/auth.py and the         *)
(* user_sessions table.  A refresh reads the row of its token, and rotates  *)
(* it or revokes everything in a later statement that does not look again.  *)
(* Access tokens are not here: user_from_token checks their signature, and  *)
(* that the user is active, and no session.                                 *)
(***************************************************************************)
EXTENDS Integers, Sequences

CONSTANTS
    Refreshes,   \* calls of refresh_tokens
    MaxSessions, \* bound on the rows
    MaxSweeps    \* bound on the calls that revoke every session

ASSUME SessionsAssumption == MaxSessions \in Nat \ {0} /\ MaxSweeps \in Nat

VARIABLES
    sessions,  \* user_sessions in the order of insertion
    refresh,   \* the calls of refresh_tokens and what each has read
    sweeps     \* observer: how often every session was revoked

sessVars == <<sessions, refresh, sweeps>>
-----------------------------------------------------------------------------
Ids == 1 .. MaxSessions
Row(parent, began, seenSweeps) ==
    [revoked |-> FALSE, expired |-> FALSE, parent |-> parent, began |-> began,
     seenSweeps |-> seenSweeps, sweeps |-> sweeps]
NoRefresh == [stage |-> "idle", id |-> 0, finding |-> "none", began |-> 0, sweeps |-> 0]

(* parent, began, seenSweeps and sweeps only observe: the session a row rotates,
   how many rows and sweeps there were when its refresh read, and at insertion. *)
SessionsTypeOK ==
    /\ sessions \in Seq([revoked : BOOLEAN, expired : BOOLEAN, parent : 0 .. MaxSessions,
                         began : 0 .. MaxSessions, seenSweeps : Nat, sweeps : Nat])
    /\ Len(sessions) <= MaxSessions
    /\ refresh \in [Refreshes -> [stage : {"idle", "read", "done"}, id : 0 .. MaxSessions,
                                  finding : {"none", "reused", "expired", "valid"},
                                  began : 0 .. MaxSessions, sweeps : Nat]]
    /\ sweeps \in Nat

SessionsInit == sessions = <<>> /\ refresh = [q \in Refreshes |-> NoRefresh] /\ sweeps = 0

AllRevoked == [i \in DOMAIN sessions |-> [sessions[i] EXCEPT !.revoked = TRUE]]
-----------------------------------------------------------------------------
(* register, login and the callback of single sign-on issue a first pair *)
Login ==
    /\ Len(sessions) < MaxSessions
    /\ sessions' = Append(sessions, Row(0, Len(sessions), sweeps))
    /\ UNCHANGED <<refresh, sweeps>>

(* every row lives equally long, so the oldest expires first *)
Expire(i) ==
    /\ i \in DOMAIN sessions /\ ~sessions[i].expired
    /\ \A j \in 1 .. i - 1 : sessions[j].expired
    /\ sessions' = [sessions EXCEPT ![i].expired = TRUE]
    /\ UNCHANGED <<refresh, sweeps>>

Finding(i) ==
    CASE sessions[i].revoked -> "reused"
      [] ~sessions[i].revoked /\ sessions[i].expired -> "expired"
      [] OTHER -> "valid"

(* (The signature of an expired refresh token is refused too, before any row is
   read: that call changes nothing.) *)
ReadToken(q) ==
    /\ refresh[q].stage = "idle"
    /\ \E i \in DOMAIN sessions :
          refresh' = [refresh EXCEPT ![q] = [stage |-> "read", id |-> i, finding |-> Finding(i),
                                             began |-> Len(sessions), sweeps |-> sweeps]]
    /\ UNCHANGED <<sessions, sweeps>>

Found(q, finding) ==
    /\ refresh[q].stage = "read" /\ refresh[q].finding = finding
    /\ refresh' = [refresh EXCEPT ![q] = [NoRefresh EXCEPT !.stage = "done"]]

RotateKeeping(q) ==
    /\ Found(q, "valid") /\ Len(sessions) < MaxSessions
    /\ sessions' = Append(sessions, Row(refresh[q].id, refresh[q].began, refresh[q].sweeps))
    /\ UNCHANGED sweeps

Rotate(q) ==
    /\ Found(q, "valid") /\ Len(sessions) < MaxSessions
    /\ sessions' = Append([sessions EXCEPT ![refresh[q].id].revoked = TRUE],
                          Row(refresh[q].id, refresh[q].began, refresh[q].sweeps))
    /\ UNCHANGED sweeps

RejectExpired(q) ==
    /\ Found(q, "expired")
    /\ sessions' = [sessions EXCEPT ![refresh[q].id].revoked = TRUE]
    /\ UNCHANGED sweeps

(* a revoked token was presented: every session of the user is revoked *)
RejectReused(q) ==
    /\ Found(q, "reused")
    /\ sessions' = AllRevoked /\ sweeps' = sweeps + 1

RevokeSession(i) ==
    /\ i \in DOMAIN sessions
    /\ sessions' = [sessions EXCEPT ![i].revoked = TRUE]
    /\ UNCHANGED <<refresh, sweeps>>

RevokeAllSessions ==
    /\ sweeps < MaxSweeps
    /\ sessions' = AllRevoked /\ sweeps' = sweeps + 1
    /\ UNCHANGED refresh

SessionsNext ==
    \/ Login \/ RevokeAllSessions
    \/ \E i \in Ids : Expire(i) \/ RevokeSession(i)
    \/ \E q \in Refreshes : ReadToken(q) \/ Rotate(q) \/ RejectExpired(q) \/ RejectReused(q)

SessionsSpec == SessionsInit /\ [][SessionsNext]_sessVars
-----------------------------------------------------------------------------
Children(i) == {c \in DOMAIN sessions : sessions[c].parent = i}

(* A refresh token is used twice only by calls that overlapped: of two sessions
   that rotate the same one, the later's refresh had read its row before the
   earlier was inserted (services/auth.py:158-207). *)
ReuseOnlyWhenOverlapping ==
    \A i \in DOMAIN sessions : \A c, d \in Children(i) : c < d => sessions[d].began < c

(* Revoking every session, on request or because a token was reused, ends every
   chain: no session comes of one that was swept before its refresh started,
   and a live one that was inserted before the last sweep does not exist. *)
SweepsCutChains ==
    \A c \in DOMAIN sessions :
        /\ sessions[c].parent # 0 =>
              sessions[c].seenSweeps = sessions[sessions[c].parent].sweeps
        /\ ~sessions[c].revoked => sessions[c].sweeps = sweeps

(* What holds of the chains of rotated tokens although no row is locked:
   refresh_tokens, revoke_session and revoke_all_sessions (services/auth.py:135-255). *)
ChainsSound == ReuseOnlyWhenOverlapping /\ SweepsCutChains
=============================================================================
