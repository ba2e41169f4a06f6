---------------------------- MODULE Accounts_proofs ----------------------------
(***************************************************************************)
(* Proofs about what an organization keeps: the sessions of its users, its  *)
(* backups, policies and reviews, legal holds, assessments and alerts, for  *)
(* any number of rows, calls and processes.                                 *)
(***************************************************************************)
EXTENDS Sessions, Backup, Governance, Retention, Operations, Alerts, Compliance, FiniteSetTheorems, SequenceTheorems, TLAPS

(* Sessions.  A session that was rotated is revoked, and of a call that found one
   valid, what it read of the row is still so: every session that came of it since
   was inserted after the read. *)
SessionRow == [revoked : BOOLEAN, expired : BOOLEAN, parent : 0 .. MaxSessions,
               began : 0 .. MaxSessions, seenSweeps : Nat, sweeps : Nat]
RefreshRow == [stage : {"idle", "read", "done"}, id : 0 .. MaxSessions,
               finding : {"none", "reused", "expired", "valid"}, began : 0 .. MaxSessions, sweeps : Nat]

RotatedAreRevoked ==
    \A i \in DOMAIN sessions : sessions[i].parent # 0 =>
        sessions[i].parent \in DOMAIN sessions /\ sessions[sessions[i].parent].revoked

ReadsHold ==
    \A q \in Refreshes : refresh[q].stage = "read" =>
        /\ refresh[q].id \in DOMAIN sessions /\ refresh[q].began <= Len(sessions)
        /\ refresh[q].finding = "valid" =>
              /\ refresh[q].sweeps = sessions[refresh[q].id].sweeps
              /\ \A c \in Children(refresh[q].id) : refresh[q].began < c

SessionsInv == SessionsTypeOK /\ RotatedAreRevoked /\ ReadsHold /\ ChainsSound

(* Every step revokes some sessions, or marks one expired, and may append one. *)
LEMMA SessionsUpdate ==
    ASSUME SessionsInv, NEW kept \in Seq(SessionRow), Len(kept) = Len(sessions), sessions' = kept,
           \A i \in DOMAIN sessions :
               /\ kept[i].parent = sessions[i].parent /\ kept[i].began = sessions[i].began
               /\ kept[i].seenSweeps = sessions[i].seenSweeps /\ kept[i].sweeps = sessions[i].sweeps
               /\ sessions[i].revoked => kept[i].revoked,
           sweeps' \in Nat,
           sweeps' = sweeps \/ \A i \in DOMAIN sessions : kept[i].revoked,
           refresh' \in [Refreshes -> RefreshRow],
           \A q \in Refreshes : refresh'[q].stage = "read" => refresh'[q] = refresh[q]
    PROVE  SessionsInv'
<1>1. /\ sessions \in Seq(SessionRow) /\ Len(sessions) <= MaxSessions
      /\ RotatedAreRevoked /\ ReadsHold /\ ReuseOnlyWhenOverlapping /\ SweepsCutChains
    BY DEF SessionsInv, SessionsTypeOK, ChainsSound, SessionRow
<1>2. DOMAIN sessions' = DOMAIN sessions
    BY <1>1
<1>3. SessionsTypeOK'
    BY <1>1 DEF SessionsTypeOK, SessionRow, RefreshRow
<1>4. RotatedAreRevoked'
    BY <1>1, <1>2 DEF RotatedAreRevoked
<1>5. \A i \in DOMAIN sessions : Children(i)' = Children(i)
    BY <1>2 DEF Children
<1>6. ReadsHold'
    BY <1>1, <1>2, <1>5 DEF ReadsHold
<1>7. ReuseOnlyWhenOverlapping'
    BY <1>1, <1>2, <1>5 DEF ReuseOnlyWhenOverlapping, Children
<1>8. SweepsCutChains'
    BY <1>1, <1>2 DEF SweepsCutChains, RotatedAreRevoked
<1> QED
    BY <1>3, <1>4, <1>6, <1>7, <1>8 DEF SessionsInv, ChainsSound

LEMMA SessionsAppend ==
    ASSUME SessionsInv, NEW kept \in Seq(SessionRow), Len(kept) = Len(sessions),
           \A i \in DOMAIN sessions :
               /\ kept[i].parent = sessions[i].parent /\ kept[i].began = sessions[i].began
               /\ kept[i].seenSweeps = sessions[i].seenSweeps /\ kept[i].sweeps = sessions[i].sweeps
               /\ sessions[i].revoked => kept[i].revoked,
           NEW row \in SessionRow, row.sweeps = sweeps, Len(sessions) < MaxSessions,
           row.parent # 0 => /\ row.parent \in DOMAIN sessions /\ kept[row.parent].revoked
                             /\ row.seenSweeps = sessions[row.parent].sweeps
                             /\ \A c \in Children(row.parent) : row.began < c,
           sessions' = Append(kept, row), sweeps' = sweeps,
           refresh' \in [Refreshes -> RefreshRow],
           \A q \in Refreshes : refresh'[q].stage = "read" => refresh'[q] = refresh[q]
    PROVE  SessionsInv'
<1> DEFINE n == Len(sessions)
<1>1. /\ sessions \in Seq(SessionRow) /\ n \in Nat /\ sweeps \in Nat /\ DOMAIN sessions = 1 .. n
      /\ RotatedAreRevoked /\ ReadsHold /\ ReuseOnlyWhenOverlapping /\ SweepsCutChains
      /\ MaxSessions \in Nat
    BY SessionsAssumption DEF SessionsInv, SessionsTypeOK, ChainsSound, SessionRow
<1>2. /\ DOMAIN sessions' = 1 .. (n + 1) /\ sessions' \in Seq(SessionRow) /\ Len(sessions') = n + 1
      /\ \A i \in 1 .. n : sessions'[i] = kept[i]
      /\ sessions'[n + 1] = row
    BY <1>1
<1>3. SessionsTypeOK'
    BY <1>1, <1>2 DEF SessionsTypeOK, SessionRow, RefreshRow
<1> HIDE DEF n
<1>4. \A i \in 1 .. n : /\ sessions'[i].parent = sessions[i].parent /\ sessions'[i].began = sessions[i].began
                        /\ sessions'[i].seenSweeps = sessions[i].seenSweeps
                        /\ sessions'[i].sweeps = sessions[i].sweeps
                        /\ sessions[i].revoked => sessions'[i].revoked
    BY <1>1, <1>2
<1>5. row.parent # 0 => /\ row.parent \in 1 .. n /\ sessions'[row.parent].revoked
                        /\ row.seenSweeps = sessions[row.parent].sweeps
    BY <1>1, <1>2
<1>6. RotatedAreRevoked'
    <2> SUFFICES ASSUME NEW i \in 1 .. (n + 1), sessions'[i].parent # 0
                 PROVE  sessions'[i].parent \in 1 .. (n + 1) /\ sessions'[sessions'[i].parent].revoked
        BY <1>2 DEF RotatedAreRevoked
    <2>1. CASE i \in 1 .. n
        <3>1. sessions[i].parent \in 1 .. n /\ sessions[sessions[i].parent].revoked
            BY <1>1, <1>4, <2>1 DEF RotatedAreRevoked
        <3> QED
            BY <1>1, <1>4, <2>1, <3>1
    <2>2. CASE i = n + 1
        BY <1>1, <1>2, <1>5, <2>2
    <2> QED
        BY <1>1, <2>1, <2>2
<1>7. \A i \in 1 .. n : \A c \in Children(i)' : c \in Children(i) \/ (c = n + 1 /\ row.parent = i)
    BY <1>1, <1>2, <1>4 DEF Children
<1>8. ReadsHold'
    <2> SUFFICES ASSUME NEW q \in Refreshes, refresh'[q].stage = "read"
                 PROVE  /\ refresh[q].id \in 1 .. (n + 1) /\ refresh[q].began <= n + 1
                        /\ refresh[q].finding = "valid" =>
                              /\ refresh[q].sweeps = sessions'[refresh[q].id].sweeps
                              /\ \A c \in Children(refresh[q].id)' : refresh[q].began < c
        BY <1>2 DEF ReadsHold
    <2>1. refresh[q].id \in 1 .. n /\ refresh[q].began <= n /\ refresh[q].began \in Nat
        BY <1>1, SessionsAssumption DEF ReadsHold, SessionsInv, SessionsTypeOK, n
    <2>2. refresh[q].finding = "valid" =>
              /\ refresh[q].sweeps = sessions[refresh[q].id].sweeps
              /\ \A c \in Children(refresh[q].id) : refresh[q].began < c
        BY <1>1 DEF ReadsHold
    <2> QED
        BY <1>1, <1>4, <1>7, <2>1, <2>2
<1>9. ReuseOnlyWhenOverlapping'
    <2> SUFFICES ASSUME NEW i \in 1 .. (n + 1), NEW c \in Children(i)', NEW d \in Children(i)', c < d
                 PROVE  sessions'[d].began < c
        BY <1>2 DEF ReuseOnlyWhenOverlapping
    <2>1. /\ c \in 1 .. (n + 1) /\ d \in 1 .. (n + 1) /\ sessions'[c].parent = i /\ sessions'[d].parent = i
          /\ c \in 1 .. n
        BY <1>1, <1>2 DEF Children
    <2>2. i \in 1 .. n
        <3>1. sessions[c].parent = i /\ i # 0
            BY <1>1, <1>4, <2>1
        <3> QED
            BY <1>1, <2>1, <3>1 DEF RotatedAreRevoked
    <2>3. c \in Children(i)
        BY <1>1, <1>4, <2>1 DEF Children
    <2>4. CASE d \in 1 .. n
        <3>1. d \in Children(i) /\ sessions'[d].began = sessions[d].began
            BY <1>1, <1>4, <2>1, <2>4 DEF Children
        <3> QED
            BY <1>1, <2>2, <2>3, <3>1 DEF ReuseOnlyWhenOverlapping
    <2>5. CASE d = n + 1
        BY <1>2, <2>1, <2>2, <2>3, <2>5
    <2> QED
        BY <1>1, <2>1, <2>4, <2>5, SMTT(30)
<1>10. SweepsCutChains'
    <2> SUFFICES ASSUME NEW c \in 1 .. (n + 1)
                 PROVE  /\ sessions'[c].parent # 0 => sessions'[c].seenSweeps = sessions'[sessions'[c].parent].sweeps
                        /\ ~sessions'[c].revoked => sessions'[c].sweeps = sweeps
        BY <1>2 DEF SweepsCutChains
    <2>1. CASE c \in 1 .. n
        <3>1. sessions[c].parent # 0 =>
                 sessions[c].parent \in 1 .. n /\ sessions[c].seenSweeps = sessions[sessions[c].parent].sweeps
            BY <1>1, <2>1 DEF SweepsCutChains, RotatedAreRevoked
        <3>2. ~sessions[c].revoked => sessions[c].sweeps = sweeps
            BY <1>1, <2>1 DEF SweepsCutChains
        <3> QED
            BY <1>4, <2>1, <3>1, <3>2, ZenonT(30)
    <2>2. CASE c = n + 1
        BY <1>2, <1>4, <1>5, <2>2
    <2> QED
        <3>1. c \in 1 .. n \/ c = n + 1
            BY <1>1
        <3> QED
            BY <2>1, <2>2, <3>1, Zenon
<1> QED
    BY <1>3, <1>6, <1>8, <1>9, <1>10 DEF SessionsInv, ChainsSound

(* Revoked, expired or as it was, a row keeps what it observed. *)
LEMMA RevokedRow ==
    ASSUME NEW row \in SessionRow
    PROVE  /\ LET new == [row EXCEPT !.revoked = TRUE] IN
              /\ new \in SessionRow /\ new.revoked /\ new.parent = row.parent /\ new.began = row.began
              /\ new.seenSweeps = row.seenSweeps /\ new.sweeps = row.sweeps
           /\ LET new == [row EXCEPT !.expired = TRUE] IN
              /\ new \in SessionRow /\ new.revoked = row.revoked /\ new.parent = row.parent /\ new.began = row.began
              /\ new.seenSweeps = row.seenSweeps /\ new.sweeps = row.sweeps
BY DEF SessionRow

LEMMA SessionsNextPreserves == SessionsInv /\ [SessionsNext]_sessVars => SessionsInv'
<1> SUFFICES ASSUME SessionsInv, [SessionsNext]_sessVars
             PROVE  SessionsInv'
    OBVIOUS
<1>1. /\ sessions \in Seq(SessionRow) /\ Len(sessions) <= MaxSessions /\ sweeps \in Nat
      /\ refresh \in [Refreshes -> RefreshRow]
      /\ RotatedAreRevoked /\ ReadsHold /\ ReuseOnlyWhenOverlapping /\ SweepsCutChains
    BY DEF SessionsInv, SessionsTypeOK, ChainsSound, SessionRow, RefreshRow
<1>2. \A i \in DOMAIN sessions : sessions[i] \in SessionRow
    BY <1>1
<1>3. Len(sessions) \in 0 .. MaxSessions /\ DOMAIN sessions = 1 .. Len(sessions)
    BY <1>1, SessionsAssumption
<1>4. ASSUME NEW i \in DOMAIN sessions
      PROVE  LET kept == [sessions EXCEPT ![i].revoked = TRUE] IN
             /\ kept \in Seq(SessionRow) /\ Len(kept) = Len(sessions) /\ kept[i].revoked
             /\ \A j \in DOMAIN sessions :
                   /\ kept[j].parent = sessions[j].parent /\ kept[j].began = sessions[j].began
                   /\ kept[j].seenSweeps = sessions[j].seenSweeps /\ kept[j].sweeps = sessions[j].sweeps
                   /\ sessions[j].revoked => kept[j].revoked
    <2> DEFINE row == [sessions[i] EXCEPT !.revoked = TRUE]
               kept == [sessions EXCEPT ![i] = row]
    <2>1. /\ row \in SessionRow /\ row.revoked /\ row.parent = sessions[i].parent /\ row.began = sessions[i].began
          /\ row.seenSweeps = sessions[i].seenSweeps /\ row.sweeps = sessions[i].sweeps
        BY <1>2, RevokedRow, Zenon
    <2> HIDE DEF row
    <2>2. /\ kept \in Seq(SessionRow) /\ Len(kept) = Len(sessions) /\ kept[i] = row
          /\ \A j \in DOMAIN sessions : j # i => kept[j] = sessions[j]
        BY <1>1, <2>1
    <2>3. [sessions EXCEPT ![i].revoked = TRUE] = kept
        BY DEF row
    <2> HIDE DEF kept
    <2> QED
        BY <2>1, <2>2, <2>3
<1>5. ASSUME sessions' = AllRevoked, sweeps' = sweeps + 1, refresh' \in [Refreshes -> RefreshRow],
             \A q \in Refreshes : refresh'[q].stage = "read" => refresh'[q] = refresh[q]
      PROVE  SessionsInv'
    <2> DEFINE kept == AllRevoked
    <2>1. \A i \in DOMAIN sessions :
              /\ kept[i] \in SessionRow /\ kept[i].revoked
              /\ kept[i].parent = sessions[i].parent /\ kept[i].began = sessions[i].began
              /\ kept[i].seenSweeps = sessions[i].seenSweeps /\ kept[i].sweeps = sessions[i].sweeps
        BY <1>2, RevokedRow, Zenon DEF AllRevoked
    <2>2. kept \in Seq(SessionRow) /\ Len(kept) = Len(sessions)
        <3>1. kept \in [1 .. Len(sessions) -> SessionRow]
            BY <1>3, <2>1 DEF AllRevoked
        <3> QED
            BY <1>3, <3>1
    <2> QED
        BY <1>1, <1>5, <2>1, <2>2, SessionsUpdate
<1>6. CASE Login
    <2>1. Row(0, Len(sessions), sweeps) \in SessionRow /\ Row(0, Len(sessions), sweeps).parent = 0
          /\ Row(0, Len(sessions), sweeps).sweeps = sweeps
        BY <1>1, <1>3, SessionsAssumption DEF Row, SessionRow
    <2> QED
        BY <1>1, <1>6, <2>1, SessionsAppend DEF Login
<1>7. ASSUME NEW i \in Ids, Expire(i)
      PROVE  SessionsInv'
    <2> DEFINE row == [sessions[i] EXCEPT !.expired = TRUE]
               kept == [sessions EXCEPT ![i] = row]
    <2>1. i \in DOMAIN sessions /\ UNCHANGED <<refresh, sweeps>> /\ sessions' = kept
        BY <1>7 DEF Expire
    <2>2. /\ row \in SessionRow /\ row.revoked = sessions[i].revoked /\ row.parent = sessions[i].parent
          /\ row.began = sessions[i].began /\ row.seenSweeps = sessions[i].seenSweeps /\ row.sweeps = sessions[i].sweeps
        BY <1>2, <2>1, RevokedRow, Zenon
    <2> HIDE DEF row
    <2>3. /\ kept \in Seq(SessionRow) /\ Len(kept) = Len(sessions) /\ kept[i] = row
          /\ \A j \in DOMAIN sessions : j # i => kept[j] = sessions[j]
        BY <1>1, <2>1, <2>2
    <2> HIDE DEF kept
    <2> QED
        BY <1>1, <2>1, <2>2, <2>3, SessionsUpdate
<1>8. ASSUME NEW i \in Ids, RevokeSession(i)
      PROVE  SessionsInv'
    BY <1>1, <1>4, <1>8, SessionsUpdate DEF RevokeSession
<1>9. CASE RevokeAllSessions
    BY <1>1, <1>5, <1>9 DEF RevokeAllSessions
<1>10. ASSUME NEW q \in Refreshes, NEW finding, Found(q, finding)
       PROVE  /\ refresh' \in [Refreshes -> RefreshRow]
              /\ \A x \in Refreshes : refresh'[x].stage = "read" => refresh'[x] = refresh[x]
              /\ refresh[q].id \in DOMAIN sessions
    <2>1. [NoRefresh EXCEPT !.stage = "done"] \in RefreshRow /\ [NoRefresh EXCEPT !.stage = "done"].stage = "done"
        BY SessionsAssumption DEF NoRefresh, RefreshRow
    <2> QED
        BY <1>1, <1>10, <2>1 DEF Found, ReadsHold
<1>11. ASSUME NEW q \in Refreshes, ReadToken(q)
       PROVE  SessionsInv'
    <2>1. PICK i \in DOMAIN sessions :
             /\ refresh' = [refresh EXCEPT ![q] = [stage |-> "read", id |-> i, finding |-> Finding(i),
                                                   began |-> Len(sessions), sweeps |-> sweeps]]
             /\ sessions' = sessions /\ sweeps' = sweeps
        BY <1>11 DEF ReadToken
    <2>2. Finding(i) \in {"reused", "expired", "valid"} /\ (Finding(i) = "valid" => ~sessions[i].revoked)
        BY DEF Finding
    <2>3. [stage |-> "read", id |-> i, finding |-> Finding(i), began |-> Len(sessions), sweeps |-> sweeps] \in RefreshRow
        <3>1. i \in 0 .. MaxSessions
            BY <1>3, <2>1, SessionsAssumption
        <3> QED
            BY <1>1, <1>3, <2>2, <3>1 DEF RefreshRow
    <2>4. refresh' \in [Refreshes -> RefreshRow]
        BY <1>1, <2>1, <2>3
    <2>5. Finding(i) = "valid" => sessions[i].sweeps = sweeps /\ Children(i) = {}
        <3>1. i # 0
            BY <1>3, <2>1
        <3> QED
            BY <1>1, <2>1, <2>2, <3>1 DEF SweepsCutChains, RotatedAreRevoked, Children
    <2>6. ReadsHold'
        <3>1. \A x : Children(x)' = Children(x)
            BY <2>1 DEF Children
        <3> QED
            BY <1>1, <1>3, <2>1, <2>5, <3>1 DEF ReadsHold
    <2>7. RotatedAreRevoked' /\ ReuseOnlyWhenOverlapping' /\ SweepsCutChains'
        BY <1>1, <2>1 DEF RotatedAreRevoked, ReuseOnlyWhenOverlapping, SweepsCutChains, Children
    <2> QED
        BY <1>1, <2>1, <2>4, <2>6, <2>7 DEF SessionsInv, SessionsTypeOK, ChainsSound, SessionRow, RefreshRow
<1>12. ASSUME NEW q \in Refreshes, Rotate(q)
       PROVE  SessionsInv'
    <2> DEFINE id == refresh[q].id
               kept == [sessions EXCEPT ![id].revoked = TRUE]
               row == Row(id, refresh[q].began, refresh[q].sweeps)
    <2>1. /\ Found(q, "valid") /\ Len(sessions) < MaxSessions /\ sessions' = Append(kept, row) /\ sweeps' = sweeps
        BY <1>12 DEF Rotate
    <2>2. /\ id \in DOMAIN sessions /\ refresh[q].sweeps = sessions[id].sweeps
          /\ \A c \in Children(id) : refresh[q].began < c
        BY <1>1, <2>1 DEF Found, ReadsHold
    <2>3. /\ row \in SessionRow /\ row.parent = id /\ row.began = refresh[q].began
          /\ row.seenSweeps = refresh[q].sweeps /\ row.sweeps = sweeps
        BY <1>1 DEF Row, SessionRow, RefreshRow
    <2>4. /\ kept \in Seq(SessionRow) /\ Len(kept) = Len(sessions) /\ kept[id].revoked
          /\ \A j \in DOMAIN sessions :
                /\ kept[j].parent = sessions[j].parent /\ kept[j].began = sessions[j].began
                /\ kept[j].seenSweeps = sessions[j].seenSweeps /\ kept[j].sweeps = sessions[j].sweeps
                /\ sessions[j].revoked => kept[j].revoked
        BY <1>4, <2>2
    <2>5. /\ refresh' \in [Refreshes -> RefreshRow]
          /\ \A x \in Refreshes : refresh'[x].stage = "read" => refresh'[x] = refresh[x]
        BY <1>10, <2>1
    <2> HIDE DEF id, kept, row
    <2> QED
        BY <2>1, <2>2, <2>3, <2>4, <2>5, SessionsAppend
<1>13. ASSUME NEW q \in Refreshes, RejectExpired(q)
       PROVE  SessionsInv'
    BY <1>1, <1>4, <1>10, <1>13, SessionsUpdate DEF RejectExpired
<1>14. ASSUME NEW q \in Refreshes, RejectReused(q)
       PROVE  SessionsInv'
    BY <1>5, <1>10, <1>14 DEF RejectReused
<1>15. CASE UNCHANGED sessVars
    BY <1>1, <1>15, SessionsUpdate DEF sessVars
<1> QED
    BY <1>6, <1>7, <1>8, <1>9, <1>11, <1>12, <1>13, <1>14, <1>15 DEF SessionsNext

(* A refresh token is used twice only by calls that overlapped, and revoking every
   session ends every chain of rotated tokens: refresh_tokens, revoke_session and
   revoke_all_sessions, with any number of calls, sessions and sweeps. *)
THEOREM SessionChains == SessionsSpec => []ChainsSound
<1>1. SessionsInit => SessionsInv
    <2> SUFFICES ASSUME SessionsInit
                 PROVE  SessionsInv
        OBVIOUS
    <2>1. sessions = <<>> /\ DOMAIN sessions = {} /\ Len(sessions) = 0
        BY DEF SessionsInit
    <2>2. SessionsTypeOK
        BY <2>1, SessionsAssumption DEF SessionsInit, SessionsTypeOK, NoRefresh
    <2>3. ReadsHold
        BY DEF ReadsHold, SessionsInit, NoRefresh
    <2> QED
        BY <2>1, <2>2, <2>3 DEF SessionsInv, RotatedAreRevoked, ChainsSound, ReuseOnlyWhenOverlapping, SweepsCutChains
<1>2. SessionsInv => ChainsSound
    BY DEF SessionsInv
<1> QED
    BY <1>1, <1>2, SessionsNextPreserves, PTL DEF SessionsSpec
-----------------------------------------------------------------------------
(* Backup.  Unless two backups had one name, whoever works on a file is alone with
   it, and what was digested was intact; what a restoration that nothing disturbed has
   verified is what its file still holds. *)
DumpRow == [of : Nat, intact : BOOLEAN]
DumperRow == [at : {"idle", "dump", "digest", "sum"}, file : Files \cup {""}, of : Nat, digest : DumpRow]
RestorerRow == [at : {"idle", "verified", "copy", "restored"}, file : Files \cup {""}, verified : DumpRow,
                checked : BOOLEAN, alone : BOOLEAN, got : Nat]

BackupTypes ==
    /\ data \in Nat /\ contents \in Nat
    /\ dump \in [Files -> DumpRow] /\ sum \in [Files -> DumpRow]
    /\ dumper \in [Dumpers -> DumperRow] /\ restorer \in [Restorers -> RestorerRow]
    /\ \A d \in Dumpers : dumper[d].at # "idle" => dumper[d].file \in Files
    /\ \A r \in Restorers : restorer[r].at # "idle" => restorer[r].file \in Files

FileSound(f) ==
    f \notin clashed =>
        /\ sum[f] # NoDump => sum[f].intact
        /\ \A d \in Dumpers : dumper[d].file = f =>
              /\ dumper[d].at = "digest" => dump[f].intact
              /\ dumper[d].at = "sum" => dumper[d].digest.intact
        /\ \A d, o \in Dumpers :
              dumper[d].at # "idle" /\ dumper[o].at # "idle" /\ dumper[d].file = f /\ dumper[o].file = f => d = o

RunSound(run) ==
    /\ run.at # "idle" /\ run.checked /\ run.file \notin clashed => run.verified.intact
    /\ run.at \in {"verified", "copy"} /\ run.alone => run.verified = dump[run.file]
    /\ run.at = "restored" /\ run.checked /\ run.alone /\ run.file \notin clashed => run.got = run.verified.of

BackupInv ==
    /\ BackupTypes /\ \A f \in Files : FileSound(f)
    /\ \A r \in Restorers : RunSound(restorer[r])

LEMMA DumperMoves ==
    ASSUME NEW row \in DumperRow, NEW s \in {"digest", "sum"}
    PROVE  LET new == [row EXCEPT !.at = s] IN
           new \in DumperRow /\ new.at = s /\ new.file = row.file /\ new.digest = row.digest
BY DEF DumperRow

LEMMA DumperDigests ==
    ASSUME NEW row \in DumperRow, NEW s \in {"digest", "sum"}, NEW content \in DumpRow
    PROVE  LET new == [row EXCEPT !.at = s, !.digest = content] IN
           new \in DumperRow /\ new.at = s /\ new.file = row.file /\ new.digest = content
BY DEF DumperRow

LEMMA DumperWritten ==
    ASSUME BackupTypes, NEW d \in Dumpers, NEW row \in DumperRow, dumper' = [dumper EXCEPT ![d] = row]
    PROVE  /\ dumper' \in [Dumpers -> DumperRow] /\ dumper'[d] = row
           /\ \A o \in Dumpers \ {d} : dumper'[o] = dumper[o]
BY DEF BackupTypes

LEMMA RunDisturbed ==
    ASSUME NEW row \in RestorerRow, NEW b \in BOOLEAN
    PROVE  LET new == [row EXCEPT !.alone = b] IN
           /\ new \in RestorerRow /\ new.at = row.at /\ new.file = row.file /\ new.verified = row.verified
           /\ new.checked = row.checked /\ new.got = row.got /\ new.alone = b
BY DEF RestorerRow

(* What goes on beside a restoration takes from it at most that it was alone. *)
LEMMA MeanwhileKeeps ==
    ASSUME BackupTypes, NEW rs, NEW r \in Restorers, NEW new, new = Meanwhile(rs)[r]
    PROVE  /\ new \in RestorerRow /\ new.at = restorer[r].at /\ new.file = restorer[r].file
           /\ new.verified = restorer[r].verified /\ new.checked = restorer[r].checked /\ new.got = restorer[r].got
           /\ new.alone => restorer[r].alone /\ r \notin rs
<1>1. PICK row \in RestorerRow : row = restorer[r]
    BY DEF BackupTypes
<1>2. PICK b \in BOOLEAN : b = FALSE
    OBVIOUS
<1>3. CASE r \in rs
    <2>1. new = [row EXCEPT !.alone = b]
        BY <1>1, <1>2, <1>3 DEF Meanwhile
    <2>2. /\ new \in RestorerRow /\ new.at = row.at /\ new.file = row.file /\ new.verified = row.verified
          /\ new.checked = row.checked /\ new.got = row.got /\ new.alone = b
        BY <2>1, RunDisturbed
    <2> QED
        BY <1>1, <1>2, <2>2
<1>4. CASE r \notin rs
    BY <1>1, <1>4 DEF Meanwhile
<1> QED
    BY <1>3, <1>4

LEMMA RunsStaySound ==
    ASSUME BackupInv, NEW rs, restorer' = Meanwhile(rs), clashed \subseteq clashed',
           \A r \in Restorers \ rs : restorer[r].at \in {"verified", "copy"} =>
               dump'[restorer[r].file] = dump[restorer[r].file]
    PROVE  /\ restorer' \in [Restorers -> RestorerRow]
           /\ \A r \in Restorers : restorer'[r].at # "idle" => restorer'[r].file \in Files
           /\ \A r \in Restorers : RunSound(restorer[r])'
<1>1. BackupTypes
    BY DEF BackupInv
<1>2. restorer' = [r \in Restorers |-> restorer'[r]]
    BY DEF Meanwhile
<1>3. ASSUME NEW r \in Restorers
      PROVE  /\ restorer'[r] \in RestorerRow /\ RunSound(restorer[r])'
             /\ restorer'[r].at # "idle" => restorer'[r].file \in Files
    <2>1. PICK new : new = Meanwhile(rs)[r] /\ new = restorer'[r]
        OBVIOUS
    <2>2. /\ new \in RestorerRow /\ new.at = restorer[r].at /\ new.file = restorer[r].file
          /\ new.verified = restorer[r].verified /\ new.checked = restorer[r].checked /\ new.got = restorer[r].got
          /\ new.alone => restorer[r].alone /\ r \notin rs
        BY <1>1, <2>1, MeanwhileKeeps
    <2>3. RunSound(restorer[r]) /\ (restorer[r].at # "idle" => restorer[r].file \in Files)
        BY DEF BackupInv, BackupTypes
    <2> QED
        BY <2>1, <2>2, <2>3 DEF RunSound
<1> QED
    BY <1>2, <1>3

LEMMA BackupDataChanges ==
    ASSUME BackupInv, DataChanges
    PROVE  BackupInv'
<1>1. data' \in Nat /\ contents' \in Nat /\ restorer' = Meanwhile(Copying) /\ UNCHANGED <<dump, sum, dumper, clashed>>
    BY DEF DataChanges, NewContent, BackupInv, BackupTypes
<1>2. /\ restorer' \in [Restorers -> RestorerRow]
      /\ \A r \in Restorers : restorer'[r].at # "idle" => restorer'[r].file \in Files
      /\ \A r \in Restorers : RunSound(restorer[r])'
    BY <1>1, RunsStaySound
<1>3. BackupTypes'
    BY <1>1, <1>2 DEF BackupInv, BackupTypes
<1>4. \A f \in Files : FileSound(f)'
    BY <1>1 DEF BackupInv, FileSound
<1> QED
    BY <1>2, <1>3, <1>4 DEF BackupInv

LEMMA DumpStarted ==
    ASSUME BackupInv, NEW d \in Dumpers, NEW f \in Files, StartDump(d, f)
    PROVE  BackupInv'
<1> DEFINE row == [at |-> "dump", file |-> f, of |-> data, digest |-> NoDump]
           content == [of |-> data, intact |-> FALSE]
<1>1. /\ dumper[d].at = "idle" /\ dumper' = [dumper EXCEPT ![d] = row] /\ dump' = [dump EXCEPT ![f] = content]
      /\ clashed' = clashed \cup {x \in {f} : \E o \in Dumpers \ {d} : dumper[o].file = x}
      /\ restorer' = Meanwhile(Reading(f)) /\ UNCHANGED <<data, contents, sum>>
    BY DEF StartDump
<1>2. BackupTypes /\ data \in Nat /\ dump \in [Files -> DumpRow]
    BY DEF BackupInv, BackupTypes
<1>3. row \in DumperRow /\ row.at = "dump" /\ row.file = f /\ content \in DumpRow
    BY <1>2 DEF DumperRow, DumpRow, NoDump
<1> HIDE DEF row, content
<1>4. \A x \in Files \ {f} : dump'[x] = dump[x]
    BY <1>1, <1>2
<1>5. \A r \in Restorers \ Reading(f) : restorer[r].at \in {"verified", "copy"} =>
          dump'[restorer[r].file] = dump[restorer[r].file]
    BY <1>2, <1>4 DEF Reading, BackupTypes
<1>6. /\ restorer' \in [Restorers -> RestorerRow]
      /\ \A r \in Restorers : restorer'[r].at # "idle" => restorer'[r].file \in Files
      /\ \A r \in Restorers : RunSound(restorer[r])'
    BY <1>1, <1>5, RunsStaySound
<1>7. /\ dumper' \in [Dumpers -> DumperRow] /\ dumper'[d] = row
      /\ \A o \in Dumpers \ {d} : dumper'[o] = dumper[o]
    BY <1>1, <1>2, <1>3, DumperWritten
<1>8. BackupTypes'
    BY <1>1, <1>2, <1>3, <1>6, <1>7 DEF BackupTypes
<1>9. ASSUME NEW x \in Files, x \notin clashed'
      PROVE  FileSound(x)'
    <2>1. FileSound(x) /\ x \notin clashed
        BY <1>1, <1>9 DEF BackupInv
    <2>2. CASE x = f
        <3>1. \A o \in Dumpers \ {d} : dumper[o].file # f
            BY <1>1, <1>9, <2>2
        <3> QED
            BY <1>1, <1>3, <1>7, <2>1, <2>2, <3>1 DEF FileSound
    <2>3. CASE x # f
        BY <1>1, <1>3, <1>4, <1>7, <2>1, <2>3 DEF FileSound
    <2> QED
        BY <2>2, <2>3
<1>10. \A x \in Files : FileSound(x)'
    BY <1>9 DEF FileSound
<1> QED
    BY <1>6, <1>8, <1>10 DEF BackupInv

LEMMA DumpEnded ==
    ASSUME BackupInv, NEW d \in Dumpers, EndDump(d)
    PROVE  BackupInv'
<1> DEFINE row == [dumper[d] EXCEPT !.at = "digest"]
           f == dumper[d].file
<1>1. BackupTypes /\ dump \in [Files -> DumpRow] /\ dumper[d] \in DumperRow /\ dumper[d].of \in Nat
    BY DEF BackupInv, BackupTypes, DumperRow
<1>2. /\ dumper[d].at = "dump" /\ dumper' = [dumper EXCEPT ![d] = row] /\ f \in Files
      /\ restorer' = Meanwhile(Reading(f)) /\ UNCHANGED <<data, contents, sum, clashed>>
    BY <1>1 DEF EndDump, BackupTypes
<1>3. PICK intact \in BOOLEAN : /\ dump' = [dump EXCEPT ![f] = [of |-> dumper[d].of, intact |-> intact]]
                                /\ ~intact => Contending(d) # {}
    BY DEF EndDump
<1>13. PICK n \in Nat : n = dumper[d].of
    BY <1>1
<1>14. PICK content : content = [of |-> n, intact |-> intact]
    OBVIOUS
<1>4. content \in DumpRow /\ content = [of |-> dumper[d].of, intact |-> intact] /\ content.intact = intact
    BY <1>13, <1>14 DEF DumpRow
<1>5. row \in DumperRow /\ row.at = "digest" /\ row.file = f
    BY <1>1, DumperMoves, Zenon
<1> HIDE DEF row
<1>6. dump' \in [Files -> DumpRow] /\ dump'[f].intact = intact /\ \A x \in Files \ {f} : dump'[x] = dump[x]
    BY <1>1, <1>2, <1>3, <1>4
<1>7. \A r \in Restorers \ Reading(f) : restorer[r].at \in {"verified", "copy"} =>
          dump'[restorer[r].file] = dump[restorer[r].file]
    BY <1>1, <1>6 DEF Reading, BackupTypes
<1>8. /\ restorer' \in [Restorers -> RestorerRow]
      /\ \A r \in Restorers : restorer'[r].at # "idle" => restorer'[r].file \in Files
      /\ \A r \in Restorers : RunSound(restorer[r])'
    BY <1>2, <1>7, RunsStaySound
<1>9. /\ dumper' \in [Dumpers -> DumperRow] /\ dumper'[d] = row
      /\ \A o \in Dumpers \ {d} : dumper'[o] = dumper[o]
    BY <1>1, <1>2, <1>5, DumperWritten
<1>10. BackupTypes'
    BY <1>1, <1>2, <1>5, <1>6, <1>8, <1>9 DEF BackupTypes
<1>11. ASSUME NEW x \in Files, x \notin clashed
       PROVE  FileSound(x)'
    <2>1. FileSound(x)
        BY DEF BackupInv
    <2>2. CASE x = f
        <3>1. intact
            BY <1>2, <1>3, <1>11, <2>1, <2>2 DEF FileSound, Contending
        <3> QED
            BY <1>2, <1>5, <1>6, <1>9, <2>1, <2>2, <3>1 DEF FileSound
    <2>3. CASE x # f
        BY <1>2, <1>5, <1>6, <1>9, <2>1, <2>3 DEF FileSound
    <2> QED
        BY <2>2, <2>3
<1>12. \A x \in Files : FileSound(x)'
    BY <1>2, <1>11 DEF FileSound
<1> QED
    BY <1>8, <1>10, <1>12 DEF BackupInv

LEMMA DumpDigested ==
    ASSUME BackupInv, NEW d \in Dumpers, Digest(d)
    PROVE  BackupInv'
<1> DEFINE f == dumper[d].file
           row == [dumper[d] EXCEPT !.at = "sum", !.digest = dump[f]]
<1>1. BackupTypes /\ dumper[d] \in DumperRow
    BY DEF BackupInv, BackupTypes
<1>2. /\ dumper[d].at = "digest" /\ dumper' = [dumper EXCEPT ![d] = row] /\ f \in Files /\ dump[f] \in DumpRow
      /\ UNCHANGED <<data, contents, dump, sum, restorer, clashed>>
    BY <1>1 DEF Digest, BackupTypes
<1>3. row \in DumperRow /\ row.at = "sum" /\ row.file = f /\ row.digest = dump[f]
    BY <1>1, <1>2, DumperDigests, Zenon
<1> HIDE DEF row
<1>4. /\ dumper' \in [Dumpers -> DumperRow] /\ dumper'[d] = row
      /\ \A o \in Dumpers \ {d} : dumper'[o] = dumper[o]
    BY <1>1, <1>2, <1>3, DumperWritten
<1>5. BackupTypes'
    BY <1>1, <1>2, <1>3, <1>4 DEF BackupTypes
<1>6. \A x \in Files : FileSound(x)'
    BY <1>2, <1>3, <1>4 DEF BackupInv, FileSound
<1>7. \A r \in Restorers : RunSound(restorer[r])'
    BY <1>2 DEF BackupInv, RunSound
<1> QED
    BY <1>5, <1>6, <1>7 DEF BackupInv

LEMMA DumpLeft ==
    ASSUME BackupInv, NEW d \in Dumpers, WriteSum(d) \/ CrashDump(d)
    PROVE  BackupInv'
<1>1. BackupTypes /\ dumper[d] \in DumperRow /\ dumper[d].digest \in DumpRow /\ sum \in [Files -> DumpRow]
    BY DEF BackupInv, BackupTypes, DumperRow
<1>2. IdleDumper \in DumperRow /\ IdleDumper.at = "idle"
    BY DEF IdleDumper, DumperRow, NoDump, DumpRow
<1>3. /\ dumper' = [dumper EXCEPT ![d] = IdleDumper] /\ UNCHANGED <<data, contents, dump, restorer, clashed>>
      /\ sum' = sum \/ (dumper[d].at = "sum" /\ sum' = [sum EXCEPT ![dumper[d].file] = dumper[d].digest])
    BY DEF WriteSum, CrashDump
<1>4. /\ dumper' \in [Dumpers -> DumperRow] /\ dumper'[d] = IdleDumper
      /\ \A o \in Dumpers \ {d} : dumper'[o] = dumper[o]
    BY <1>1, <1>2, <1>3, DumperWritten
<1>5. /\ sum' \in [Files -> DumpRow]
      /\ \A x \in Files : sum'[x] = sum[x] \/ (dumper[d].at = "sum" /\ dumper[d].file = x /\ sum'[x] = dumper[d].digest)
    BY <1>1, <1>3
<1>6. BackupTypes'
    BY <1>1, <1>2, <1>3, <1>4, <1>5 DEF BackupTypes
<1>7. ASSUME NEW x \in Files
      PROVE  FileSound(x)'
    <2>1. FileSound(x)
        BY DEF BackupInv
    <2> QED
        BY <1>2, <1>3, <1>4, <1>5, <2>1 DEF FileSound
<1>8. \A r \in Restorers : RunSound(restorer[r])'
    BY <1>3 DEF BackupInv, RunSound
<1> QED
    BY <1>6, <1>7, <1>8 DEF BackupInv

(* Of a restoration a single row is written. *)
LEMMA RunWrittenBack ==
    ASSUME BackupInv, NEW r \in Restorers, NEW row \in RestorerRow, NEW rs,
           restorer' = [Meanwhile(rs) EXCEPT ![r] = row], row.at # "idle" => row.file \in Files,
           RunSound(row), data' \in Nat, contents' \in Nat, UNCHANGED <<dump, sum, dumper, clashed>>
    PROVE  BackupInv'
<1>1. BackupTypes
    BY DEF BackupInv
<1>2. PICK kept : kept = Meanwhile(rs)
    OBVIOUS
<1>3. ASSUME NEW o \in Restorers
      PROVE  /\ kept[o] \in RestorerRow /\ RunSound(kept[o])
             /\ kept[o].at # "idle" => kept[o].file \in Files
    <2>1. PICK new : new = kept[o] /\ new = Meanwhile(rs)[o]
        BY <1>2
    <2>2. /\ new \in RestorerRow /\ new.at = restorer[o].at /\ new.file = restorer[o].file
          /\ new.verified = restorer[o].verified /\ new.checked = restorer[o].checked /\ new.got = restorer[o].got
          /\ new.alone => restorer[o].alone /\ o \notin rs
        BY <1>1, <2>1, MeanwhileKeeps
    <2>3. RunSound(restorer[o]) /\ (restorer[o].at # "idle" => restorer[o].file \in Files)
        BY DEF BackupInv, BackupTypes
    <2> QED
        BY <2>1, <2>2, <2>3 DEF RunSound
<1>4. kept = [o \in Restorers |-> kept[o]]
    BY <1>2 DEF Meanwhile
<1>10. \A o \in Restorers : kept[o] \in RestorerRow
    BY <1>3
<1>5. kept \in [Restorers -> RestorerRow]
    BY <1>4, <1>10, Zenon
<1>6. restorer' \in [Restorers -> RestorerRow] /\ restorer'[r] = row /\ \A o \in Restorers \ {r} : restorer'[o] = kept[o]
    BY <1>2, <1>5
<1>7. BackupTypes'
    BY <1>1, <1>3, <1>6 DEF BackupTypes
<1>8. \A o \in Restorers : RunSound(restorer[o])'
    BY <1>3, <1>6 DEF RunSound
<1>9. \A f \in Files : FileSound(f)'
    BY DEF BackupInv, FileSound
<1> QED
    BY <1>7, <1>8, <1>9 DEF BackupInv

LEMMA NothingMeanwhile == BackupTypes => Meanwhile({}) = restorer
BY DEF BackupTypes, Meanwhile

LEMMA RunVerified ==
    ASSUME BackupInv, NEW r \in Restorers, NEW f \in Files, VerifyFirst(r, f)
    PROVE  BackupInv'
<1>1. BackupTypes /\ dump[f] \in DumpRow /\ data \in Nat /\ contents \in Nat
    BY DEF BackupInv, BackupTypes
<1>2. PICK checked \in BOOLEAN, alone \in BOOLEAN : checked = (sum[f] # NoDump) /\ alone = TRUE
    OBVIOUS
<1>3. PICK row : row = [at |-> "verified", file |-> f, verified |-> dump[f], checked |-> checked, alone |-> alone, got |-> 0]
    OBVIOUS
<1>4. /\ row \in RestorerRow /\ row.at = "verified" /\ row.file = f /\ row.verified = dump[f] /\ row.checked = checked
    BY <1>1, <1>3 DEF RestorerRow
<1>5. restorer' = [restorer EXCEPT ![r] = row] /\ VerifyBackup(f) /\ UNCHANGED <<data, contents, dump, sum, dumper, clashed>>
    BY <1>2, <1>3 DEF VerifyFirst
<1>6. restorer' = [Meanwhile({}) EXCEPT ![r] = row]
    BY <1>1, <1>5, NothingMeanwhile
<1>7. FileSound(f)
    BY DEF BackupInv
<1>8. RunSound(row)
    BY <1>2, <1>4, <1>5, <1>7 DEF RunSound, FileSound, VerifyBackup, ChecksumMatches
<1> QED
    BY <1>1, <1>4, <1>5, <1>6, <1>8, RunWrittenBack

LEMMA CopyBegun ==
    ASSUME BackupInv, NEW r \in Restorers, BeginCopy(r)
    PROVE  BackupInv'
<1>1. PICK old \in RestorerRow : old = restorer[r]
    BY DEF BackupInv, BackupTypes
<1>2. old.at = "verified" /\ RunSound(old) /\ old.file \in Files
    BY <1>1 DEF BeginCopy, BackupInv, BackupTypes
<1>3. PICK alone \in BOOLEAN : alone = (old.alone /\ Copying = {})
    OBVIOUS
<1>4. PICK row : row = [old EXCEPT !.at = "copy", !.alone = alone]
    OBVIOUS
<1>5. /\ row \in RestorerRow /\ row.at = "copy" /\ row.file = old.file /\ row.verified = old.verified
      /\ row.checked = old.checked /\ row.alone = alone
    BY <1>4 DEF RestorerRow
<1>6. restorer' = [Meanwhile(Copying) EXCEPT ![r] = row] /\ UNCHANGED <<dump, sum, dumper, clashed>>
    BY <1>1, <1>3, <1>4 DEF BeginCopy
<1>7. data' \in Nat /\ contents' \in Nat
    BY DEF BeginCopy, NewContent, BackupInv, BackupTypes
<1>8. RunSound(row)
    BY <1>2, <1>3, <1>5 DEF RunSound
<1> QED
    BY <1>2, <1>5, <1>6, <1>7, <1>8, RunWrittenBack

LEMMA CopyEnded ==
    ASSUME BackupInv, NEW r \in Restorers, EndCopy(r)
    PROVE  BackupInv'
<1>1. PICK old \in RestorerRow : old = restorer[r]
    BY DEF BackupInv, BackupTypes
<1>2. BackupTypes /\ old.at = "copy" /\ RunSound(old) /\ old.file \in Files
    BY <1>1 DEF EndCopy, BackupInv, BackupTypes
<1>3. PICK read \in DumpRow : read = dump[old.file]
    BY <1>2 DEF BackupTypes
<1>4. PICK got : got = data'
    OBVIOUS
<1>5. got \in Nat /\ contents' \in Nat /\ (read.intact /\ old.alone => got = read.of)
    BY <1>1, <1>2, <1>3, <1>4 DEF EndCopy, NewContent, BackupTypes, DumpRow
<1>6. PICK row : row = [old EXCEPT !.at = "restored", !.got = got]
    OBVIOUS
<1>7. /\ row \in RestorerRow /\ row.at = "restored" /\ row.file = old.file /\ row.verified = old.verified
      /\ row.checked = old.checked /\ row.alone = old.alone /\ row.got = got
    BY <1>5, <1>6 DEF RestorerRow
<1>8. restorer' = [restorer EXCEPT ![r] = row] /\ UNCHANGED <<dump, sum, dumper, clashed>>
    BY <1>1, <1>4, <1>6 DEF EndCopy
<1>9. restorer' = [Meanwhile({}) EXCEPT ![r] = row]
    BY <1>2, <1>8, NothingMeanwhile
<1>10. RunSound(row)
    BY <1>2, <1>3, <1>5, <1>7 DEF RunSound
<1> QED
    BY <1>2, <1>4, <1>5, <1>7, <1>8, <1>9, <1>10, RunWrittenBack

LEMMA RunAborted ==
    ASSUME BackupInv, NEW r \in Restorers, AbortRestore(r)
    PROVE  BackupInv'
<1>1. BackupTypes /\ data \in Nat /\ contents \in Nat
    BY DEF BackupInv, BackupTypes
<1>2. IdleRestorer \in RestorerRow /\ IdleRestorer.at = "idle" /\ RunSound(IdleRestorer)
    BY DEF IdleRestorer, RestorerRow, NoDump, DumpRow, RunSound
<1>3. restorer' = [restorer EXCEPT ![r] = IdleRestorer] /\ UNCHANGED <<data, contents, dump, sum, dumper, clashed>>
    BY DEF AbortRestore
<1>4. restorer' = [Meanwhile({}) EXCEPT ![r] = IdleRestorer]
    BY <1>1, <1>3, NothingMeanwhile
<1> QED
    BY <1>1, <1>2, <1>3, <1>4, RunWrittenBack

LEMMA BackupNextPreserves == BackupInv /\ [BackupNext]_backupVars => BackupInv'
<1> SUFFICES ASSUME BackupInv, [BackupNext]_backupVars
             PROVE  BackupInv'
    OBVIOUS
<1>1. CASE DataChanges
    BY <1>1, BackupDataChanges
<1>2. ASSUME NEW d \in Dumpers, (\E f \in Files : StartDump(d, f)) \/ EndDump(d) \/ Digest(d) \/ WriteSum(d) \/ CrashDump(d)
      PROVE  BackupInv'
    BY <1>2, DumpStarted, DumpEnded, DumpDigested, DumpLeft
<1>3. ASSUME NEW r \in Restorers, (\E f \in Files : VerifyFirst(r, f)) \/ BeginCopy(r) \/ EndCopy(r) \/ AbortRestore(r)
      PROVE  BackupInv'
    BY <1>3, RunVerified, CopyBegun, CopyEnded, RunAborted
<1>4. CASE UNCHANGED backupVars
    BY <1>4 DEF backupVars, BackupInv, BackupTypes, FileSound, RunSound
<1> QED
    BY <1>1, <1>2, <1>3, <1>4 DEF BackupNext

(* A restoration that succeeds, of a dump with a checksum, leaves the database with all
   it held when that backup began, whatever crashed or was half restored before, unless
   two backups wrote the file at once or something else wrote the file or the database
   meanwhile. *)
THEOREM RestoredWhole == BackupSpec => []RestoresAreWhole
<1>1. BackupInit => BackupInv
    <2> SUFFICES ASSUME BackupInit
                 PROVE  BackupInv
        OBVIOUS
    <2>1. NoDump \in DumpRow
        BY DEF NoDump, DumpRow
    <2>2. IdleDumper \in DumperRow /\ IdleDumper.at = "idle"
        BY <2>1 DEF IdleDumper, DumperRow
    <2>3. IdleRestorer \in RestorerRow /\ IdleRestorer.at = "idle"
        BY <2>1 DEF IdleRestorer, RestorerRow
    <2>4. BackupTypes
        BY <2>1, <2>2, <2>3 DEF BackupInit, BackupTypes
    <2>5. (\A f \in Files : FileSound(f)) /\ \A r \in Restorers : RunSound(restorer[r])
        BY <2>1, <2>2, <2>3 DEF BackupInit, FileSound, RunSound
    <2> QED
        BY <2>4, <2>5 DEF BackupInv
<1>2. BackupInv => RestoresAreWhole
    BY DEF BackupInv, RestoresAreWhole, RunSound
<1> QED
    BY <1>1, <1>2, BackupNextPreserves, PTL DEF BackupSpec
-----------------------------------------------------------------------------
(* Retention.  What a cleanup has deleted, before and after its transaction
   commits, is clear of every hold that it read and that still stands: a policy to
   apply carries the targets that were held.  A type without a race has one policy
   in force, because a call that creates one archives what it saw. *)
RuleRow == [org : Orgs, kind : PolicyKinds, days : Days, active : BOOLEAN]
HoldRow == [org : Orgs, kind : PolicyKinds, target : Records \cup {"*"}, active : BOOLEAN]
WriteRow == [org : Orgs \cup {""}, kind : PolicyKinds \cup {""}, days : Days \cup {0}, seen : SUBSET Nat]
TodoRow == [kind : PolicyKinds, days : Days, held : SUBSET (Records \cup {"*"})]
GoneRow == [record : Records, org : Orgs \cup {""}, kind : PolicyKinds, seen : Nat]
CleanupRow == [at : {"idle", "next", "delete", "commit"}, orgs : SUBSET Orgs, org : Orgs \cup {""},
               todo : SUBSET TodoRow, seen : Nat, gone : SUBSET GoneRow, job : BOOLEAN, dry : BOOLEAN]

RetentionTypes ==
    /\ present \in SUBSET Records /\ rules \in Seq(RuleRow) /\ holds \in Seq(HoldRow)
    /\ writing \in [PolicyWriters -> WriteRow] /\ cleanup \in [Cleaners -> CleanupRow]
    /\ wiped \in SUBSET GoneRow
    /\ \A q \in PolicyWriters : writing[q] # NotWriting => writing[q].org \in Orgs /\ writing[q].kind \in PolicyKinds
                                                           /\ writing[q].days \in Days

ClearOfHolds(g) ==
    /\ g.seen <= Len(holds)
    /\ \A i \in DOMAIN holds :
          i <= g.seen /\ Covers(holds[i], g.record) => holds[i].org # g.org \/ holds[i].kind # g.kind

HeldTargets(c, rule) ==
    \A i \in DOMAIN holds :
        i <= cleanup[c].seen /\ holds[i].active /\ holds[i].org = cleanup[c].org /\ holds[i].kind = rule.kind
            => holds[i].target \in rule.held

CleanupsRespectHolds ==
    /\ \A w \in wiped : ClearOfHolds(w)
    /\ \A c \in Cleaners :
          /\ cleanup[c].seen <= Len(holds)
          /\ \A g \in cleanup[c].gone : ClearOfHolds(g)
          /\ \A rule \in cleanup[c].todo : HeldTargets(c, rule)

OneInForce ==
    /\ \A q \in PolicyWriters : writing[q].seen \subseteq RulesOf(writing[q].org, writing[q].kind)
    /\ \A org \in Orgs, kind \in PolicyKinds : <<org, kind>> \notin crowded =>
          \A i, j \in RulesOf(org, kind) : rules[i].active /\ rules[j].active => i = j

RetentionInv == RetentionTypes /\ CleanupsRespectHolds /\ OneInForce

LEMMA InvRespectsHolds == RetentionInv => HoldsRespected
<1> SUFFICES ASSUME RetentionInv
             PROVE  HoldsRespected
    OBVIOUS
<1>1. CleanupsRespectHolds /\ OneInForce /\ rules \in Seq(RuleRow)
    BY DEF RetentionInv, RetentionTypes
<1>2. \A w \in wiped, i \in DOMAIN holds :
         i <= w.seen /\ Covers(holds[i], w.record) => holds[i].org # w.org \/ holds[i].kind # w.kind
    BY <1>1 DEF CleanupsRespectHolds, ClearOfHolds
<1>3. ASSUME NEW org \in Orgs, NEW kind \in PolicyKinds,
             Cardinality({i \in RulesOf(org, kind) : rules[i].active}) > 1
      PROVE  <<org, kind>> \in crowded /\ Cardinality(RulesOf(org, kind)) > 1
    <2> DEFINE inForce == {i \in RulesOf(org, kind) : rules[i].active}
    <2>1. IsFiniteSet(1 .. Len(rules)) /\ RulesOf(org, kind) \in SUBSET (1 .. Len(rules))
        BY <1>1, FS_Interval DEF RulesOf
    <2>2. IsFiniteSet(RulesOf(org, kind)) /\ inForce \in SUBSET RulesOf(org, kind)
        BY <2>1, FS_Subset
    <2>3. IsFiniteSet(inForce) /\ Cardinality(inForce) <= Cardinality(RulesOf(org, kind))
        BY <2>2, FS_Subset
    <2>4. Cardinality(RulesOf(org, kind)) \in Nat /\ Cardinality(inForce) \in Nat
        BY <2>2, <2>3, FS_CardinalityType
    <2>5. Cardinality({}) = 0 /\ \A x : Cardinality({x}) = 1
        BY FS_EmptySet, FS_Singleton
    <2>6. <<org, kind>> \in crowded
        <3> SUFFICES ASSUME <<org, kind>> \notin crowded
                     PROVE  FALSE
            OBVIOUS
        <3>1. \A i, j \in inForce : i = j
            BY <1>1 DEF OneInForce
        <3>2. inForce = {} \/ \E i : inForce = {i}
            BY <3>1, Zenon
        <3> HIDE DEF inForce
        <3>3. Cardinality(inForce) \in {0, 1}
            BY <2>5, <3>2, Zenon
        <3> QED
            BY <1>3, <3>3 DEF inForce
    <2> QED
        BY <1>3, <2>3, <2>4, <2>6
<1> QED
    BY <1>2, <1>3 DEF HoldsRespected

(* A hold may be added or released: nothing that was clear is held. *)
LEMMA HoldsMove ==
    ASSUME RetentionInv, NEW later \in Seq(HoldRow), Len(later) >= Len(holds), holds' = later,
           \A i \in DOMAIN holds : /\ later[i].org = holds[i].org /\ later[i].kind = holds[i].kind
                                   /\ later[i].target = holds[i].target /\ (later[i].active => holds[i].active),
           UNCHANGED <<today, present, rules, writing, cleanup, wiped, crowded>>
    PROVE  RetentionInv'
<1>1. /\ RetentionTypes /\ CleanupsRespectHolds /\ OneInForce /\ holds \in Seq(HoldRow)
      /\ cleanup \in [Cleaners -> CleanupRow] /\ wiped \in SUBSET GoneRow
    BY DEF RetentionInv, RetentionTypes
<1>2. RetentionTypes' /\ OneInForce'
    BY <1>1 DEF RetentionTypes, OneInForce, RulesOf
<1>3. ASSUME NEW g, g.seen \in Nat, ClearOfHolds(g)
      PROVE  ClearOfHolds(g)'
    BY <1>1, <1>3 DEF ClearOfHolds, Covers
<1>4. ASSUME NEW c \in Cleaners
      PROVE  /\ cleanup[c].seen \in Nat /\ cleanup[c].gone \in SUBSET GoneRow /\ cleanup[c].seen <= Len(holds)
             /\ \A rule \in cleanup[c].todo : HeldTargets(c, rule)
    BY <1>1 DEF CleanupRow, CleanupsRespectHolds
<1>5. ASSUME NEW c \in Cleaners, NEW rule \in cleanup[c].todo
      PROVE  HeldTargets(c, rule)'
    BY <1>1, <1>4 DEF HeldTargets
<1>6. \A g \in GoneRow : g.seen \in Nat
    BY DEF GoneRow
<1>7. CleanupsRespectHolds'
    BY <1>1, <1>3, <1>4, <1>5, <1>6 DEF CleanupsRespectHolds
<1> QED
    BY <1>2, <1>7 DEF RetentionInv

(* One cleanup moves on. *)
LEMMA CleanupMoves ==
    ASSUME RetentionInv, NEW c \in Cleaners, NEW row \in CleanupRow, cleanup' = [cleanup EXCEPT ![c] = row],
           row.seen <= Len(holds),
           \A g \in row.gone : ClearOfHolds(g),
           \A rule \in row.todo : HeldTargets(c, rule)',
           present' \in SUBSET Records, wiped' \in SUBSET GoneRow,
           \A w \in wiped' : ClearOfHolds(w),
           UNCHANGED <<rules, writing, holds, crowded>>
    PROVE  RetentionInv'
<1>1. /\ RetentionTypes /\ CleanupsRespectHolds /\ OneInForce /\ cleanup \in [Cleaners -> CleanupRow]
    BY DEF RetentionInv, RetentionTypes
<1>2. /\ cleanup' \in [Cleaners -> CleanupRow] /\ cleanup'[c] = row
      /\ \A d \in Cleaners \ {c} : cleanup'[d] = cleanup[d]
    BY <1>1
<1>3. RetentionTypes' /\ OneInForce'
    BY <1>1, <1>2 DEF RetentionTypes, OneInForce, RulesOf
<1>4. \A g : ClearOfHolds(g)' <=> ClearOfHolds(g)
    BY DEF ClearOfHolds, Covers
<1>5. \A d \in Cleaners \ {c} : \A rule \in cleanup[d].todo : HeldTargets(d, rule)'
    BY <1>1, <1>2 DEF CleanupsRespectHolds, HeldTargets
<1>6. ASSUME NEW d \in Cleaners
      PROVE  /\ cleanup'[d].seen <= Len(holds)
             /\ \A g \in cleanup'[d].gone : ClearOfHolds(g)
             /\ \A rule \in cleanup'[d].todo : HeldTargets(d, rule)'
    <2>1. CASE d = c
        BY <1>2, <2>1
    <2>2. CASE d # c
        BY <1>1, <1>2, <1>5, <2>2 DEF CleanupsRespectHolds
    <2> QED
        BY <2>1, <2>2
<1>7. CleanupsRespectHolds'
    BY <1>4, <1>6 DEF CleanupsRespectHolds
<1> QED
    BY <1>3, <1>7 DEF RetentionInv

LEMMA RetentionNextPreserves == RetentionInv /\ [RetentionNext]_retentionVars => RetentionInv'
<1> SUFFICES ASSUME RetentionInv, [RetentionNext]_retentionVars
             PROVE  RetentionInv'
    OBVIOUS
<1>1. /\ RetentionTypes /\ CleanupsRespectHolds /\ OneInForce
      /\ present \in SUBSET Records /\ rules \in Seq(RuleRow) /\ holds \in Seq(HoldRow)
      /\ writing \in [PolicyWriters -> WriteRow] /\ cleanup \in [Cleaners -> CleanupRow]
      /\ wiped \in SUBSET GoneRow
      /\ \A w \in wiped : ClearOfHolds(w)
      /\ \A c \in Cleaners : /\ cleanup[c].seen <= Len(holds)
                             /\ \A g \in cleanup[c].gone : ClearOfHolds(g)
                             /\ \A rule \in cleanup[c].todo : HeldTargets(c, rule)
    BY DEF RetentionInv, RetentionTypes, CleanupsRespectHolds
<1>2. NotWriting \in WriteRow /\ NotWriting.seen = {}
    BY DEF NotWriting, WriteRow
<1>3. NoCleanup \in CleanupRow /\ NoCleanup.gone = {} /\ NoCleanup.todo = {} /\ NoCleanup.seen = 0
    BY DEF NoCleanup, CleanupRow
<1>4. ASSUME NEW c \in Cleaners
      PROVE  /\ cleanup[c].seen \in Nat /\ cleanup[c].gone \in SUBSET GoneRow /\ cleanup[c].todo \in SUBSET TodoRow
             /\ cleanup[c].org \in Orgs \cup {""} /\ cleanup[c] \in CleanupRow
    BY <1>1 DEF CleanupRow
<1>5. ASSUME NEW c \in Cleaners, cleanup' = [cleanup EXCEPT ![c] = NoCleanup],
             present' \in SUBSET Records, wiped' \in SUBSET GoneRow, \A w \in wiped' : ClearOfHolds(w),
             UNCHANGED <<rules, writing, holds, crowded>>
      PROVE  RetentionInv'
    <2>1. Len(holds) \in Nat
        BY <1>1
    <2>2. NoCleanup.seen <= Len(holds) /\ (\A g \in NoCleanup.gone : ClearOfHolds(g))
          /\ (\A rule \in NoCleanup.todo : HeldTargets(c, rule)')
        BY <1>3, <2>1
    <2> QED
        BY <1>3, <1>5, <2>2, CleanupMoves
<1>6. CASE DayPasses
    <2>1. UNCHANGED <<present, rules, writing, holds, cleanup, wiped, crowded>>
        BY <1>6 DEF DayPasses
    <2> QED
        BY <1>1, <2>1 DEF RetentionInv, RetentionTypes, CleanupsRespectHolds, OneInForce, RulesOf, ClearOfHolds, Covers, HeldTargets
<1>7. ASSUME NEW q \in PolicyWriters, NEW org \in Orgs, NEW kind \in PolicyKinds, NEW days \in Days,
             ReadRules(q, org, kind, days)
      PROVE  RetentionInv'
    <2> DEFINE row == [org |-> org, kind |-> kind, days |-> days, seen |-> RulesOf(org, kind)]
    <2>1. writing' = [writing EXCEPT ![q] = row] /\ UNCHANGED <<present, rules, holds, cleanup, wiped, crowded>>
        BY <1>7 DEF ReadRules
    <2>2. RulesOf(org, kind) \in SUBSET Nat
        BY <1>1 DEF RulesOf
    <2>3. /\ row \in WriteRow /\ row.org = org /\ row.kind = kind /\ row.days = days
          /\ row.seen = RulesOf(row.org, row.kind)
        BY <2>2 DEF WriteRow
    <2> HIDE DEF row
    <2>4. \A o, k : RulesOf(o, k)' = RulesOf(o, k)
        BY <2>1 DEF RulesOf
    <2>5. RetentionTypes'
        BY <1>1, <2>1, <2>3 DEF RetentionTypes
    <2>6. OneInForce'
        BY <1>1, <2>1, <2>3, <2>4 DEF OneInForce
    <2>7. CleanupsRespectHolds'
        BY <1>1, <2>1 DEF CleanupsRespectHolds, ClearOfHolds, Covers, HeldTargets
    <2> QED
        BY <2>5, <2>6, <2>7 DEF RetentionInv
<1>8. ASSUME NEW q \in PolicyWriters, CreateRule(q)
      PROVE  RetentionInv'
    <2> DEFINE w == writing[q]
               kept == [i \in DOMAIN rules |-> [rules[i] EXCEPT !.active = rules[i].active /\ i \notin w.seen]]
               row == [org |-> w.org, kind |-> w.kind, days |-> w.days, active |-> TRUE]
    <2>1. /\ w # NotWriting /\ rules' = Append(kept, row)
          /\ crowded' = IF RulesOf(w.org, w.kind) = w.seen THEN crowded ELSE crowded \cup {<<w.org, w.kind>>}
          /\ writing' = [writing EXCEPT ![q] = NotWriting]
          /\ UNCHANGED <<present, holds, cleanup, wiped>>
        BY <1>8 DEF CreateRule
    <2>2. w.org \in Orgs /\ w.kind \in PolicyKinds /\ w.days \in Days /\ w.seen \subseteq RulesOf(w.org, w.kind)
        BY <1>1, <2>1 DEF RetentionTypes, OneInForce
    <2>3. row \in RuleRow /\ row.org = w.org /\ row.kind = w.kind
        BY <2>2 DEF RuleRow
    <2>4. ASSUME NEW rule \in RuleRow, NEW b \in BOOLEAN
          PROVE  LET new == [rule EXCEPT !.active = b] IN
                 new \in RuleRow /\ new.org = rule.org /\ new.kind = rule.kind /\ new.active = b
        BY DEF RuleRow
    <2>5. \A i \in DOMAIN rules : rules[i] \in RuleRow /\ (rules[i].active /\ i \notin w.seen) \in BOOLEAN
        BY <1>1
    <2>6. \A i \in DOMAIN rules : /\ kept[i] \in RuleRow
                                  /\ kept[i].org = rules[i].org /\ kept[i].kind = rules[i].kind
                                  /\ kept[i].active = (rules[i].active /\ i \notin w.seen)
        BY <2>4, <2>5, ZenonT(30)
    <2>7. kept \in Seq(RuleRow) /\ Len(kept) = Len(rules) /\ DOMAIN kept = DOMAIN rules
        <3>1. DOMAIN rules = 1 .. Len(rules) /\ Len(rules) \in Nat
            BY <1>1
        <3>2. kept \in [1 .. Len(rules) -> RuleRow]
            BY <2>6, <3>1
        <3> HIDE DEF kept
        <3> QED
            BY <3>1, <3>2
    <2> HIDE DEF kept, row, w
    <2>8. /\ rules' \in Seq(RuleRow) /\ DOMAIN rules' = DOMAIN rules \cup {Len(rules) + 1}
          /\ Len(rules) + 1 \notin DOMAIN rules /\ rules'[Len(rules) + 1] = row
          /\ \A i \in DOMAIN rules : rules'[i] = kept[i]
        BY <1>1, <2>1, <2>3, <2>7
    <2>9. \A o, k : RulesOf(o, k)' = RulesOf(o, k) \cup {i \in {Len(rules) + 1} : o = w.org /\ k = w.kind}
        <3>1. ASSUME NEW o, NEW k, NEW i
              PROVE  i \in RulesOf(o, k)' <=> i \in RulesOf(o, k) \/ (i = Len(rules) + 1 /\ o = w.org /\ k = w.kind)
            BY <2>3, <2>6, <2>8 DEF RulesOf
        <3> QED
            BY <3>1
    <2>10. RetentionTypes'
        <3>1. writing' \in [PolicyWriters -> WriteRow]
            BY <1>1, <1>2, <2>1
        <3>2. \A p \in PolicyWriters : writing'[p] = NotWriting \/ writing'[p] = writing[p]
            BY <1>1, <2>1
        <3> QED
            BY <1>1, <2>1, <2>8, <3>1, <3>2 DEF RetentionTypes
    <2>11. ASSUME NEW p \in PolicyWriters
           PROVE  (writing[p].seen \subseteq RulesOf(writing[p].org, writing[p].kind))'
        <3>1. CASE p = q
            BY <1>1, <1>2, <2>1, <3>1
        <3>2. CASE p # q
            <4>1. writing'[p] = writing[p] /\ writing[p].seen \subseteq RulesOf(writing[p].org, writing[p].kind)
                BY <1>1, <2>1, <3>2 DEF OneInForce
            <4> QED
                BY <2>9, <4>1
        <3> QED
            BY <3>1, <3>2
    <2>12. ASSUME NEW o \in Orgs, NEW k \in PolicyKinds, <<o, k>> \notin crowded',
                  NEW i \in RulesOf(o, k)', NEW j \in RulesOf(o, k)', rules'[i].active, rules'[j].active
           PROVE  i = j
        <3>1. <<o, k>> \notin crowded /\ (o = w.org /\ k = w.kind => RulesOf(w.org, w.kind) = w.seen)
            BY <2>1, <2>12
        <3>2. CASE o = w.org /\ k = w.kind
            <4>1. \A x \in RulesOf(o, k) : x \in DOMAIN rules /\ ~rules'[x].active
                BY <2>6, <2>8, <3>1, <3>2 DEF RulesOf
            <4> QED
                BY <2>9, <2>12, <4>1
        <3>3. CASE ~(o = w.org /\ k = w.kind)
            <4>1. i \in RulesOf(o, k) /\ j \in RulesOf(o, k)
                BY <2>9, <3>3
            <4>2. rules[i].active /\ rules[j].active
                BY <2>6, <2>8, <2>12, <4>1 DEF RulesOf
            <4> QED
                BY <1>1, <3>1, <4>1, <4>2 DEF OneInForce
        <3> QED
            BY <3>2, <3>3
    <2>13. OneInForce'
        BY <2>11, <2>12 DEF OneInForce
    <2>14. CleanupsRespectHolds'
        BY <1>1, <2>1 DEF CleanupsRespectHolds, ClearOfHolds, Covers, HeldTargets
    <2> QED
        BY <2>10, <2>13, <2>14 DEF RetentionInv
<1>9. ASSUME NEW org \in Orgs, NEW kind \in PolicyKinds, NEW target \in Records \cup {"*"},
             PlaceHold(org, kind, target)
      PROVE  RetentionInv'
    <2> DEFINE row == [org |-> org, kind |-> kind, target |-> target, active |-> TRUE]
    <2>1. /\ holds' = Append(holds, row)
          /\ UNCHANGED <<today, present, rules, writing, cleanup, wiped, crowded>>
        BY <1>9 DEF PlaceHold
    <2>2. row \in HoldRow
        BY DEF HoldRow
    <2> HIDE DEF row
    <2>3. /\ Append(holds, row) \in Seq(HoldRow) /\ Len(Append(holds, row)) >= Len(holds)
          /\ \A i \in DOMAIN holds : Append(holds, row)[i] = holds[i]
        BY <1>1, <2>2
    <2> QED
        BY <2>1, <2>3, HoldsMove
<1>10. ASSUME NEW i \in DOMAIN holds, ReleaseHold(i)
       PROVE  RetentionInv'
    <2> DEFINE row == [holds[i] EXCEPT !.active = FALSE]
    <2>1. /\ holds' = [holds EXCEPT ![i] = row]
          /\ UNCHANGED <<today, present, rules, writing, cleanup, wiped, crowded>>
        BY <1>10 DEF ReleaseHold
    <2>2. holds[i] \in HoldRow
        BY <1>1
    <2>3. ASSUME NEW hold \in HoldRow
          PROVE  LET new == [hold EXCEPT !.active = FALSE] IN
                 /\ new \in HoldRow /\ new.org = hold.org /\ new.kind = hold.kind /\ new.target = hold.target
                 /\ ~new.active
        BY DEF HoldRow
    <2>4. /\ row \in HoldRow /\ row.org = holds[i].org /\ row.kind = holds[i].kind /\ row.target = holds[i].target
          /\ ~row.active
        BY <2>2, <2>3, Zenon
    <2> HIDE DEF row
    <2> DEFINE later == [holds EXCEPT ![i] = row]
    <2>5. later \in Seq(HoldRow) /\ Len(later) = Len(holds)
        BY <1>1, <2>4
    <2>6. \A j \in DOMAIN holds : later[j] = IF j = i THEN row ELSE holds[j]
        BY <1>1
    <2>7. \A j \in DOMAIN holds : /\ later[j].org = holds[j].org /\ later[j].kind = holds[j].kind
                                  /\ later[j].target = holds[j].target /\ (later[j].active => holds[j].active)
        BY <2>4, <2>6
    <2>8. holds' = later /\ Len(later) >= Len(holds)
        BY <1>1, <2>1, <2>5
    <2> HIDE DEF later
    <2> QED
        BY <2>1, <2>5, <2>7, <2>8, HoldsMove
<1>11. ASSUME NEW c \in Cleaners, NEW orgs \in SUBSET Orgs, NEW job \in BOOLEAN, NEW dry \in BOOLEAN,
              StartCleanup(c, orgs, job, dry)
       PROVE  RetentionInv'
    <2> DEFINE row == [NoCleanup EXCEPT !.at = "next", !.orgs = orgs, !.job = job, !.dry = dry]
    <2>1. cleanup' = [cleanup EXCEPT ![c] = row] /\ UNCHANGED <<present, rules, writing, holds, wiped, crowded>>
        BY <1>11 DEF StartCleanup
    <2>2. row \in CleanupRow /\ row.gone = {} /\ row.todo = {} /\ row.seen = 0
        BY DEF NoCleanup, CleanupRow
    <2> HIDE DEF row
    <2>3. 0 <= Len(holds)
        BY <1>1
    <2> QED
        BY <1>1, <2>1, <2>2, <2>3, CleanupMoves
<1>12. ASSUME NEW c \in Cleaners, NEW org \in Orgs, ReadOrganization(c, org)
       PROVE  RetentionInv'
    <2> DEFINE Held(i) == {holds[h].target : h \in {x \in DOMAIN holds :
                             holds[x].active /\ holds[x].org = org /\ holds[x].kind = rules[i].kind}}
               Read == {i \in DOMAIN rules : rules[i].active /\ rules[i].org = org}
               todo == {[kind |-> rules[i].kind, days |-> rules[i].days, held |-> Held(i)] : i \in Read}
               row == [cleanup[c] EXCEPT !.at = "delete", !.orgs = cleanup[c].orgs \ {org}, !.org = org,
                                         !.seen = Len(holds), !.todo = todo]
    <2>1. cleanup' = [cleanup EXCEPT ![c] = row] /\ UNCHANGED <<present, rules, writing, holds, wiped, crowded>>
        BY <1>12 DEF ReadOrganization
    <2>2. \A i \in DOMAIN rules : rules[i].kind \in PolicyKinds /\ rules[i].days \in Days
                                  /\ Held(i) \in SUBSET (Records \cup {"*"})
        <3>1. \A h \in DOMAIN holds : holds[h].target \in Records \cup {"*"}
            <4>1. \A h \in DOMAIN holds : holds[h] \in HoldRow
                BY <1>1
            <4> QED
                BY <4>1 DEF HoldRow
        <3>2. \A i \in DOMAIN rules : rules[i] \in RuleRow
            BY <1>1
        <3> QED
            BY <3>1, <3>2 DEF RuleRow
    <2>3. \A rule \in todo : \E i \in Read : rule.kind = rules[i].kind /\ rule.held = Held(i)
        OBVIOUS
    <2>4. \A i \in Read, h \in DOMAIN holds :
              holds[h].active /\ holds[h].org = org /\ holds[h].kind = rules[i].kind => holds[h].target \in Held(i)
        OBVIOUS
    <2>5. todo \in SUBSET TodoRow
        <3>1. \A i \in Read : [kind |-> rules[i].kind, days |-> rules[i].days, held |-> Held(i)] \in TodoRow
            BY <2>2 DEF TodoRow
        <3> QED
            BY <3>1
    <2> HIDE DEF Held, todo
    <2>6. cleanup[c] \in CleanupRow /\ Len(holds) \in Nat
        BY <1>1
    <2>7. /\ row \in CleanupRow /\ row.gone = cleanup[c].gone /\ row.seen = Len(holds) /\ row.todo = todo /\ row.org = org
        BY <2>5, <2>6 DEF CleanupRow
    <2> HIDE DEF row
    <2>8. cleanup'[c] = row
        BY <1>1, <2>1
    <2>9. ASSUME NEW rule \in todo
          PROVE  HeldTargets(c, rule)'
        <3>1. PICK i \in Read : rule.kind = rules[i].kind /\ rule.held = Held(i)
            BY <2>3
        <3> QED
            BY <2>1, <2>4, <2>7, <2>8, <3>1 DEF HeldTargets
    <2>10. row.seen <= Len(holds) /\ (\A g \in row.gone : ClearOfHolds(g))
           /\ (\A rule \in row.todo : HeldTargets(c, rule)')
           /\ present' \in SUBSET Records /\ wiped' \in SUBSET GoneRow /\ (\A w \in wiped' : ClearOfHolds(w))
        BY <1>1, <2>1, <2>6, <2>7, <2>9
    <2> QED
        BY <2>1, <2>7, <2>10, CleanupMoves
<1>13. ASSUME NEW c \in Cleaners, NEW rule \in cleanup[c].todo, ApplyRule(c, rule)
       PROVE  RetentionInv'
    <2> DEFINE fresh == {[record |-> r, org |-> cleanup[c].org, kind |-> rule.kind, seen |-> cleanup[c].seen] :
                         r \in Eligible(c, rule)}
               gone == IF cleanup[c].dry THEN cleanup[c].gone ELSE cleanup[c].gone \cup fresh
               row == [cleanup[c] EXCEPT !.todo = cleanup[c].todo \ {rule}, !.gone = gone]
    <2>1. cleanup' = [cleanup EXCEPT ![c] = row] /\ UNCHANGED <<present, rules, writing, holds, wiped, crowded>>
        BY <1>13 DEF ApplyRule
    <2>2. rule.kind \in PolicyKinds /\ cleanup[c].seen \in Nat /\ cleanup[c].org \in Orgs \cup {""}
          /\ cleanup[c].seen <= Len(holds) /\ HeldTargets(c, rule)
        BY <1>1, <1>4, <1>13 DEF TodoRow
    <2>3. \A r \in Eligible(c, rule) : r \in Records /\ "*" \notin rule.held /\ r \notin rule.held
        BY <1>1 DEF Eligible, Expired
    <2>4. \A r \in Eligible(c, rule) :
              LET g == [record |-> r, org |-> cleanup[c].org, kind |-> rule.kind, seen |-> cleanup[c].seen]
              IN g \in GoneRow /\ ClearOfHolds(g)
        <3> SUFFICES ASSUME NEW r \in Eligible(c, rule)
                     PROVE  LET g == [record |-> r, org |-> cleanup[c].org, kind |-> rule.kind, seen |-> cleanup[c].seen]
                            IN g \in GoneRow /\ ClearOfHolds(g)
            OBVIOUS
        <3> DEFINE g == [record |-> r, org |-> cleanup[c].org, kind |-> rule.kind, seen |-> cleanup[c].seen]
        <3>1. g \in GoneRow /\ g.record = r /\ g.org = cleanup[c].org /\ g.kind = rule.kind /\ g.seen = cleanup[c].seen
            BY <2>2, <2>3 DEF GoneRow
        <3> HIDE DEF g
        <3>2. ClearOfHolds(g)
            BY <2>2, <2>3, <3>1 DEF ClearOfHolds, HeldTargets, Covers
        <3> QED
            BY <3>1, <3>2 DEF g
    <2>5. fresh \in SUBSET GoneRow /\ \A g \in fresh : ClearOfHolds(g)
        BY <2>4
    <2> HIDE DEF fresh
    <2>6. gone \in SUBSET GoneRow /\ \A g \in gone : ClearOfHolds(g)
        BY <1>1, <1>4, <2>5
    <2> HIDE DEF gone
    <2>7. /\ row \in CleanupRow /\ row.gone = gone /\ row.seen = cleanup[c].seen /\ row.org = cleanup[c].org
          /\ row.todo \subseteq cleanup[c].todo
        BY <1>4, <2>6 DEF CleanupRow
    <2> HIDE DEF row
    <2>8. cleanup'[c] = row
        BY <1>1, <2>1
    <2>9. \A x \in row.todo : HeldTargets(c, x)'
        BY <1>1, <2>1, <2>7, <2>8 DEF HeldTargets
    <2>10. row.seen <= Len(holds) /\ (\A g \in row.gone : ClearOfHolds(g))
           /\ present' \in SUBSET Records /\ wiped' \in SUBSET GoneRow /\ (\A w \in wiped' : ClearOfHolds(w))
        BY <1>1, <2>1, <2>2, <2>6, <2>7
    <2> QED
        BY <2>1, <2>7, <2>9, <2>10, CleanupMoves
<1>14. ASSUME NEW c \in Cleaners, NEW s \in {"commit", "next"}, cleanup' = [cleanup EXCEPT ![c].at = s],
              UNCHANGED <<present, rules, writing, holds, wiped, crowded>>
       PROVE  RetentionInv'
    <2> DEFINE row == [cleanup[c] EXCEPT !.at = s]
    <2>1. /\ row \in CleanupRow /\ row.gone = cleanup[c].gone /\ row.seen = cleanup[c].seen
          /\ row.org = cleanup[c].org /\ row.todo = cleanup[c].todo
        BY <1>4 DEF CleanupRow
    <2>2. cleanup' = [cleanup EXCEPT ![c] = row]
        BY <1>14
    <2> HIDE DEF row
    <2>3. cleanup'[c] = row
        BY <1>1, <2>2
    <2>4. \A x \in row.todo : HeldTargets(c, x)'
        <3>1. \A x \in cleanup[c].todo : HeldTargets(c, x)
            BY <1>1
        <3>2. holds' = holds /\ cleanup'[c].seen = cleanup[c].seen /\ cleanup'[c].org = cleanup[c].org
            BY <1>14, <2>1, <2>3
        <3>3. \A x \in cleanup[c].todo : HeldTargets(c, x)'
            BY <3>1, <3>2 DEF HeldTargets
        <3> QED
            BY <2>1, <3>3
    <2>5. row.seen <= Len(holds) /\ (\A g \in row.gone : ClearOfHolds(g))
          /\ present' \in SUBSET Records /\ wiped' \in SUBSET GoneRow /\ (\A w \in wiped' : ClearOfHolds(w))
        BY <1>1, <1>14, <2>1
    <2> QED
        BY <1>14, <2>1, <2>2, <2>4, <2>5, CleanupMoves
<1>15. ASSUME NEW c \in Cleaners, NextOrganization(c)
       PROVE  RetentionInv'
    BY <1>14, <1>15 DEF NextOrganization
<1>16. ASSUME NEW c \in Cleaners, NEW rule \in cleanup[c].todo, FailOnTraces(c, rule)
       PROVE  RetentionInv'
    <2>1. UNCHANGED <<present, rules, writing, holds, wiped, crowded>>
        BY <1>16 DEF FailOnTraces
    <2>2. CASE cleanup' = [cleanup EXCEPT ![c] = NoCleanup]
        BY <1>1, <1>5, <2>1, <2>2
    <2>3. CASE cleanup' = [cleanup EXCEPT ![c].todo = {}]
        <3> DEFINE row == [cleanup[c] EXCEPT !.todo = {}]
        <3>1. row \in CleanupRow /\ row.gone = cleanup[c].gone /\ row.seen = cleanup[c].seen /\ row.todo = {}
            BY <1>4 DEF CleanupRow
        <3>2. cleanup' = [cleanup EXCEPT ![c] = row]
            BY <2>3
        <3> HIDE DEF row
        <3> QED
            BY <1>1, <2>1, <3>1, <3>2, CleanupMoves
    <2> QED
        BY <1>16, <2>2, <2>3 DEF FailOnTraces
<1>17. ASSUME NEW c \in Cleaners, CommitCleanup(c)
       PROVE  RetentionInv'
    <2> DEFINE gone == {g \in cleanup[c].gone : g.record \in present}
    <2>1. /\ present' = present \ {g.record : g \in gone} /\ wiped' = wiped \cup gone
          /\ cleanup' = [cleanup EXCEPT ![c] = NoCleanup] /\ UNCHANGED <<rules, writing, holds, crowded>>
        BY <1>17 DEF CommitCleanup
    <2>2. present' \in SUBSET Records /\ wiped' \in SUBSET GoneRow /\ \A w \in wiped' : ClearOfHolds(w)
        BY <1>1, <1>4, <2>1
    <2> QED
        BY <1>5, <2>1, <2>2
<1>18. ASSUME NEW c \in Cleaners, AbortCleanup(c)
       PROVE  RetentionInv'
    BY <1>1, <1>5, <1>18 DEF AbortCleanup
<1>19. CASE UNCHANGED retentionVars
    <2>1. UNCHANGED <<present, rules, writing, holds, cleanup, wiped, crowded>>
        BY <1>19 DEF retentionVars
    <2> QED
        BY <1>1, <2>1 DEF RetentionInv, RetentionTypes, CleanupsRespectHolds, OneInForce, RulesOf, ClearOfHolds, Covers, HeldTargets
<1>20. ASSUME NEW org \in Orgs
       PROVE  {org} \in SUBSET Orgs
    OBVIOUS
<1> QED
    BY <1>6, <1>7, <1>8, <1>9, <1>10, <1>11, <1>12, <1>13, <1>15, <1>16, <1>17, <1>18, <1>19, <1>20 DEF RetentionNext

(* A cleanup deletes nothing under a hold that it read and that still stands, and a
   type has one policy in force unless two requests raced: place_hold, create_policy
   and execute_retention_cleanup, with any number of policies, holds and cleanups. *)
THEOREM HoldsAreRespected == RetentionSpec => []HoldsRespected
<1>1. RetentionInit => RetentionInv
    <2> SUFFICES ASSUME RetentionInit
                 PROVE  RetentionInv
        OBVIOUS
    <2>1. NotWriting \in WriteRow /\ NotWriting.seen = {} /\ NoCleanup \in CleanupRow
          /\ NoCleanup.gone = {} /\ NoCleanup.todo = {} /\ NoCleanup.seen = 0
        BY DEF NotWriting, WriteRow, NoCleanup, CleanupRow
    <2>2. rules = <<>> /\ holds = <<>> /\ DOMAIN rules = {} /\ Len(holds) = 0
        BY DEF RetentionInit
    <2>3. RetentionTypes
        BY <2>1, <2>2 DEF RetentionTypes, RetentionInit
    <2>4. CleanupsRespectHolds
        BY <2>1, <2>2 DEF CleanupsRespectHolds, RetentionInit
    <2>5. OneInForce
        BY <2>1, <2>2 DEF OneInForce, RetentionInit, RulesOf
    <2> QED
        BY <2>3, <2>4, <2>5 DEF RetentionInv
<1> QED
    BY <1>1, InvRespectsHolds, RetentionNextPreserves, PTL DEF RetentionSpec
-----------------------------------------------------------------------------
(* Governance: the memberships.  A request that will take the role of an owner away
   has read that there was another, so the last one goes only in a race. *)
RequestRow == [kind : {"idle", "add", "change", "remove", "done"}, actor : Users \cup {"none"},
               target : Users \cup {"none"}, role : MaybeRole, seen : [Users -> MaybeRole]]
SsoRow == [idp : IdPStatus, policy : Policies, listed : BOOLEAN, role : MaybeRole,
           domain : {"absent", "PENDING", "VERIFIED"}]

AnotherOwnerSeen ==
    \A q \in Requests :
        LET r == request[q]
        IN r.kind \in {"change", "remove"} /\ r.target \in Users /\ r.seen[r.target] = "OWNER" /\ r.role # "OWNER"
               => Cardinality(Owners(r.seen)) > 1

MembersTypes ==
    /\ account \in SUBSET Users /\ member \in [Users -> MaybeRole] /\ request \in [Requests -> RequestRow]
    /\ sso \in SsoRow /\ raced \in BOOLEAN

MembersInv == MembersTypes /\ AnotherOwnerSeen /\ (~raced => Owners(member) # {})

LEMMA MembersMove ==
    ASSUME MembersInv, account' \in SUBSET Users, member' \in [Users -> MaybeRole], sso' \in SsoRow, UNCHANGED request, raced' \in BOOLEAN,
           raced => raced', ~raced' => Owners(member) \subseteq Owners(member')
    PROVE  MembersInv'
BY DEF MembersInv, MembersTypes, AnotherOwnerSeen, Owners

LEMMA RequestsMove ==
    ASSUME MembersInv, NEW q \in Requests, NEW row \in RequestRow, request' = [request EXCEPT ![q] = row],
           UNCHANGED <<account, member, sso, raced>>,
           row.kind \in {"change", "remove"} /\ row.target \in Users /\ row.seen[row.target] = "OWNER" /\ row.role # "OWNER"
               => Cardinality(Owners(row.seen)) > 1
    PROVE  MembersInv'
<1>1. /\ MembersTypes /\ AnotherOwnerSeen /\ (~raced => Owners(member) # {})
      /\ request \in [Requests -> RequestRow]
    BY DEF MembersInv, MembersTypes
<1>2. request' \in [Requests -> RequestRow] /\ request'[q] = row /\ \A p \in Requests \ {q} : request'[p] = request[p]
    BY <1>1
<1>3. AnotherOwnerSeen'
    BY <1>1, <1>2 DEF AnotherOwnerSeen, Owners
<1> QED
    BY <1>1, <1>2, <1>3 DEF MembersInv, MembersTypes, Owners

LEMMA MemberStepsPreserve == MembersInv /\ MemberNext => MembersInv'
<1> SUFFICES ASSUME MembersInv, MemberNext
             PROVE  MembersInv'
    OBVIOUS
<1>1. /\ MembersTypes /\ AnotherOwnerSeen /\ (~raced => Owners(member) # {})
      /\ account \in SUBSET Users /\ member \in [Users -> MaybeRole] /\ request \in [Requests -> RequestRow]
      /\ sso \in SsoRow /\ raced \in BOOLEAN
    BY DEF MembersInv, MembersTypes
<1>2. ASSUME NEW q \in Requests, NEW kind \in {"add", "change", "remove"}, AskMember(q, kind)
      PROVE  MembersInv'
    <2>1. PICK actor \in Managers, u \in account, role \in Roles :
             /\ CASE kind = "add"    -> MayAdd(u)
                  [] kind = "change" -> MayChange(actor, u, role)
                  [] kind = "remove" -> MayRemove(actor, u)
             /\ request' = [request EXCEPT ![q] = [kind |-> kind, actor |-> actor, target |-> u,
                               role |-> IF kind = "remove" THEN "NONE" ELSE role, seen |-> member]]
        BY <1>2 DEF AskMember
    <2> DEFINE row == [kind |-> kind, actor |-> actor, target |-> u,
                       role |-> IF kind = "remove" THEN "NONE" ELSE role, seen |-> member]
    <2>2. UNCHANGED <<account, member, sso, raced>>
        BY <1>2 DEF AskMember
    <2>3. kind = "change" => MayChange(actor, u, role)
        BY <2>1
    <2>4. kind = "remove" => MayRemove(actor, u)
        BY <2>1
    <2>5. kind \in {"change", "remove"} /\ member[u] = "OWNER" /\ row.role # "OWNER" => Cardinality(Owners(member)) > 1
        BY <2>3, <2>4 DEF MayChange, MayRemove
    <2>6. /\ row \in RequestRow /\ row.kind = kind /\ row.target = u /\ row.seen = member
          /\ request' = [request EXCEPT ![q] = row]
        <3>1. actor \in Users /\ u \in Users /\ "NONE" \in MaybeRole /\ role \in MaybeRole
            BY <1>1 DEF Managers, MaybeRole
        <3> QED
            BY <1>1, <2>1, <3>1 DEF RequestRow
    <2> HIDE DEF row
    <2> QED
        BY <2>2, <2>5, <2>6, RequestsMove
<1>3. ASSUME NEW q \in Requests, WriteMember(q)
      PROVE  MembersInv'
    <2> DEFINE r == request[q]
               isMember == member[r.target] # "NONE"
               lands == IF r.kind = "add" THEN ~isMember
                        ELSE isMember /\ (r.kind = "change" => r.role # r.seen[r.target])
               row == [IdleRequest EXCEPT !.kind = "done"]
    <2>1. /\ r.kind \in {"add", "change", "remove"}
          /\ member' = IF lands THEN [member EXCEPT ![r.target] = r.role] ELSE member
          /\ raced' = (raced \/ (lands /\ member # r.seen))
          /\ request' = [request EXCEPT ![q] = row] /\ UNCHANGED <<account, sso>>
        BY <1>3 DEF WriteMember
    <2>2. row \in RequestRow /\ row.kind = "done"
        BY DEF IdleRequest, RequestRow, MaybeRole
    <2>3. r \in RequestRow /\ r.role \in MaybeRole
        BY <1>1 DEF RequestRow
    <2> HIDE DEF row, lands
    <2>4. member' \in [Users -> MaybeRole] /\ raced' \in BOOLEAN
        BY <1>1, <2>1, <2>3
    <2>5. AnotherOwnerSeen'
        <3>1. request'[q] = row /\ \A p \in Requests \ {q} : request'[p] = request[p]
            BY <1>1, <2>1
        <3> QED
            BY <1>1, <2>2, <3>1 DEF AnotherOwnerSeen, Owners
    <2>6. ~raced' => Owners(member') # {}
        <3> SUFFICES ASSUME ~raced'
                     PROVE  Owners(member') # {}
            OBVIOUS
        <3>1. Owners(member) # {} /\ (lands => member = r.seen)
            BY <1>1, <2>1
        <3>2. CASE ~lands
            BY <2>1, <3>1, <3>2
        <3>3. CASE lands /\ (r.target \notin Users \/ member[r.target] # "OWNER" \/ r.role = "OWNER")
            <4>1. \A u \in Users : member[u] = "OWNER" => member'[u] = "OWNER"
                BY <1>1, <2>1, <3>3
            <4> QED
                BY <3>1, <4>1 DEF Owners
        <3>4. CASE lands /\ r.target \in Users /\ member[r.target] = "OWNER" /\ r.role # "OWNER"
            <4>1. r.kind # "add"
                BY <3>4 DEF lands
            <4>2. Cardinality(Owners(member)) > 1
                BY <1>1, <2>1, <3>1, <3>4, <4>1 DEF AnotherOwnerSeen
            <4>3. Owners(member) # {r.target}
                BY <4>2, FS_Singleton
            <4>4. PICK u \in Owners(member) : u # r.target
                BY <3>1, <4>3
            <4>5. u \in Users /\ member'[u] = "OWNER"
                BY <1>1, <2>1, <3>4, <4>4 DEF Owners
            <4> QED
                BY <4>5 DEF Owners
        <3> QED
            BY <3>2, <3>3, <3>4
    <2>7. request' \in [Requests -> RequestRow]
        BY <1>1, <2>1, <2>2
    <2> QED
        BY <1>1, <2>1, <2>4, <2>5, <2>6, <2>7 DEF MembersInv, MembersTypes
<1> QED
    BY <1>2, <1>3 DEF MemberNext

LEMMA IdentityStepsPreserve == MembersInv /\ IdentityNext => MembersInv'
<1> SUFFICES ASSUME MembersInv, IdentityNext
             PROVE  MembersInv'
    OBVIOUS
<1>1. account \in SUBSET Users /\ member \in [Users -> MaybeRole] /\ sso \in SsoRow /\ raced \in BOOLEAN
    BY DEF MembersInv, MembersTypes
<1>2. ASSUME sso' \in SsoRow, UNCHANGED <<account, member, request, raced>>
      PROVE  MembersInv'
    BY <1>1, <1>2, MembersMove
<1>3. ASSUME NEW s \in IdPStatus, SetIdPStatus(s)
      PROVE  MembersInv'
    <2>1. [sso EXCEPT !.idp = s] \in SsoRow
        BY <1>1 DEF SsoRow
    <2> QED
        BY <1>2, <1>3, <2>1 DEF SetIdPStatus
<1>4. CASE RegisterDomain \/ VerifyDomain \/ RemoveDomain
    <2>1. \A d \in {"absent", "PENDING", "VERIFIED"} : [sso EXCEPT !.domain = d] \in SsoRow
        BY <1>1 DEF SsoRow
    <2>2. UNCHANGED <<account, member, request, raced>> /\ \E d \in {"absent", "PENDING", "VERIFIED"} : sso' = [sso EXCEPT !.domain = d]
        BY <1>4 DEF RegisterDomain, VerifyDomain, RemoveDomain
    <2> QED
        BY <1>2, <2>1, <2>2
<1>5. ASSUME NEW u \in Users, SsoLogin(u)
      PROVE  MembersInv'
    <2>1. /\ account' = account \cup {u} /\ UNCHANGED <<request, sso, raced>>
          /\ member' = IF member[u] = "NONE" THEN [member EXCEPT ![u] = sso.role] ELSE member
        BY <1>5 DEF SsoLogin
    <2>2. sso.role \in MaybeRole
        BY <1>1 DEF SsoRow
    <2>3. member' \in [Users -> MaybeRole] /\ \A v \in Users : member[v] = "OWNER" => member'[v] = "OWNER"
        BY <1>1, <2>1, <2>2
    <2> QED
        BY <1>1, <2>1, <2>3, MembersMove DEF Owners
<1> QED
    BY <1>3, <1>4, <1>5 DEF IdentityNext

LEMMA MembersNextPreserves == MembersInv /\ [GovernanceNext]_<<orgVars, govVars>> => MembersInv'
<1> SUFFICES ASSUME MembersInv, [GovernanceNext]_<<orgVars, govVars>>
             PROVE  MembersInv'
    OBVIOUS
<1>1. account \in SUBSET Users /\ member \in [Users -> MaybeRole] /\ sso \in SsoRow /\ raced \in BOOLEAN
    BY DEF MembersInv, MembersTypes
<1>2. ASSUME UNCHANGED <<account, member, request, sso>>, raced' \in BOOLEAN, raced => raced'
      PROVE  MembersInv'
    BY <1>1, <1>2, MembersMove
<1>3. CASE UNCHANGED orgVars
    <2>1. UNCHANGED <<account, member, request, sso, raced>>
        BY <1>3 DEF orgVars
    <2> QED
        BY <1>1, <1>2, <2>1
<1>4. CASE AccessNext
    <2>1. UNCHANGED <<account, member, request, sso, raced>>
        BY <1>4 DEF AccessNext, RestUnchanged, CreateTeam, DeleteTeam, JoinTeam, LeaveTeam, GrantTeam, RevokeTeam,
                    GrantUser, CreateProject, DeleteProject, CreateEnvironment, DeleteEnvironment
    <2> QED
        BY <1>1, <1>2, <2>1
<1>5. ASSUME NEW q \in PolicyCalls, ActivatePolicy(q)
      PROVE  MembersInv'
    BY <1>1, <1>2, <1>5 DEF ActivatePolicy
<1>6. ASSUME NEW q \in Approvers, NEW o \in Outcomes, DecideApproval(q, o)
      PROVE  MembersInv'
    BY <1>1, <1>2, <1>6 DEF DecideApproval
<1>7. CASE CompleteReview
    <2>1. /\ member' = [u \in Users |->
                    IF [kind |-> "member", id |-> u] \in review.revokes /\ member[u] # "OWNER"
                    THEN "NONE" ELSE member[u]]
          /\ UNCHANGED <<account, request, sso, raced>>
        BY <1>7 DEF CompleteReview
    <2>2. member' \in [Users -> MaybeRole]
        BY <1>1, <2>1 DEF MaybeRole
    <2>3. Owners(member) \subseteq Owners(member')
        BY <2>1 DEF Owners
    <2> QED
        BY <1>1, <2>1, <2>2, <2>3, MembersMove
<1>8. CASE PolicyNext /\ ~UNCHANGED orgVars
    BY <1>5, <1>8 DEF PolicyNext, CreatePolicy, ReadPolicies, DisablePolicy
<1>9. CASE ApprovalNext /\ ~UNCHANGED orgVars
    BY <1>6, <1>9 DEF ApprovalNext, RequestApproval, ReadApproval
<1>10. CASE ReviewNext /\ ~UNCHANGED orgVars
    BY <1>7, <1>10 DEF ReviewNext, CreateToken, RevokeToken, RotateToken, CreateAccessReview, ReadRevokes, DecideItem
<1> QED
    BY <1>3, <1>4, <1>8, <1>9, <1>10, MemberStepsPreserve, IdentityStepsPreserve DEF GovernanceNext

(* The versions of the policy and the approval: what a call archives and decides is
   what it read, unless another wrote since. *)
ApprovalRow == [status : Outcomes \cup {"absent", "PENDING"}, requester : Users \cup {"none"}, decisions : Nat]

DecidedOnce ==
    /\ policy \in Seq(PolicyStatus) /\ approval \in ApprovalRow /\ raced \in BOOLEAN
    /\ ~raced => \A i, j \in DOMAIN policy : policy[i] = "ACTIVE" /\ policy[j] = "ACTIVE" => i = j
    /\ approval.status \in {"absent", "PENDING"} => approval.decisions = 0
    /\ ~raced => approval.decisions <= 1

LEMMA DecidedOncePreserved == DecidedOnce /\ [GovernanceNext]_<<orgVars, govVars>> => DecidedOnce'
<1> SUFFICES ASSUME DecidedOnce, [GovernanceNext]_<<orgVars, govVars>>
             PROVE  DecidedOnce'
    OBVIOUS
<1>1. /\ policy \in Seq(PolicyStatus) /\ approval \in ApprovalRow /\ raced \in BOOLEAN
      /\ ~raced => \A i, j \in DOMAIN policy : policy[i] = "ACTIVE" /\ policy[j] = "ACTIVE" => i = j
      /\ approval.status \in {"absent", "PENDING"} => approval.decisions = 0
      /\ ~raced => approval.decisions <= 1
    BY DEF DecidedOnce
<1>2. ASSUME UNCHANGED <<policy, approval>>, raced' \in BOOLEAN, raced => raced'
      PROVE  DecidedOnce'
    BY <1>1, <1>2 DEF DecidedOnce
<1>3. CASE CreatePolicy
    <2>1. policy' = Append(policy, "DRAFT") /\ UNCHANGED <<approval, raced>>
        BY <1>3 DEF CreatePolicy, orgVars
    <2>2. /\ policy' \in Seq(PolicyStatus) /\ DOMAIN policy' = DOMAIN policy \cup {Len(policy) + 1}
          /\ policy'[Len(policy) + 1] = "DRAFT" /\ \A i \in DOMAIN policy : policy'[i] = policy[i]
        BY <1>1, <2>1 DEF PolicyStatus
    <2> QED
        BY <1>1, <2>1, <2>2 DEF DecidedOnce
<1>4. ASSUME NEW q \in PolicyCalls, ActivatePolicy(q)
      PROVE  DecidedOnce'
    <2> DEFINE a == activation[q]
    <2>1. policy' = Activated(a) /\ raced' = (raced \/ policy # a.seen) /\ UNCHANGED approval
        BY <1>4 DEF ActivatePolicy
    <2> HIDE DEF a
    <2>2. DOMAIN policy' = DOMAIN policy /\ DOMAIN policy = 1 .. Len(policy) /\ Len(policy) \in Nat
        BY <1>1, <2>1 DEF Activated
    <2>3. ASSUME NEW i \in DOMAIN policy
          PROVE  /\ i = a.id /\ a.seen[i] # "ACTIVE" => policy'[i] = "ACTIVE"
                 /\ i # a.id /\ i \in DOMAIN a.seen /\ a.seen[i] = "ACTIVE" => policy'[i] = "ARCHIVED"
                 /\ ~(i = a.id /\ a.seen[i] # "ACTIVE") /\ ~(i # a.id /\ i \in DOMAIN a.seen /\ a.seen[i] = "ACTIVE")
                       => policy'[i] = policy[i]
        BY <2>1, Zenon DEF Activated
    <2>4. policy' \in Seq(PolicyStatus)
        <3>1. \A i \in DOMAIN policy : policy'[i] \in PolicyStatus
            BY <1>1, <2>3 DEF PolicyStatus
        <3>2. policy' = [i \in 1 .. Len(policy) |-> policy'[i]]
            BY <2>1, <2>2 DEF Activated
        <3> QED
            BY <2>2, <3>1, <3>2
    <2>5. ASSUME ~raced', NEW i \in DOMAIN policy, policy'[i] = "ACTIVE"
          PROVE  i = a.id
        BY <2>1, <2>3, <2>5
    <2> QED
        BY <1>1, <2>1, <2>2, <2>4, <2>5 DEF DecidedOnce
<1>5. ASSUME NEW i \in 1 .. MaxVersions, DisablePolicy(i)
      PROVE  DecidedOnce'
    <2>1. i \in DOMAIN policy /\ policy' = [policy EXCEPT ![i] = "DISABLED"] /\ UNCHANGED <<approval, raced>>
        BY <1>5 DEF DisablePolicy, orgVars
    <2>2. /\ policy' \in Seq(PolicyStatus) /\ DOMAIN policy' = DOMAIN policy
          /\ \A j \in DOMAIN policy : policy'[j] = "DISABLED" \/ policy'[j] = policy[j]
        BY <1>1, <2>1 DEF PolicyStatus
    <2> QED
        BY <1>1, <2>1, <2>2 DEF DecidedOnce
<1>6. ASSUME NEW u \in Users, RequestApproval(u)
      PROVE  DecidedOnce'
    <2>1. /\ approval' = [approval EXCEPT !.status = "PENDING", !.requester = u] /\ approval.status = "absent"
          /\ UNCHANGED <<policy, raced>>
        BY <1>6 DEF RequestApproval, orgVars
    <2>2. approval' \in ApprovalRow /\ approval'.decisions = approval.decisions
        BY <1>1, <2>1 DEF ApprovalRow
    <2> QED
        BY <1>1, <2>1, <2>2 DEF DecidedOnce
<1>7. ASSUME NEW q \in Approvers, NEW o \in Outcomes, DecideApproval(q, o)
      PROVE  DecidedOnce'
    <2>1. /\ approval' = [approval EXCEPT !.status = o, !.decisions = approval.decisions + 1]
          /\ raced' = (raced \/ approval.status # "PENDING") /\ UNCHANGED policy
        BY <1>7 DEF DecideApproval
    <2>2. approval.decisions \in Nat /\ approval.decisions + 1 \in Nat
        BY <1>1 DEF ApprovalRow
    <2>3. ASSUME NEW row \in ApprovalRow, NEW n \in Nat
          PROVE  LET new == [row EXCEPT !.status = o, !.decisions = n] IN
                 new \in ApprovalRow /\ new.decisions = n /\ new.status = o
        BY DEF ApprovalRow
    <2>4. approval' \in ApprovalRow /\ approval'.decisions = approval.decisions + 1 /\ approval'.status = o
        BY <1>1, <2>1, <2>2, <2>3, Zenon
    <2>5. approval'.status \notin {"absent", "PENDING"}
        BY <2>4 DEF Outcomes
    <2>6. ~raced' => approval'.decisions <= 1
        <3>1. ~raced' => approval.decisions = 0
            BY <1>1, <2>1, Zenon
        <3>2. 0 + 1 <= 1
            OBVIOUS
        <3> QED
            BY <2>4, <3>1, <3>2
    <2>7. ~raced' => \A i, j \in DOMAIN policy' : policy'[i] = "ACTIVE" /\ policy'[j] = "ACTIVE" => i = j
        BY <1>1, <2>1
    <2>8. policy' \in Seq(PolicyStatus) /\ raced' \in BOOLEAN
        BY <1>1, <2>1
    <2> QED
        BY <2>4, <2>5, <2>6, <2>7, <2>8 DEF DecidedOnce
<1>8. CASE UNCHANGED <<policy, approval>> /\ raced' \in BOOLEAN /\ (raced => raced')
    BY <1>2, <1>8
<1>9. CASE PolicyNext
    <2>1. ASSUME NEW q \in PolicyCalls, ReadPolicies(q)
          PROVE  DecidedOnce'
        BY <1>1, <1>2, <2>1 DEF ReadPolicies, orgVars
    <2> QED
        BY <1>3, <1>4, <1>5, <1>9, <2>1 DEF PolicyNext
<1>10. CASE ApprovalNext
    <2>1. ASSUME NEW q \in Approvers, ReadApproval(q)
          PROVE  DecidedOnce'
        BY <1>1, <1>2, <2>1 DEF ReadApproval, orgVars
    <2> QED
        BY <1>6, <1>7, <1>10, <2>1 DEF ApprovalNext
<1>11. CASE ReviewNext
    <2>1. UNCHANGED <<policy, approval, raced>>
        BY <1>11 DEF ReviewNext, CreateToken, RevokeToken, RotateToken, CreateAccessReview, ReadRevokes, DecideItem,
                     CompleteReview, orgVars
    <2> QED
        BY <1>1, <1>2, <2>1
<1>12. CASE (MemberNext \/ AccessNext \/ IdentityNext) /\ UNCHANGED govVars
    <2>1. UNCHANGED <<policy, approval>>
        BY <1>12 DEF govVars
    <2>2. raced' \in BOOLEAN /\ (raced => raced')
        BY <1>1, <1>12 DEF MemberNext, AskMember, WriteMember, IdentityNext, SetIdPStatus, RegisterDomain, VerifyDomain,
                     RemoveDomain, SsoLogin, AccessNext, RestUnchanged, CreateTeam, DeleteTeam, JoinTeam, LeaveTeam,
                     GrantTeam, RevokeTeam, GrantUser, CreateProject, DeleteProject, CreateEnvironment, DeleteEnvironment
    <2> QED
        BY <1>2, <2>1, <2>2
<1>13. CASE UNCHANGED <<orgVars, govVars>>
    <2>1. UNCHANGED <<policy, approval, raced>>
        BY <1>13 DEF orgVars, govVars
    <2> QED
        BY <1>1, <1>2, <2>1
<1> QED
    BY <1>9, <1>10, <1>11, <1>12, <1>13 DEF GovernanceNext

LEMMA RulesHoldFromInv == MembersInv /\ DecidedOnce => RulesHoldUnlessRaced
<1> SUFFICES ASSUME MembersInv, DecidedOnce, ~raced
             PROVE  Owners(member) # {} /\ Cardinality({i \in DOMAIN policy : policy[i] = "ACTIVE"}) <= 1
                    /\ approval.decisions <= 1
    BY DEF RulesHoldUnlessRaced
<1> DEFINE inForce == {i \in DOMAIN policy : policy[i] = "ACTIVE"}
<1>1. Owners(member) # {} /\ approval.decisions <= 1
    BY DEF MembersInv, DecidedOnce
<1>2. \A i, j \in inForce : i = j
    BY DEF DecidedOnce
<1>3. inForce = {} \/ \E i : inForce = {i}
    BY <1>2, Zenon
<1> HIDE DEF inForce
<1>4. Cardinality(inForce) \in {0, 1}
    BY <1>3, FS_EmptySet, FS_Singleton, Zenon
<1> QED
    BY <1>1, <1>4 DEF inForce

LEMMA MembersFirst == OrganizationInit => MembersInv
<1> SUFFICES ASSUME OrganizationInit
             PROVE  MembersInv
    OBVIOUS
<1>1. IdleRequest \in RequestRow /\ IdleRequest.kind = "idle"
    BY DEF IdleRequest, RequestRow, MaybeRole
<1>2. account \in SUBSET Users /\ member \in [Users -> MaybeRole] /\ Owners(member) # {}
    BY OrganizationAssumption DEF OrganizationInit, Owners
<1>3. sso \in SsoRow
    BY DEF OrganizationInit, SsoRow, IdPStatus, MaybeRole
<1>4. request \in [Requests -> RequestRow] /\ AnotherOwnerSeen /\ raced = FALSE
    BY <1>1 DEF OrganizationInit, AnotherOwnerSeen
<1> QED
    BY <1>2, <1>3, <1>4 DEF MembersInv, MembersTypes

(* Without a race the organization keeps an owner, the policy has one active version
   and the approval is decided once: MemberService, activate_policy and
   act_on_approval, with any number of members, versions, requests and calls. *)
THEOREM RulesAreKept == GovernanceSpec => []RulesHoldUnlessRaced
<1>1. OrganizationInit /\ GovernanceInit => MembersInv /\ DecidedOnce
    <2> SUFFICES ASSUME OrganizationInit, GovernanceInit
                 PROVE  MembersInv /\ DecidedOnce
        OBVIOUS
    <2>1. approval \in ApprovalRow /\ approval.decisions = 0
        BY DEF GovernanceInit, ApprovalRow
    <2>2. policy \in Seq(PolicyStatus) /\ DOMAIN policy = {}
        BY DEF GovernanceInit
    <2>3. approval.decisions <= 1 /\ raced = FALSE
        BY <2>1 DEF OrganizationInit
    <2> QED
        BY <2>1, <2>2, <2>3, MembersFirst DEF DecidedOnce
<1> QED
    BY <1>1, MembersNextPreserves, DecidedOncePreserved, RulesHoldFromInv, PTL DEF GovernanceSpec

(* The approval: only its requester's and its approvers' calls write it, and a
   decision writes the release decision with it. *)
DecisionsAgree ==
    /\ approval.status \in Outcomes \cup {"absent", "PENDING"}
    /\ DOMAIN approval = {"status", "requester", "decisions"}
    /\ ReleaseFollowsApproval

LEMMA DecisionsAgreePreserved == DecisionsAgree /\ [GovernanceNext]_<<orgVars, govVars>> => DecisionsAgree'
<1> SUFFICES ASSUME DecisionsAgree, [GovernanceNext]_<<orgVars, govVars>>
             PROVE  DecisionsAgree'
    OBVIOUS
<1> USE DEF DecisionsAgree, ReleaseFollowsApproval, Released
<1>1. ASSUME UNCHANGED <<approval, release>>
      PROVE  DecisionsAgree'
    BY <1>1
<1>2. ASSUME NEW u \in Users, RequestApproval(u)
      PROVE  DecisionsAgree'
    <2>1. approval' = [approval EXCEPT !.status = "PENDING", !.requester = u]
        BY <1>2 DEF RequestApproval
    <2>2. approval'.status = "PENDING" /\ DOMAIN approval' = DOMAIN approval
        BY <2>1
    <2> QED
        BY <2>2 DEF Outcomes
<1>3. ASSUME NEW q \in Approvers, NEW o \in Outcomes, DecideApproval(q, o)
      PROVE  DecisionsAgree'
    <2>1. /\ approval' = [approval EXCEPT !.status = o, !.decisions = approval.decisions + 1]
          /\ release' = Released(o)
        BY <1>3 DEF DecideApproval
    <2>2. approval'.status = o /\ DOMAIN approval' = DOMAIN approval
        BY <2>1, Zenon
    <2> QED
        BY <2>1, <2>2
<1>4. CASE PolicyNext
    BY <1>1, <1>4 DEF PolicyNext, CreatePolicy, ReadPolicies, ActivatePolicy, DisablePolicy
<1>5. CASE ApprovalNext
    <2>1. ASSUME NEW q \in Approvers, ReadApproval(q)
          PROVE  DecisionsAgree'
        BY <1>1, <2>1 DEF ReadApproval
    <2> QED
        BY <1>2, <1>3, <1>5, <2>1 DEF ApprovalNext
<1>6. CASE ReviewNext
    BY <1>1, <1>6 DEF ReviewNext, CreateToken, RevokeToken, RotateToken, CreateAccessReview, ReadRevokes, DecideItem,
                      CompleteReview
<1>7. CASE UNCHANGED govVars
    BY <1>1, <1>7 DEF govVars
<1> QED
    BY <1>4, <1>5, <1>6, <1>7 DEF GovernanceNext

(* A decided approval and the release decision it is about say the same, races or
   not: act_on_approval writes both, whichever call comes last, with any number of
   calls. *)
THEOREM ReleasesFollowApprovals == GovernanceSpec => []ReleaseFollowsApproval
<1>1. OrganizationInit /\ GovernanceInit => DecisionsAgree
    BY DEF GovernanceInit, DecisionsAgree, ReleaseFollowsApproval, Outcomes
<1>2. DecisionsAgree => ReleaseFollowsApproval
    BY DEF DecisionsAgree
<1> QED
    BY <1>1, <1>2, DecisionsAgreePreserved, PTL DEF GovernanceSpec

(* The grants on the project: what teams and users are given. *)
GrantTypes ==
    /\ team \in [Teams -> [exists : BOOLEAN, people : SUBSET Users, access : MaybeRole]]
    /\ direct \in [Users -> MaybeRole]

LEMMA GrantsPreserved == GrantTypes /\ [GovernanceNext]_<<orgVars, govVars>> => GrantTypes'
<1> SUFFICES ASSUME GrantTypes, [GovernanceNext]_<<orgVars, govVars>>
             PROVE  GrantTypes'
    OBVIOUS
<1> DEFINE TeamRow == [exists : BOOLEAN, people : SUBSET Users, access : MaybeRole]
<1>1. team \in [Teams -> TeamRow] /\ direct \in [Users -> MaybeRole]
    BY DEF GrantTypes
<1>2. ASSUME UNCHANGED <<team, direct>>
      PROVE  GrantTypes'
    BY <1>2 DEF GrantTypes
<1>3. ASSUME NEW t \in Teams, NEW row \in TeamRow, team' = [team EXCEPT ![t] = row], UNCHANGED direct
      PROVE  GrantTypes'
    BY <1>1, <1>3 DEF GrantTypes
<1>4. ASSUME NEW row \in TeamRow
      PROVE  /\ \A p \in SUBSET Users : [row EXCEPT !.people = p] \in TeamRow
             /\ \A role \in MaybeRole : [row EXCEPT !.access = role] \in TeamRow
    OBVIOUS
<1>5. NoTeam \in TeamRow
    BY DEF NoTeam, MaybeRole
<1> HIDE DEF TeamRow
<1>6. "NONE" \in MaybeRole /\ Roles \subseteq MaybeRole
    BY DEF MaybeRole
<1>7. ASSUME NEW t \in Teams,
             CreateTeam(t) \/ DeleteTeam(t) \/ RevokeTeam(t) \/ (\E u \in Users : JoinTeam(t, u) \/ LeaveTeam(t, u))
                 \/ (\E role \in Roles \ {"OWNER"} : GrantTeam(t, role))
      PROVE  GrantTypes'
    <2>1. team[t] \in TeamRow
        BY <1>1
    <2>2. CASE CreateTeam(t)
        <3>1. PICK u \in Managers : team' = [team EXCEPT ![t] = [NoTeam EXCEPT !.exists = TRUE, !.people = {u}]]
            BY <2>2, Zenon DEF CreateTeam
        <3>2. u \in Users
            BY DEF Managers
        <3>3. [NoTeam EXCEPT !.exists = TRUE, !.people = {u}] \in TeamRow /\ UNCHANGED direct
            BY <2>2, <3>2, <1>6 DEF CreateTeam, NoTeam, TeamRow
        <3> QED
            BY <1>3, <3>1, <3>3
    <2>3. CASE DeleteTeam(t)
        <3>1. team' = [team EXCEPT ![t] = NoTeam] /\ UNCHANGED direct
            BY <2>3 DEF DeleteTeam
        <3> QED
            BY <1>3, <1>5, <3>1, Zenon
    <2>4. CASE RevokeTeam(t)
        <3>1. team' = [team EXCEPT ![t] = [team[t] EXCEPT !.access = "NONE"]] /\ UNCHANGED direct
            BY <2>4 DEF RevokeTeam
        <3>2. [team[t] EXCEPT !.access = "NONE"] \in TeamRow
            BY <1>4, <1>6, <2>1, Zenon
        <3> QED
            BY <1>3, <3>1, <3>2, Zenon
    <2>5. ASSUME NEW u \in Users, JoinTeam(t, u) \/ LeaveTeam(t, u)
          PROVE  GrantTypes'
        <3>1. PICK p \in SUBSET Users : team' = [team EXCEPT ![t] = [team[t] EXCEPT !.people = p]] /\ UNCHANGED direct
            <4>1. team[t].people \cup {u} \in SUBSET Users /\ team[t].people \ {u} \in SUBSET Users
                BY <2>1 DEF TeamRow
            <4> QED
                BY <2>5, <4>1 DEF JoinTeam, LeaveTeam
        <3>2. [team[t] EXCEPT !.people = p] \in TeamRow
            BY <1>4, <1>6, <2>1, Zenon
        <3> QED
            BY <1>3, <3>1, <3>2, Zenon
    <2>6. ASSUME NEW role \in Roles \ {"OWNER"}, GrantTeam(t, role)
          PROVE  GrantTypes'
        <3>1. team' = [team EXCEPT ![t] = [team[t] EXCEPT !.access = role]] /\ UNCHANGED direct
            BY <2>6 DEF GrantTeam
        <3>2. [team[t] EXCEPT !.access = role] \in TeamRow
            BY <1>4, <1>6, <2>1, Zenon
        <3> QED
            BY <1>3, <3>1, <3>2, Zenon
    <2> QED
        BY <1>7, <2>2, <2>3, <2>4, <2>5, <2>6
<1>8. ASSUME NEW u \in Users, NEW role \in Roles \ {"OWNER"}, GrantUser(u, role)
      PROVE  GrantTypes'
    BY <1>1, <1>6, <1>8 DEF GrantUser, GrantTypes
<1>9. ASSUME DeleteProject
      PROVE  GrantTypes'
    <2>1. \A t \in Teams : [team[t] EXCEPT !.access = "NONE"] \in TeamRow
        BY <1>1, <1>4, <1>6
    <2>2. team' = [t \in Teams |-> [team[t] EXCEPT !.access = "NONE"]] /\ direct' = [u \in Users |-> "NONE"]
        BY <1>9 DEF DeleteProject
    <2> QED
        BY <1>6, <2>1, <2>2 DEF GrantTypes
<1>10. CASE AccessNext
    <2>1. ASSUME CreateProject \/ (\E e \in EnvTypes : CreateEnvironment(e) \/ DeleteEnvironment(e))
          PROVE  GrantTypes'
        BY <1>2, <2>1 DEF CreateProject, CreateEnvironment, DeleteEnvironment
    <2> QED
        BY <1>7, <1>8, <1>9, <1>10, <2>1 DEF AccessNext
<1>11. CASE MemberNext \/ IdentityNext
    BY <1>2, <1>11, Zenon DEF MemberNext, AskMember, WriteMember, IdentityNext, SetIdPStatus, RegisterDomain, VerifyDomain,
                       RemoveDomain, SsoLogin
<1>12. CASE PolicyNext \/ ApprovalNext
    BY <1>2, <1>12, Zenon DEF PolicyNext, CreatePolicy, ReadPolicies, ActivatePolicy, DisablePolicy, ApprovalNext,
                       RequestApproval, ReadApproval, DecideApproval, orgVars
<1>13. CASE ReviewNext
    BY <1>2, <1>13 DEF ReviewNext, CreateToken, RevokeToken, RotateToken, CreateAccessReview, ReadRevokes, DecideItem,
                       CompleteReview, orgVars
<1>14. CASE UNCHANGED <<orgVars, govVars>>
    BY <1>2, <1>14 DEF orgVars
<1> QED
    BY <1>10, <1>11, <1>12, <1>13, <1>14 DEF GovernanceNext

(* Of any roles there is a best one, and it is one of them. *)
LEMMA BestIsOneOfThem ==
    ASSUME NEW roles \in SUBSET {"OWNER", "ADMIN", "ENGINEER", "VIEWER"}, roles # {}
    PROVE  Best(roles) \in roles
<1>1. \A r \in roles : Rank[r] = CASE r = "OWNER" -> 4 [] r = "ADMIN" -> 3 [] r = "ENGINEER" -> 2 [] r = "VIEWER" -> 1
    BY DEF Rank
<1>2. \E r \in roles : \A s \in roles : Rank[s] <= Rank[r]
    <2>1. CASE "OWNER" \in roles
        BY <1>1, <2>1
    <2>2. CASE "OWNER" \notin roles /\ "ADMIN" \in roles
        BY <1>1, <2>2
    <2>3. CASE "OWNER" \notin roles /\ "ADMIN" \notin roles /\ "ENGINEER" \in roles
        BY <1>1, <2>3
    <2>4. CASE roles = {"VIEWER"}
        BY <1>1, <2>4
    <2> QED
        BY <2>1, <2>2, <2>3, <2>4
<1> QED
    BY <1>2 DEF Best

LEMMA EffectiveRoleRanked ==
    ASSUME GrantTypes, member \in [Users -> MaybeRole], NEW u \in Users
    PROVE  EffectiveRole(u) \in MaybeRole /\ Rank[EffectiveRole(u)] \in 0 .. 4
<1>1. TeamRoles(u) \subseteq Roles /\ Roles \subseteq {"OWNER", "ADMIN", "ENGINEER", "VIEWER"}
    BY OrganizationAssumption DEF GrantTypes, TeamRoles, MaybeRole
<1>2. TeamRoles(u) # {} => Best(TeamRoles(u)) \in Roles
    BY <1>1, BestIsOneOfThem
<1>3. member[u] \in MaybeRole /\ direct[u] \in MaybeRole
    BY DEF GrantTypes
<1>4. EffectiveRole(u) \in MaybeRole
    BY <1>2, <1>3 DEF EffectiveRole, MaybeRole
<1>5. \A r \in MaybeRole : Rank[r] \in 0 .. 4
    BY <1>1 DEF Rank, MaybeRole
<1> QED
    BY <1>4, <1>5

(* A grant that is not for me leaves my own grants alone, and can only close the
   project to me. *)
LEMMA GrantOfAnother ==
    ASSUME GrantTypes, member \in [Users -> MaybeRole], NEW u \in Users,
           UNCHANGED member, direct'[u] = direct[u], TeamRoles(u)' = TeamRoles(u), Restricted => Restricted'
    PROVE  Rank[EffectiveRole(u)'] <= Rank[EffectiveRole(u)]
<1>1. Rank[EffectiveRole(u)] \in 0 .. 4
    BY EffectiveRoleRanked
<1>2. EffectiveRole(u)' = EffectiveRole(u) \/ EffectiveRole(u)' = "NONE"
    BY DEF EffectiveRole
<1>3. Rank["NONE"] = 0
    BY DEF Rank
<1> QED
    BY <1>1, <1>2, <1>3

LEMMA GrantsNeverRaise ==
    GrantTypes /\ member \in [Users -> MaybeRole] =>
        \A u \in Users, role \in Roles :
            \/ \E v \in Users \ {u} : GrantUser(v, role)
            \/ \E t \in Teams : u \notin team[t].people /\ GrantTeam(t, role)
            => Rank[EffectiveRole(u)'] <= Rank[EffectiveRole(u)]
<1> SUFFICES ASSUME GrantTypes, member \in [Users -> MaybeRole], NEW u \in Users, NEW role \in Roles,
                    \/ \E v \in Users \ {u} : GrantUser(v, role)
                    \/ \E t \in Teams : u \notin team[t].people /\ GrantTeam(t, role)
             PROVE  Rank[EffectiveRole(u)'] <= Rank[EffectiveRole(u)]
    OBVIOUS
<1>1. role # "NONE"
    BY OrganizationAssumption
<1>2. ASSUME NEW v \in Users \ {u}, GrantUser(v, role)
      PROVE  Rank[EffectiveRole(u)'] <= Rank[EffectiveRole(u)]
    <2>1. direct' = [direct EXCEPT ![v] = role] /\ UNCHANGED <<member, team>>
        BY <1>2 DEF GrantUser, RestUnchanged
    <2>2. direct'[u] = direct[u] /\ direct'[v] # "NONE"
        BY <1>1, <2>1 DEF GrantTypes
    <2>3. TeamRoles(u)' = TeamRoles(u) /\ Restricted'
        BY <2>1, <2>2 DEF TeamRoles, Restricted
    <2> QED
        BY <2>1, <2>2, <2>3, GrantOfAnother
<1>3. ASSUME NEW t \in Teams, u \notin team[t].people, GrantTeam(t, role)
      PROVE  Rank[EffectiveRole(u)'] <= Rank[EffectiveRole(u)]
    <2>1. team' = [team EXCEPT ![t] = [team[t] EXCEPT !.access = role]] /\ UNCHANGED <<member, direct>>
        BY <1>3 DEF GrantTeam, RestUnchanged
    <2>2. /\ \A x \in Teams \ {t} : team'[x] = team[x]
          /\ team'[t].people = team[t].people /\ team'[t].access # "NONE"
        BY <1>1, <2>1 DEF GrantTypes
    <2>3. {x \in Teams : u \in team'[x].people} = {x \in Teams : u \in team[x].people}
        BY <2>2
    <2>4. TeamRoles(u)' = TeamRoles(u) /\ Restricted'
        BY <1>3, <2>2, <2>3 DEF TeamRoles, Restricted
    <2> QED
        BY <2>1, <2>4, GrantOfAnother
<1> QED
    BY <1>2, <1>3

(* A grant to another user, or to a team one is not in, never gives one a better
   role on the project: resolve_user_project_access, for any users, teams and
   grants. *)
THEOREM GrantsOfOthersNeverRaise == GovernanceSpec => OthersGrantsNeverRaise
<1>1. OrganizationInit /\ GovernanceInit => MembersInv /\ GrantTypes
    <2>1. OrganizationInit => GrantTypes
        BY DEF OrganizationInit, GrantTypes, NoTeam, MaybeRole
    <2> QED
        BY <2>1, MembersFirst
<1>2. MembersInv => member \in [Users -> MaybeRole]
    BY DEF MembersInv, MembersTypes
<1>3. [GovernanceNext]_<<orgVars, govVars>> /\ MembersInv /\ GrantTypes =>
        [\A u \in Users, role \in Roles :
            \/ \E v \in Users \ {u} : GrantUser(v, role)
            \/ \E t \in Teams : u \notin team[t].people /\ GrantTeam(t, role)
            => Rank[EffectiveRole(u)'] <= Rank[EffectiveRole(u)]]_orgVars
    BY <1>2, GrantsNeverRaise
<1> QED
    BY <1>1, <1>3, MembersNextPreserves, GrantsPreserved, PTL DEF GovernanceSpec, OthersGrantsNeverRaise

(* The review: what was marked for revocation in time was read, every token in the
   review exists, and what is revoked stays so. *)
TokenRow == [revoked : BOOLEAN, old : Nat]
ReviewRow == [status : {"absent", "OPEN", "reading", "COMPLETED"}, items : SUBSET Subjects, revokes : SUBSET Subjects]

ReviewInv ==
    /\ token \in Seq(TokenRow) /\ review \in ReviewRow
    /\ verdictOf \in [Subjects -> {"NO_ACTION", "KEEP", "REVOKE"}]
    /\ \A x \in review.items : x.kind = "token" => x.id \in DOMAIN token
    /\ review.status \in {"reading", "COMPLETED"} =>
          \A x \in review.items \ late : verdictOf[x] = "REVOKE" => x \in review.revokes
    /\ review.status = "COMPLETED" =>
          \A x \in review.items : x \in review.revokes /\ x.kind = "token" => token[x.id].revoked

LEMMA TokensMove ==
    ASSUME ReviewInv, token' \in Seq(TokenRow), Len(token') >= Len(token),
           \A i \in DOMAIN token : token[i].revoked => token'[i].revoked,
           UNCHANGED <<review, verdictOf, late>>
    PROVE  ReviewInv'
<1>1. token \in Seq(TokenRow) /\ DOMAIN token = 1 .. Len(token) /\ Len(token) \in Nat
      /\ DOMAIN token' = 1 .. Len(token') /\ Len(token') \in Nat
    BY DEF ReviewInv
<1>2. DOMAIN token \subseteq DOMAIN token'
    BY <1>1
<1> QED
    BY <1>1, <1>2 DEF ReviewInv

LEMMA ReviewNextPreserves == ReviewInv /\ [GovernanceNext]_<<orgVars, govVars>> => ReviewInv'
<1> SUFFICES ASSUME ReviewInv, [GovernanceNext]_<<orgVars, govVars>>
             PROVE  ReviewInv'
    OBVIOUS
<1>1. /\ token \in Seq(TokenRow) /\ review \in ReviewRow
      /\ verdictOf \in [Subjects -> {"NO_ACTION", "KEEP", "REVOKE"}]
      /\ \A x \in review.items : x.kind = "token" => x.id \in DOMAIN token
      /\ review.status \in {"reading", "COMPLETED"} =>
            \A x \in review.items \ late : verdictOf[x] = "REVOKE" => x \in review.revokes
      /\ review.status = "COMPLETED" =>
            \A x \in review.items : x \in review.revokes /\ x.kind = "token" => token[x.id].revoked
      /\ review.items \in SUBSET Subjects /\ review.revokes \in SUBSET Subjects
    BY DEF ReviewInv, ReviewRow
<1>2. ASSUME UNCHANGED <<token, review, verdictOf, late>>
      PROVE  ReviewInv'
    BY <1>1, <1>2, TokensMove
<1>3. ASSUME NEW kept \in Seq(TokenRow), Len(kept) = Len(token),
             \A i \in DOMAIN token : token[i].revoked => kept[i].revoked,
             NEW row \in TokenRow
      PROVE  /\ Append(kept, row) \in Seq(TokenRow) /\ Len(Append(kept, row)) >= Len(token)
             /\ \A i \in DOMAIN token : token[i].revoked => Append(kept, row)[i].revoked
    BY <1>1, <1>3
<1>4. ASSUME NEW i \in DOMAIN token
      PROVE  LET kept == [token EXCEPT ![i].revoked = TRUE] IN
             /\ kept \in Seq(TokenRow) /\ Len(kept) = Len(token)
             /\ \A j \in DOMAIN token : token[j].revoked => kept[j].revoked
    <2> DEFINE row == [token[i] EXCEPT !.revoked = TRUE]
               kept == [token EXCEPT ![i] = row]
    <2>1. token[i] \in TokenRow
        BY <1>1
    <2>2. row \in TokenRow /\ row.revoked
        BY <2>1 DEF TokenRow
    <2>3. [token EXCEPT ![i].revoked = TRUE] = kept
        OBVIOUS
    <2> HIDE DEF row
    <2>4. kept \in Seq(TokenRow) /\ Len(kept) = Len(token)
          /\ \A j \in DOMAIN token : token[j].revoked => kept[j].revoked
        BY <1>1, <2>2
    <2> HIDE DEF kept
    <2> QED
        BY <2>3, <2>4
<1>5. CASE CreateToken
    <2>1. token' = Append(token, [revoked |-> FALSE, old |-> 0]) /\ UNCHANGED <<review, verdictOf, late>>
        BY <1>5 DEF CreateToken
    <2>3. [revoked |-> FALSE, old |-> 0] \in TokenRow
        BY DEF TokenRow
    <2> QED
        BY <1>1, <1>3, <2>1, <2>3, TokensMove
<1>6. ASSUME NEW i \in Tokens, RevokeToken(i)
      PROVE  ReviewInv'
    <2>1. i \in DOMAIN token /\ token' = [token EXCEPT ![i].revoked = TRUE] /\ UNCHANGED <<review, verdictOf, late>>
        BY <1>6 DEF RevokeToken
    <2>2. Len(token) \in Nat
        BY <1>1
    <2>3. token' \in Seq(TokenRow) /\ Len(token') >= Len(token)
          /\ \A j \in DOMAIN token : token[j].revoked => token'[j].revoked
        BY <1>4, <2>1, <2>2
    <2> QED
        BY <2>1, <2>3, TokensMove
<1>7. ASSUME NEW i \in Tokens, RotateToken(i)
      PROVE  ReviewInv'
    <2> DEFINE kept == [token EXCEPT ![i].revoked = TRUE]
               row == [revoked |-> FALSE, old |-> i]
    <2>1. i \in DOMAIN token /\ token' = Append(kept, row) /\ UNCHANGED <<review, verdictOf, late>>
        BY <1>7 DEF RotateToken
    <2>2. row \in TokenRow
        BY <1>7 DEF TokenRow, Tokens
    <2>3. kept \in Seq(TokenRow) /\ Len(kept) = Len(token)
          /\ \A j \in DOMAIN token : token[j].revoked => kept[j].revoked
        BY <1>4, <2>1
    <2> HIDE DEF kept, row
    <2> QED
        BY <1>3, <2>1, <2>2, <2>3, TokensMove
<1>8. CASE CreateAccessReview
    <2> DEFINE listed == {x \in Subjects :
                      \/ x.kind = "member" /\ member[x.id] # "NONE"
                      \/ x.kind = "token" /\ x.id \in DOMAIN token /\ ~token[x.id].revoked}
    <2>1. review' = [status |-> "OPEN", revokes |-> {}, items |-> listed] /\ UNCHANGED <<token, verdictOf, late>>
        BY <1>8 DEF CreateAccessReview
    <2>2. listed \in SUBSET Subjects /\ \A x \in listed : x.kind = "token" => x.id \in DOMAIN token
        OBVIOUS
    <2> HIDE DEF listed
    <2>3. review' \in ReviewRow /\ review'.items = listed /\ review'.status = "OPEN"
        BY <2>1, <2>2 DEF ReviewRow
    <2> QED
        BY <1>1, <2>1, <2>2, <2>3 DEF ReviewInv
<1>9. ASSUME NEW x \in Subjects, NEW v \in {"KEEP", "REVOKE"}, DecideItem(x, v)
      PROVE  ReviewInv'
    <2>1. /\ verdictOf' = [verdictOf EXCEPT ![x] = v] /\ UNCHANGED <<token, review>>
          /\ late' = IF review.status = "OPEN" THEN late ELSE late \cup {x}
        BY <1>9 DEF DecideItem
    <2>2. verdictOf' \in [Subjects -> {"NO_ACTION", "KEEP", "REVOKE"}] /\ \A y \in Subjects \ {x} : verdictOf'[y] = verdictOf[y]
        BY <1>1, <2>1
    <2>3. review.status \in {"reading", "COMPLETED"} =>
              \A y \in review.items \ late' : verdictOf'[y] = "REVOKE" => y \in review.revokes
        BY <1>1, <2>1, <2>2
    <2> QED
        BY <1>1, <2>1, <2>2, <2>3 DEF ReviewInv
<1>10. CASE ReadRevokes
    <2>1. review' = [review EXCEPT !.status = "reading", !.revokes = Revokes] /\ UNCHANGED <<token, verdictOf, late>>
        BY <1>10 DEF ReadRevokes
    <2>2. Revokes \in SUBSET Subjects /\ \A x \in review.items : verdictOf[x] = "REVOKE" => x \in Revokes
        BY <1>1 DEF Revokes
    <2>3. review' \in ReviewRow /\ review'.items = review.items /\ review'.status = "reading" /\ review'.revokes = Revokes
        BY <1>1, <2>1, <2>2 DEF ReviewRow
    <2> QED
        BY <1>1, <2>1, <2>2, <2>3 DEF ReviewInv
<1>11. CASE CompleteReview
    <2> DEFINE ended(i) == [token[i] EXCEPT !.revoked = TRUE]
               now(i) == IF [kind |-> "token", id |-> i] \in review.revokes THEN ended(i) ELSE token[i]
    <2>1. /\ review.status = "reading" /\ review' = [review EXCEPT !.status = "COMPLETED"]
          /\ token' = [i \in DOMAIN token |-> now(i)] /\ UNCHANGED <<verdictOf, late>>
        BY <1>11 DEF CompleteReview
    <2>2. ASSUME NEW row \in TokenRow
          PROVE  LET new == [row EXCEPT !.revoked = TRUE] IN new \in TokenRow /\ new.revoked
        BY DEF TokenRow
    <2>3. \A i \in DOMAIN token : token[i] \in TokenRow
        BY <1>1
    <2>4. \A i \in DOMAIN token : ended(i) \in TokenRow /\ ended(i).revoked
        BY <2>2, <2>3, Zenon
    <2> HIDE DEF ended
    <2>5. \A i \in DOMAIN token : now(i) \in TokenRow /\ ([kind |-> "token", id |-> i] \in review.revokes => now(i).revoked)
        BY <2>3, <2>4
    <2> HIDE DEF now
    <2>6. DOMAIN token' = DOMAIN token /\ token' \in Seq(TokenRow)
        <3>1. DOMAIN token = 1 .. Len(token) /\ Len(token) \in Nat
            BY <1>1
        <3>2. DOMAIN token' = DOMAIN token /\ \A i \in DOMAIN token : token'[i] \in TokenRow
            BY <2>1, <2>5
        <3>3. token' = [i \in 1 .. Len(token) |-> token'[i]]
            BY <2>1, <3>1
        <3> QED
            BY <3>1, <3>2, <3>3
    <2>7. \A i \in DOMAIN token : [kind |-> "token", id |-> i] \in review.revokes => token'[i].revoked
        BY <2>1, <2>5
    <2>8. review' \in ReviewRow /\ review'.items = review.items /\ review'.status = "COMPLETED" /\ review'.revokes = review.revokes
        BY <1>1, <2>1 DEF ReviewRow
    <2>9. \A x \in Subjects : x.kind = "token" => x = [kind |-> "token", id |-> x.id]
        BY DEF Subjects
    <2>10. \A x \in review.items : x \in review.revokes /\ x.kind = "token" => token'[x.id].revoked
        <3> SUFFICES ASSUME NEW x \in review.items, x \in review.revokes, x.kind = "token"
                     PROVE  token'[x.id].revoked
            OBVIOUS
        <3>1. x \in Subjects /\ x.id \in DOMAIN token
            BY <1>1
        <3> QED
            BY <2>7, <2>9, <3>1, Zenon
    <2> QED
        BY <1>1, <2>1, <2>6, <2>8, <2>10 DEF ReviewInv
<1>12. CASE ReviewNext
    BY <1>5, <1>6, <1>7, <1>8, <1>9, <1>10, <1>11, <1>12 DEF ReviewNext
<1>13. CASE PolicyNext \/ ApprovalNext
    <2>1. UNCHANGED <<token, review, verdictOf, late>>
        BY <1>13 DEF PolicyNext, ApprovalNext, CreatePolicy, ReadPolicies, ActivatePolicy, DisablePolicy,
                     RequestApproval, ReadApproval, DecideApproval
    <2> QED
        BY <1>2, <2>1
<1>14. CASE UNCHANGED govVars
    BY <1>2, <1>14 DEF govVars
<1> QED
    BY <1>12, <1>13, <1>14 DEF GovernanceNext

(* A completed review is enforced for good on the tokens marked while it was open:
   complete_access_review, with any number of members, tokens and decisions. *)
THEOREM ReviewsAreEnforced == GovernanceSpec => []ReviewEnforced
<1>1. OrganizationInit /\ GovernanceInit => ReviewInv
    <2> SUFFICES ASSUME GovernanceInit
                 PROVE  ReviewInv
        OBVIOUS
    <2>1. review \in ReviewRow /\ review.items = {} /\ review.status = "absent" /\ token \in Seq(TokenRow)
        BY DEF GovernanceInit, ReviewRow
    <2>2. verdictOf \in [Subjects -> {"NO_ACTION", "KEEP", "REVOKE"}]
        BY DEF GovernanceInit
    <2> QED
        BY <2>1, <2>2 DEF ReviewInv
<1>2. ReviewInv => ReviewEnforced
    BY DEF ReviewInv, ReviewEnforced
<1> QED
    BY <1>1, <1>2, ReviewNextPreserves, PTL DEF GovernanceSpec
-----------------------------------------------------------------------------
(* Operations.  A console remembers an alert exactly as long as it told it, and an
   overview that nothing disturbed agrees, part by part, with the plant. *)
Statuses == {"HEALTHY", "DEGRADED", "UNREADY"}
CheckNames == {"database", "database_migrations", "task_queue", "workers", "encryption_key", "storage"}
OverviewRow == [stage : {"idle", "ready", "queue", "answered", "raised"}, checks : SUBSET (CheckNames \X Statuses),
                depth : {"none", "some", "many"}, dlq : BOOLEAN, breached : SUBSET AlertKeys,
                answer : SUBSET AlertKeys, calm : BOOLEAN]
Ages == [AlertKeys -> 0 .. DedupWindow]

OperationsTypes ==
    /\ plant \in Plants /\ overview \in [Consoles -> OverviewRow] /\ since \in [Consoles -> Ages] /\ told = since
    /\ heartbeat \in [Fleet -> [status : {"absent", "ACTIVE", "STOPPED"}, age : Nat]]

QueueDepth == IF plant.queue = "down" THEN "none" ELSE plant.depth
QueueDlq == plant.queue # "down" /\ plant.dlq

CalmAgrees ==
    \A p \in Consoles : overview[p].calm =>
        /\ overview[p].stage \in {"ready", "queue", "answered"} => overview[p].checks = Diagnostics
        /\ overview[p].stage \in {"queue", "answered"} => overview[p].depth = QueueDepth /\ overview[p].dlq = QueueDlq
        /\ overview[p].stage = "answered" =>
              /\ ~OverviewRaises(p) /\ \E rows \in NewestRows : overview[p].breached = Breached(p, rows)
              /\ \A k \in overview[p].breached : told[p][k] < DedupWindow

OperationsInv == OperationsTypes /\ CalmAgrees

(* An overview misses a worker that runs only where as many as it reads stopped after
   that worker's last beat. *)
LEMMA HiddenByStopped ==
    ASSUME NEW rows \in NewestRows, rows \cap Alive = {}, Alive # {},
           \A w \in Fleet : heartbeat[w].status \in {"absent", "ACTIVE", "STOPPED"} /\ heartbeat[w].age \in Nat
    PROVE  Cardinality(StoppedLately) >= Shown
<1>1. PICK a \in Fleet : heartbeat[a].status = "ACTIVE" /\ heartbeat[a].age <= HeartbeatLimit
    BY DEF Alive
<1>2. a \in Rows /\ a \in Alive /\ a \notin rows
    BY <1>1 DEF Rows, Alive
<1>3. rows \in SUBSET Rows /\ Cardinality(rows) = Shown
      /\ \A w \in rows, other \in Rows \ rows : heartbeat[w].age <= heartbeat[other].age
    BY <1>2, Zenon DEF NewestRows
<1>4. rows \subseteq StoppedLately
    <2> SUFFICES ASSUME NEW w \in rows
                 PROVE  w \in StoppedLately
        OBVIOUS
    <2>1. w \in Fleet /\ heartbeat[w].status # "absent" /\ w \notin Alive
        BY <1>3 DEF Rows
    <2>2. heartbeat[w].age <= heartbeat[a].age
        BY <1>2, <1>3
    <2>3. heartbeat[w].age <= HeartbeatLimit
        BY <1>1, <2>1, <2>2, OperationsAssumption
    <2> QED
        BY <2>1, <2>3 DEF StoppedLately, Alive
<1>5. IsFiniteSet(StoppedLately) /\ IsFiniteSet(rows)
    <2>1. StoppedLately \subseteq Fleet
        BY DEF StoppedLately
    <2> QED
        BY <1>4, <2>1, FS_Subset, OperationsAssumption
<1>6. Cardinality(rows) <= Cardinality(StoppedLately)
    BY <1>4, <1>5, FS_Subset
<1>7. Cardinality(StoppedLately) \in Nat
    BY <1>5, FS_CardinalityType
<1> QED
    BY <1>3, <1>6, <1>7, OperationsAssumption

LEMMA CalmIsTold == OperationsInv => BreachesAreTold
<1> SUFFICES ASSUME OperationsInv, NEW p \in Consoles, overview[p].stage = "answered", overview[p].calm
             PROVE  /\ \A k \in overview[p].breached : told[p][k] < DedupWindow
                    /\ LET overall == OverallStatus(overview[p].checks) IN
                       /\ "offline" \in overview[p].breached =>
                             \/ <<"workers", "DEGRADED">> \in overview[p].checks
                             \/ plant.queue = "memory" \/ Cardinality(StoppedLately) >= Shown
                       /\ plant.queue = "down" => overall = "UNREADY" /\ overview[p].breached \cap {"backlog", "dlq", "offline"} = {}
                       /\ overall = "HEALTHY" => Alive # {} \/ plant.queue = "memory"
    BY DEF BreachesAreTold
<1>0. PICK rows \in NewestRows : overview[p].breached = Breached(p, rows)
    BY DEF OperationsInv, CalmAgrees
<1>1. /\ overview[p].checks = Diagnostics /\ overview[p].depth = QueueDepth /\ overview[p].dlq = QueueDlq
      /\ SessionWorks /\ overview[p].breached = Breached(p, rows)
      /\ \A k \in overview[p].breached : told[p][k] < DedupWindow
    BY <1>0 DEF OperationsInv, CalmAgrees, OverviewRaises
<1>2. /\ "offline" \in Breached(p, rows) => rows \cap Alive = {} /\ overview[p].depth # "none"
      /\ "backlog" \in Breached(p, rows) => overview[p].depth = "many"
      /\ "dlq" \in Breached(p, rows) => overview[p].dlq
    BY Zenon DEF Breached
<1>3. <<"workers", WorkersCheck>> \in Diagnostics
      /\ <<"task_queue", IF plant.queue = "down" THEN "UNREADY" ELSE "HEALTHY">> \in Diagnostics
    BY DEF Diagnostics
<1>4. Alive = {} /\ plant.queue # "memory" => <<"workers", "DEGRADED">> \in Diagnostics
    BY <1>3 DEF WorkersCheck
<1>5. plant.queue = "down" => OverallStatus(Diagnostics) = "UNREADY"
    <2>1. plant.queue = "down" => <<"task_queue", "UNREADY">> \in Diagnostics
        BY <1>3
    <2>2. <<"task_queue", "UNREADY">>[2] = "UNREADY"
        OBVIOUS
    <2> QED
        BY <2>1, <2>2 DEF OverallStatus
<1>6. OverallStatus(Diagnostics) = "HEALTHY" => <<"workers", "DEGRADED">> \notin Diagnostics
    <2>1. <<"workers", "DEGRADED">>[2] = "DEGRADED" /\ "UNREADY" # "HEALTHY" /\ "DEGRADED" # "HEALTHY"
        OBVIOUS
    <2> QED
        BY <2>1 DEF OverallStatus
<1>7. plant.queue = "down" => overview[p].breached \cap {"backlog", "dlq", "offline"} = {}
    BY <1>1, <1>2 DEF QueueDepth, QueueDlq
<1>8. ASSUME "offline" \in overview[p].breached
      PROVE  Alive = {} \/ Cardinality(StoppedLately) >= Shown
    <2>1. \A w \in Fleet : heartbeat[w].status \in {"absent", "ACTIVE", "STOPPED"} /\ heartbeat[w].age \in Nat
        BY DEF OperationsInv, OperationsTypes
    <2>2. rows \cap Alive = {}
        BY <1>1, <1>2, <1>8
    <2> QED
        BY <2>1, <2>2, HiddenByStopped
<1> QED
    BY <1>1, <1>4, <1>5, <1>6, <1>7, <1>8

(* Whatever the workers or the plant do disturbs every overview under way. *)
LEMMA Disturbance ==
    ASSUME OperationsInv, plant' \in Plants, overview' = Disturbed, since' \in [Consoles -> Ages], told' = since',
           heartbeat' \in [Fleet -> [status : {"absent", "ACTIVE", "STOPPED"}, age : Nat]]
    PROVE  OperationsInv'
<1>1. overview \in [Consoles -> OverviewRow]
    BY DEF OperationsInv, OperationsTypes
<1>2. ASSUME NEW row \in OverviewRow
      PROVE  LET new == [row EXCEPT !.calm = FALSE] IN new \in OverviewRow /\ ~new.calm
    BY DEF OverviewRow
<1>3. \A p \in Consoles : [overview[p] EXCEPT !.calm = FALSE] \in OverviewRow /\ ~[overview[p] EXCEPT !.calm = FALSE].calm
    BY <1>1, <1>2, Zenon
<1>4. overview' \in [Consoles -> OverviewRow] /\ \A p \in Consoles : ~overview'[p].calm
    BY <1>3 DEF Disturbed
<1> QED
    BY <1>4 DEF OperationsInv, OperationsTypes, CalmAgrees

(* One console reads on. *)
LEMMA ConsoleMoves ==
    ASSUME OperationsInv, NEW p \in Consoles, NEW row \in OverviewRow, overview' = [overview EXCEPT ![p] = row],
           UNCHANGED <<plant, heartbeat>>, NEW ages \in Ages, since' = [since EXCEPT ![p] = ages], told' = since',
           row.calm =>
               /\ row.stage \in {"ready", "queue", "answered"} => row.checks = Diagnostics
               /\ row.stage \in {"queue", "answered"} => row.depth = QueueDepth /\ row.dlq = QueueDlq
               /\ row.stage = "answered" =>
                     /\ ~OverviewRaises(p) /\ \E rows \in NewestRows : row.breached = Breached(p, rows)'
                     /\ \A k \in row.breached : ages[k] < DedupWindow
    PROVE  OperationsInv'
<1>1. /\ plant \in Plants /\ overview \in [Consoles -> OverviewRow] /\ since \in [Consoles -> Ages] /\ told = since
      /\ CalmAgrees /\ heartbeat \in [Fleet -> [status : {"absent", "ACTIVE", "STOPPED"}, age : Nat]]
    BY DEF OperationsInv, OperationsTypes
<1>2. /\ overview' \in [Consoles -> OverviewRow] /\ since' \in [Consoles -> Ages]
      /\ overview'[p] = row /\ told'[p] = ages
      /\ \A o \in Consoles \ {p} : overview'[o] = overview[o] /\ told'[o] = told[o]
    BY <1>1
<1>3. Diagnostics' = Diagnostics /\ QueueDepth' = QueueDepth /\ QueueDlq' = QueueDlq /\ Alive' = Alive
      /\ Utilization' = Utilization /\ NewestRows' = NewestRows /\ \A o : OverviewRaises(o)' <=> OverviewRaises(o)
    BY DEF Diagnostics, WorkersCheck, SessionWorks, Alive, QueueDepth, QueueDlq, Utilization, NewestRows, Rows, OverviewRaises
<1>4. ASSUME NEW o \in Consoles \ {p}, NEW rows \in NewestRows
      PROVE  Breached(o, rows)' = Breached(o, rows)
    <2>1. overview'[o] = overview[o] /\ plant' = plant
        BY <1>2
    <2> QED
        BY <1>3, <2>1, Zenon DEF Breached
<1>5. CalmAgrees'
    <2> SUFFICES ASSUME NEW o \in Consoles, overview'[o].calm
                 PROVE  /\ overview'[o].stage \in {"ready", "queue", "answered"} => overview'[o].checks = Diagnostics
                        /\ overview'[o].stage \in {"queue", "answered"} => overview'[o].depth = QueueDepth /\ overview'[o].dlq = QueueDlq
                        /\ overview'[o].stage = "answered" =>
                              /\ ~OverviewRaises(o) /\ \E rows \in NewestRows : overview'[o].breached = Breached(o, rows)'
                              /\ \A k \in overview'[o].breached : told'[o][k] < DedupWindow
        BY <1>3 DEF CalmAgrees
    <2>1. CASE o = p
        BY <1>2, <2>1
    <2>2. CASE o # p
        BY <1>1, <1>2, <1>4, <2>2 DEF CalmAgrees
    <2> QED
        BY <2>1, <2>2
<1> QED
    BY <1>1, <1>2, <1>5 DEF OperationsInv, OperationsTypes

LEMMA DiagnosticsTyped == Diagnostics \in SUBSET (CheckNames \X Statuses)
<1>1. WorkersCheck \in Statuses
    BY DEF WorkersCheck, Statuses
<1> QED
    BY <1>1 DEF Diagnostics, CheckNames, Statuses

LEMMA OperationsNextPreserves == OperationsInv /\ [OperationsNext]_opsVars => OperationsInv'
<1> SUFFICES ASSUME OperationsInv, [OperationsNext]_opsVars
             PROVE  OperationsInv'
    OBVIOUS
<1>1. /\ plant \in Plants /\ overview \in [Consoles -> OverviewRow] /\ since \in [Consoles -> Ages] /\ told = since
      /\ CalmAgrees /\ OperationsTypes /\ heartbeat \in [Fleet -> [status : {"absent", "ACTIVE", "STOPPED"}, age : Nat]]
    BY DEF OperationsInv, OperationsTypes
<1>2. /\ plant.depth \in {"none", "some", "many"} /\ plant.dlq \in BOOLEAN /\ DedupWindow \in Nat /\ DedupWindow > 0
      /\ HeartbeatLimit \in Nat
    BY <1>1, OperationsAssumption
<1>3. CASE Tick
    <2>1. overview' = Disturbed /\ plant' = plant /\ since' = Aged(since) /\ told' = Aged(told)
        BY <1>3 DEF Tick
    <2>2. \A a \in 0 .. DedupWindow : Older(a, DedupWindow) \in 0 .. DedupWindow
        BY <1>2 DEF Older
    <2>3. Aged(since) \in [Consoles -> Ages]
        BY <1>1, <2>2 DEF Aged, Ages
    <2>4. \A a \in Nat : Older(a, HeartbeatLimit + 1) \in Nat
        BY <1>2 DEF Older
    <2>5. heartbeat' \in [Fleet -> [status : {"absent", "ACTIVE", "STOPPED"}, age : Nat]]
        BY <1>1, <1>3, <2>4 DEF Tick
    <2> QED
        BY <1>1, <2>1, <2>3, <2>5, Disturbance
<1>4. CASE PlantChanges
    <2>1. overview' = Disturbed /\ plant' \in Plants /\ UNCHANGED <<heartbeat, since, told>>
        BY <1>4 DEF PlantChanges
    <2> QED
        BY <1>1, <2>1, Disturbance
<1>5. ASSUME NEW w \in Fleet, Beat(w) \/ StopWorker(w)
      PROVE  OperationsInv'
    <2>1. overview' = Disturbed /\ UNCHANGED <<plant, since, told>>
        BY <1>5 DEF Beat, StopWorker
    <2>2. heartbeat' \in [Fleet -> [status : {"absent", "ACTIVE", "STOPPED"}, age : Nat]]
        BY <1>1, <1>5 DEF Beat, StopWorker
    <2> QED
        BY <1>1, <2>1, <2>2, Disturbance
<1>6. ASSUME NEW p \in Consoles, UNCHANGED <<since, told>>
      PROVE  since[p] \in Ages /\ since' = [since EXCEPT ![p] = since[p]] /\ told' = since'
    BY <1>1, <1>6
<1>7. ASSUME NEW p \in Consoles, EvaluateReadiness(p)
      PROVE  OperationsInv'
    <2> DEFINE row == [NoOverview EXCEPT !.stage = "ready", !.checks = Diagnostics]
    <2>1. overview' = [overview EXCEPT ![p] = row] /\ UNCHANGED <<plant, heartbeat, since, told>>
        BY <1>7 DEF EvaluateReadiness
    <2>2. row \in OverviewRow /\ row.stage = "ready" /\ row.checks = Diagnostics
        BY DiagnosticsTyped DEF NoOverview, OverviewRow
    <2> HIDE DEF row
    <2>3. row.stage \notin {"queue", "answered"}
        BY <2>2
    <2> QED
        BY <1>6, <2>1, <2>2, <2>3, ConsoleMoves
<1>8. ASSUME NEW p \in Consoles, ReadQueue(p)
      PROVE  OperationsInv'
    <2> DEFINE row == [overview[p] EXCEPT !.stage = "queue", !.depth = QueueDepth, !.dlq = QueueDlq]
    <2>1. /\ overview[p].stage = "ready" /\ overview' = [overview EXCEPT ![p] = row]
          /\ UNCHANGED <<plant, heartbeat, since, told>>
        BY <1>8 DEF ReadQueue, QueueDepth, QueueDlq
    <2>2. QueueDepth \in {"none", "some", "many"} /\ QueueDlq \in BOOLEAN
        BY <1>2 DEF QueueDepth, QueueDlq
    <2>3. ASSUME NEW old \in OverviewRow
          PROVE  LET new == [old EXCEPT !.stage = "queue", !.depth = QueueDepth, !.dlq = QueueDlq] IN
                 /\ new \in OverviewRow /\ new.stage = "queue" /\ new.depth = QueueDepth /\ new.dlq = QueueDlq
                 /\ new.checks = old.checks /\ new.calm = old.calm
        BY <2>2 DEF OverviewRow
    <2>4. /\ row \in OverviewRow /\ row.stage = "queue" /\ row.depth = QueueDepth /\ row.dlq = QueueDlq
          /\ row.checks = overview[p].checks /\ row.calm = overview[p].calm
        BY <1>1, <2>3, Zenon
    <2> HIDE DEF row
    <2>5. row.calm => row.checks = Diagnostics
        BY <1>1, <2>1, <2>4 DEF CalmAgrees
    <2>6. row.stage # "answered"
        BY <2>4
    <2> QED
        BY <1>6, <2>1, <2>4, <2>5, <2>6, ConsoleMoves
<1>9. ASSUME NEW p \in Consoles, AnswerOverview(p)
      PROVE  OperationsInv'
    <2>0. PICK rows \in NewestRows :
              LET breached == Breached(p, rows)
                  answer == {k \in breached : ShouldEmit(p, k)}
              IN /\ overview' = [overview EXCEPT ![p].stage = "answered",
                                                 ![p].breached = breached, ![p].answer = answer]
                 /\ since' = [since EXCEPT ![p] = Stamped(p, breached)]
                 /\ told' = [told EXCEPT ![p] = [k \in AlertKeys |-> IF k \in answer THEN 0 ELSE @[k]]]
        BY <1>9 DEF AnswerOverview
    <2> DEFINE breached == Breached(p, rows)
               answer == {k \in breached : ShouldEmit(p, k)}
               row == [overview[p] EXCEPT !.stage = "answered", !.breached = breached, !.answer = answer]
               ages == [k \in AlertKeys |-> IF k \in answer THEN 0 ELSE told[p][k]]
    <2>1. /\ overview[p].stage = "queue" /\ ~OverviewRaises(p) /\ overview' = [overview EXCEPT ![p] = row]
          /\ since' = [since EXCEPT ![p] = Stamped(p, breached)] /\ told' = [told EXCEPT ![p] = ages]
          /\ UNCHANGED <<plant, heartbeat>>
        BY <1>9, <2>0 DEF AnswerOverview
    <2>2. breached \in SUBSET AlertKeys /\ answer \in SUBSET AlertKeys
        BY DEF Breached
    <2> HIDE DEF breached, answer
    <2>3. ASSUME NEW old \in OverviewRow
          PROVE  LET new == [old EXCEPT !.stage = "answered", !.breached = breached, !.answer = answer] IN
                 /\ new \in OverviewRow /\ new.stage = "answered" /\ new.breached = breached
                 /\ new.depth = old.depth /\ new.dlq = old.dlq /\ new.checks = old.checks /\ new.calm = old.calm
        BY <2>2 DEF OverviewRow
    <2>4. /\ row \in OverviewRow /\ row.stage = "answered" /\ row.breached = breached
          /\ row.depth = overview[p].depth /\ row.dlq = overview[p].dlq
          /\ row.checks = overview[p].checks /\ row.calm = overview[p].calm
        BY <1>1, <2>3, Zenon
    <2>5. Stamped(p, breached) = ages
        BY <1>1 DEF Stamped, answer
    <2>6. since[p] \in Ages /\ told[p] = since[p]
        BY <1>1
    <2>7. ages \in Ages
        BY <1>2, <2>6 DEF Ages
    <2>8. \A k \in breached : ages[k] < DedupWindow
        <3> SUFFICES ASSUME NEW k \in breached
                     PROVE  ages[k] < DedupWindow
            OBVIOUS
        <3>1. k \in AlertKeys /\ since[p][k] \in 0 .. DedupWindow
            BY <2>2, <2>6 DEF Ages
        <3>2. CASE since[p][k] = DedupWindow
            BY <1>2, <3>1, <3>2 DEF ShouldEmit, answer
        <3>3. CASE since[p][k] # DedupWindow
            <4>1. ages[k] = since[p][k]
                BY <2>6, <3>1, <3>3 DEF ShouldEmit, answer
            <4> HIDE DEF ages
            <4> QED
                BY <1>2, <3>1, <3>3, <4>1
        <3> QED
            BY <3>2, <3>3
    <2> HIDE DEF ages, row
    <2>9. overview'[p].depth = overview[p].depth /\ overview'[p].dlq = overview[p].dlq
        BY <1>1, <2>1, <2>4
    <2>10. Breached(p, rows)' = breached /\ NewestRows' = NewestRows
        <3>1. Alive' = Alive /\ Utilization' = Utilization
            BY <2>1 DEF Alive, Utilization
        <3>2. NewestRows' = NewestRows
            BY <2>1 DEF NewestRows, Rows
        <3> QED
            BY <2>1, <2>9, <3>1, <3>2, Zenon DEF Breached, breached
    <2>11. row.calm => row.checks = Diagnostics /\ row.depth = QueueDepth /\ row.dlq = QueueDlq
        BY <1>1, <2>1, <2>4 DEF CalmAgrees
    <2>12. since' = [since EXCEPT ![p] = ages] /\ told' = since'
        BY <1>1, <2>1, <2>5
    <2>13. row.stage = "answered" =>
              /\ ~OverviewRaises(p) /\ \E r \in NewestRows : row.breached = Breached(p, r)'
              /\ \A k \in row.breached : ages[k] < DedupWindow
        BY <2>1, <2>4, <2>8, <2>10
    <2> QED
        BY <2>1, <2>4, <2>7, <2>11, <2>12, <2>13, ConsoleMoves, ZenonT(30)
<1>10. ASSUME NEW p \in Consoles, RaiseOverview(p)
       PROVE  OperationsInv'
    <2> DEFINE row == [NoOverview EXCEPT !.stage = "raised"]
    <2>1. overview' = [overview EXCEPT ![p] = row] /\ UNCHANGED <<plant, heartbeat, since, told>>
        BY <1>10 DEF RaiseOverview
    <2>2. row \in OverviewRow /\ row.stage \notin {"ready", "queue", "answered"}
        BY DEF NoOverview, OverviewRow
    <2> HIDE DEF row
    <2>3. row.stage # "answered"
        BY <2>2
    <2> QED
        BY <1>6, <2>1, <2>2, <2>3, ConsoleMoves
<1>11. CASE UNCHANGED opsVars
    <2>1. UNCHANGED <<plant, heartbeat, overview, since, told>>
        BY <1>11 DEF opsVars
    <2>2. OperationsTypes'
        BY <1>1, <2>1 DEF OperationsTypes
    <2>3. Diagnostics' = Diagnostics /\ QueueDepth' = QueueDepth /\ QueueDlq' = QueueDlq /\ Alive' = Alive
          /\ Utilization' = Utilization /\ NewestRows' = NewestRows /\ \A o : OverviewRaises(o)' <=> OverviewRaises(o)
        BY <2>1 DEF Diagnostics, WorkersCheck, SessionWorks, Alive, QueueDepth, QueueDlq, Utilization, NewestRows, Rows, OverviewRaises
    <2>4. \A o, rows : Breached(o, rows)' = Breached(o, rows)
        BY <2>1, <2>3, Zenon DEF Breached
    <2>5. CalmAgrees'
        BY <1>1, <2>1, <2>3, <2>4 DEF CalmAgrees
    <2> QED
        BY <2>2, <2>5 DEF OperationsInv
<1> QED
    BY <1>3, <1>4, <1>5, <1>7, <1>8, <1>9, <1>10, <1>11 DEF OperationsNext

(* Deduplication silences no breach, and the parts of an undisturbed overview agree:
   get_operations_overview and _should_emit, with any number of workers, consoles
   and states of the plant, whatever the window. *)
THEOREM OverviewsTellBreaches == OperationsSpec => []BreachesAreTold
<1>1. OperationsInit => OperationsInv
    <2> SUFFICES ASSUME OperationsInit
                 PROVE  OperationsInv
        OBVIOUS
    <2>1. NoOverview \in OverviewRow /\ NoOverview.stage = "idle"
        BY DEF NoOverview, OverviewRow
    <2>2. Never \in Ages
        BY OperationsAssumption DEF Never, Ages
    <2>3. OperationsTypes
        BY <2>1, <2>2 DEF OperationsInit, OperationsTypes
    <2>4. CalmAgrees
        <3>1. \A p \in Consoles : overview[p].stage \notin {"ready", "queue", "answered"}
            BY <2>1 DEF OperationsInit
        <3> QED
            BY <3>1 DEF CalmAgrees
    <2> QED
        BY <2>3, <2>4 DEF OperationsInv
<1> QED
    BY <1>1, CalmIsTold, OperationsNextPreserves, PTL DEF OperationsSpec
-----------------------------------------------------------------------------
(* Alerts.  A rule that has an insert under way and no overlap has no active alert
   and one evaluation that inserts; every page is counted once, in an alert, in an
   evaluation under way or among those rolled back. *)
AlertRow == [rule : Rules, status : AlertStatus]
EngineRow == [at : {"idle", "rules"}, todo : SUBSET Rules, resolves : SUBSET Nat, inserts : SUBSET Rules]

AlertsTypes ==
    /\ alerts \in Seq(AlertRow) /\ engine \in [Engines -> EngineRow] /\ enabled \subseteq Rules
    /\ acker \in [Ackers -> 0 .. Len(alerts)]
    /\ paged \in [Rules -> Nat] /\ aborted \in [Rules -> Nat]
    /\ \A e \in Engines : /\ engine[e].at = "idle" => engine[e].inserts = {} /\ engine[e].todo = {}
                          /\ engine[e].todo \cap engine[e].inserts = {}

NoOverlap ==
    \A r \in Rules : r \notin overlapping =>
        /\ \A i, j \in ActiveOf(r) : i = j
        /\ \A e \in Engines : r \in engine[e].inserts =>
              ActiveOf(r) = {} /\ \A f \in Engines : r \in engine[f].inserts => f = e

PagesAddUp == \A r \in Rules : paged[r] = Inserted(r) + Pending(r) + aborted[r]

AlertsInv == AlertsTypes /\ NoOverlap /\ PagesAddUp

LEMMA InvIsOneAlert == AlertsInv => OneAlertPerIncident
<1> SUFFICES ASSUME AlertsInv, NEW r \in Rules, r \notin overlapping
             PROVE  Cardinality(ActiveOf(r)) <= 1
    BY DEF AlertsInv, PagesAddUp, OneAlertPerIncident
<1>1. \A i, j \in ActiveOf(r) : i = j
    BY DEF AlertsInv, NoOverlap
<1>2. ActiveOf(r) = {} \/ \E i : ActiveOf(r) = {i}
    BY <1>1, Zenon
<1>3. Cardinality(ActiveOf(r)) \in {0, 1}
    BY <1>2, FS_EmptySet, FS_Singleton, Zenon
<1> QED
    BY <1>3

(* What one evaluation moving on does to the number under way. *)
LEMMA PendingMoves ==
    ASSUME AlertsInv, NEW e \in Engines, NEW row \in EngineRow, engine' = [engine EXCEPT ![e] = row], NEW r \in Rules
    PROVE  /\ Pending(r) \in Nat
           /\ (r \in row.inserts <=> r \in engine[e].inserts) => Pending(r)' = Pending(r)
           /\ r \in row.inserts /\ r \notin engine[e].inserts => Pending(r)' = Pending(r) + 1
           /\ r \notin row.inserts /\ r \in engine[e].inserts => Pending(r)' = Pending(r) - 1
<1> DEFINE under == {f \in Engines : r \in engine[f].inserts}
           later == {f \in Engines : r \in engine'[f].inserts}
<1>1. engine'[e] = row /\ \A f \in Engines \ {e} : engine'[f] = engine[f]
    BY DEF AlertsInv, AlertsTypes
<1>2. IsFiniteSet(under)
    <2>1. under \in SUBSET Engines
        OBVIOUS
    <2> HIDE DEF under
    <2> QED
        BY <2>1, AlertsAssumption, FS_Subset
<1>3. Cardinality(under) \in Nat
    BY <1>2, FS_CardinalityType
<1>4. CASE r \in row.inserts <=> r \in engine[e].inserts
    <2>1. later = under
        BY <1>1, <1>4
    <2> QED
        BY <1>3, <1>4, <2>1 DEF Pending
<1>5. CASE r \in row.inserts /\ r \notin engine[e].inserts
    <2>1. later = under \cup {e} /\ e \notin under
        BY <1>1, <1>5
    <2> HIDE DEF under, later
    <2>2. Cardinality(later) = Cardinality(under) + 1
        BY <1>2, <2>1, FS_AddElement
    <2> QED
        BY <1>3, <1>5, <2>2 DEF Pending, under, later
<1>6. CASE r \notin row.inserts /\ r \in engine[e].inserts
    <2>1. later = under \ {e} /\ e \in under
        BY <1>1, <1>6
    <2> HIDE DEF under, later
    <2>2. Cardinality(later) = Cardinality(under) - 1
        BY <1>2, <2>1, FS_RemoveElement
    <2> QED
        BY <1>3, <1>6, <2>2 DEF Pending, under, later
<1> QED
    BY <1>4, <1>5, <1>6

LEMMA InsertedIsCounted ==
    ASSUME AlertsInv, NEW r \in Rules
    PROVE  IsFiniteSet({i \in DOMAIN alerts : alerts[i].rule = r}) /\ Inserted(r) \in Nat
<1> DEFINE rows == {i \in DOMAIN alerts : alerts[i].rule = r}
<1>1. DOMAIN alerts = 1 .. Len(alerts) /\ IsFiniteSet(1 .. Len(alerts)) /\ rows \in SUBSET DOMAIN alerts
    BY FS_Interval DEF AlertsInv, AlertsTypes
<1> HIDE DEF rows
<1>2. IsFiniteSet(rows) /\ Cardinality(rows) \in Nat
    BY <1>1, FS_Subset, FS_CardinalityType
<1> QED
    BY <1>2 DEF rows, Inserted

(* The alerts change their status, and no active one is new but where it overlaps. *)
LEMMA AlertsMove ==
    ASSUME AlertsInv, NEW later \in Seq(AlertRow), alerts' = later, Len(later) = Len(alerts),
           \A i \in DOMAIN alerts : later[i].rule = alerts[i].rule,
           enabled' \subseteq Rules, acker' \in [Ackers -> 0 .. Len(alerts)], overlapping \subseteq overlapping',
           \A r \in Rules : r \notin overlapping' => ActiveOf(r)' \subseteq ActiveOf(r),
           UNCHANGED <<engine, paged, aborted>>
    PROVE  AlertsInv'
<1>1. AlertsTypes /\ NoOverlap /\ PagesAddUp /\ alerts \in Seq(AlertRow)
    BY DEF AlertsInv, AlertsTypes
<1>2. AlertsTypes'
    BY <1>1 DEF AlertsTypes
<1>3. \A r \in Rules : Inserted(r)' = Inserted(r) /\ Pending(r)' = Pending(r)
    <2>1. DOMAIN later = DOMAIN alerts
        BY <1>1
    <2> QED
        BY <1>1, <2>1 DEF Inserted, Pending
<1>4. NoOverlap'
    <2> SUFFICES ASSUME NEW r \in Rules, r \notin overlapping'
                 PROVE  /\ \A i, j \in ActiveOf(r)' : i = j
                        /\ \A e \in Engines : r \in engine[e].inserts =>
                              ActiveOf(r)' = {} /\ \A f \in Engines : r \in engine[f].inserts => f = e
        BY DEF NoOverlap
    <2>1. r \notin overlapping /\ ActiveOf(r)' \subseteq ActiveOf(r)
        OBVIOUS
    <2> QED
        BY <1>1, <2>1 DEF NoOverlap
<1>5. PagesAddUp'
    BY <1>1, <1>3 DEF PagesAddUp
<1> QED
    BY <1>2, <1>4, <1>5 DEF AlertsInv

(* One evaluation moves on without an insert. *)
LEMMA EngineMoves ==
    ASSUME AlertsInv, NEW e \in Engines, NEW row \in EngineRow, engine' = [engine EXCEPT ![e] = row],
           row.inserts = engine[e].inserts, row.at # "idle", row.todo \cap row.inserts = {},
           UNCHANGED <<enabled, alerts, acker, overlapping, paged, aborted>>
    PROVE  AlertsInv'
<1>1. AlertsTypes /\ NoOverlap /\ PagesAddUp /\ engine \in [Engines -> EngineRow]
    BY DEF AlertsInv, AlertsTypes
<1>2. /\ engine' \in [Engines -> EngineRow] /\ engine'[e] = row /\ \A f \in Engines \ {e} : engine'[f] = engine[f]
      /\ \A f \in Engines : engine'[f].inserts = engine[f].inserts
    BY <1>1
<1>3. AlertsTypes'
    BY <1>1, <1>2 DEF AlertsTypes
<1>4. \A r \in Rules : Inserted(r)' = Inserted(r) /\ Pending(r)' = Pending(r) /\ ActiveOf(r)' = ActiveOf(r)
    BY <1>2 DEF Inserted, Pending, ActiveOf
<1>5. NoOverlap' /\ PagesAddUp'
    BY <1>1, <1>2, <1>4 DEF NoOverlap, PagesAddUp
<1> QED
    BY <1>3, <1>5 DEF AlertsInv

(* One is lost: its inserts are rolled back, its pages are not. *)
LEMMA RollbackPreserves ==
    ASSUME AlertsInv, NEW e \in Engines, Rollback(e)
    PROVE  AlertsInv'
<1>1. /\ AlertsTypes /\ NoOverlap /\ PagesAddUp /\ engine \in [Engines -> EngineRow]
      /\ paged \in [Rules -> Nat] /\ aborted \in [Rules -> Nat]
    BY DEF AlertsInv, AlertsTypes
<1>2. /\ engine' = [engine EXCEPT ![e] = IdleEngine]
      /\ aborted' = [r \in Rules |-> aborted[r] + IF r \in engine[e].inserts THEN 1 ELSE 0]
      /\ UNCHANGED <<enabled, alerts, acker, overlapping, paged>>
    BY DEF Rollback
<1>3. IdleEngine \in EngineRow /\ IdleEngine.inserts = {} /\ IdleEngine.todo = {}
    BY DEF IdleEngine, EngineRow
<1>4. /\ engine' \in [Engines -> EngineRow] /\ engine'[e] = IdleEngine
      /\ \A f \in Engines \ {e} : engine'[f] = engine[f]
    BY <1>1, <1>2, <1>3
<1>5. aborted' \in [Rules -> Nat]
    BY <1>1, <1>2
<1>6. AlertsTypes'
    BY <1>1, <1>2, <1>3, <1>4, <1>5 DEF AlertsTypes
<1>7. \A r \in Rules : Inserted(r)' = Inserted(r) /\ ActiveOf(r)' = ActiveOf(r)
    BY <1>2 DEF Inserted, ActiveOf
<1>8. NoOverlap'
    BY <1>1, <1>2, <1>3, <1>4, <1>7 DEF NoOverlap
<1>9. ASSUME NEW r \in Rules
      PROVE  paged'[r] = Inserted(r)' + Pending(r)' + aborted'[r]
    <2>1. Inserted(r) \in Nat /\ Pending(r) \in Nat /\ aborted[r] \in Nat
        BY <1>1, <1>2, <1>3, InsertedIsCounted, PendingMoves
    <2>2. r \in engine[e].inserts => Pending(r)' = Pending(r) - 1
        BY <1>2, <1>3, PendingMoves
    <2>3. r \notin engine[e].inserts => Pending(r)' = Pending(r)
        BY <1>2, <1>3, PendingMoves
    <2>4. aborted'[r] = aborted[r] + IF r \in engine[e].inserts THEN 1 ELSE 0
        BY <1>2
    <2>5. paged[r] = Inserted(r) + Pending(r) + aborted[r] /\ paged'[r] = paged[r] /\ Inserted(r)' = Inserted(r)
        BY <1>1, <1>2, <1>7 DEF PagesAddUp
    <2> QED
        BY <2>1, <2>2, <2>3, <2>4, <2>5
<1> QED
    BY <1>6, <1>8, <1>9 DEF AlertsInv, PagesAddUp

(* The rows of a commit: one for each rule that it inserts for. *)
LEMMA NewAlertsSound ==
    ASSUME NEW inserts \in SUBSET Rules, NEW new \in NewAlerts(inserts)
    PROVE  /\ new \in Seq(AlertRow) /\ \A i \in DOMAIN new : new[i].rule \in inserts /\ new[i].status = "TRIGGERED"
           /\ \A r \in inserts : \E i \in DOMAIN new : new[i].rule = r /\ \A j \in DOMAIN new : new[j].rule = r => j = i
<1> DEFINE n == Cardinality(inserts)
           ruleOf == [i \in 1 .. n |-> new[i].rule]
<1>1. IsFiniteSet(inserts) /\ n \in Nat
    BY AlertsAssumption, FS_Subset, FS_CardinalityType
<1>2. /\ new \in [1 .. n -> [rule : inserts, status : {"TRIGGERED"}]]
      /\ \A r \in inserts : \E i \in 1 .. n : new[i].rule = r
    BY DEF NewAlerts
<1>3. IsFiniteSet(1 .. n) /\ Cardinality(1 .. n) = n
    BY <1>1, FS_Interval
<1> HIDE DEF n
<1>4. ruleOf \in [1 .. n -> inserts] /\ \A i \in 1 .. n : ruleOf[i] = new[i].rule
    BY <1>2
<1> HIDE DEF ruleOf
<1>5. ruleOf \in Surjection(1 .. n, inserts)
    BY <1>2, <1>4 DEF Surjection
<1>6. \A i, j \in 1 .. n : ruleOf[i] = ruleOf[j] => i = j
    <2>1. ruleOf \in Injection(1 .. n, inserts)
        BY <1>3, <1>5, FS_SurjSameCardinalityImpliesInj DEF n
    <2> QED
        BY <1>4, <2>1 DEF Injection, IsInjective
<1>7. [rule : inserts, status : {"TRIGGERED"}] \subseteq AlertRow
    BY DEF AlertRow, AlertStatus, ActiveStatus
<1>8. \A i \in 1 .. n : new[i] \in AlertRow /\ new[i].rule \in inserts /\ new[i].status = "TRIGGERED"
    BY <1>2, <1>7
<1>9. new \in Seq(AlertRow) /\ DOMAIN new = 1 .. n
    <2>1. new = [i \in 1 .. n |-> new[i]]
        BY <1>2
    <2> QED
        BY <1>1, <1>8, <2>1
<1> QED
    BY <1>2, <1>4, <1>6, <1>8, <1>9

LEMMA TriggerPreserves ==
    ASSUME AlertsInv, NEW e \in Engines, NEW r \in Rules, Trigger(e, r)
    PROVE  AlertsInv'
<1> DEFINE row == [Checked(e, r) EXCEPT !.inserts = engine[e].inserts \cup {r}]
<1>1. /\ AlertsTypes /\ NoOverlap /\ PagesAddUp /\ engine \in [Engines -> EngineRow]
      /\ paged \in [Rules -> Nat] /\ aborted \in [Rules -> Nat]
    BY DEF AlertsInv, AlertsTypes
<1>2. ASSUME NEW old \in EngineRow
      PROVE  LET new == [[old EXCEPT !.todo = old.todo \ {r}] EXCEPT !.inserts = old.inserts \cup {r}] IN
             /\ new \in EngineRow /\ new.at = old.at /\ new.todo = old.todo \ {r} /\ new.inserts = old.inserts \cup {r}
             /\ [old EXCEPT !.todo = old.todo \ {r}].inserts = old.inserts
    BY DEF EngineRow
<1>3. Checked(e, r) = [engine[e] EXCEPT !.todo = engine[e].todo \ {r}]
    BY DEF Checked
<1>4. /\ row \in EngineRow /\ row.at = engine[e].at /\ row.todo = engine[e].todo \ {r}
      /\ row.inserts = engine[e].inserts \cup {r} /\ Checked(e, r).inserts = engine[e].inserts
    BY <1>1, <1>2, <1>3, Zenon
<1>5. /\ r \in engine[e].todo /\ ActiveOf(r) = {}
      /\ engine' = [engine EXCEPT ![e] = row] /\ paged' = [paged EXCEPT ![r] = paged[r] + 1]
      /\ overlapping' = overlapping \cup {x \in {r} : \E f \in Engines \ {e} : r \in engine[f].inserts}
      /\ UNCHANGED <<enabled, alerts, acker, aborted>>
    BY <1>4 DEF Trigger
<1> HIDE DEF row
<1>6. /\ engine' \in [Engines -> EngineRow] /\ engine'[e] = row /\ \A f \in Engines \ {e} : engine'[f] = engine[f]
      /\ r \notin engine[e].inserts /\ engine[e].at # "idle"
    <2>1. r \notin engine[e].inserts
        BY <1>1, <1>5 DEF AlertsTypes
    <2>2. engine[e].at # "idle"
        BY <1>1, <1>5 DEF AlertsTypes
    <2> QED
        BY <1>1, <1>4, <1>5, <2>1, <2>2
<1>7. paged' \in [Rules -> Nat]
    BY <1>1, <1>5
<1>8. AlertsTypes'
    BY <1>1, <1>4, <1>5, <1>6, <1>7 DEF AlertsTypes
<1>9. \A x \in Rules : Inserted(x)' = Inserted(x) /\ ActiveOf(x)' = ActiveOf(x)
    BY <1>5 DEF Inserted, ActiveOf
<1>10. NoOverlap'
    <2> SUFFICES ASSUME NEW x \in Rules, x \notin overlapping'
                 PROVE  /\ \A i, j \in ActiveOf(x) : i = j
                        /\ \A d \in Engines : x \in engine'[d].inserts =>
                              ActiveOf(x) = {} /\ \A f \in Engines : x \in engine'[f].inserts => f = d
        BY <1>9 DEF NoOverlap
    <2>1. x \notin overlapping /\ (x = r => \A f \in Engines \ {e} : r \notin engine[f].inserts)
        BY <1>5
    <2> QED
        BY <1>1, <1>4, <1>5, <1>6, <2>1 DEF NoOverlap
<1>11. ASSUME NEW x \in Rules
       PROVE  paged'[x] = Inserted(x)' + Pending(x)' + aborted'[x]
    <2>1. Inserted(x) \in Nat /\ Pending(x) \in Nat /\ aborted[x] \in Nat
        BY <1>1, <1>4, <1>5, InsertedIsCounted, PendingMoves
    <2>2. paged[x] = Inserted(x) + Pending(x) + aborted[x] /\ Inserted(x)' = Inserted(x) /\ aborted'[x] = aborted[x]
        BY <1>1, <1>5, <1>9 DEF PagesAddUp
    <2>3. CASE x = r
        <3>1. Pending(x)' = Pending(x) + 1
            BY <1>4, <1>5, <1>6, <2>3, PendingMoves
        <3>2. paged'[x] = paged[x] + 1
            BY <1>1, <1>5, <2>3
        <3> QED
            BY <2>1, <2>2, <3>1, <3>2
    <2>4. CASE x # r
        <3>1. Pending(x)' = Pending(x)
            BY <1>4, <1>5, <2>4, PendingMoves
        <3>2. paged'[x] = paged[x]
            BY <1>1, <1>5, <2>4
        <3> QED
            BY <2>1, <2>2, <3>1, <3>2
    <2> QED
        BY <2>3, <2>4
<1> QED
    BY <1>8, <1>10, <1>11 DEF AlertsInv, PagesAddUp

LEMMA CommitPreserves ==
    ASSUME AlertsInv, NEW e \in Engines, CommitEvaluation(e)
    PROVE  AlertsInv'
<1> DEFINE ended(i) == [alerts[i] EXCEPT !.status = "RESOLVED"]
           now(i) == IF i \in engine[e].resolves THEN ended(i) ELSE alerts[i]
           kept == [i \in DOMAIN alerts |-> now(i)]
           ins == engine[e].inserts
           n == Len(alerts)
<1>1. /\ AlertsTypes /\ NoOverlap /\ PagesAddUp /\ engine \in [Engines -> EngineRow] /\ alerts \in Seq(AlertRow)
      /\ acker \in [Ackers -> 0 .. Len(alerts)] /\ paged \in [Rules -> Nat] /\ aborted \in [Rules -> Nat]
      /\ n \in Nat /\ DOMAIN alerts = 1 .. n
    BY DEF AlertsInv, AlertsTypes
<1>2. PICK new \in NewAlerts(ins) : alerts' = kept \o new
    BY DEF CommitEvaluation
<1>3. engine' = [engine EXCEPT ![e] = IdleEngine] /\ UNCHANGED <<enabled, acker, overlapping, paged, aborted>>
    BY DEF CommitEvaluation
<1>4. ins \in SUBSET Rules
    BY <1>1 DEF EngineRow
<1>5. /\ new \in Seq(AlertRow) /\ \A i \in DOMAIN new : new[i].rule \in ins /\ new[i].status = "TRIGGERED"
      /\ \A r \in ins : \E i \in DOMAIN new : new[i].rule = r /\ \A j \in DOMAIN new : new[j].rule = r => j = i
    BY <1>4, NewAlertsSound
<1>6. ASSUME NEW row \in AlertRow
      PROVE  LET over == [row EXCEPT !.status = "RESOLVED"] IN
             over \in AlertRow /\ over.rule = row.rule /\ over.status \notin ActiveStatus
    BY DEF AlertRow, AlertStatus, ActiveStatus
<1>7. \A i \in DOMAIN alerts : alerts[i] \in AlertRow
    BY <1>1
<1>8. \A i \in DOMAIN alerts : ended(i) \in AlertRow /\ ended(i).rule = alerts[i].rule /\ ended(i).status \notin ActiveStatus
    BY <1>6, <1>7, Zenon
<1> HIDE DEF ended
<1>9. \A i \in DOMAIN alerts : /\ now(i) \in AlertRow /\ now(i).rule = alerts[i].rule
                               /\ now(i).status \in ActiveStatus => alerts[i].status \in ActiveStatus
    BY <1>7, <1>8
<1> HIDE DEF now
<1>10. /\ kept \in Seq(AlertRow) /\ Len(kept) = n
       /\ \A i \in DOMAIN alerts : /\ kept[i].rule = alerts[i].rule
                                   /\ kept[i].status \in ActiveStatus => alerts[i].status \in ActiveStatus
    <2>1. DOMAIN kept = 1 .. n /\ \A i \in 1 .. n : kept[i] = now(i)
        BY <1>1
    <2>2. kept = [i \in 1 .. n |-> kept[i]] /\ \A i \in 1 .. n : kept[i] \in AlertRow
        BY <1>1, <1>9, <2>1
    <2> HIDE DEF kept
    <2> QED
        BY <1>1, <1>9, <2>1, <2>2
<1> HIDE DEF kept, ins, n
<1>11. /\ alerts' \in Seq(AlertRow) /\ Len(alerts') = n + Len(new) /\ Len(new) \in Nat /\ DOMAIN new = 1 .. Len(new)
       /\ DOMAIN alerts' = 1 .. n + Len(new)
       /\ \A i \in 1 .. n : alerts'[i] = kept[i]
       /\ \A i \in 1 .. Len(new) : alerts'[n + i] = new[i]
    <2>1. /\ kept \o new \in Seq(AlertRow) /\ Len(kept \o new) = n + Len(new)
          /\ \A i \in 1 .. n + Len(new) : (kept \o new)[i] = IF i <= n THEN kept[i] ELSE new[i - n]
        <3>1. kept \in Seq(AlertRow) /\ new \in Seq(AlertRow) /\ Len(kept) = n
            BY <1>5, <1>10
        <3>2. /\ kept \o new \in Seq(AlertRow) /\ Len(kept \o new) = Len(kept) + Len(new)
              /\ \A i \in 1 .. Len(kept) + Len(new) : (kept \o new)[i] = IF i <= Len(kept) THEN kept[i] ELSE new[i - Len(kept)]
            BY <3>1, ConcatProperties, Zenon
        <3> QED
            BY <3>1, <3>2
    <2>2. Len(new) \in Nat /\ n \in Nat /\ DOMAIN new = 1 .. Len(new) /\ DOMAIN alerts' = 1 .. Len(alerts')
        BY <1>1, <1>2, <1>5, <2>1
    <2>3. \A i \in 1 .. n : alerts'[i] = kept[i]
        BY <1>2, <2>1, <2>2
    <2>4. ASSUME NEW i \in 1 .. Len(new)
          PROVE  alerts'[n + i] = new[i]
        <3>1. n + i \in 1 .. n + Len(new) /\ ~(n + i <= n) /\ (n + i) - n = i
            BY <2>2
        <3> QED
            BY <1>2, <2>1, <3>1
    <2> QED
        BY <1>2, <2>1, <2>2, <2>3, <2>4
<1>12. IdleEngine \in EngineRow /\ IdleEngine.inserts = {} /\ IdleEngine.todo = {}
    BY DEF IdleEngine, EngineRow
<1>13. /\ engine' \in [Engines -> EngineRow] /\ engine'[e] = IdleEngine
       /\ \A f \in Engines \ {e} : engine'[f] = engine[f]
    BY <1>1, <1>3, <1>12
<1>14. AlertsTypes'
    <2>1. acker' \in [Ackers -> 0 .. Len(alerts')]
        BY <1>1, <1>3, <1>11 DEF n
    <2> QED
        BY <1>1, <1>3, <1>11, <1>12, <1>13, <2>1 DEF AlertsTypes
(* A rule without an insert has the rows it had, one with an insert one more. *)
<1>15. ASSUME NEW r \in Rules, r \notin ins
       PROVE  Inserted(r)' = Inserted(r) /\ ActiveOf(r)' \subseteq ActiveOf(r)
    <2>1. \A i \in DOMAIN alerts' : alerts'[i].rule = r => i \in DOMAIN alerts /\ alerts'[i] = kept[i]
        <3> SUFFICES ASSUME NEW i \in 1 .. n + Len(new), alerts'[i].rule = r
                     PROVE  i \in 1 .. n
            BY <1>1, <1>11
        <3>1. CASE i > n
            <4>1. i - n \in 1 .. Len(new) /\ n + (i - n) = i
                BY <1>1, <1>11, <3>1
            <4>2. alerts'[i] = new[i - n]
                BY <1>11, <4>1
            <4> QED
                BY <1>5, <1>11, <1>15, <4>1, <4>2
        <3> QED
            BY <1>1, <1>11, <3>1
    <2>2. DOMAIN alerts \subseteq DOMAIN alerts' /\ \A i \in DOMAIN alerts : alerts'[i] = kept[i]
        BY <1>1, <1>11
    <2>3. {i \in DOMAIN alerts' : alerts'[i].rule = r} = {i \in DOMAIN alerts : alerts[i].rule = r}
        BY <1>10, <2>1, <2>2
    <2> QED
        BY <1>10, <2>1, <2>3 DEF Inserted, ActiveOf
<1>16. ASSUME NEW r \in Rules, r \in ins
       PROVE  /\ Inserted(r)' = Inserted(r) + 1
              /\ ActiveOf(r) = {} => \A i, j \in ActiveOf(r)' : i = j
    <2>1. PICK k \in DOMAIN new : new[k].rule = r /\ \A j \in DOMAIN new : new[j].rule = r => j = k
        BY <1>5, <1>16
    <2>2. n + k \in DOMAIN alerts' /\ n + k \notin DOMAIN alerts /\ alerts'[n + k].rule = r
        <3>1. k \in 1 .. Len(new) /\ n \in Nat /\ Len(new) \in Nat
            BY <1>1, <1>11, <2>1
        <3>2. n + k \in 1 .. n + Len(new) /\ n + k \notin 1 .. n
            BY <3>1
        <3> QED
            BY <1>1, <1>11, <2>1, <3>1, <3>2
    <2>3. \A i \in DOMAIN alerts' : alerts'[i].rule = r => i = n + k \/ (i \in DOMAIN alerts /\ alerts'[i] = kept[i])
        <3> SUFFICES ASSUME NEW i \in 1 .. n + Len(new), alerts'[i].rule = r, i # n + k
                     PROVE  i \in 1 .. n
            BY <1>1, <1>11
        <3>1. CASE i > n
            <4>1. i - n \in 1 .. Len(new) /\ n + (i - n) = i
                BY <1>1, <1>11, <3>1
            <4>2. alerts'[i] = new[i - n]
                BY <1>11, <4>1
            <4>3. i - n = k
                BY <1>11, <2>1, <4>1, <4>2
            <4> QED
                BY <4>1, <4>3
        <3> QED
            BY <1>1, <1>11, <3>1
    <2>4. DOMAIN alerts \subseteq DOMAIN alerts' /\ \A i \in DOMAIN alerts : alerts'[i] = kept[i]
        BY <1>1, <1>11
    <2> DEFINE old == {i \in DOMAIN alerts : alerts[i].rule = r}
    <2>5. {i \in DOMAIN alerts' : alerts'[i].rule = r} = old \cup {n + k} /\ n + k \notin old
        BY <1>10, <2>2, <2>3, <2>4
    <2>6. IsFiniteSet(old) /\ Cardinality(old) \in Nat
        BY InsertedIsCounted DEF Inserted
    <2> HIDE DEF old
    <2>7. Cardinality(old \cup {n + k}) = Cardinality(old) + 1
        BY <2>5, <2>6, FS_AddElement
    <2>8. Inserted(r)' = Inserted(r) + 1
        BY <2>5, <2>7 DEF Inserted, old
    <2>9. ASSUME ActiveOf(r) = {}, NEW i \in ActiveOf(r)'
          PROVE  i = n + k
        <3>1. i \in DOMAIN alerts' /\ alerts'[i].rule = r /\ alerts'[i].status \in ActiveStatus
            BY DEF ActiveOf
        <3>2. ~(i \in DOMAIN alerts /\ alerts'[i] = kept[i])
            BY <1>10, <2>9, <3>1 DEF ActiveOf
        <3> QED
            BY <2>3, <3>1, <3>2
    <2> QED
        BY <2>8, <2>9
<1>17. NoOverlap'
    <2> SUFFICES ASSUME NEW r \in Rules, r \notin overlapping
                 PROVE  /\ \A i, j \in ActiveOf(r)' : i = j
                        /\ \A d \in Engines : r \in engine'[d].inserts =>
                              ActiveOf(r)' = {} /\ \A f \in Engines : r \in engine'[f].inserts => f = d
        BY <1>3 DEF NoOverlap
    <2>1. CASE r \in ins
        <3>1. ActiveOf(r) = {} /\ \A f \in Engines : r \in engine[f].inserts => f = e
            BY <1>1, <2>1 DEF NoOverlap, ins
        <3>2. \A d \in Engines : r \notin engine'[d].inserts
            BY <1>12, <1>13, <3>1
        <3> QED
            BY <1>16, <2>1, <3>1, <3>2
    <2>2. CASE r \notin ins
        BY <1>1, <1>12, <1>13, <1>15, <2>2 DEF NoOverlap
    <2> QED
        BY <2>1, <2>2
<1>18. ASSUME NEW r \in Rules
       PROVE  paged'[r] = Inserted(r)' + Pending(r)' + aborted'[r]
    <2>1. Inserted(r) \in Nat /\ Pending(r) \in Nat /\ aborted[r] \in Nat
        BY <1>1, <1>3, <1>12, InsertedIsCounted, PendingMoves
    <2>2. paged[r] = Inserted(r) + Pending(r) + aborted[r] /\ paged'[r] = paged[r] /\ aborted'[r] = aborted[r]
        BY <1>1, <1>3 DEF PagesAddUp
    <2>3. CASE r \in ins
        <3>1. Inserted(r)' = Inserted(r) + 1 /\ Pending(r)' = Pending(r) - 1
            BY <1>3, <1>12, <1>16, <2>3, PendingMoves DEF ins
        <3> QED
            BY <2>1, <2>2, <3>1
    <2>4. CASE r \notin ins
        <3>1. Inserted(r)' = Inserted(r) /\ Pending(r)' = Pending(r)
            BY <1>3, <1>12, <1>15, <2>4, PendingMoves DEF ins
        <3> QED
            BY <2>1, <2>2, <3>1
    <2> QED
        BY <2>3, <2>4
<1> QED
    BY <1>14, <1>17, <1>18 DEF AlertsInv, PagesAddUp

LEMMA AlertsNextPreserves == AlertsInv /\ [AlertsNext]_alertVars => AlertsInv'
<1> SUFFICES ASSUME AlertsInv, [AlertsNext]_alertVars
             PROVE  AlertsInv'
    OBVIOUS
<1>1. /\ AlertsTypes /\ engine \in [Engines -> EngineRow] /\ alerts \in Seq(AlertRow) /\ enabled \subseteq Rules
      /\ acker \in [Ackers -> 0 .. Len(alerts)] /\ Len(alerts) \in Nat /\ DOMAIN alerts = 1 .. Len(alerts)
    BY DEF AlertsInv, AlertsTypes
<1>2. ASSUME NEW old \in EngineRow, NEW r
      PROVE  LET new == [old EXCEPT !.todo = old.todo \ {r}] IN
             new \in EngineRow /\ new.at = old.at /\ new.todo = old.todo \ {r} /\ new.inserts = old.inserts
    BY DEF EngineRow
<1>3. \A e \in Engines : /\ engine[e].at = "idle" => engine[e].inserts = {} /\ engine[e].todo = {}
                         /\ engine[e].todo \cap engine[e].inserts = {}
    BY <1>1 DEF AlertsTypes
<1>4. ASSUME NEW e \in Engines, NEW r
      PROVE  /\ Checked(e, r) \in EngineRow /\ Checked(e, r).at = engine[e].at
             /\ Checked(e, r).todo = engine[e].todo \ {r} /\ Checked(e, r).inserts = engine[e].inserts
    <2>1. engine[e] \in EngineRow
        BY <1>1
    <2> QED
        BY <1>2, <2>1, Zenon DEF Checked
<1>5. ASSUME NEW e \in Engines, StartEvaluation(e)
      PROVE  AlertsInv'
    <2> DEFINE row == [IdleEngine EXCEPT !.at = "rules", !.todo = enabled]
    <2>1. /\ engine[e].at = "idle" /\ engine' = [engine EXCEPT ![e] = row]
          /\ UNCHANGED <<enabled, alerts, acker, overlapping, paged, aborted>>
        BY <1>5 DEF StartEvaluation
    <2>2. row \in EngineRow /\ row.at = "rules" /\ row.inserts = {}
        BY <1>1 DEF IdleEngine, EngineRow
    <2> HIDE DEF row
    <2>3. row.at # "idle" /\ row.inserts = engine[e].inserts /\ row.todo \cap row.inserts = {}
        BY <1>3, <2>1, <2>2
    <2> QED
        BY <2>1, <2>2, <2>3, EngineMoves
<1>6. ASSUME NEW e \in Engines, NEW r \in Rules, NothingToDo(e, r)
      PROVE  AlertsInv'
    <2>1. /\ r \in engine[e].todo /\ engine' = [engine EXCEPT ![e] = Checked(e, r)]
          /\ UNCHANGED <<enabled, alerts, acker, overlapping, paged, aborted>>
        BY <1>6 DEF NothingToDo
    <2>2. Checked(e, r).at # "idle" /\ Checked(e, r).todo \cap Checked(e, r).inserts = {}
        BY <1>3, <1>4, <2>1
    <2> QED
        BY <1>4, <2>1, <2>2, EngineMoves
<1>7. ASSUME NEW e \in Engines, NEW r \in Rules, Recover(e, r)
      PROVE  AlertsInv'
    <2> DEFINE row == [Checked(e, r) EXCEPT !.resolves = Checked(e, r).resolves \cup ActiveOf(r)]
    <2>1. /\ r \in engine[e].todo /\ engine' = [engine EXCEPT ![e] = row]
          /\ UNCHANGED <<enabled, alerts, acker, overlapping, paged, aborted>>
        BY <1>7 DEF Recover
    <2>2. ActiveOf(r) \in SUBSET Nat
        BY <1>1 DEF ActiveOf
    <2>3. ASSUME NEW old \in EngineRow
          PROVE  LET new == [old EXCEPT !.resolves = old.resolves \cup ActiveOf(r)] IN
                 new \in EngineRow /\ new.at = old.at /\ new.todo = old.todo /\ new.inserts = old.inserts
        BY <2>2 DEF EngineRow
    <2>4. /\ row \in EngineRow /\ row.at = Checked(e, r).at /\ row.todo = Checked(e, r).todo
          /\ row.inserts = Checked(e, r).inserts
        BY <1>4, <2>3, Zenon
    <2> HIDE DEF row
    <2>5. row.at # "idle" /\ row.inserts = engine[e].inserts /\ row.todo \cap row.inserts = {}
        BY <1>3, <1>4, <2>1, <2>4
    <2> QED
        BY <2>1, <2>4, <2>5, EngineMoves
<1>8. ASSUME NEW a \in Ackers, NEW i \in DOMAIN alerts, ReadAlert(a, i)
      PROVE  AlertsInv'
    <2>1. acker' = [acker EXCEPT ![a] = i] /\ UNCHANGED <<enabled, alerts, engine, overlapping, paged, aborted>>
        BY <1>8 DEF ReadAlert
    <2>2. acker' \in [Ackers -> 0 .. Len(alerts)]
        BY <1>1, <2>1
    <2>3. \A r \in Rules : ActiveOf(r)' = ActiveOf(r)
        BY <2>1 DEF ActiveOf
    <2> QED
        BY <1>1, <2>1, <2>2, <2>3, AlertsMove
<1>9. ASSUME NEW row \in AlertRow, NEW s \in AlertStatus
      PROVE  LET new == [row EXCEPT !.status = s] IN new \in AlertRow /\ new.rule = row.rule /\ new.status = s
    BY DEF AlertRow
<1>10. ASSUME NEW a \in Ackers, Acknowledge(a)
       PROVE  AlertsInv'
    <2> DEFINE i == acker[a]
               row == [alerts[i] EXCEPT !.status = "ACKNOWLEDGED"]
               later == [alerts EXCEPT ![i] = row]
    <2>1. acker[a] # 0 /\ acker' = [acker EXCEPT ![a] = 0] /\ UNCHANGED <<enabled, engine, paged, aborted>>
        BY <1>10 DEF Acknowledge
    <2>2. acker' \in [Ackers -> 0 .. Len(alerts)] /\ i \in DOMAIN alerts
        BY <1>1, <2>1
    <2>3. CASE alerts[i].status = "DELETED"
        <3>1. UNCHANGED <<alerts, overlapping>>
            BY <1>10, <2>3 DEF Acknowledge
        <3>2. \A r \in Rules : ActiveOf(r)' = ActiveOf(r)
            BY <3>1 DEF ActiveOf
        <3> QED
            BY <1>1, <2>1, <2>2, <3>1, <3>2, AlertsMove
    <2>4. CASE alerts[i].status # "DELETED"
        <3>1. /\ alerts' = later
              /\ overlapping' = IF alerts[i].status = "RESOLVED" THEN overlapping \cup {alerts[i].rule} ELSE overlapping
            BY <1>10, <2>4 DEF Acknowledge
        <3>2. alerts[i] \in AlertRow /\ "ACKNOWLEDGED" \in AlertStatus
            BY <1>1, <2>2 DEF AlertStatus, ActiveStatus
        <3>3. row \in AlertRow /\ row.rule = alerts[i].rule
            BY <1>9, <3>2, Zenon
        <3> HIDE DEF row
        <3>4. later \in Seq(AlertRow) /\ Len(later) = Len(alerts)
              /\ \A j \in DOMAIN alerts : later[j] = IF j = i THEN row ELSE alerts[j]
            BY <1>1, <2>2, <3>3
        <3> HIDE DEF later
        <3>5. \A j \in DOMAIN alerts : later[j].rule = alerts[j].rule
            BY <3>3, <3>4
        <3>6. ASSUME NEW r \in Rules, r \notin overlapping', NEW j \in ActiveOf(r)'
              PROVE  j \in ActiveOf(r)
            <4>1. j \in DOMAIN alerts /\ alerts[j].rule = r
                BY <1>1, <3>1, <3>4, <3>5 DEF ActiveOf
            <4>2. CASE j # i
                BY <3>1, <3>4, <4>1, <4>2 DEF ActiveOf
            <4>3. CASE j = i
                <5>1. alerts[i].status # "RESOLVED" /\ alerts[i].status \in AlertStatus
                    BY <3>1, <3>2, <3>6, <4>1, <4>3 DEF AlertRow
                <5> QED
                    BY <2>4, <4>1, <4>3, <5>1 DEF ActiveOf, AlertStatus
            <4> QED
                BY <4>2, <4>3
        <3> QED
            BY <1>1, <2>1, <2>2, <3>1, <3>4, <3>5, <3>6, AlertsMove
    <2> QED
        BY <2>3, <2>4
<1>11. ASSUME NEW r \in Rules, DeleteRule(r)
       PROVE  AlertsInv'
    <2> DEFINE gone(i) == [alerts[i] EXCEPT !.status = "DELETED"]
               now(i) == IF alerts[i].rule = r THEN gone(i) ELSE alerts[i]
               later == [i \in DOMAIN alerts |-> now(i)]
    <2>1. enabled' = enabled \ {r} /\ alerts' = later /\ UNCHANGED <<engine, acker, overlapping, paged, aborted>>
        BY <1>11 DEF DeleteRule
    <2>2. \A i \in DOMAIN alerts : alerts[i] \in AlertRow
        BY <1>1
    <2>3. "DELETED" \in AlertStatus /\ "DELETED" \notin ActiveStatus
        BY DEF AlertStatus, ActiveStatus
    <2>4. \A i \in DOMAIN alerts : gone(i) \in AlertRow /\ gone(i).rule = alerts[i].rule /\ gone(i).status = "DELETED"
        BY <1>9, <2>2, <2>3, Zenon
    <2> HIDE DEF gone
    <2>5. \A i \in DOMAIN alerts : /\ now(i) \in AlertRow /\ now(i).rule = alerts[i].rule
                                   /\ now(i).status \in ActiveStatus => now(i) = alerts[i]
        BY <2>2, <2>3, <2>4
    <2> HIDE DEF now
    <2>6. DOMAIN later = 1 .. Len(alerts) /\ \A i \in 1 .. Len(alerts) : later[i] = now(i)
        BY <1>1
    <2>7. later = [i \in 1 .. Len(alerts) |-> later[i]]
        BY <1>1
    <2> HIDE DEF later
    <2>8. later \in Seq(AlertRow) /\ Len(later) = Len(alerts)
        BY <1>1, <2>5, <2>6, <2>7
    <2>9. \A x \in Rules : ActiveOf(x)' \subseteq ActiveOf(x)
        BY <1>1, <2>1, <2>5, <2>6 DEF ActiveOf
    <2>10. \A i \in DOMAIN alerts : later[i].rule = alerts[i].rule
        BY <1>1, <2>5, <2>6
    <2> QED
        BY <1>1, <2>1, <2>8, <2>9, <2>10, AlertsMove
<1>12. CASE UNCHANGED alertVars
    <2>1. UNCHANGED <<enabled, alerts, engine, acker, overlapping, paged, aborted>>
        BY <1>12 DEF alertVars
    <2>2. \A r \in Rules : ActiveOf(r)' = ActiveOf(r)
        BY <2>1 DEF ActiveOf
    <2> QED
        BY <1>1, <2>1, <2>2, AlertsMove
<1>13. ASSUME NEW e \in Engines, NEW r \in Rules, RuleRaises(e, r)
       PROVE  AlertsInv'
    BY <1>13, RollbackPreserves DEF RuleRaises
<1>14. ASSUME NEW e \in Engines, FailEvaluation(e)
       PROVE  AlertsInv'
    BY <1>14, RollbackPreserves DEF FailEvaluation
<1> QED
    BY <1>5, <1>6, <1>7, <1>8, <1>10, <1>11, <1>12, <1>13, <1>14, TriggerPreserves, CommitPreserves DEF AlertsNext

(* A rule has one active alert unless evaluations overlapped on it, and every page
   is accounted for: evaluate_alert_rules and acknowledge_alert, with any number of
   rules, evaluations at once and alerts. *)
THEOREM IncidentsAlertOnce == AlertsSpec => []OneAlertPerIncident
<1>1. AlertsInit => AlertsInv
    <2> SUFFICES ASSUME AlertsInit
                 PROVE  AlertsInv
        OBVIOUS
    <2>1. IdleEngine \in EngineRow /\ IdleEngine.inserts = {} /\ IdleEngine.todo = {}
        BY DEF IdleEngine, EngineRow
    <2>2. alerts = <<>> /\ DOMAIN alerts = {} /\ Len(alerts) = 0
        BY DEF AlertsInit
    <2>3. AlertsTypes
        BY <2>1, <2>2 DEF AlertsInit, AlertsTypes
    <2>4. \A r \in Rules : ActiveOf(r) = {} /\ Inserted(r) = 0 /\ Pending(r) = 0
        <3> SUFFICES ASSUME NEW r \in Rules
                     PROVE  ActiveOf(r) = {} /\ Inserted(r) = 0 /\ Pending(r) = 0
            OBVIOUS
        <3>1. {i \in DOMAIN alerts : alerts[i].rule = r} = {} /\ {e \in Engines : r \in engine[e].inserts} = {}
            BY <2>1, <2>2 DEF AlertsInit
        <3> QED
            BY <2>2, <3>1, FS_EmptySet DEF ActiveOf, Inserted, Pending
    <2>5. NoOverlap /\ PagesAddUp
        BY <2>1, <2>4 DEF NoOverlap, PagesAddUp, AlertsInit
    <2> QED
        BY <2>3, <2>5 DEF AlertsInv
<1> QED
    BY <1>1, InvIsOneAlert, AlertsNextPreserves, PTL DEF AlertsSpec
-----------------------------------------------------------------------------
(* Compliance: the versions of a framework.  A control is created by a call that
   found a draft, and versions stay active. *)
FrameworkRow == [version : Nat, active : BOOLEAN, controls : SUBSET Controls]
AuthoringRow == [call : {"idle", "framework", "control"}, version : Nat, draft : BOOLEAN]

FrameworksInv ==
    /\ framework \in Seq(FrameworkRow) /\ crept \in Seq(SUBSET Controls) /\ Len(crept) = Len(framework)
    /\ authoring \in [Authors -> AuthoringRow]
    /\ \A q \in Authors : authoring[q].call = "control" => authoring[q].version \in DOMAIN framework /\ authoring[q].draft

(* A version keeps what it had, and gets controls that crept in. *)
Grows ==
    /\ DOMAIN framework \subseteq DOMAIN framework'
    /\ \A f \in DOMAIN framework : /\ framework[f].active => framework'[f].active
                                   /\ framework[f].active =>
                                         framework'[f].controls \ framework[f].controls \subseteq crept'[f]
                                   /\ crept[f] \subseteq crept'[f]

LEMMA FrameworksNextPreserves ==
    ASSUME FrameworksInv, [ComplianceNext]_complianceVars
    PROVE  FrameworksInv' /\ Grows
<1>1. /\ framework \in Seq(FrameworkRow) /\ crept \in Seq(SUBSET Controls) /\ Len(crept) = Len(framework)
      /\ authoring \in [Authors -> AuthoringRow] /\ Len(framework) \in Nat
      /\ DOMAIN framework = 1 .. Len(framework) /\ DOMAIN crept = 1 .. Len(framework)
      /\ \A q \in Authors : authoring[q].call = "control" => authoring[q].version \in DOMAIN framework /\ authoring[q].draft
    BY DEF FrameworksInv
<1>2. NotAuthoring \in AuthoringRow /\ NotAuthoring.call = "idle"
    BY DEF NotAuthoring, AuthoringRow
<1>3. ASSUME NEW q \in Authors, NEW row \in AuthoringRow, authoring' = [authoring EXCEPT ![q] = row]
      PROVE  /\ authoring' \in [Authors -> AuthoringRow] /\ authoring'[q] = row
             /\ \A o \in Authors \ {q} : authoring'[o] = authoring[o]
    BY <1>1, <1>3
<1>4. ASSUME UNCHANGED <<framework, authoring, crept>>
      PROVE  FrameworksInv' /\ Grows
    BY <1>1, <1>4 DEF FrameworksInv, Grows
<1>5. ASSUME NEW q \in Authors, NEW row \in AuthoringRow, authoring' = [authoring EXCEPT ![q] = row],
             row.call = "control" => row.version \in DOMAIN framework /\ row.draft, UNCHANGED <<framework, crept>>
      PROVE  FrameworksInv' /\ Grows
    BY <1>1, <1>3, <1>5 DEF FrameworksInv, Grows
<1>6. ASSUME NEW q \in Authors, ReadFrameworks(q)
      PROVE  FrameworksInv' /\ Grows
    <2> DEFINE row == [call |-> "framework", version |-> Len(framework) + 1, draft |-> TRUE]
    <2>1. authoring' = [authoring EXCEPT ![q] = row] /\ UNCHANGED <<framework, crept>>
        BY <1>6 DEF ReadFrameworks
    <2>2. row \in AuthoringRow /\ row.call # "control"
        BY <1>1 DEF AuthoringRow
    <2> HIDE DEF row
    <2> QED
        BY <1>5, <2>1, <2>2
<1>7. ASSUME NEW q \in Authors, NEW f \in DOMAIN framework, ReadFramework(q, f)
      PROVE  FrameworksInv' /\ Grows
    <2> DEFINE row == [call |-> "control", version |-> f, draft |-> ~framework[f].active]
    <2>1. ~framework[f].active /\ authoring' = [authoring EXCEPT ![q] = row] /\ UNCHANGED <<framework, crept>>
        BY <1>7 DEF ReadFramework
    <2>2. row \in AuthoringRow /\ row.version = f /\ row.draft
        <3>1. f \in Nat
            BY <1>1
        <3>2. (~framework[f].active) = TRUE
            BY <2>1, Zenon
        <3>3. row = [call |-> "control", version |-> f, draft |-> TRUE]
            BY <3>2, Zenon
        <3> HIDE DEF row
        <3> QED
            BY <3>1, <3>3 DEF AuthoringRow
    <2> HIDE DEF row
    <2> QED
        BY <1>5, <2>1, <2>2
<1>8. ASSUME NEW q \in Authors, CreateFramework(q)
      PROVE  FrameworksInv' /\ Grows
    <2> DEFINE row == [version |-> authoring[q].version, active |-> FALSE, controls |-> {}]
    <2>1. /\ framework' = Append(framework, row) /\ crept' = Append(crept, {})
          /\ authoring' = [authoring EXCEPT ![q] = NotAuthoring]
        BY <1>8 DEF CreateFramework
    <2>2. row \in FrameworkRow
        BY <1>1 DEF FrameworkRow, AuthoringRow
    <2> HIDE DEF row
    <2>3. /\ framework' \in Seq(FrameworkRow) /\ Len(framework') = Len(framework) + 1
          /\ DOMAIN framework \subseteq DOMAIN framework' /\ \A f \in DOMAIN framework : framework'[f] = framework[f]
        BY <1>1, <2>1, <2>2
    <2>4. /\ crept' \in Seq(SUBSET Controls) /\ Len(crept') = Len(framework) + 1
          /\ \A f \in DOMAIN framework : crept'[f] = crept[f]
        BY <1>1, <2>1
    <2> QED
        BY <1>1, <1>2, <1>3, <2>1, <2>3, <2>4 DEF FrameworksInv, Grows
(* One version is written. *)
<1>9. ASSUME NEW f \in DOMAIN framework, NEW row \in FrameworkRow, NEW add \in SUBSET Controls,
             framework' = [framework EXCEPT ![f] = row], crept' = [crept EXCEPT ![f] = crept[f] \cup add],
             framework[f].active => row.active /\ row.controls \ framework[f].controls \subseteq add,
             authoring' = authoring \/ \E q \in Authors : authoring' = [authoring EXCEPT ![q] = NotAuthoring]
      PROVE  FrameworksInv' /\ Grows
    <2>1. /\ framework' \in Seq(FrameworkRow) /\ Len(framework') = Len(framework) /\ DOMAIN framework' = DOMAIN framework
          /\ framework'[f] = row /\ \A g \in DOMAIN framework \ {f} : framework'[g] = framework[g]
        BY <1>1, <1>9
    <2>2. /\ crept' \in Seq(SUBSET Controls) /\ Len(crept') = Len(crept)
          /\ crept'[f] = crept[f] \cup add /\ \A g \in DOMAIN framework \ {f} : crept'[g] = crept[g]
        <3>1. crept[f] \cup add \in SUBSET Controls
            BY <1>1
        <3> QED
            BY <1>1, <1>9, <3>1
    <2>3. /\ authoring' \in [Authors -> AuthoringRow]
          /\ \A q \in Authors : authoring'[q] = authoring[q] \/ authoring'[q].call = "idle"
        <3>1. CASE authoring' = authoring
            BY <1>1, <3>1
        <3>2. ASSUME NEW q \in Authors, authoring' = [authoring EXCEPT ![q] = NotAuthoring]
              PROVE  /\ authoring' \in [Authors -> AuthoringRow]
                     /\ \A o \in Authors : authoring'[o] = authoring[o] \/ authoring'[o].call = "idle"
            BY <1>2, <1>3, <3>2
        <3> QED
            BY <1>9, <3>1, <3>2
    <2>4. FrameworksInv'
        BY <1>1, <2>1, <2>2, <2>3 DEF FrameworksInv
    <2>5. Grows
        BY <1>9, <2>1, <2>2 DEF Grows
    <2> QED
        BY <2>4, <2>5
<1>10. ASSUME NEW f \in DOMAIN framework
       PROVE  /\ framework[f] \in FrameworkRow /\ crept = [crept EXCEPT ![f] = crept[f] \cup {}]
    BY <1>1
<1>11. ASSUME NEW f \in DOMAIN framework, ActivateFramework(f)
       PROVE  FrameworksInv' /\ Grows
    <2> DEFINE row == [framework[f] EXCEPT !.active = TRUE]
    <2>1. /\ framework' = [framework EXCEPT ![f] = row] /\ crept' = [crept EXCEPT ![f] = crept[f] \cup {}]
          /\ authoring' = authoring
        BY <1>10, <1>11 DEF ActivateFramework
    <2>2. ASSUME NEW old \in FrameworkRow
          PROVE  LET new == [old EXCEPT !.active = TRUE] IN new \in FrameworkRow /\ new.active /\ new.controls = old.controls
        BY DEF FrameworkRow
    <2>3. row \in FrameworkRow /\ row.active /\ row.controls = framework[f].controls
        BY <1>10, <2>2, Zenon
    <2> HIDE DEF row
    <2>4. {} \in SUBSET Controls /\ row.controls \ framework[f].controls \subseteq {}
        BY <2>3
    <2> QED
        BY <1>9, <2>1, <2>3, <2>4
<1>12. ASSUME NEW q \in Authors, NEW k \in Controls, CreateControl(q, k)
       PROVE  FrameworksInv' /\ Grows
    <2> DEFINE f == authoring[q].version
               row == [framework[f] EXCEPT !.controls = framework[f].controls \cup {k}]
               add == IF framework[f].active THEN {k} ELSE {}
    <2>1. /\ authoring[q].call = "control" /\ framework' = [framework EXCEPT ![f] = row]
          /\ crept' = IF framework[f].active /\ authoring[q].draft THEN [crept EXCEPT ![f] = crept[f] \cup {k}] ELSE crept
          /\ authoring' = [authoring EXCEPT ![q] = NotAuthoring]
        BY <1>12 DEF CreateControl
    <2>2. f \in DOMAIN framework /\ authoring[q].draft
        BY <1>1, <2>1
    <2>3. ASSUME NEW old \in FrameworkRow
          PROVE  LET new == [old EXCEPT !.controls = old.controls \cup {k}] IN
                 new \in FrameworkRow /\ new.active = old.active /\ new.controls = old.controls \cup {k}
        BY DEF FrameworkRow
    <2>4. row \in FrameworkRow /\ row.active = framework[f].active /\ row.controls = framework[f].controls \cup {k}
        BY <1>10, <2>2, <2>3, Zenon
    <2>5. crept' = [crept EXCEPT ![f] = crept[f] \cup add]
        BY <1>10, <2>1, <2>2
    <2>6. add \in SUBSET Controls /\ (framework[f].active => k \in add)
        OBVIOUS
    <2> HIDE DEF row, add, f
    <2>7. framework[f].active => row.active /\ row.controls \ framework[f].controls \subseteq add
        BY <2>4, <2>6
    <2> QED
        BY <1>9, <2>1, <2>2, <2>4, <2>5, <2>6, <2>7
<1>13. CASE UNCHANGED complianceVars
    BY <1>4, <1>13 DEF complianceVars
<1>14. CASE UNCHANGED <<framework, authoring, crept>>
    BY <1>4, <1>14
<1> QED
    BY <1>6, <1>7, <1>8, <1>11, <1>12, <1>13, <1>14
    DEF ComplianceNext, EvidenceChanges, CreateAssessment, LoadAssessment, AssessControls, ExecuteAssessment, Commits,
        LoadVerdict, ActOnAssessment, SettleRemediation

(* The assessment: the items of an execution are one for each control it found, and
   without an overlap a commit replaces the items and the score it loaded. *)
AssessmentStatus == {"absent", "DRAFT", "READY_FOR_REVIEW", "APPROVED", "REJECTED"}
VerdictRow == [at : {"idle", "loaded", "done"}, loaded : AssessmentStatus \cup {""}]

AssessmentShape(a) == a = [status |-> a.status, version |-> a.version, score |-> a.score]
ExecutionShape(x) == x = [at |-> x.at, loaded |-> x.loaded, score |-> x.score, gone |-> x.gone,
                          after |-> x.after, found |-> x.found, firm |-> x.firm]
FoundOnce(found) ==
    /\ \A i \in found : i = [control |-> i.control, status |-> i.status]
    /\ \A i, j \in found : i.control = j.control => i = j

AssessmentShapes ==
    /\ AssessmentShape(assessment) /\ assessment.status \in AssessmentStatus
    /\ execution = [e \in Executions |-> execution[e]] /\ \A e \in Executions : ExecutionShape(execution[e])
    /\ verdict \in [Reviewers -> VerdictRow]
    /\ assessment.status # "absent" => assessment.version \in DOMAIN framework
    /\ \A e \in Executions : execution[e].at # "idle" => assessment.status # "absent"
    /\ \A u \in Reviewers : verdict[u].at # "idle" => assessment.status # "absent"
    /\ \A e \in Executions : FoundOnce(execution[e].found)

ApprovalAgrees ==
    /\ assessment.status = "APPROVED" => items = approved
    /\ assessment.status = "READY_FOR_REVIEW" =>
          /\ assessment.score = Score({[control |-> i.control, status |-> i.status] : i \in items})
          /\ \A i, j \in items : i.control = j.control => i = j

CoveredBy(found) ==
    LET v == assessment.version
    IN framework[v].active /\ framework[v].controls \ {i.control : i \in found} \subseteq crept[v]

FirmExecutionsCover ==
    \A e \in Executions : execution[e].at \in {"assessed", "done"} /\ execution[e].firm => CoveredBy(execution[e].found)

AssessmentInv == AssessmentShapes /\ (overlapped \/ ApprovalAgrees) /\ FirmExecutionsCover

(* What a call writes of a row, a column at a time, keeps its shape. *)
Holds(x, at, found, firm) == ExecutionShape(x) /\ x.at = at /\ x.found = found /\ x.firm = firm

LEMMA ColumnWritten ==
    ASSUME NEW old, ExecutionShape(old), NEW p
    PROVE  /\ Holds([old EXCEPT !.at = p], p, old.found, old.firm)
           /\ Holds([old EXCEPT !.loaded = p], old.at, old.found, old.firm)
           /\ Holds([old EXCEPT !.score = p], old.at, old.found, old.firm)
           /\ Holds([old EXCEPT !.gone = p], old.at, old.found, old.firm)
           /\ Holds([old EXCEPT !.after = p], old.at, old.found, old.firm)
           /\ Holds([old EXCEPT !.found = p], old.at, p, old.firm)
           /\ Holds([old EXCEPT !.firm = p], old.at, old.found, p)
<1> SUFFICES ASSUME NEW a, NEW l, NEW s, NEW g, NEW t, NEW x, NEW w, old = [at |-> a, loaded |-> l, score |-> s, gone |-> g, after |-> t, found |-> x, firm |-> w]
             PROVE  /\ Holds([old EXCEPT !.at = p], p, old.found, old.firm)
                    /\ Holds([old EXCEPT !.loaded = p], old.at, old.found, old.firm)
                    /\ Holds([old EXCEPT !.score = p], old.at, old.found, old.firm)
                    /\ Holds([old EXCEPT !.gone = p], old.at, old.found, old.firm)
                    /\ Holds([old EXCEPT !.after = p], old.at, old.found, old.firm)
                    /\ Holds([old EXCEPT !.found = p], old.at, p, old.firm)
                    /\ Holds([old EXCEPT !.firm = p], old.at, old.found, p)
    BY Zenon DEF ExecutionShape
<1>1. Holds([old EXCEPT !.at = p], p, old.found, old.firm)
    BY DEF Holds, ExecutionShape
<1>2. Holds([old EXCEPT !.loaded = p], old.at, old.found, old.firm)
    BY DEF Holds, ExecutionShape
<1>3. Holds([old EXCEPT !.score = p], old.at, old.found, old.firm)
    BY DEF Holds, ExecutionShape
<1>4. Holds([old EXCEPT !.gone = p], old.at, old.found, old.firm)
    BY DEF Holds, ExecutionShape
<1>5. Holds([old EXCEPT !.after = p], old.at, old.found, old.firm)
    BY DEF Holds, ExecutionShape
<1>6. Holds([old EXCEPT !.found = p], old.at, p, old.firm)
    BY DEF Holds, ExecutionShape
<1>7. Holds([old EXCEPT !.firm = p], old.at, old.found, p)
    BY DEF Holds, ExecutionShape
<1> QED
    BY <1>1, <1>2, <1>3, <1>4, <1>5, <1>6, <1>7

LEMMA AtWritten ==
    ASSUME NEW old, ExecutionShape(old), NEW p
    PROVE  Holds([old EXCEPT !.at = p], p, old.found, old.firm)
BY ColumnWritten

LEMMA FirmWritten ==
    ASSUME NEW old, ExecutionShape(old), NEW p
    PROVE  Holds([old EXCEPT !.firm = p], old.at, old.found, p)
BY ColumnWritten

LEMMA FoundWritten ==
    ASSUME NEW old, ExecutionShape(old), NEW p
    PROVE  Holds([old EXCEPT !.found = p], old.at, p, old.firm)
BY ColumnWritten

LEMMA ExecutionLoaded ==
    ASSUME NEW old, ExecutionShape(old), NEW n, NEW q
    PROVE  Holds([old EXCEPT !.at = "loaded", !.loaded = n, !.score = q], "loaded", old.found, old.firm)
<1> DEFINE x1 == [old EXCEPT !.at = "loaded"]
           x2 == [x1 EXCEPT !.loaded = n]
           x3 == [x2 EXCEPT !.score = q]
<1>1. Holds(x1, "loaded", old.found, old.firm)
    BY ColumnWritten, Zenon
<1>2. [old EXCEPT !.at = "loaded", !.loaded = n, !.score = q] = x3
    BY Zenon
<1> HIDE DEF x1
<1>3. Holds(x2, x1.at, x1.found, x1.firm)
    BY <1>1, ColumnWritten, Zenon DEF Holds
<1> HIDE DEF x2
<1>4. Holds(x3, x2.at, x2.found, x2.firm)
    BY <1>3, ColumnWritten, Zenon DEF Holds
<1> HIDE DEF x3
<1>5. Holds(x3, "loaded", old.found, old.firm)
    BY <1>1, <1>3, <1>4, Zenon DEF Holds
<1> QED
    BY <1>2, <1>5, Zenon

LEMMA ExecutionAssessed ==
    ASSUME NEW old, ExecutionShape(old), NEW d, NEW b, NEW f, NEW h
    PROVE  Holds([old EXCEPT !.at = "assessed", !.gone = d, !.after = b, !.firm = f, !.found = h], "assessed", h, f)
<1> DEFINE x1 == [old EXCEPT !.at = "assessed"]
           x2 == [x1 EXCEPT !.gone = d]
           x3 == [x2 EXCEPT !.after = b]
           x4 == [x3 EXCEPT !.firm = f]
           x5 == [x4 EXCEPT !.found = h]
<1>1. Holds(x1, "assessed", old.found, old.firm)
    BY ColumnWritten, Zenon
<1>2. [old EXCEPT !.at = "assessed", !.gone = d, !.after = b, !.firm = f, !.found = h] = x5
    BY Zenon
<1> HIDE DEF x1
<1>3. Holds(x2, x1.at, x1.found, x1.firm)
    BY <1>1, ColumnWritten, ZenonT(30) DEF Holds
<1> HIDE DEF x2
<1>4. Holds(x3, x2.at, x2.found, x2.firm)
    BY <1>3, ColumnWritten, Zenon DEF Holds
<1> HIDE DEF x3
<1>5. Holds(x4, x3.at, x3.found, f)
    BY <1>4, FirmWritten, Zenon DEF Holds
<1> HIDE DEF x4
<1>6. Holds(x5, x4.at, h, x4.firm)
    BY <1>5, FoundWritten, Zenon DEF Holds
<1> HIDE DEF x5
<1>7. Holds(x5, "assessed", h, f)
    BY <1>1, <1>3, <1>4, <1>5, <1>6, Zenon DEF Holds
<1> QED
    BY <1>2, <1>7, Zenon

Tells(a, status, score, version) ==
    AssessmentShape(a) /\ a.status = status /\ a.score = score /\ a.version = version

LEMMA AssessmentWritten ==
    ASSUME NEW old, AssessmentShape(old), NEW p, NEW q
    PROVE  Tells([old EXCEPT !.status = p, !.score = q], p, q, old.version)
<1>1. ASSUME NEW x, AssessmentShape(x)
      PROVE  /\ LET new == [x EXCEPT !.status = p]
                IN AssessmentShape(new) /\ new.status = p /\ new.version = x.version
             /\ LET new == [x EXCEPT !.score = q]
                IN AssessmentShape(new) /\ new.status = x.status /\ new.score = q /\ new.version = x.version
    <2>1. ASSUME NEW a, NEW v, NEW b, x = [status |-> a, version |-> v, score |-> b]
          PROVE  LET new == [x EXCEPT !.status = p]
                 IN AssessmentShape(new) /\ new.status = p /\ new.version = x.version
        BY <2>1 DEF AssessmentShape
    <2>2. ASSUME NEW a, NEW v, NEW b, x = [status |-> a, version |-> v, score |-> b]
          PROVE  LET new == [x EXCEPT !.score = q]
                 IN AssessmentShape(new) /\ new.status = x.status /\ new.score = q /\ new.version = x.version
        BY <2>2 DEF AssessmentShape
    <2> QED
        BY <1>1, <2>1, <2>2, Zenon DEF AssessmentShape
<1> DEFINE x1 == [old EXCEPT !.status = p]
           x2 == [x1 EXCEPT !.score = q]
<1>2. AssessmentShape(x1) /\ x1.status = p /\ x1.version = old.version
    BY <1>1, Zenon
<1>3. [old EXCEPT !.status = p, !.score = q] = x2
    BY Zenon
<1> HIDE DEF x1
<1>4. AssessmentShape(x2) /\ x2.status = x1.status /\ x2.score = q /\ x2.version = x1.version
    BY <1>1, <1>2, Zenon
<1> HIDE DEF x2
<1>5. Tells(x2, p, q, old.version)
    BY <1>2, <1>4, Zenon DEF Tells
<1> QED
    BY <1>3, <1>5, Zenon

LEMMA InvCoversItems == AssessmentInv => ApprovalCoversItems
BY DEF AssessmentInv, ApprovalAgrees, FirmExecutionsCover, CoveredBy, ApprovalCoversItems

(* Neither the assessment nor what is about it moves. *)
LEMMA AssessmentStays ==
    ASSUME FrameworksInv, Grows, AssessmentInv, UNCHANGED <<assessment, items, execution, verdict, approved, overlapped>>
    PROVE  AssessmentInv'
<1>1. AssessmentShapes /\ (overlapped \/ ApprovalAgrees) /\ FirmExecutionsCover
    BY DEF AssessmentInv
<1>2. AssessmentShapes' /\ (overlapped \/ ApprovalAgrees)'
    BY <1>1 DEF AssessmentShapes, ApprovalAgrees, AssessmentShape, ExecutionShape, FoundOnce, Grows
<1>3. ASSUME NEW e \in Executions, execution[e].at \in {"assessed", "done"}, execution[e].firm
      PROVE  CoveredBy(execution[e].found)'
    <2>1. assessment.version \in DOMAIN framework
        BY <1>1, <1>3 DEF AssessmentShapes
    <2>2. CoveredBy(execution[e].found)
        BY <1>1, <1>3 DEF FirmExecutionsCover
    <2> QED
        BY <2>1, <2>2 DEF CoveredBy, Grows
<1> QED
    BY <1>2, <1>3 DEF AssessmentInv, FirmExecutionsCover

(* One execution reads on. *)
LEMMA ExecutionMoves ==
    ASSUME AssessmentInv, NEW e \in Executions, NEW row, execution' = [execution EXCEPT ![e] = row],
           ExecutionShape(row), FoundOnce(row.found), assessment.status # "absent",
           row.at \in {"assessed", "done"} /\ row.firm => CoveredBy(row.found),
           UNCHANGED <<framework, crept, assessment, items, verdict, approved, overlapped>>
    PROVE  AssessmentInv'
<1>1. AssessmentShapes /\ (overlapped \/ ApprovalAgrees) /\ FirmExecutionsCover
    BY DEF AssessmentInv
<1>2. /\ execution' = [x \in Executions |-> execution'[x]] /\ execution'[e] = row
      /\ \A x \in Executions \ {e} : execution'[x] = execution[x]
    <2>1. execution = [x \in Executions |-> execution[x]]
        BY <1>1 DEF AssessmentShapes
    <2> QED
        BY <2>1
<1>3. \A x \in Executions : ExecutionShape(execution'[x]) /\ FoundOnce(execution'[x].found)
    BY <1>1, <1>2, Zenon DEF AssessmentShapes
<1>4. AssessmentShapes'
    BY <1>1, <1>2, <1>3 DEF AssessmentShapes, AssessmentShape
<1>5. \A found : CoveredBy(found)' <=> CoveredBy(found)
    BY DEF CoveredBy
<1>6. FirmExecutionsCover'
    <2> SUFFICES ASSUME NEW x \in Executions, execution'[x].at \in {"assessed", "done"}, execution'[x].firm
                 PROVE  CoveredBy(execution'[x].found)
        BY <1>5 DEF FirmExecutionsCover
    <2>1. CASE x = e
        BY <1>2, <2>1
    <2>2. CASE x # e
        BY <1>1, <1>2, <2>2 DEF FirmExecutionsCover
    <2> QED
        BY <2>1, <2>2
<1>7. (overlapped \/ ApprovalAgrees)'
    BY <1>1 DEF ApprovalAgrees
<1> QED
    BY <1>4, <1>6, <1>7 DEF AssessmentInv


(* An execution commits. *)
LEMMA ExecutePreserves ==
    ASSUME AssessmentInv, NEW e \in Executions, ExecuteAssessment(e)
    PROVE  AssessmentInv'
<1> DEFINE x == execution[e]
           rows == {[run |-> e, control |-> i.control, status |-> i.status] : i \in x.found}
<1>1. AssessmentShapes /\ (overlapped \/ ApprovalAgrees) /\ FirmExecutionsCover
    BY DEF AssessmentInv
<1>2. /\ x.at = "assessed" /\ items' = (items \ x.gone) \cup rows
      /\ execution' = [execution EXCEPT ![e].at = "done"]
      /\ overlapped' = (overlapped \/ Interferes(x.loaded, x.score) \/ items # x.gone)
      /\ UNCHANGED <<framework, crept, verdict, approved>>
      /\ assessment' = [assessment EXCEPT
           !.status = IF x.loaded # "READY_FOR_REVIEW" THEN "READY_FOR_REVIEW" ELSE assessment.status,
           !.score = IF Score(x.found) # x.score THEN Score(x.found) ELSE assessment.score]
    BY DEF ExecuteAssessment, Commits
<1>5. execution = [o \in Executions |-> execution[o]] /\ ExecutionShape(x) /\ FoundOnce(x.found)
    BY <1>1 DEF AssessmentShapes
<1> DEFINE row == [x EXCEPT !.at = "done"]
<1>6. ExecutionShape(row) /\ row.at = "done" /\ row.found = x.found /\ row.firm = x.firm
    <2>1. Holds(row, "done", x.found, x.firm)
        BY <1>5, AtWritten, Zenon
    <2> QED
        BY <2>1 DEF Holds
<1>7. execution' = [execution EXCEPT ![e] = row]
    BY <1>2
<1> DEFINE status == IF x.loaded # "READY_FOR_REVIEW" THEN "READY_FOR_REVIEW" ELSE assessment.status
           score == IF Score(x.found) # x.score THEN Score(x.found) ELSE assessment.score
<1>8. AssessmentShape(assessment)' /\ assessment'.status = status /\ assessment'.score = score
      /\ assessment'.version = assessment.version
    <2>1. AssessmentShape(assessment)
        BY <1>1 DEF AssessmentShapes
    <2>2. assessment' = [assessment EXCEPT !.status = status, !.score = score]
        BY <1>2
    <2> HIDE DEF status, score
    <2>3. Tells([assessment EXCEPT !.status = status, !.score = score], status, score, assessment.version)
        BY <2>1, AssessmentWritten, Zenon
    <2> QED
        BY <2>2, <2>3, Zenon DEF Tells, AssessmentShape
<1>9. status \in AssessmentStatus /\ status # "absent" /\ assessment.status # "absent"
    BY <1>1, <1>2 DEF AssessmentShapes, AssessmentStatus
<1> HIDE DEF row
<1>10. /\ execution' = [o \in Executions |-> execution'[o]] /\ execution'[e] = row
       /\ \A o \in Executions \ {e} : execution'[o] = execution[o]
    BY <1>5, <1>7
<1>11. \A o \in Executions : ExecutionShape(execution'[o]) /\ FoundOnce(execution'[o].found)
    <2>1. \A o \in Executions : ExecutionShape(execution[o]) /\ FoundOnce(execution[o].found)
        BY <1>1 DEF AssessmentShapes
    <2> HIDE DEF x
    <2> QED
        BY <1>5, <1>6, <1>10, <2>1, Zenon
<1>12. AssessmentShapes'
    <2> HIDE DEF x, status, score
    <2> QED
        BY <1>1, <1>2, <1>8, <1>9, <1>10, <1>11 DEF AssessmentShapes
<1>13. FirmExecutionsCover'
    <2>1. \A found : CoveredBy(found)' <=> CoveredBy(found)
        BY <1>2, <1>8 DEF CoveredBy
    <2> SUFFICES ASSUME NEW o \in Executions, execution'[o].at \in {"assessed", "done"}, execution'[o].firm
                 PROVE  CoveredBy(execution'[o].found)
        BY <2>1 DEF FirmExecutionsCover
    <2>2. CASE o = e
        <3>1. x.at = "assessed" /\ x.firm
            BY <1>2, <1>6, <1>10, <2>2
        <3>2. CoveredBy(x.found)
            BY <1>1, <3>1 DEF FirmExecutionsCover
        <3> QED
            BY <1>6, <1>10, <2>2, <3>2
    <2>3. CASE o # e
        BY <1>1, <1>10, <2>3 DEF FirmExecutionsCover
    <2> QED
        BY <2>2, <2>3
<1>14. ASSUME ~overlapped'
       PROVE  ApprovalAgrees'
    <2>1. assessment.status = x.loaded /\ assessment.score = x.score /\ items = x.gone
        BY <1>2, <1>14 DEF Interferes
    <2>2. status = "READY_FOR_REVIEW" /\ score = Score(x.found) /\ items' = rows
        BY <1>2, <2>1
    <2>3. /\ \A i \in x.found : i = [control |-> i.control, status |-> i.status]
          /\ \A i, j \in x.found : i.control = j.control => i = j
        BY <1>5 DEF FoundOnce
    <2> HIDE DEF x
    <2>4. {[control |-> i.control, status |-> i.status] : i \in rows} = x.found
        <3>1. \A i \in rows : /\ [control |-> i.control, status |-> i.status] \in x.found
            BY <2>3
        <3>2. \A i \in x.found : \E j \in rows : i = [control |-> j.control, status |-> j.status]
            <4> TAKE i \in x.found
            <4>1. [run |-> e, control |-> i.control, status |-> i.status] \in rows
                OBVIOUS
            <4> WITNESS [run |-> e, control |-> i.control, status |-> i.status] \in rows
            <4> QED
                BY <2>3
        <3> HIDE DEF rows
        <3> QED
            BY <3>1, <3>2
    <2>5. \A i, j \in rows : i.control = j.control => i = j
        BY <2>3
    <2>6. Score({[control |-> i.control, status |-> i.status] : i \in items'}) = Score(x.found)
        BY <2>2, <2>4, Zenon
    <2> HIDE DEF rows, status, score
    <2>7. assessment'.status = "READY_FOR_REVIEW" /\ \A i, j \in items' : i.control = j.control => i = j
        BY <1>8, <2>2, <2>5
    <2>8. assessment'.score = Score({[control |-> i.control, status |-> i.status] : i \in items'})
        BY <1>8, <2>2, <2>6, Zenon
    <2>9. "READY_FOR_REVIEW" # "APPROVED"
        OBVIOUS
    <2>10. Score({[control |-> i.control, status |-> i.status] : i \in items})'
             = Score({[control |-> i.control, status |-> i.status] : i \in items'})
        BY DEF Score, Gaps
    <2> QED
        BY <2>7, <2>8, <2>9, <2>10 DEF ApprovalAgrees
<1> QED
    BY <1>12, <1>13, <1>14 DEF AssessmentInv

(* A verdict is given, or loaded. *)
LEMMA VerdictMoves ==
    ASSUME AssessmentInv, NEW u \in Reviewers, NEW row \in VerdictRow, verdict' = [verdict EXCEPT ![u] = row],
           assessment.status # "absent", NEW status \in AssessmentStatus \ {"absent"},
           assessment' = [assessment EXCEPT !.status = status],
           (overlapped \/ ApprovalAgrees)', UNCHANGED <<framework, crept, execution>>
    PROVE  AssessmentInv'
<1>1. AssessmentShapes /\ FirmExecutionsCover
    BY DEF AssessmentInv
<1>2. AssessmentShape(assessment)' /\ assessment'.status = status /\ assessment'.version = assessment.version
    BY <1>1 DEF AssessmentShapes, AssessmentShape
<1>3. verdict' \in [Reviewers -> VerdictRow]
    BY <1>1 DEF AssessmentShapes
<1>4. AssessmentShapes'
    BY <1>1, <1>2, <1>3 DEF AssessmentShapes, ExecutionShape, FoundOnce
<1>5. FirmExecutionsCover'
    BY <1>1, <1>2 DEF FirmExecutionsCover, CoveredBy
<1> QED
    BY <1>4, <1>5 DEF AssessmentInv

LEMMA AssessmentNextPreserves ==
    ASSUME FrameworksInv, AssessmentInv, [ComplianceNext]_complianceVars
    PROVE  AssessmentInv'
<1>1. AssessmentShapes /\ (overlapped \/ ApprovalAgrees) /\ FirmExecutionsCover
    BY DEF AssessmentInv
<1>2. Grows
    BY FrameworksNextPreserves
<1>3. CASE UNCHANGED <<assessment, items, execution, verdict, approved, overlapped>>
    BY <1>2, <1>3, AssessmentStays
<1>4. ASSUME NEW f \in DOMAIN framework, CreateAssessment(f)
      PROVE  AssessmentInv'
    <2>1. /\ assessment.status = "absent" /\ assessment' = [status |-> "DRAFT", version |-> f, score |-> 0]
          /\ UNCHANGED <<framework, execution, verdict, items, approved, overlapped>>
        BY <1>4 DEF CreateAssessment
    <2>2. (\A e \in Executions : execution[e].at = "idle")
        BY <1>1, <2>1 DEF AssessmentShapes
    <2>3. AssessmentShapes'
        BY <1>1, <2>1 DEF AssessmentShapes, AssessmentShape, AssessmentStatus, ExecutionShape, FoundOnce
    <2>4. FirmExecutionsCover' /\ ApprovalAgrees'
        BY <2>1, <2>2 DEF FirmExecutionsCover, ApprovalAgrees
    <2> QED
        BY <2>3, <2>4 DEF AssessmentInv
<1>5. ASSUME NEW e \in Executions, LoadAssessment(e)
      PROVE  AssessmentInv'
    <2> DEFINE row == [execution[e] EXCEPT !.at = "loaded", !.loaded = assessment.status, !.score = assessment.score]
    <2>1. /\ assessment.status # "absent" /\ execution' = [execution EXCEPT ![e] = row]
          /\ UNCHANGED <<framework, crept, assessment, items, verdict, approved, overlapped>>
        BY <1>5 DEF LoadAssessment
    <2>3. ExecutionShape(execution[e]) /\ FoundOnce(execution[e].found)
        BY <1>1 DEF AssessmentShapes
    <2>4. ExecutionShape(row) /\ row.at = "loaded" /\ row.found = execution[e].found
        <3>1. Holds(row, "loaded", execution[e].found, execution[e].firm)
            BY <2>3, ExecutionLoaded, Zenon
        <3> QED
            BY <3>1 DEF Holds
    <2> HIDE DEF row
    <2>5. FoundOnce(row.found) /\ row.at \notin {"assessed", "done"}
        BY <2>3, <2>4
    <2> QED
        BY <2>1, <2>4, <2>5, ExecutionMoves
<1>6. ASSUME NEW e \in Executions, AssessControls(e)
      PROVE  AssessmentInv'
    <2> DEFINE v == assessment.version
               after == {o \in Executions : execution[o].at = "assessed" /\ execution[o].gone \intersect items # {}}
    <2>1. PICK sound \in BOOLEAN :
          execution' = [execution EXCEPT ![e].at = "assessed", ![e].gone = items, ![e].after = after,
              ![e].firm = framework[v].active,
              ![e].found = {[control |-> k, status |-> ItemStatus(k, sound)] : k \in framework[v].controls}]
        BY <1>6 DEF AssessControls
    <2> DEFINE found == {[control |-> k, status |-> ItemStatus(k, sound)] : k \in framework[v].controls}
               row == [execution[e] EXCEPT !.at = "assessed", !.gone = items, !.after = after,
                                           !.firm = framework[v].active, !.found = found]
    <2>2. /\ execution[e].at = "loaded" /\ execution' = [execution EXCEPT ![e] = row]
          /\ UNCHANGED <<framework, crept, assessment, items, verdict, approved, overlapped>>
        BY <1>6, <2>1, ZenonT(30) DEF AssessControls
    <2>3. assessment.status # "absent" /\ ExecutionShape(execution[e])
        BY <1>1, <2>2 DEF AssessmentShapes
    <2>4. FoundOnce(found) /\ {i.control : i \in found} = framework[v].controls
        <3> DEFINE S(k) == ItemStatus(k, sound)
        <3> HIDE DEF S
        <3>1. found = {[control |-> k, status |-> S(k)] : k \in framework[v].controls}
            BY DEF S
        <3> HIDE DEF found
        <3>2. \A i \in found : i = [control |-> i.control, status |-> i.status] /\ i.control \in framework[v].controls
                                /\ i = [control |-> i.control, status |-> S(i.control)]
            BY <3>1
        <3>3. \A i, j \in found : i.control = j.control => i = j
            BY <3>2, Zenon
        <3>4. \A k \in framework[v].controls : \E i \in found : k = i.control
            <4> TAKE k \in framework[v].controls
            <4>1. [control |-> k, status |-> S(k)] \in found
                BY <3>1
            <4> WITNESS [control |-> k, status |-> S(k)] \in found
            <4> QED
                OBVIOUS
        <3> QED
            BY <3>2, <3>3, <3>4 DEF FoundOnce
    <2> HIDE DEF found, after
    <2>6. ExecutionShape(row) /\ row.found = found /\ row.firm = framework[v].active
        <3>1. Holds(row, "assessed", found, framework[v].active)
            BY <2>3, ExecutionAssessed, Zenon
        <3> QED
            BY <3>1 DEF Holds
    <2> HIDE DEF row
    <2>7. row.firm => CoveredBy(row.found)
        BY <2>4, <2>6 DEF CoveredBy
    <2> QED
        BY <2>2, <2>3, <2>4, <2>6, <2>7, ExecutionMoves
<1>7. ASSUME NEW u \in Reviewers, LoadVerdict(u)
      PROVE  AssessmentInv'
    <2> DEFINE row == [at |-> "loaded", loaded |-> assessment.status]
    <2>1. /\ assessment.status # "absent" /\ verdict' = [verdict EXCEPT ![u] = row]
          /\ UNCHANGED <<framework, crept, assessment, items, execution, approved, overlapped>>
        BY <1>7 DEF LoadVerdict
    <2>2. assessment.status \in AssessmentStatus \ {"absent"} /\ AssessmentShape(assessment)
        BY <1>1, <2>1 DEF AssessmentShapes
    <2>3. row \in VerdictRow
        BY <2>2 DEF VerdictRow
    <2>4. assessment' = [assessment EXCEPT !.status = assessment.status]
        BY <2>1, <2>2 DEF AssessmentShape
    <2>5. (overlapped \/ ApprovalAgrees)'
        BY <1>1, <2>1 DEF ApprovalAgrees
    <2> HIDE DEF row
    <2> QED
        BY <2>1, <2>2, <2>3, <2>4, <2>5, VerdictMoves
<1>8. ASSUME NEW u \in Reviewers, NEW o \in {"APPROVED", "REJECTED"}, ActOnAssessment(u, o)
      PROVE  AssessmentInv'
    <2> DEFINE row == [verdict[u] EXCEPT !.at = "done"]
               status == IF verdict[u].loaded # o THEN o ELSE assessment.status
    <2>1. /\ verdict[u].at = "loaded" /\ assessment' = [assessment EXCEPT !.status = status]
          /\ approved' = IF o = "APPROVED" THEN items ELSE approved
          /\ overlapped' = (overlapped \/ assessment.status # verdict[u].loaded)
          /\ verdict' = [verdict EXCEPT ![u] = row] /\ UNCHANGED <<framework, crept, items, execution>>
        BY <1>8 DEF ActOnAssessment
    <2>2. assessment.status # "absent" /\ AssessmentShape(assessment) /\ verdict[u] \in VerdictRow
        BY <1>1, <2>1 DEF AssessmentShapes
    <2>3. row \in VerdictRow
        BY <2>2 DEF VerdictRow
    <2>4. status \in AssessmentStatus \ {"absent"}
        BY <1>1, <2>2 DEF AssessmentShapes, AssessmentStatus
    <2>5. assessment'.status = status /\ assessment'.score = assessment.score
        <3> HIDE DEF status
        <3> QED
            BY <2>1, <2>2 DEF AssessmentShape
    <2>6. ASSUME ~overlapped'
          PROVE  ApprovalAgrees'
        <3>1. status = o
            BY <2>1, <2>6
        <3> HIDE DEF status
        <3> QED
            BY <2>1, <2>5, <3>1 DEF ApprovalAgrees
    <2> HIDE DEF row, status
    <2> QED
        BY <2>1, <2>2, <2>3, <2>4, <2>6, VerdictMoves
<1>9. ASSUME NEW e \in Executions, ExecuteAssessment(e)
      PROVE  AssessmentInv'
    BY <1>9, ExecutePreserves
<1>10. CASE UNCHANGED complianceVars
    BY <1>3, <1>10 DEF complianceVars
<1> QED
    BY <1>3, <1>4, <1>5, <1>6, <1>7, <1>8, <1>9, <1>10
    DEF ComplianceNext, ReadFrameworks, CreateFramework, ReadFramework, CreateControl, ActivateFramework, EvidenceChanges,
        SettleRemediation

(* An approval covers what it saw. create_framework, create_control, activate,
   create_assessment, execute_assessment and act_on_assessment, for any controls,
   executions and reviewers. *)
THEOREM ApprovalsCover == ComplianceSpec => []ApprovalCoversItems
<1>1. ComplianceInit => FrameworksInv /\ AssessmentInv
    <2> SUFFICES ASSUME ComplianceInit
                 PROVE  FrameworksInv /\ AssessmentInv
        OBVIOUS
    <2>1. FrameworksInv
        <3>1. /\ framework = <<>> /\ crept = <<>> /\ authoring = [q \in Authors |-> NotAuthoring]
              /\ NotAuthoring \in AuthoringRow /\ NotAuthoring.call = "idle"
            BY DEF ComplianceInit, NotAuthoring, AuthoringRow
        <3>2. framework \in Seq(FrameworkRow) /\ crept \in Seq(SUBSET Controls) /\ Len(crept) = Len(framework)
            BY <3>1
        <3> QED
            BY <3>1, <3>2 DEF FrameworksInv
    <2>2. AssessmentShapes
        BY DEF ComplianceInit, AssessmentShapes, AssessmentShape, ExecutionShape, NotExecuting, FoundOnce,
               AssessmentStatus, VerdictRow
    <2>3. ApprovalAgrees /\ FirmExecutionsCover
        BY DEF ComplianceInit, ApprovalAgrees, FirmExecutionsCover, NotExecuting
    <2> QED
        BY <2>1, <2>2, <2>3 DEF AssessmentInv
<1> QED
    BY <1>1, FrameworksNextPreserves, AssessmentNextPreserves, InvCoversItems, PTL DEF ComplianceSpec
=============================================================================
