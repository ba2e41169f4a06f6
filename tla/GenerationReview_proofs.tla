---------------------- MODULE GenerationReview_proofs -----------------------
(***************************************************************************)
(* Proofs about GenerationReview, for any number of candidates, reviewers   *)
(* and imports.  Its steps are steps of DatasetVersions or leave the        *)
(* versions alone, so that what is proved there holds here; with it one     *)
(* inductive invariant gives type correctness, OnlyApprovedEnter,           *)
(* ConsumptionIsTruthful and ConsumedStaysOut.                              *)
(***************************************************************************)
EXTENDS GenerationReview, DatasetVersions_proofs

Approvals == \A c \in Candidates : decision[c] = "APPROVED" => c \in approved

(* What an import has collected was approved by then, and not consumed when it
   began; past the loop it has collected its whole payload. *)
Collection ==
    \A i \in Imports :
        /\ phase[i] = "new" => collected[i] = 0
        /\ phase[i] \in Working \cup {"done"} => collected[i] = Len(Payload[i])
        /\ \A k \in 1 .. collected[i] : Payload[i][k] \in approved \ barred[i]

(* Consumption is never taken back. *)
Barring == \A i \in Imports : \A c \in barred[i] : consumed[c] # NoVersion

Publishing ==
    /\ \A i \in Imports : phase[i] = "done" => \E v \in versions : v.by = i
    /\ \A c \in Candidates : consumed[c] # NoVersion =>
          c \in Listed(consumed[c]) /\ phase[consumed[c]] = "done"

ReviewInv == Inv /\ ReviewTypeOK /\ Approvals /\ Collection /\ Barring /\ Publishing
-----------------------------------------------------------------------------
LEMMA ReviewInitInv == ReviewInit => ReviewInv
<1> SUFFICES ASSUME ReviewInit
             PROVE  ReviewInv
    OBVIOUS
<1> USE DEF ReviewInit
<1>1. Inv
    BY InitEstablishes
<1>2. \A i \in Imports : Len(Payload[i]) \in Nat
    BY ReviewAssumption, LenProperties
<1>3. ReviewTypeOK
    BY <1>2 DEF ReviewTypeOK
<1>4. Approvals /\ Collection /\ Barring /\ Publishing
    BY DEF Approvals, Collection, Barring, Publishing, Init, Working, NoVersion
<1> QED
    BY <1>1, <1>3, <1>4 DEF ReviewInv

(* A step of the composition is a step of the imports or none of theirs. *)
LEMMA ReviewStepIsImportStep ==
    ASSUME [ReviewNext]_allVars
    PROVE  [Next]_vars
<1>1. ASSUME NEW i \in Imports, Begin(i) \/ Reject(i) \/ CreateVersion(i)
      PROVE  Next
    BY <1>1 DEF Begin, Reject, CreateVersion, Next, Import
<1>2. ASSUME NEW i \in Imports, Collect(i) \/ MarkConsumed(i)
      PROVE  UNCHANGED vars
    BY <1>2 DEF Collect, MarkConsumed, Consume
<1>3. ASSUME NEW r \in Reviewers,
             CommitReview(r) \/ \E c \in Candidates, d \in Decisions : CheckReview(r, c, d)
      PROVE  UNCHANGED vars
    BY <1>3 DEF CommitReview, CheckReview
<1>4. ASSUME NEW s \in {"ACTIVE", "ARCHIVED"}, SetStatus(s)
      PROVE  Next
    BY <1>4 DEF Next
<1> QED
    BY <1>1, <1>2, <1>3, <1>4 DEF ReviewNext, allVars

LEMMA InvPreserved ==
    ASSUME ReviewInv, [ReviewNext]_allVars
    PROVE  Inv'
BY ReviewStepIsImportStep, Induction DEF ReviewInv
-----------------------------------------------------------------------------
LEMMA CheckReviewPreserves ==
    ASSUME ReviewInv, Inv', NEW r \in Reviewers, NEW c \in Candidates, NEW d \in Decisions,
           CheckReview(r, c, d)
    PROVE  ReviewInv'
<1> USE DEF CheckReview, vars, import, candidateVars, callVars
<1>1. ReviewTypeOK'
    BY DEF ReviewInv, ReviewTypeOK
<1>2. Approvals' /\ Collection' /\ Barring'
    BY DEF ReviewInv, Approvals, Collection, Barring
<1>3. Publishing'
    BY DEF ReviewInv, Publishing
<1> QED
    BY <1>1, <1>2, <1>3 DEF ReviewInv

LEMMA CommitReviewPreserves ==
    ASSUME ReviewInv, Inv', NEW r \in Reviewers, CommitReview(r)
    PROVE  ReviewInv'
<1> USE DEF CommitReview, vars, import, callVars
<1>1. review[r].candidate \in Candidates /\ review[r].to \in Decisions
    BY DEF ReviewInv, ReviewTypeOK
<1>2. ReviewTypeOK'
    BY <1>1 DEF ReviewInv, ReviewTypeOK, Decisions
<1>3. Approvals'
    BY <1>1 DEF ReviewInv, ReviewTypeOK, Approvals
<1>4. approved \subseteq approved'
    OBVIOUS
<1>5. Collection'
    BY <1>4 DEF ReviewInv, Collection
<1>6. Barring' /\ Publishing'
    BY DEF ReviewInv, Barring, Publishing
<1> QED
    BY <1>2, <1>3, <1>5, <1>6 DEF ReviewInv

LEMMA SetStatusPreserves ==
    ASSUME ReviewInv, Inv', NEW s \in {"ACTIVE", "ARCHIVED"}, SetStatus(s), UNCHANGED reviewVars
    PROVE  ReviewInv'
<1> USE DEF SetStatus, import, reviewVars, candidateVars, callVars
<1>1. ReviewTypeOK'
    BY DEF ReviewInv, ReviewTypeOK
<1>2. Approvals' /\ Collection' /\ Barring' /\ Publishing'
    BY DEF ReviewInv, Approvals, Collection, Barring, Publishing
<1> QED
    BY <1>1, <1>2 DEF ReviewInv

LEMMA BeginPreserves ==
    ASSUME ReviewInv, Inv', NEW i \in Imports, Begin(i)
    PROVE  ReviewInv'
<1> USE DEF Begin, candidateVars
<1>1. /\ phase[i] = "new" /\ phase \in [Imports -> Phase] /\ UNCHANGED versions
      /\ \E p \in {"checked", "failed"} : phase' = [phase EXCEPT ![i] = p]
    BY DEF ReviewInv, Inv, TypeOK, Check, Refuse, Becomes
<1>2. ReviewTypeOK'
    BY DEF ReviewInv, ReviewTypeOK
<1>3. Approvals'
    BY DEF ReviewInv, Approvals
<1>4. Collection'
    <2>1. collected[i] = 0
        BY <1>1 DEF ReviewInv, Collection
    <2>2. barred' = [barred EXCEPT ![i] = barred'[i]] /\ barred \in [Imports -> SUBSET Candidates]
        BY DEF ReviewInv, ReviewTypeOK
    <2> QED
        BY <1>1, <2>1, <2>2 DEF ReviewInv, Collection, Working
<1>5. Barring'
    BY DEF ReviewInv, ReviewTypeOK, Barring
<1>6. Publishing'
    BY <1>1 DEF ReviewInv, Publishing
<1> QED
    BY <1>2, <1>3, <1>4, <1>5, <1>6 DEF ReviewInv

LEMMA CollectPreserves ==
    ASSUME ReviewInv, Inv', NEW i \in Imports, Collect(i)
    PROVE  ReviewInv'
<1> USE DEF Collect, vars, import, candidateVars
<1>1. /\ collected[i] \in Nat /\ Len(Payload[i]) \in Nat /\ collected[i] < Len(Payload[i])
      /\ phase[i] = "checked" /\ collected \in [Imports -> Nat]
      /\ collected' = [collected EXCEPT ![i] = @ + 1]
    <2>1. Len(Payload[i]) \in Nat
        BY ReviewAssumption, LenProperties
    <2> QED
        BY <2>1 DEF ReviewInv, ReviewTypeOK, Collecting
<1>2. ReviewTypeOK'
    BY <1>1 DEF ReviewInv, ReviewTypeOK
<1>3. Approvals'
    BY DEF ReviewInv, Approvals
<1>4. Current(i) \in approved \ barred[i]
    <2>1. CASE Acceptable(Current(i))
        <3>1. Current(i) \in Candidates
            <4>1. Payload[i] \in Seq(Candidates)
                BY ReviewAssumption
            <4> QED
                BY <1>1, <4>1, ElementOfSeq DEF Current
        <3> QED
            BY <2>1, <3>1 DEF Acceptable, ReviewInv, Approvals, Barring
    <2>2. CASE InSessionAlready(i)
        <3>1. collected[i] \in 1 .. collected[i]
            BY <1>1, <2>2 DEF InSessionAlready
        <3> QED
            BY <2>2, <3>1 DEF InSessionAlready, ReviewInv, Collection
    <2> QED
        BY <2>1, <2>2
<1>5. Collection'
    <2> SUFFICES ASSUME NEW k \in Imports
                 PROVE  /\ phase[k] = "new" => collected'[k] = 0
                        /\ phase[k] \in Working \cup {"done"} => collected'[k] = Len(Payload[k])
                        /\ \A n \in 1 .. collected'[k] : Payload[k][n] \in approved \ barred[k]
        BY DEF Collection
    <2>1. CASE k # i
        BY <1>1, <2>1 DEF ReviewInv, Collection
    <2>2. CASE k = i
        <3>1. \A n \in 1 .. collected[i] + 1 : n \in 1 .. collected[i] \/ n = collected[i] + 1
            BY <1>1
        <3>2. \A n \in 1 .. collected[i] + 1 : Payload[i][n] \in approved \ barred[i]
            BY <1>4, <3>1 DEF ReviewInv, Collection, Current
        <3> QED
            BY <1>1, <2>2, <3>2 DEF Working
    <2> QED
        BY <2>1, <2>2
<1>6. Barring' /\ Publishing'
    BY DEF ReviewInv, Barring, Publishing
<1> QED
    BY <1>2, <1>3, <1>5, <1>6 DEF ReviewInv

LEMMA MarkConsumedPreserves ==
    ASSUME ReviewInv, Inv', NEW i \in Imports, MarkConsumed(i)
    PROVE  ReviewInv'
<1> USE DEF MarkConsumed, Consume, vars, import
<1>1. i # NoVersion
    BY ReviewAssumption DEF NoVersion
<1>2. ReviewTypeOK'
    BY DEF ReviewInv, ReviewTypeOK
<1>3. Approvals' /\ Collection'
    BY DEF ReviewInv, Approvals, Collection
<1>4. Barring'
    BY <1>1 DEF ReviewInv, ReviewTypeOK, Barring
<1>5. Publishing'
    <2>1. \A k \in Imports : Listed(k)' = Listed(k)
        BY DEF Listed
    <2>2. \A c \in Candidates :
              consumed'[c] = IF c \in Listed(i) THEN i ELSE consumed[c]
        OBVIOUS
    <2>3. ASSUME NEW c \in Candidates, consumed'[c] # NoVersion
          PROVE  c \in Listed(consumed'[c]) /\ phase'[consumed'[c]] = "done"
        BY <2>2, <2>3 DEF ReviewInv, Publishing
    <2>4. \A k \in Imports : phase'[k] = "done" => \E v \in versions' : v.by = k
        BY DEF ReviewInv, Publishing
    <2> QED
        BY <2>3, <2>4 DEF Publishing, Listed
<1> QED
    BY <1>2, <1>3, <1>4, <1>5 DEF ReviewInv
-----------------------------------------------------------------------------
(* An import that moves on after its loop, or ends. *)
LEMMA AdvancePreserves ==
    ASSUME ReviewInv, Inv', NEW i \in Imports, NEW p \in Phase \ {"new"},
           phase' = [phase EXCEPT ![i] = p], phase[i] # "done",
           p \in Working \cup {"done"} => collected[i] = Len(Payload[i]),
           versions \subseteq versions', p = "done" => \E v \in versions' : v.by = i,
           UNCHANGED reviewVars
    PROVE  ReviewInv'
<1> USE DEF reviewVars, candidateVars, callVars
<1>1. phase \in [Imports -> Phase]
    BY DEF ReviewInv, Inv, TypeOK
<1>2. ReviewTypeOK'
    BY DEF ReviewInv, ReviewTypeOK
<1>3. Approvals' /\ Barring'
    BY DEF ReviewInv, Approvals, Barring
<1>4. Collection'
    BY <1>1 DEF ReviewInv, Collection
<1>5. Publishing'
    <2>1. \A k \in Imports : phase'[k] = "done" => \E v \in versions' : v.by = k
        BY <1>1 DEF ReviewInv, Publishing
    <2>2. ASSUME NEW c \in Candidates, consumed[c] # NoVersion
          PROVE  c \in Listed(consumed[c]) /\ phase'[consumed[c]] = "done"
        <3>1. c \in Listed(consumed[c]) /\ phase[consumed[c]] = "done"
            BY <2>2 DEF ReviewInv, Publishing
        <3>2. consumed[c] \in Imports /\ consumed[c] # i
            BY <2>2, <3>1 DEF ReviewInv, ReviewTypeOK
        <3> QED
            BY <1>1, <3>1, <3>2
    <2> QED
        BY <2>1, <2>2 DEF Publishing, Listed
<1> QED
    BY <1>2, <1>3, <1>4, <1>5 DEF ReviewInv

LEMMA CreateVersionPreserves ==
    ASSUME ReviewInv, Inv', NEW i \in Imports, Reject(i) \/ CreateVersion(i)
    PROVE  ReviewInv'
<1> USE DEF Phase, Working, Becomes
<1>1. UNCHANGED reviewVars
    BY DEF Reject, CreateVersion
<1>2. CASE Fail(i)
    BY <1>1, <1>2, AdvancePreserves DEF Fail
<1>3. CASE CreateVersion(i) /\ ~Fail(i)
    <2>1. Number(i) \/ Put(i) \/ Insert(i) \/ Commit(i) \/ Lose(i)
        BY <1>3 DEF CreateVersion
    <2>2. collected[i] = Len(Payload[i])
        <3>1. Len(Payload[i]) \in Nat
            BY ReviewAssumption, LenProperties
        <3>2. collected[i] \in Nat /\ collected[i] <= Len(Payload[i])
            BY DEF ReviewInv, ReviewTypeOK
        <3>3. CASE phase[i] = "checked"
            BY <1>3, <3>1, <3>2, <3>3 DEF CreateVersion, Collecting
        <3>4. CASE phase[i] \in Working
            BY <3>4 DEF ReviewInv, Collection
        <3> QED
            BY <2>1, <3>3, <3>4 DEF Number, Put, Insert, Commit, Lose
    <2>3. CASE Number(i) \/ Put(i) \/ Insert(i) \/ Lose(i)
        BY <1>1, <2>2, <2>3, AdvancePreserves DEF Number, Put, Insert, Lose
    <2>4. CASE Commit(i)
        <3>1. [number |-> number[i], by |-> i] \in versions'
            BY <2>4 DEF Commit
        <3>2. versions \subseteq versions' /\ \E v \in versions' : v.by = i
            BY <2>4, <3>1 DEF Commit
        <3> QED
            BY <1>1, <2>2, <2>4, <3>2, AdvancePreserves DEF Commit
    <2> QED
        BY <2>1, <2>3, <2>4
<1> QED
    BY <1>2, <1>3 DEF Reject

LEMMA ReviewNextPreserves == ReviewInv /\ [ReviewNext]_allVars => ReviewInv'
<1> SUFFICES ASSUME ReviewInv, [ReviewNext]_allVars
             PROVE  ReviewInv'
    OBVIOUS
<1>1. Inv'
    BY InvPreserved
<1>2. CASE UNCHANGED allVars
    <2> USE <1>2 DEF allVars, vars, import, reviewVars, candidateVars, callVars
    <2>1. ReviewTypeOK'
        BY DEF ReviewInv, ReviewTypeOK
    <2>2. Approvals' /\ Collection' /\ Barring' /\ Publishing'
        BY DEF ReviewInv, Approvals, Collection, Barring, Publishing
    <2> QED
        BY <1>1, <2>1, <2>2 DEF ReviewInv
<1> QED
    BY <1>1, <1>2, CheckReviewPreserves, CommitReviewPreserves, SetStatusPreserves,
       BeginPreserves, CollectPreserves, CreateVersionPreserves, MarkConsumedPreserves
    DEF ReviewNext

LEMMA ReviewInvHolds == ReviewSpec => []ReviewInv
BY ReviewInitInv, ReviewNextPreserves, PTL DEF ReviewSpec
-----------------------------------------------------------------------------
(* The versions made from candidates are versions: whatever the review does,
   every behaviour of the composition is one of DatasetVersions, and all that is
   proved of imports holds of it. *)
THEOREM ReviewRunsImports == ReviewSpec => Spec
<1>1. ReviewInit => Init
    BY DEF ReviewInit
<1>2. [ReviewNext]_allVars => [Next]_vars
    BY ReviewStepIsImportStep
<1> QED
    BY <1>1, <1>2, PTL DEF ReviewSpec, Spec

(* Decisions, consumption marks, reviews and calls keep their types. *)
THEOREM ReviewTypeCorrect == ReviewSpec => []ReviewTypeOK
<1>1. ReviewInv => ReviewTypeOK
    BY DEF ReviewInv
<1> QED
    BY <1>1, ReviewInvHolds, PTL

(* What a version's import has listed, it has collected. *)
LEMMA PublishedIsCollected ==
    ASSUME ReviewInv, NEW v \in versions, NEW c \in Listed(v.by)
    PROVE  v.by \in Imports /\ c \in approved \ barred[v.by]
<1>1. v.by \in Imports /\ phase[v.by] = "done"
    BY DEF ReviewInv, Inv, TypeOK, Version, Numbering
<1>2. collected[v.by] = Len(Payload[v.by])
    BY <1>1 DEF ReviewInv, Collection
<1>3. PICK k \in 1 .. Len(Payload[v.by]) : c = Payload[v.by][k]
    <2>1. DOMAIN Payload[v.by] = 1 .. Len(Payload[v.by])
        BY <1>1, ReviewAssumption, LenProperties
    <2> QED
        BY <2>1 DEF Listed
<1> QED
    BY <1>1, <1>2, <1>3 DEF ReviewInv, Collection

(* Only candidates that were approved enter a dataset version, for any number of
   reviewers deciding while imports run. *)
THEOREM OnlyApproved == ReviewSpec => []OnlyApprovedEnter
<1>1. ReviewInv => OnlyApprovedEnter
    BY PublishedIsCollected DEF OnlyApprovedEnter
<1> QED
    BY <1>1, ReviewInvHolds, PTL

(* A recorded consumption names a committed version that lists the candidate. *)
THEOREM ConsumptionTruthful == ReviewSpec => []ConsumptionIsTruthful
<1>1. ASSUME ReviewInv
      PROVE  ConsumptionIsTruthful
    BY <1>1 DEF ReviewInv, ReviewTypeOK, Publishing, ConsumptionIsTruthful
<1> QED
    BY <1>1, ReviewInvHolds, PTL

(* A candidate marked as consumed enters no version of an import that begins
   after the mark. *)
THEOREM ConsumedStaysOutOfLater == ReviewSpec => []ConsumedStaysOut
<1>1. ReviewInv => ConsumedStaysOut
    BY PublishedIsCollected DEF ConsumedStaysOut
<1> QED
    BY <1>1, ReviewInvHolds, PTL
=============================================================================
