--------------------------- MODULE GenerationReview -------------------------
(***************************************************************************)
(* What becomes of generated candidates (services/generation.py): people    *)
(* approve or reject them, and approved ones enter a dataset version        *)
(* through the import of DatasetVersions, after which the version is        *)
(* recorded on each of them.                                                *)
(*                                                                          *)
(* An import here is a call of create_dataset_version_from_candidates.  Its *)
(* session keeps the dataset, loaded first; each candidate is loaded and    *)
(* checked in its turn.  The version and the consumption of its candidates  *)
(* are committed in two transactions.                                       *)
(***************************************************************************)
EXTENDS DatasetVersions, Sequences

CONSTANTS
    Candidates,   \* generated candidates
    Reviewers,    \* users reviewing at the same time
    Payload       \* [Imports -> Seq(Candidates)], candidate_ids of each call

ASSUME ReviewAssumption ==
    /\ Payload \in [Imports -> Seq(Candidates) \ {<<>>}]
    /\ "NONE" \notin Imports

VARIABLES
    decision,   \* generation_candidates.status
    consumed,   \* dataset_version_id of each candidate, as the import that made it
    review,     \* the review each reviewer is between checking and committing
    collected,  \* how many entries of its payload each import has checked
    marked,     \* whether it has recorded the consumption
    approved,   \* observer: candidates that were ever approved
    barred      \* observer: candidates consumed when each import began

candidateVars == <<decision, consumed>>
callVars == <<collected, marked, barred>>
reviewVars == <<candidateVars, review, callVars, approved>>
allVars == <<vars, reviewVars>>
-----------------------------------------------------------------------------
Decisions == {"APPROVED", "REJECTED"}
NoReview == [candidate |-> "NONE", to |-> "NONE"]
NoVersion == "NONE"
Listed(i) == {Payload[i][k] : k \in DOMAIN Payload[i]}

ReviewTypeOK ==
    /\ decision \in [Candidates -> {"PENDING_REVIEW"} \cup Decisions]
    /\ consumed \in [Candidates -> Imports \cup {NoVersion}]
    /\ review \in [Reviewers -> [candidate : Candidates, to : Decisions] \cup {NoReview}]
    /\ collected \in [Imports -> Nat]
    /\ \A i \in Imports : collected[i] <= Len(Payload[i])
    /\ marked \in [Imports -> BOOLEAN]
    /\ approved \subseteq Candidates /\ barred \in [Imports -> SUBSET Candidates]

ReviewInit ==
    /\ Init
    /\ decision = [c \in Candidates |-> "PENDING_REVIEW"]
    /\ consumed = [c \in Candidates |-> NoVersion]
    /\ review = [r \in Reviewers |-> NoReview]
    /\ collected = [i \in Imports |-> 0] /\ marked = [i \in Imports |-> FALSE]
    /\ approved = {} /\ barred = [i \in Imports |-> {}]
-----------------------------------------------------------------------------
(* review_candidate: the transition is validated against the row as loaded,
   and the new status committed later *)
CheckReview(r, c, d) ==
    /\ review[r] = NoReview /\ decision[c] = "PENDING_REVIEW"
    /\ review' = [review EXCEPT ![r] = [candidate |-> c, to |-> d]]
    /\ UNCHANGED <<vars, candidateVars, callVars, approved>>

CommitReview(r) ==
    /\ review[r] # NoReview
    /\ decision' = [decision EXCEPT ![review[r].candidate] = review[r].to]
    /\ approved' = IF review[r].to = "APPROVED" THEN approved \cup {review[r].candidate}
                   ELSE approved
    /\ review' = [review EXCEPT ![r] = NoReview]
    /\ UNCHANGED <<vars, consumed, callVars>>
-----------------------------------------------------------------------------
(* the call loads the dataset, whose status is not read again *)
Begin(i) ==
    /\ Check(i) \/ Refuse(i)
    /\ barred' = [barred EXCEPT ![i] = {c \in Candidates : consumed[c] # NoVersion}]
    /\ UNCHANGED <<candidateVars, review, collected, marked, approved>>

NotConsumed(c) == consumed[c] = NoVersion
IsApproved(c) == decision[c] = "APPROVED"
Acceptable(c) == decision[c] = "APPROVED" /\ consumed[c] = NoVersion

Collecting(i) == phase[i] = "checked" /\ collected[i] < Len(Payload[i])
Current(i) == Payload[i][collected[i] + 1]
InSessionAlready(i) == collected[i] > 0 /\ Payload[i][collected[i]] = Current(i)

(* One round of the loop over candidate_ids.  The session holds an object as
   long as the code refers to it, so the id of the previous round, listed once
   more, is found as it was loaded and passes again. *)
Collect(i) ==
    /\ Collecting(i)
    /\ Acceptable(Current(i)) \/ InSessionAlready(i)
    /\ collected' = [collected EXCEPT ![i] = @ + 1]
    /\ UNCHANGED <<vars, candidateVars, review, marked, approved, barred>>

Reject(i) ==
    /\ Collecting(i)
    /\ ~Acceptable(Current(i)) /\ ~InSessionAlready(i)
    /\ Fail(i)
    /\ UNCHANGED reviewVars

(* create_version_from_records, once all records are collected *)
CreateVersion(i) ==
    /\ ~Collecting(i)
    /\ Number(i) \/ Put(i) \/ Insert(i) \/ Commit(i) \/ Lose(i) \/ Fail(i)
    /\ UNCHANGED reviewVars

Consume(i, v) ==
    /\ consumed' = [c \in Candidates |-> IF c \in Listed(i) THEN v ELSE consumed[c]]
    /\ marked' = [marked EXCEPT ![i] = TRUE]
    /\ UNCHANGED <<vars, decision, review, collected, approved, barred>>

MarkReference(i) ==
    /\ phase[i] = "done" /\ ~marked[i]
    /\ Consume(i, artifact[number[i]])

MarkEarly(i) ==
    /\ phase[i] \in {"inserted", "done"} /\ ~marked[i]
    /\ Consume(i, i)

(* The second transaction: mark_consumed on every listed candidate.  It may
   never happen, if the process dies in between. *)
MarkConsumed(i) ==
    /\ phase[i] = "done" /\ ~marked[i]
    /\ Consume(i, i)

ReviewNext ==
    \/ \E r \in Reviewers :
          \/ \E c \in Candidates, d \in Decisions : CheckReview(r, c, d)
          \/ CommitReview(r)
    \/ \E s \in {"ACTIVE", "ARCHIVED"} : SetStatus(s) /\ UNCHANGED reviewVars
    \/ \E i \in Imports :
          Begin(i) \/ Collect(i) \/ Reject(i) \/ CreateVersion(i) \/ MarkConsumed(i)

ReviewSpec == ReviewInit /\ [][ReviewNext]_allVars
-----------------------------------------------------------------------------
(* Only candidates that somebody has approved enter a version, whatever
   reviews and imports run at the same time. *)
OnlyApprovedEnter == \A v \in versions : Listed(v.by) \subseteq approved

(* dataset_version_id of a candidate names a committed version that contains
   it, although it is written in a transaction of its own. *)
ConsumptionIsTruthful ==
    \A c \in Candidates : consumed[c] # NoVersion =>
        c \in Listed(consumed[c]) /\ \E v \in versions : v.by = consumed[c]

(* A candidate whose consumption is recorded stays out of every version whose
   import begins afterwards. *)
ConsumedStaysOut == \A v \in versions : Listed(v.by) \cap barred[v.by] = {}

(* "Candidate {id} is already consumed.": no candidate enters two versions. *)
ConsumedOnce ==
    \A v, w \in versions : Listed(v.by) \cap Listed(w.by) # {} => v = w

(* generation/state.py: "APPROVED": set(), "REJECTED": set() -- no transition
   leaves a decision. *)
DecisionIsFinal ==
    [][\A c \in Candidates : decision[c] # "PENDING_REVIEW" => decision'[c] = decision[c]]_allVars
=============================================================================
