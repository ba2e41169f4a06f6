----------------------------- MODULE MCDatasets ------------------------------
(* Small instances of DatasetVersions, of the review and consumption of generated
   candidates over it, and of a generation request: a behaviour is of one part. *)
EXTENDS GenerationReview, GenerationRequest

CONSTANTS i1, i2, i3, i4, a, b, c1, c2, r1, r2, f1, f2

VARIABLE part

dataVars == <<part, allVars, requestVars>>

(* one request imports other records than the rest *)
MCContent == [i \in Imports |-> IF i = i1 THEN a ELSE b]

(* the imports share a candidate, and one lists it twice *)
MCPayload == [i \in Imports |-> IF i = i1 THEN <<c1, c1>> ELSE <<c1, c2>>]

Active == CASE part = "versions" -> Imports [] part = "review" -> {i1, i2} [] OTHER -> {}

(* The imports that take no part have ended. *)
DataInit ==
    /\ part \in {"versions", "review", "request"}
    /\ status = "ACTIVE" /\ versions = {}
    /\ artifact = [n \in Numbers |-> Absent]
    /\ phase = [i \in Imports |-> IF i \in Active THEN "new" ELSE "failed"]
    /\ number = [i \in Imports |-> 0] /\ attempts = [i \in Imports |-> 0]
    /\ raced = {}
    /\ decision = [c \in Candidates |-> "PENDING_REVIEW"]
    /\ consumed = [c \in Candidates |-> NoVersion]
    /\ review = [r \in Reviewers |-> NoReview]
    /\ collected = [i \in Imports |-> 0] /\ marked = [i \in Imports |-> FALSE]
    /\ approved = (IF part = "review" THEN {} ELSE Candidates) \* records, not candidates, are imported
    /\ barred = [i \in Imports |-> {}]
    /\ RequestInit

Others == <<part, reviewVars, requestVars>>

(* Requests that the server began are carried on. *)
ImportStep(i) ==
    \/ part = "versions" /\ Import(i) /\ UNCHANGED Others
    \/ part = "review" /\ (Begin(i) \/ Collect(i) \/ Reject(i) \/ CreateVersion(i)) /\ UNCHANGED <<part, requestVars>>

RequestStep(A) == part = "request" /\ A /\ UNCHANGED <<part, allVars>>

DataNext ==
    \/ part = "versions" /\ Next /\ UNCHANGED Others
    \/ part = "review" /\ ReviewNext /\ UNCHANGED <<part, requestVars>>
    \/ RequestStep(RequestNext)

DataSpec ==
    /\ DataInit /\ [][DataNext]_dataVars
    /\ \A i \in Imports : WF_dataVars(ImportStep(i))
    /\ WF_dataVars(RequestStep(Queue)) /\ WF_dataVars(RequestStep(CommitCancel))
    /\ WF_dataVars(RequestStep(Recovery)) /\ WF_dataVars(RequestStep(Run))
=============================================================================
