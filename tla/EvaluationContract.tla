------------------------- MODULE EvaluationContract -------------------------
(***************************************************************************)
(* What a reader of an evaluation run may rely on: its status moves along   *)
(* a few edges, and its results are published all at once, in the step that *)
(* ends the run.  EvaluationRun implements this contract while a single     *)
(* worker job exists for the run.                                           *)
(***************************************************************************)
EXTENDS FiniteSets

CONSTANT Publishable    \* sets of test cases whose results may be published

VARIABLES status,       \* status of the run, "NONE" before it exists
          covered       \* test cases that have a result row

Terminal == {"COMPLETED", "FAILED", "CANCELLED"}

ContractInit == status = "NONE" /\ covered = {}

Create == status = "NONE" /\ status' = "QUEUED" /\ UNCHANGED covered

Begin == status \in {"QUEUED", "CANCELLED"} /\ status' = "RUNNING" /\ UNCHANGED covered

(* A user's cancellation, which may be decided just before the run ends. *)
Cancel == status # "NONE" /\ status' = "CANCELLED" /\ UNCHANGED covered

(* All results appear together with the end of the run, which overwrites a
   cancellation made while it was executing. *)
Publish ==
    /\ status \in {"RUNNING", "CANCELLED"}
    /\ covered = {} /\ covered' \in Publishable
    /\ status' \in {"COMPLETED", "FAILED"}

(* A run that breaks off publishes nothing. *)
BreakOff ==
    /\ status \in {"RUNNING", "CANCELLED"}
    /\ covered = {}
    /\ status' = "FAILED" /\ UNCHANGED covered

ContractNext == Create \/ Begin \/ Cancel \/ Publish \/ BreakOff
ContractSpec == ContractInit /\ [][ContractNext]_<<status, covered>>
=============================================================================
