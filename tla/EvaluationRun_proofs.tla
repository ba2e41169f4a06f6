------------------------ MODULE EvaluationRun_proofs ------------------------
(***************************************************************************)
(* Proofs about EvaluationRun, for any number of jobs, test cases, tries    *)
(* and faults: type correctness, ExclusiveInserts, OneResultPerCase and     *)
(* CompletedIsComplete, from one inductive invariant; for runs that one job *)
(* executes, the counters and EvaluationContract; early cancellations.      *)
(***************************************************************************)
EXTENDS EvaluationRun, FiniteSetTheorems, FunctionTheorems, TLAPS

(* A job in the queue has tries left. *)
Delivered ==
    \A j \in Jobs : /\ phase[j] = "queued" => tries[j] < MaxRetries
                    /\ phase[j] = "absent" => tries[j] = 0

Writing(j) == phase[j] \in {"persisting", "blocked"}

(* Only a job that persists holds rows; they are of cases it has outcomes for. *)
Holding ==
    \A j \in Jobs :
        /\ ~Writing(j) => mine[j] = {}
        /\ Writing(j) => Produced(outcomes[j])
        /\ mine[j] \cup todo[j] \subseteq DOMAIN outcomes[j]
        /\ phase[j] = "blocked" => want[j] \in DOMAIN outcomes[j]

(* As long as no job has committed a row, no job has been rolled back: it holds
   every row it no longer has to insert. *)
Covering ==
    results = {} =>
        \A j \in Jobs :
            /\ phase[j] = "persisting" => DOMAIN outcomes[j] \subseteq mine[j] \cup todo[j]
            /\ phase[j] = "blocked" =>
                  DOMAIN outcomes[j] \subseteq mine[j] \cup todo[j] \cup {want[j]}

(* An uncommitted row excludes a committed and another uncommitted row of its
   case; with one job, too. *)
Exclusive ==
    /\ \A j \in Jobs : mine[j] \cap Committed = {}
    /\ \A j, k \in Jobs : j # k => mine[j] \cap mine[k] = {}

Whole == Committed = Cases \/ (StopOnError /\ \E r \in results : r.status = "ERROR")

(* Rows are committed all together, so the first commit is complete. *)
Completeness ==
    /\ results # {} => Whole
    /\ status = "COMPLETED" => Whole

Inv ==
    /\ TypeOK /\ Delivered /\ Holding /\ Covering
    /\ Exclusive /\ OneResultPerCase /\ Completeness
-----------------------------------------------------------------------------
LEMMA InitInv == Init => Inv
<1> SUFFICES ASSUME Init
             PROVE  Inv
    OBVIOUS
<1> USE DEF Init
<1>1. Cardinality(Cases) \in Nat
    BY FS_CardinalityType, EvaluationAssumption
<1>2. NoOutcomes \in Outcomes /\ DOMAIN NoOutcomes = {}
    <2>1. NoOutcomes \in [{} -> ResultStatus]
        BY DEF NoOutcomes
    <2> QED
        BY <2>1 DEF Outcomes, NoOutcomes
<1>3. TypeOK
    BY <1>1, <1>2, EvaluationAssumption DEF TypeOK, Status, Terminal, JobPhase
<1>4. Delivered
    BY EvaluationAssumption DEF Delivered
<1>5. Holding /\ Covering
    BY DEF Holding, Covering, Writing
<1>6. Exclusive /\ OneResultPerCase /\ Completeness
    BY DEF Exclusive, OneResultPerCase, Completeness
<1> QED
    BY <1>3, <1>4, <1>5, <1>6 DEF Inv

(* The counters a job records are within their type. *)
LEMMA CountsInType ==
    ASSUME NEW f \in Outcomes
    PROVE  /\ Cardinality(DOMAIN f) \in 0 .. Cardinality(Cases)
           /\ Passed(f) \in 0 .. Cardinality(Cases)
<1>1. DOMAIN f \in SUBSET Cases
    BY DEF Outcomes
<1>2. {c \in DOMAIN f : f[c] = "PASS"} \in SUBSET Cases
    BY <1>1
<1>3. ASSUME NEW S \in SUBSET Cases
      PROVE  Cardinality(S) \in 0 .. Cardinality(Cases)
    <2>1. IsFiniteSet(S) /\ Cardinality(S) <= Cardinality(Cases)
        BY FS_Subset, EvaluationAssumption
    <2>2. Cardinality(S) \in Nat /\ Cardinality(Cases) \in Nat
        BY <2>1, FS_CardinalityType, EvaluationAssumption
    <2> QED
        BY <2>1, <2>2
<1> QED
    BY <1>1, <1>2, <1>3 DEF Passed
-----------------------------------------------------------------------------
(* Requests, the clock and the recovery change no job and no row. *)
LEMMA RowStep ==
    ASSUME Inv, UNCHANGED <<results, phase, tries, sessions>>, TypeOK',
           status' = "COMPLETED" => status = "COMPLETED"
    PROVE  Inv'
<1> USE DEF sessions
<1>1. Delivered'
    BY DEF Inv, Delivered
<1>2. Holding'
    BY DEF Inv, Holding, Writing, Produced
<1>3. Covering'
    BY DEF Inv, Covering
<1>4. Exclusive' /\ OneResultPerCase' /\ Completeness'
    BY DEF Inv, Exclusive, OneResultPerCase, Completeness, Whole, Committed
<1> QED
    BY <1>1, <1>2, <1>3, <1>4 DEF Inv

LEMMA RequestsPreserve ==
    ASSUME Inv, Create \/ QueueCreatedFails \/ CheckCancel \/ CommitCancel \/ Recovery
    PROVE  Inv'
<1> USE DEF row, requests, sessions, Status, Terminal
<1>1. CASE Create
    BY <1>1, RowStep DEF Inv, TypeOK, Create
<1>2. CASE QueueCreatedFails
    BY <1>2, RowStep, EvaluationAssumption DEF Inv, TypeOK, QueueCreatedFails, Fault
<1>3. CASE CheckCancel
    BY <1>3, RowStep DEF Inv, TypeOK, CheckCancel
<1>4. CASE CommitCancel
    BY <1>4, RowStep DEF Inv, TypeOK, CommitCancel
<1>5. CASE Age
    BY <1>5, RowStep DEF Inv, TypeOK, Age
<1>6. CASE CheckStale
    BY <1>6, RowStep DEF Inv, TypeOK, CheckStale
<1>7. CASE CommitStale
    BY <1>7, RowStep DEF Inv, TypeOK, CommitStale
<1> QED
    BY <1>1, <1>2, <1>3, <1>4, <1>5, <1>6, <1>7 DEF Recovery

LEMMA QueuePreserves ==
    ASSUME Inv, NEW j \in Jobs, QueueCreated(j) \/ Start(j)
    PROVE  Inv'
<1> USE DEF row, requests, sessions
<1>0. Queue(j) /\ api' \in {api, "queued"}
    BY DEF QueueCreated, Start
<1>1. TypeOK'
    BY <1>0 DEF Inv, TypeOK, Queue, JobPhase
<1>2. Delivered'
    BY <1>0, EvaluationAssumption DEF Inv, TypeOK, Delivered, Queue
<1>3. Holding'
    BY <1>0 DEF Inv, TypeOK, Holding, Writing, Produced, Queue
<1>4. Covering'
    BY <1>0 DEF Inv, TypeOK, Covering, Queue
<1>5. Exclusive' /\ OneResultPerCase' /\ Completeness'
    BY <1>0 DEF Inv, Exclusive, OneResultPerCase, Completeness, Whole, Committed, Queue
<1> QED
    BY <1>1, <1>2, <1>3, <1>4, <1>5 DEF Inv

LEMMA LoadPreserves ==
    ASSUME Inv, NEW j \in Jobs, Load(j)
    PROVE  Inv'
<1> USE DEF row, requests, sessions
<1>0. LoadedPhase(status) \in {"done", "loaded", "started"}
    BY DEF LoadedPhase
<1>1. TypeOK'
    BY <1>0, EvaluationAssumption DEF Inv, TypeOK, Load, JobPhase, InSession, Delivered
<1>2. Delivered'
    BY <1>0 DEF Inv, TypeOK, Delivered, Load
<1>3. Holding'
    BY <1>0 DEF Inv, TypeOK, Holding, Writing, Produced, Load
<1>4. Covering'
    BY <1>0 DEF Inv, TypeOK, Covering, Load
<1>5. Exclusive' /\ OneResultPerCase' /\ Completeness'
    BY DEF Inv, Exclusive, OneResultPerCase, Completeness, Whole, Committed, Load
<1> QED
    BY <1>1, <1>2, <1>3, <1>4, <1>5 DEF Inv

LEMMA MarkRunningPreserves ==
    ASSUME Inv, NEW j \in Jobs, MarkRunning(j)
    PROVE  Inv'
<1> USE DEF row, requests, sessions
<1>1. TypeOK'
    BY DEF Inv, TypeOK, MarkRunning, JobPhase, InSession, Status
<1>2. Delivered'
    BY DEF Inv, TypeOK, Delivered, MarkRunning
<1>3. Holding'
    BY DEF Inv, TypeOK, Holding, Writing, Produced, MarkRunning
<1>4. Covering'
    BY DEF Inv, TypeOK, Covering, MarkRunning
<1>5. Exclusive' /\ OneResultPerCase' /\ Completeness'
    BY DEF Inv, Exclusive, OneResultPerCase, Completeness, Whole, Committed, MarkRunning
<1> QED
    BY <1>1, <1>2, <1>3, <1>4, <1>5 DEF Inv
-----------------------------------------------------------------------------
LEMMA ExecutePreserves ==
    ASSUME Inv, NEW j \in Jobs, Execute(j)
    PROVE  Inv'
<1> USE DEF row, requests, sessions
<1>1. CASE phase' = [phase EXCEPT ![j] = "failing"] /\ UNCHANGED <<outcomes, todo>>
    <2>1. TypeOK'
        BY <1>1 DEF Inv, TypeOK, Execute, JobPhase, InSession
    <2>2. Delivered'
        BY <1>1 DEF Inv, TypeOK, Delivered, Execute
    <2>3. Holding'
        BY <1>1 DEF Inv, TypeOK, Holding, Writing, Produced, Execute
    <2>4. Covering'
        BY <1>1 DEF Inv, TypeOK, Covering, Execute
    <2>5. Exclusive' /\ OneResultPerCase' /\ Completeness'
        BY DEF Inv, Exclusive, OneResultPerCase, Completeness, Whole, Committed, Execute
    <2> QED
        BY <2>1, <2>2, <2>3, <2>4, <2>5 DEF Inv
<1>2. ASSUME NEW f \in Outcomes, Produced(f),
             outcomes' = [outcomes EXCEPT ![j] = f],
             todo' = [todo EXCEPT ![j] = DOMAIN f],
             phase' = [phase EXCEPT ![j] = "persisting"]
      PROVE  Inv'
    <2>0. DOMAIN f \in SUBSET Cases /\ mine[j] = {}
        BY DEF Outcomes, Inv, Holding, Writing, Execute
    <2>1. TypeOK'
        BY <1>2, <2>0 DEF Inv, TypeOK, Execute, JobPhase, InSession
    <2>2. Delivered'
        BY <1>2 DEF Inv, TypeOK, Delivered, Execute
    <2>3. Holding'
        BY <1>2, <2>0 DEF Inv, TypeOK, Holding, Writing, Produced, Execute
    <2>4. Covering'
        BY <1>2, <2>0 DEF Inv, TypeOK, Covering, Execute
    <2>5. Exclusive' /\ OneResultPerCase' /\ Completeness'
        BY DEF Inv, Exclusive, OneResultPerCase, Completeness, Whole, Committed, Execute
    <2> QED
        BY <2>1, <2>2, <2>3, <2>4, <2>5 DEF Inv
<1> QED
    BY <1>1, <1>2 DEF Execute

LEMMA InsertPreserves ==
    ASSUME Inv, NEW j \in Jobs, NEW c \in Cases, Insert(j, c)
    PROVE  Inv'
<1> USE DEF row, requests, sessions
<1>1. TypeOK'
    BY DEF Inv, TypeOK, Insert, JobPhase, InSession
<1>2. Delivered'
    BY DEF Inv, TypeOK, Delivered, Insert
<1>3. Holding'
    BY DEF Inv, TypeOK, Holding, Writing, Produced, Insert
<1>4. Covering'
    <2>1. c \in Committed => results # {}
        BY DEF Committed
    <2> QED
        BY <2>1 DEF Inv, TypeOK, Covering, Insert
<1>5. Exclusive'
    BY DEF Inv, TypeOK, Exclusive, Committed, Held, Insert
<1>6. OneResultPerCase' /\ Completeness'
    BY DEF Inv, OneResultPerCase, Completeness, Whole, Committed, Insert
<1> QED
    BY <1>1, <1>2, <1>3, <1>4, <1>5, <1>6 DEF Inv

LEMMA UnblockPreserves ==
    ASSUME Inv, NEW j \in Jobs, Unblock(j)
    PROVE  Inv'
<1> USE DEF row, requests, sessions
<1>0. want[j] \in DOMAIN outcomes[j] /\ DOMAIN outcomes[j] \in SUBSET Cases
    BY DEF Inv, TypeOK, Holding, Outcomes, Unblock
<1>1. TypeOK'
    BY <1>0 DEF Inv, TypeOK, Unblock, JobPhase, InSession
<1>2. Delivered'
    BY DEF Inv, TypeOK, Delivered, Unblock
<1>3. Holding'
    BY <1>0 DEF Inv, TypeOK, Holding, Writing, Produced, Unblock
<1>4. Covering'
    <2>1. want[j] \in Committed => results # {}
        BY DEF Committed
    <2> QED
        BY <2>1 DEF Inv, TypeOK, Covering, Unblock
<1>5. Exclusive'
    BY DEF Inv, TypeOK, Exclusive, Committed, Held, Unblock
<1>6. OneResultPerCase' /\ Completeness'
    BY DEF Inv, OneResultPerCase, Completeness, Whole, Committed, Unblock
<1> QED
    BY <1>1, <1>2, <1>3, <1>4, <1>5, <1>6 DEF Inv
-----------------------------------------------------------------------------
(* The end of a session, whatever it committed before. *)
LEMMA EndSessionKeeps ==
    ASSUME Inv, NEW j \in Jobs, phase[j] \in InSession,
           NEW p \in {"done", "dead", "lost", Redelivery(j)}, EndSession(j, p),
           UNCHANGED tries
    PROVE  /\ phase' \in [Jobs -> JobPhase]
           /\ seen' \in [Jobs -> Status \cup {"EXPIRED"}]
           /\ outcomes' \in [Jobs -> Outcomes]
           /\ todo' \in [Jobs -> SUBSET Cases] /\ mine' \in [Jobs -> SUBSET Cases]
           /\ want' \in [Jobs -> Cases \cup {NoCase}]
           /\ Delivered' /\ Holding'
           /\ results' # {} \/ UNCHANGED results => Covering'
<1>1. p \in {"done", "dead", "lost", "queued"} /\ (p = "queued" => tries[j] < MaxRetries)
    BY DEF Redelivery
<1>2. NoOutcomes \in Outcomes /\ DOMAIN NoOutcomes = {}
    <2>1. NoOutcomes \in [{} -> ResultStatus]
        BY DEF NoOutcomes
    <2> QED
        BY <2>1 DEF Outcomes, NoOutcomes
<1>3. phase' \in [Jobs -> JobPhase]
    BY <1>1 DEF Inv, TypeOK, EndSession, JobPhase
<1>4. outcomes' \in [Jobs -> Outcomes]
    BY <1>2 DEF Inv, TypeOK, EndSession
<1>5. /\ seen' \in [Jobs -> Status \cup {"EXPIRED"}]
      /\ todo' \in [Jobs -> SUBSET Cases] /\ mine' \in [Jobs -> SUBSET Cases]
      /\ want' \in [Jobs -> Cases \cup {NoCase}]
    BY DEF Inv, TypeOK, EndSession, Status
<1>6. Delivered'
    BY <1>1 DEF Inv, TypeOK, Delivered, EndSession
<1>7. Holding'
    BY <1>1, <1>2 DEF Inv, TypeOK, Holding, Writing, Produced, EndSession
<1>8. results' # {} \/ UNCHANGED results => Covering'
    BY <1>1 DEF Inv, TypeOK, Covering, EndSession
<1> QED
    BY <1>3, <1>4, <1>5, <1>6, <1>7, <1>8

(* A session that ends without a commit of rows. *)
LEMMA NothingCommitted ==
    ASSUME Inv, NEW j \in Jobs, phase[j] \in InSession,
           NEW p \in {"done", "dead", "lost", Redelivery(j)}, EndSession(j, p),
           UNCHANGED <<heartbeat, counts, results, requests, tries>>,
           status' \in Status, status' = "COMPLETED" => status = "COMPLETED",
           faults' \in 0 .. MaxFaults
    PROVE  Inv'
<1>1. TypeOK'
    BY EndSessionKeeps DEF Inv, TypeOK, requests
<1>2. Delivered' /\ Holding' /\ Covering'
    BY EndSessionKeeps
<1>3. Exclusive'
    BY DEF Inv, TypeOK, Exclusive, Committed, EndSession
<1>4. OneResultPerCase' /\ Completeness'
    BY DEF Inv, OneResultPerCase, Completeness, Whole, Committed
<1> QED
    BY <1>1, <1>2, <1>3, <1>4 DEF Inv

LEMMA StopPreserves ==
    ASSUME Inv, NEW j \in Jobs, FailEarly(j) \/ Interrupt(j) \/ Crash(j)
    PROVE  Inv'
<1>1. CASE FailEarly(j)
    <2>1. PICK p \in {"done", Redelivery(j)} : EndSession(j, p)
        BY <1>1 DEF FailEarly
    <2>2. status' \in Status /\ (status' = "COMPLETED" => status = "COMPLETED")
        BY <1>1 DEF FailEarly, Overwrite, Inv, TypeOK, Status, Terminal
    <2>3. phase[j] \in InSession
        BY <1>1 DEF FailEarly, InSession
    <2> QED
        BY <1>1, <2>1, <2>2, <2>3, NothingCommitted DEF FailEarly, Inv, TypeOK
<1>2. CASE Interrupt(j)
    BY <1>2, NothingCommitted DEF Interrupt, Inv, TypeOK, row
<1>3. CASE Crash(j)
    <2>1. faults' \in 0 .. MaxFaults
        BY <1>3, EvaluationAssumption DEF Crash, Fault, Inv, TypeOK
    <2> QED
        BY <1>3, <2>1, NothingCommitted DEF Crash, Inv, TypeOK, row
<1> QED
    BY <1>1, <1>2, <1>3

(* What a job publishes: its rows join the committed ones, no case gets a second
   row, and the run is whole. *)
LEMMA Publish ==
    ASSUME Inv, NEW j \in Jobs, phase[j] = "persisting", todo[j] = {},
           results' = results \cup Rows(j)
    PROVE  /\ results' \subseteq Result
           /\ Committed' = Committed \cup mine[j]
           /\ OneResultPerCase' /\ Whole'
<1>1. \A c \in mine[j] : c \in Cases /\ outcomes[j][c] \in ResultStatus
    BY DEF Inv, TypeOK, Holding, Outcomes
<1>2. results' \subseteq Result
    BY <1>1 DEF Inv, TypeOK, Rows, Result
<1>3. Committed' = Committed \cup mine[j]
    <2>1. {r.case : r \in Rows(j)} = mine[j]
        <3>1. \A r \in Rows(j) : r.case \in mine[j]
            BY DEF Rows
        <3>2. \A c \in mine[j] : \E r \in Rows(j) : r.case = c
            <4>1. TAKE c \in mine[j]
            <4>2. [case |-> c, job |-> j, status |-> outcomes[j][c]] \in Rows(j)
                BY DEF Rows
            <4> QED
                BY <4>2
        <3> QED
            BY <3>1, <3>2
    <2> QED
        BY <2>1 DEF Committed
<1>4. OneResultPerCase'
    <2>1. \A r \in Rows(j) : r.case \in mine[j]
        BY DEF Rows
    <2>2. \A r, s \in Rows(j) : r.case = s.case => r = s
        BY DEF Rows
    <2>3. \A r \in results, s \in Rows(j) : r.case # s.case
        BY <2>1 DEF Inv, Exclusive, Committed
    <2> QED
        BY <2>2, <2>3 DEF Inv, OneResultPerCase
<1>5. Whole'
    <2>1. CASE results # {}
        <3>1. CASE Committed = Cases
            BY <1>3, <3>1 DEF Inv, TypeOK, Whole
        <3>2. CASE StopOnError /\ \E r \in results : r.status = "ERROR"
            BY <3>2 DEF Whole
        <3> QED
            BY <2>1, <3>1, <3>2 DEF Inv, Completeness, Whole
    <2>2. CASE results = {}
        <3>1. mine[j] = DOMAIN outcomes[j]
            BY <2>2 DEF Inv, Holding, Covering
        <3>2. Produced(outcomes[j])
            BY DEF Inv, Holding, Writing
        <3>3. CASE DOMAIN outcomes[j] = Cases
            BY <1>3, <2>2, <3>1, <3>3 DEF Whole, Committed
        <3>4. CASE StopOnError /\ \E c \in DOMAIN outcomes[j] : outcomes[j][c] = "ERROR"
            <4>1. PICK c \in mine[j] : outcomes[j][c] = "ERROR"
                BY <3>1, <3>4
            <4>2. [case |-> c, job |-> j, status |-> "ERROR"] \in results'
                BY <4>1 DEF Rows
            <4> QED
                BY <3>4, <4>2 DEF Whole
        <3> QED
            BY <3>2, <3>3, <3>4 DEF Produced
    <2> QED
        BY <2>1, <2>2
<1> QED
    BY <1>2, <1>3, <1>4, <1>5

LEMMA CommitPreserves ==
    ASSUME Inv, NEW j \in Jobs, Finish(j) \/ FailLate(j)
    PROVE  Inv'
<1>0. /\ phase[j] = "persisting" /\ todo[j] = {} /\ results' = results \cup Rows(j)
      /\ UNCHANGED <<requests, tries, faults>>
    BY DEF Finish, FailLate
<1>1. PICK p \in {"done", Redelivery(j)} : EndSession(j, p)
    BY DEF Finish, FailLate
<1>2. phase[j] \in InSession
    BY <1>0 DEF InSession
<1>3. status' \in Status
    BY DEF Finish, FailLate, Overwrite, Inv, TypeOK, Status, Terminal
<1>4. /\ heartbeat' \in {"NULL", "FRESH", "STALE"}
      /\ counts' \in [completed : 0 .. Cardinality(Cases), passed : 0 .. Cardinality(Cases)]
    <2>1. outcomes[j] \in Outcomes
        BY DEF Inv, TypeOK
    <2>2. CASE Recorded(j)
        BY <2>1, <2>2, CountsInType DEF Recorded
    <2>3. CASE UNCHANGED <<counts, heartbeat>>
        BY <2>3 DEF Inv, TypeOK
    <2> QED
        BY <2>2, <2>3 DEF Finish, FailLate
<1>5. TypeOK'
    BY <1>0, <1>1, <1>2, <1>3, <1>4, EndSessionKeeps, Publish DEF Inv, TypeOK, requests
<1>6. Delivered' /\ Holding'
    BY <1>0, <1>1, <1>2, EndSessionKeeps
<1>7. Covering'
    <2>1. results' # {} \/ UNCHANGED results
        BY <1>0
    <2> QED
        BY <1>0, <1>1, <1>2, <2>1, EndSessionKeeps
<1>8. Exclusive'
    <2>1. mine' = [mine EXCEPT ![j] = {}]
        BY <1>1 DEF EndSession
    <2>2. Committed' = Committed \cup mine[j]
        BY <1>0, Publish
    <2> QED
        BY <2>1, <2>2 DEF Inv, TypeOK, Exclusive
<1>9. OneResultPerCase' /\ Completeness'
    BY <1>0, Publish DEF Completeness
<1> QED
    BY <1>5, <1>6, <1>7, <1>8, <1>9 DEF Inv

LEMMA StutterPreserves ==
    ASSUME Inv, UNCHANGED vars
    PROVE  Inv'
<1>1. TypeOK'
    BY DEF Inv, TypeOK, vars, row, requests, sessions
<1> QED
    BY <1>1, RowStep DEF vars, row, requests, sessions

LEMMA NextPreserves == Inv /\ [Next]_vars => Inv'
<1> SUFFICES ASSUME Inv, [Next]_vars
             PROVE  Inv'
    OBVIOUS
<1>1. CASE Create \/ QueueCreatedFails \/ CheckCancel \/ CommitCancel \/ Recovery
    BY <1>1, RequestsPreserve
<1>2. ASSUME NEW j \in Jobs, QueueCreated(j) \/ Start(j)
      PROVE  Inv'
    BY <1>2, QueuePreserves
<1>3. ASSUME NEW j \in Jobs, Run(j)
      PROVE  Inv'
    BY <1>3, LoadPreserves, MarkRunningPreserves, ExecutePreserves, InsertPreserves,
       UnblockPreserves, CommitPreserves, StopPreserves DEF Run
<1>4. ASSUME NEW j \in Jobs, Interrupt(j) \/ Crash(j)
      PROVE  Inv'
    BY <1>4, StopPreserves
<1>5. CASE UNCHANGED vars
    BY <1>5, StutterPreserves
<1> QED
    BY <1>1, <1>2, <1>3, <1>4, <1>5 DEF Next

LEMMA InvHolds == Spec => []Inv
BY InitInv, NextPreserves, PTL DEF Spec
-----------------------------------------------------------------------------
(* Every variable of a run and of its jobs keeps its type, the counters and the
   number of tries within their bounds. *)
THEOREM TypeCorrect == Spec => []TypeOK
<1>1. Inv => TypeOK
    BY DEF Inv
<1> QED
    BY <1>1, InvHolds, PTL

(* Two jobs never both hold an uncommitted row of one case, so an INSERT of
   create_result waits for one transaction at most. *)
THEOREM InsertsAreExclusive == Spec => []ExclusiveInserts
<1>1. Inv => ExclusiveInserts
    BY DEF Inv, Exclusive, ExclusiveInserts
<1> QED
    BY <1>1, InvHolds, PTL

(* No test case has two result rows, however many jobs execute the run, are
   interrupted and roll each other back. *)
THEOREM OneResult == Spec => []OneResultPerCase
<1>1. Inv => OneResultPerCase
    BY DEF Inv
<1> QED
    BY <1>1, InvHolds, PTL

(* A run whose status is COMPLETED has a row for every case, or one for an error
   that stopped it: also when the job that completes it was rolled back. *)
THEOREM CompletedRunsAreComplete == Spec => []CompletedIsComplete
<1>1. Inv => CompletedIsComplete
    BY DEF Inv, Completeness, Whole, CompletedIsComplete
<1> QED
    BY <1>1, InvHolds, PTL
-----------------------------------------------------------------------------
(* What holds of requests, jobs and locks however many jobs there are. *)
Known ==
    /\ api = "new" <=> status = "NONE"
    /\ canceller = "checked" \/ recoverer = "checked" => status # "NONE"
    /\ \A j \in Jobs :
          /\ phase[j] # "absent" => api # "new"
          /\ phase[j] \in InSession => tries[j] > 0
          /\ mine[j] \cap todo[j] = {}
          /\ phase[j] = "blocked" => want[j] \notin todo[j]

(* A session of the only job delivered so far: nobody has committed a row or a
   heartbeat, so recovery has found nothing stale, no lock makes it wait, and
   only a cancellation can have changed the status it is working under. *)
Alone(j) ==
    /\ results = {} /\ heartbeat = "NULL"
    /\ phase[j] # "blocked"
    /\ phase[j] = "loaded" => status \in {"QUEUED", "CANCELLED"}
    /\ phase[j] # "loaded" => status \in {"RUNNING", "CANCELLED"}
    /\ phase[j] \in {"persisting", "failing"} => seen[j] \in {"RUNNING", "CANCELLED"}

Counted ==
    /\ counts.completed = Cardinality(results)
    /\ counts.passed = Cardinality({r \in results : r.status = "PASS"})

(* A sole job that published anything has ended the run, and no later delivery
   of it enters a session; the counters it recorded are of its rows. *)
SoleJob ==
    /\ recoverer = "idle"
    /\ status = "COMPLETED" => Counted
    /\ heartbeat # "NULL" \/ results # {} => status \in Terminal
    /\ \A j \in Jobs : phase[j] \in InSession => Alone(j)

SoleInv == Inv /\ Known /\ (Sole => SoleJob)

LEMMA SoleInit == Init => SoleInv
<1> SUFFICES ASSUME Init
             PROVE  SoleInv
    OBVIOUS
<1>1. Known
    BY DEF Init, Known, InSession
<1>2. SoleJob
    BY DEF Init, SoleJob, InSession
<1> QED
    BY <1>1, <1>2, InitInv DEF SoleInv

(* Deliveries are never undone: two delivered jobs stay two. *)
LEMMA SoleBefore ==
    ASSUME TypeOK, [Next]_vars, Sole'
    PROVE  Sole
<1>1. \A j \in Jobs : tries[j] > 0 => tries'[j] > 0
    <2>1. CASE UNCHANGED tries
        BY <2>1
    <2>2. ASSUME NEW k \in Jobs, Load(k)
          PROVE  \A j \in Jobs : tries[j] > 0 => tries'[j] > 0
        BY <2>2, EvaluationAssumption DEF TypeOK, Load
    <2>3. UNCHANGED tries \/ \E k \in Jobs : Load(k)
        BY DEF Next, Recovery, Run, Create, QueueCreated, Start, Queue, QueueCreatedFails,
           CheckCancel, CommitCancel, Age, CheckStale, CommitStale, MarkRunning, Execute,
           Insert, Unblock, Finish, FailEarly, FailLate, Interrupt, Crash, vars
    <2> QED
        BY <2>1, <2>2, <2>3
<1> QED
    BY <1>1 DEF Sole

LEMMA KnownPreserved ==
    ASSUME Inv, Known, [Next]_vars
    PROVE  Known'
<1> USE DEF row, requests, sessions, InSession
<1>1. CASE Create \/ QueueCreatedFails \/ CheckCancel \/ CommitCancel
    BY <1>1 DEF Known, Create, QueueCreatedFails, CheckCancel, CommitCancel
<1>2. CASE Recovery
    BY <1>2 DEF Known, Recovery, Age, CheckStale, Stale, CommitStale
<1>3. ASSUME NEW j \in Jobs, QueueCreated(j) \/ Start(j)
      PROVE  Known'
    BY <1>3 DEF Inv, TypeOK, Known, QueueCreated, Start, Queue
<1>4. ASSUME NEW j \in Jobs, Load(j)
      PROVE  Known'
    <2>1. LoadedPhase(status) \in {"done", "loaded", "started"}
        BY DEF LoadedPhase
    <2> QED
        BY <1>4, <2>1, EvaluationAssumption DEF Inv, TypeOK, Known, Load
<1>5. ASSUME NEW j \in Jobs, MarkRunning(j) \/ Execute(j)
      PROVE  Known'
    <2>1. mine[j] = {}
        BY <1>5 DEF Inv, Holding, Writing, MarkRunning, Execute
    <2> QED
        BY <1>5, <2>1 DEF Inv, TypeOK, Known, MarkRunning, Execute
<1>6. ASSUME NEW j \in Jobs, NEW c \in Cases, Insert(j, c)
      PROVE  Known'
    BY <1>6 DEF Inv, TypeOK, Known, Insert
<1>7. ASSUME NEW j \in Jobs, Unblock(j)
      PROVE  Known'
    BY <1>7 DEF Inv, TypeOK, Known, Unblock
<1>8. ASSUME NEW j \in Jobs, NEW p \in {"done", "dead", "lost", Redelivery(j)},
             EndSession(j, p), phase[j] \in InSession, UNCHANGED <<requests, tries>>,
             status' = status \/ status' \in {"COMPLETED", "FAILED"}
      PROVE  Known'
    <2>1. p \in {"done", "dead", "lost", "queued"}
        BY DEF Redelivery
    <2> QED
        BY <1>8, <2>1 DEF Inv, TypeOK, Known, EndSession
<1>9. ASSUME NEW j \in Jobs, Finish(j) \/ FailEarly(j) \/ FailLate(j)
      PROVE  Known'
    <2>1. PICK p \in {"done", Redelivery(j)} : EndSession(j, p)
        BY <1>9 DEF Finish, FailEarly, FailLate
    <2>2. /\ phase[j] \in InSession /\ UNCHANGED <<requests, tries>>
          /\ status' = status \/ status' \in {"COMPLETED", "FAILED"}
        BY <1>9 DEF Finish, FailEarly, FailLate, Overwrite
    <2> QED
        BY <2>1, <2>2, <1>8
<1>10. ASSUME NEW j \in Jobs, Interrupt(j) \/ Crash(j)
       PROVE  Known'
    BY <1>10, <1>8 DEF Interrupt, Crash
<1>11. CASE UNCHANGED vars
    BY <1>11 DEF Known, vars
<1> QED
    BY <1>1, <1>2, <1>3, <1>4, <1>5, <1>6, <1>7, <1>9, <1>10, <1>11 DEF Next, Run

(* While one job is alone, no other is in a session, and no lock is held by
   another. *)
LEMMA OthersAway ==
    ASSUME SoleInv, Sole, NEW j \in Jobs, tries[j] > 0
    PROVE  \A k \in Jobs : k # j => phase[k] \notin InSession /\ mine[k] = {}
BY DEF SoleInv, Inv, Holding, Writing, Known, Sole, InSession

LEMMA SoleRequests ==
    ASSUME SoleInv, SoleJob,
           \/ Create \/ QueueCreatedFails \/ CheckCancel \/ CommitCancel \/ Recovery
           \/ \E j \in Jobs : QueueCreated(j) \/ Start(j)
    PROVE  /\ SoleJob'
           /\ Contract!ContractNext \/ UNCHANGED <<status, Committed>>
<1> USE DEF row, requests, sessions, Terminal
<1>1. CASE Create
    <2>1. status = "NONE" /\ UNCHANGED Committed
        BY <1>1 DEF SoleInv, Known, Create, Committed
    <2>2. \A j \in Jobs : phase[j] \notin InSession
        BY <1>1 DEF SoleInv, Known, Create, InSession
    <2>3. SoleJob'
        BY <1>1, <2>1, <2>2 DEF SoleJob, Create
    <2> QED
        BY <1>1, <2>1, <2>3 DEF Create, Contract!ContractNext, Contract!Create
<1>2. CASE QueueCreatedFails \/ CheckCancel
    BY <1>2 DEF SoleJob, Counted, Alone, QueueCreatedFails, CheckCancel, Committed
<1>3. CASE CommitCancel
    <2>1. status # "NONE" /\ UNCHANGED Committed
        BY <1>3 DEF SoleInv, Known, CommitCancel, Committed
    <2>2. SoleJob'
        BY <1>3 DEF SoleJob, Alone, CommitCancel
    <2> QED
        BY <1>3, <2>1, <2>2 DEF CommitCancel, Contract!ContractNext, Contract!Cancel
<1>4. CASE Recovery
    BY <1>4 DEF SoleJob, Counted, Alone, Committed, Recovery, Age, CheckStale, Stale, CommitStale
<1>5. ASSUME NEW j \in Jobs, QueueCreated(j) \/ Start(j)
      PROVE  SoleJob' /\ UNCHANGED <<status, Committed>>
    <2>1. SoleJob'
        BY <1>5, ZenonT(30) DEF Counted, SoleInv, Inv, TypeOK, SoleJob, Alone, QueueCreated, Start, Queue, InSession
    <2> QED
        BY <1>5, <2>1 DEF QueueCreated, Start, Queue, Committed
<1> QED
    BY <1>1, <1>2, <1>3, <1>4, <1>5

LEMMA SoleWork ==
    ASSUME SoleInv, Sole, SoleJob, NEW j \in Jobs, Sole',
           Load(j) \/ MarkRunning(j) \/ Execute(j)
    PROVE  /\ SoleJob'
           /\ Contract!ContractNext \/ UNCHANGED <<status, Committed>>
<1> USE DEF row, requests, sessions, Terminal
<1>1. CASE Load(j)
    <2>1. tries'[j] > 0
        BY <1>1, EvaluationAssumption DEF SoleInv, Inv, TypeOK, Load
    <2>2. \A k \in Jobs : k # j => phase[k] \notin InSession
        <3>1. \A k \in Jobs : k # j => tries'[k] = tries[k]
            BY <1>1 DEF SoleInv, Inv, TypeOK, Load
        <3> QED
            BY <2>1, <3>1 DEF SoleInv, Known, Sole
    <2>3. status \in {"QUEUED", "RUNNING"} \cup Terminal
        BY <1>1 DEF SoleInv, Inv, TypeOK, Status, Known, Load
    <2>4. phase'[j] \in InSession => Alone(j)'
        BY <1>1, <2>3 DEF SoleInv, Inv, TypeOK, SoleJob, Alone, Load, LoadedPhase, InSession
    <2>5. SoleJob'
        BY <1>1, <2>2, <2>4 DEF Counted, SoleInv, Inv, TypeOK, SoleJob, Load
    <2> QED
        BY <1>1, <2>5 DEF Load, Committed
<1>2. CASE MarkRunning(j)
    <2>1. Alone(j) /\ tries[j] > 0 /\ phase[j] = "loaded"
        BY <1>2 DEF SoleInv, SoleJob, Known, MarkRunning, InSession
    <2>2. \A k \in Jobs : k # j => phase[k] \notin InSession
        BY <2>1, OthersAway
    <2>3. SoleJob'
        BY <1>2, <2>1, <2>2 DEF SoleInv, Inv, TypeOK, SoleJob, Alone, MarkRunning
    <2> QED
        BY <1>2, <2>1, <2>3
        DEF Alone, MarkRunning, Committed, Contract!ContractNext, Contract!Begin
<1>3. CASE Execute(j)
    <2>1. Alone(j) /\ tries[j] > 0 /\ phase[j] = "started"
        BY <1>3 DEF SoleInv, SoleJob, Known, Execute, InSession
    <2>2. \A k \in Jobs : k # j => phase[k] \notin InSession
        BY <2>1, OthersAway
    <2>3. phase' \in {[phase EXCEPT ![j] = "persisting"], [phase EXCEPT ![j] = "failing"]}
        BY <1>3 DEF Execute
    <2>4. SoleJob'
        BY <1>3, <2>1, <2>2, <2>3 DEF SoleInv, Inv, TypeOK, SoleJob, Alone, Execute
    <2> QED
        BY <1>3, <2>4 DEF Execute, Committed
<1> QED
    BY <1>1, <1>2, <1>3

(* An INSERT of a sole job never waits: only its own rows are uncommitted, and it
   inserts no case twice. *)
LEMMA SoleInsert ==
    ASSUME SoleInv, Sole, SoleJob, NEW j \in Jobs,
           (\E c \in Cases : Insert(j, c)) \/ Unblock(j)
    PROVE  SoleJob' /\ UNCHANGED <<status, Committed>>
<1> USE DEF row, requests, sessions
<1>1. Alone(j) /\ tries[j] > 0 /\ ~Unblock(j)
    BY DEF SoleInv, SoleJob, Known, Alone, Insert, Unblock, InSession
<1>2. PICK c \in Cases : Insert(j, c)
    BY <1>1
<1>3. \A k \in Jobs : k # j => phase[k] \notin InSession /\ mine[k] = {}
    BY <1>1, OthersAway
<1>4. ~Held(c) /\ c \notin Committed
    BY <1>1, <1>2, <1>3 DEF SoleInv, Known, Held, Insert, Alone, Committed
<1>5. UNCHANGED <<status, heartbeat, counts, results, recoverer, phase, seen>>
    BY <1>2, <1>4 DEF Insert
<1> QED
    BY <1>5 DEF SoleJob, Counted, Alone, Committed

(* What a sole job publishes covers a whole set of cases at once. *)
LEMMA SolePublishes ==
    ASSUME Inv, NEW j \in Jobs, phase[j] = "persisting", todo[j] = {},
           results = {}, results' = results \cup Rows(j)
    PROVE  Committed' \in {Cases} \cup (IF StopOnError THEN (SUBSET Cases) \ {{}} ELSE {})
<1>1. Committed' = DOMAIN outcomes[j]
    <2>1. mine[j] = DOMAIN outcomes[j]
        BY DEF Inv, Holding, Covering
    <2>2. Committed = {}
        BY DEF Committed
    <2> QED
        BY <2>1, <2>2, Publish
<1>2. DOMAIN outcomes[j] \in SUBSET Cases
    BY DEF Inv, TypeOK, Outcomes
<1>3. Produced(outcomes[j])
    BY DEF Inv, Holding, Writing
<1> QED
    BY <1>1, <1>2, <1>3 DEF Produced

(* One row for each case of a set. *)
RowsOf(S, j, f) == {[case |-> c, job |-> j, status |-> f[c]] : c \in S}

LEMMA RowEach ==
    ASSUME NEW S \in SUBSET Cases, NEW j, NEW f
    PROVE  Cardinality(RowsOf(S, j, f)) = Cardinality(S)
<1> DEFINE T == RowsOf(S, j, f)
           g == [c \in S |-> [case |-> c, job |-> j, status |-> f[c]]]
<1>1. g \in [S -> T] /\ (\A c, d \in S : g[c] = g[d] => c = d)
    BY DEF RowsOf
<1>2. \A t \in T : \E c \in S : g[c] = t
    BY DEF RowsOf
<1>3. ExistsBijection(S, T)
    <2>1. g \in Bijection(S, T)
        BY <1>1, <1>2, Fun_IsBij
    <2> QED
        BY <2>1 DEF ExistsBijection
<1>4. IsFiniteSet(S)
    BY FS_Subset, EvaluationAssumption
<1> QED
    BY <1>3, <1>4, FS_Bijection

(* The rows a sole job publishes are as many as its outcomes, and as many of them
   passed. *)
LEMMA SoleCounts ==
    ASSUME Inv, NEW j \in Jobs, phase[j] = "persisting", todo[j] = {},
           results = {}, results' = results \cup Rows(j)
    PROVE  /\ Cardinality(results') = Cardinality(DOMAIN outcomes[j])
           /\ Cardinality({r \in results' : r.status = "PASS"}) = Passed(outcomes[j])
<1> DEFINE f == outcomes[j]
           P == {c \in DOMAIN f : f[c] = "PASS"}
           R(S) == RowsOf(S, j, f)
<1>1. DOMAIN f \in SUBSET Cases
    BY DEF Inv, TypeOK, Outcomes
<1>2. results' = R(DOMAIN f)
    <2>1. mine[j] = DOMAIN f
        BY DEF Inv, Holding, Covering
    <2> QED
        BY <2>1 DEF Rows, RowsOf
<1>3. {r \in results' : r.status = "PASS"} = R(P)
    BY <1>2 DEF RowsOf
<1>4. Cardinality(R(DOMAIN f)) = Cardinality(DOMAIN f)
    BY <1>1, RowEach
<1>5. Cardinality(R(P)) = Cardinality(P)
    BY <1>1, RowEach
<1> QED
    BY <1>2, <1>3, <1>4, <1>5 DEF Passed

LEMMA SoleEnds ==
    ASSUME SoleInv, Sole, SoleJob, NEW j \in Jobs,
           Finish(j) \/ FailEarly(j) \/ FailLate(j) \/ Interrupt(j) \/ Crash(j)
    PROVE  /\ SoleJob'
           /\ Contract!ContractNext \/ UNCHANGED <<status, Committed>>
<1> USE DEF row, requests
<1>1. phase[j] \in InSession
    BY DEF Finish, FailEarly, FailLate, Interrupt, Crash, InSession
<1>2. Alone(j) /\ tries[j] > 0
    BY <1>1 DEF SoleInv, SoleJob, Known
<1>3. \A k \in Jobs : k # j => phase[k] \notin InSession
    BY <1>2, OthersAway
<1>4. PICK p \in {"done", "dead", "lost", "queued"} : EndSession(j, p)
    BY DEF Finish, FailEarly, FailLate, Interrupt, Crash, Redelivery
<1>5. \A k \in Jobs : phase'[k] \notin InSession
    BY <1>3, <1>4 DEF EndSession, SoleInv, Inv, TypeOK, InSession
<1>6. CASE Finish(j) \/ FailLate(j)
    <2>1. /\ phase[j] = "persisting" /\ todo[j] = {} /\ results' = results \cup Rows(j)
          /\ UNCHANGED recoverer
        BY <1>6 DEF Finish, FailLate
    <2>2. seen[j] \in {"RUNNING", "CANCELLED"} /\ status \in {"RUNNING", "CANCELLED"} /\ results = {}
        BY <1>2, <2>1 DEF Alone
    <2>3. status' \in {"COMPLETED", "FAILED"}
        BY <1>6, <2>2 DEF Finish, FailLate, Overwrite
    <2>4. SoleJob'
        <3>1. CASE Finish(j)
            <4>1. /\ counts'.completed = Cardinality(DOMAIN outcomes[j])
                  /\ counts'.passed = Passed(outcomes[j])
                BY <3>1 DEF Finish, Recorded
            <4>2. Counted'
                BY <2>1, <2>2, <4>1, SoleCounts DEF Counted, SoleInv
            <4> QED
                BY <2>1, <2>3, <1>5, <4>2 DEF SoleJob, Terminal
        <3>2. CASE FailLate(j)
            <4>1. status' = "FAILED"
                BY <3>2, <2>2 DEF FailLate, Overwrite
            <4> QED
                BY <2>1, <4>1, <1>5 DEF SoleJob, Terminal
        <3> QED
            BY <1>6, <3>1, <3>2
    <2>5. Committed = {}
        BY <2>2 DEF Committed
    <2>6. Contract!Publish
        BY <2>1, <2>2, <2>3, <2>5, SolePublishes DEF Contract!Publish, SoleInv
    <2> QED
        BY <2>4, <2>6 DEF Contract!ContractNext
<1>7. CASE FailEarly(j)
    <2>1. phase[j] = "failing" /\ UNCHANGED <<heartbeat, results, recoverer>>
        BY <1>7 DEF FailEarly
    <2>2. seen[j] \in {"RUNNING", "CANCELLED"} /\ status \in {"RUNNING", "CANCELLED"} /\ results = {}
        BY <1>2, <2>1 DEF Alone
    <2>3. status' = "FAILED"
        BY <1>7, <2>2 DEF FailEarly, Overwrite
    <2>4. SoleJob'
        BY <2>1, <2>3, <1>5 DEF SoleJob, Terminal
    <2>5. Committed = {} /\ UNCHANGED Committed
        BY <2>1, <2>2 DEF Committed
    <2>6. Contract!BreakOff
        BY <2>2, <2>3, <2>5 DEF Contract!BreakOff
    <2> QED
        BY <2>4, <2>6 DEF Contract!ContractNext
<1>8. CASE Interrupt(j) \/ Crash(j)
    <2>1. UNCHANGED <<status, heartbeat, counts, results, recoverer>>
        BY <1>8 DEF Interrupt, Crash
    <2> QED
        BY <2>1, <1>5 DEF SoleJob, Counted, Committed, Terminal
<1> QED
    BY <1>6, <1>7, <1>8

LEMMA SoleStep ==
    ASSUME SoleInv, [Next]_vars, Sole'
    PROVE  /\ SoleJob'
           /\ Contract!ContractNext \/ UNCHANGED <<status, Committed>>
<1>1. Sole
    BY SoleBefore DEF SoleInv, Inv
<1>2. SoleJob
    BY <1>1 DEF SoleInv
<1>3. CASE UNCHANGED vars
    BY <1>2, <1>3 DEF SoleJob, Counted, Alone, Committed, Terminal, vars, row, requests, sessions
<1>4. CASE Next
    BY <1>1, <1>2, <1>4, SoleRequests, SoleWork, SoleInsert, SoleEnds DEF Next, Run
<1> QED
    BY <1>3, <1>4

LEMMA SoleInvHolds == Spec => []SoleInv
<1>1. SoleInv /\ [Next]_vars => SoleInv'
    BY NextPreserves, KnownPreserved, SoleStep DEF SoleInv
<1> QED
    BY <1>1, SoleInit, PTL DEF Spec

(* The counters shown for a COMPLETED run that one job executed, however often it
   was delivered, are those of its rows. *)
THEOREM CountsAreOfRows == Spec => []CountsMatchRows
<1>1. SoleInv => CountsMatchRows
    BY DEF SoleInv, SoleJob, Counted, CountsMatchRows
<1> QED
    BY <1>1, SoleInvHolds, PTL

(* A run cancelled before any job has begun with it stays cancelled and is never
   executed, whatever the queue still holds: a job that arrives finds a terminal
   status and a stale-run recovery no RUNNING row. *)
THEOREM CancellationSticksBeforeStart == Spec => CancelledBeforeStart
<1>1. ASSUME SoleInv, [Next]_vars, status = "CANCELLED", Idle
      PROVE  status' = "CANCELLED" /\ results' = results /\ Idle'
    <2> USE DEF row, requests, sessions, Idle, InSession
    <2>1. CASE Create \/ QueueCreatedFails \/ CheckCancel \/ CommitCancel \/ Recovery
        BY <1>1, <2>1 DEF SoleInv, Known, Create, QueueCreatedFails, CheckCancel, CommitCancel,
           Recovery, Age, CheckStale, Stale, CommitStale
    <2>2. ASSUME NEW j \in Jobs, QueueCreated(j) \/ Start(j)
          PROVE  status' = "CANCELLED" /\ results' = results /\ Idle'
        BY <1>1, <2>2 DEF SoleInv, Inv, TypeOK, QueueCreated, Start, Queue
    <2>3. ASSUME NEW j \in Jobs, Load(j)
          PROVE  status' = "CANCELLED" /\ results' = results /\ Idle'
        BY <1>1, <2>3 DEF SoleInv, Inv, TypeOK, Load, LoadedPhase, Terminal
    <2>4. ASSUME NEW j \in Jobs
          PROVE  /\ ~MarkRunning(j) /\ ~Execute(j) /\ ~(\E c \in Cases : Insert(j, c))
                 /\ ~Unblock(j) /\ ~Finish(j) /\ ~FailEarly(j) /\ ~FailLate(j)
                 /\ ~Interrupt(j) /\ ~Crash(j)
        BY <1>1 DEF MarkRunning, Execute, Insert, Unblock, Finish, FailEarly, FailLate,
           Interrupt, Crash
    <2>5. CASE UNCHANGED vars
        BY <1>1, <2>5 DEF vars
    <2> QED
        BY <1>1, <2>1, <2>2, <2>3, <2>4, <2>5 DEF Next, Run
<1>2. SoleInv /\ [Next]_vars =>
          [status = "CANCELLED" /\ Idle =>
              status' = "CANCELLED" /\ results' = results /\ Idle']_vars
    BY <1>1
<1> QED
    BY <1>2, SoleInvHolds, PTL DEF Spec, CancelledBeforeStart

(* Readers of a run that one job executes, through its retries, crashes and
   cancellations, see EvaluationContract: its results appear at once and whole, in
   the step that ends it, and a delivery that breaks off shows nothing; and a run
   that is cancelled while no job has it stays so, however many are queued. *)
THEOREM ContractImplemented == Spec => ImplementsContract
<1>1. Init => Contract!ContractInit
    BY DEF Init, Contract!ContractInit, Committed
<1>2. SoleInv /\ [Next]_vars =>
          [Sole' => Contract!ContractNext \/ UNCHANGED <<status, Committed>>]_vars
    BY SoleStep
<1> QED
    BY <1>1, <1>2, SoleInvHolds, CancellationSticksBeforeStart, PTL DEF Spec, ImplementsContract
=============================================================================
