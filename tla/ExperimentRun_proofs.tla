------------------------ MODULE ExperimentRun_proofs -------------------------
(***************************************************************************)
(* Proofs about the runs of experiments and of benchmarks: ExperimentRun    *)
(* for any number of runs, users, CI calls, slots, attempts and faults, and  *)
(* BenchmarkRun for any number of runs, candidates, attempts and faults.     *)
(***************************************************************************)
EXTENDS CommandLine, FiniteSetTheorems, TLAPS

(* A run is absent until the one request that starts it has committed it. *)
Started ==
    \A r \in Runs :
        /\ run[r].status = "absent" =>
              job[r].stage = "none" /\ verdict[r] = "none" /\ cancel[r].stage = "idle"
        /\ ci[r].stage \in {"idle", "looked", "created"} => run[r].status = "absent"

(* Only calls of create_ci_run have CI rows; a row is inserted before it is
   linked. *)
CIRows ==
    \A r \in Runs :
        /\ ci[r].stage = "none" <=> r \notin scope.calls
        /\ ci[r].stage \in {"inserted", "linked"} => ci[r].status # "none"
        /\ ci[r].outcome = "PASS" => verdict[r] # "none"

OneRowPerKey ==
    \A q, r \in scope.calls :
        ci[q].status # "none" /\ ci[r].status # "none" /\ IdemKey[q] = IdemKey[r] => q = r

(* The run refers to evaluations that completed, or had completed or could still
   complete when a cancellation read them. *)
Compared(r) ==
    /\ run[r].pair
    /\ \A e \in Pair(r) : evals[e] = "COMPLETED" \/ e \in cancel[r].hits

(* The delivery refers to its pair from the moment it polls, compares it when it
   decides, and a run that was decided stays compared: nothing runs after it. *)
Deciding ==
    \A r \in Runs :
        /\ cancel[r].stage = "idle" => cancel[r].hits = {}
        /\ cancel[r].hits \subseteq Pair(r)
        /\ job[r].stage = "poll" => run[r].pair
        /\ job[r].stage = "decide" => Compared(r)
        /\ verdict[r] # "none" => Compared(r) /\ job[r].stage = "done"
        /\ run[r].status = "COMPLETED" => verdict[r] # "none"

(* After an early cancellation no delivery gets hold of a copy of the row: one
   that polls sees CANCELLED, and only a delivery that is over can have failed
   the run. *)
EarlyHeld ==
    \A r \in early : /\ job[r].stage \notin {"loaded", "decide"}
                     /\ run[r].status = "FAILED" => job[r].stage = "done"

ExperimentInv ==
    /\ ExperimentTypeOK /\ Started /\ CIRows /\ OneRowPerKey
    /\ Deciding /\ EarlyHeld /\ EarlyCancelSticks
-----------------------------------------------------------------------------
-----------------------------------------------------------------------------
(* Each step changes one field or two of one row: what becomes of the rows. *)
LEMMA RunRows ==
    ASSUME run \in [Runs -> RunRow], NEW r \in Runs, NEW s \in RunStatus,
           run' = [run EXCEPT ![r].status = s]
    PROVE  /\ run' \in [Runs -> RunRow]
           /\ \A q \in Runs : run'[q].pair = run[q].pair
           /\ \A q \in Runs : run'[q].status = IF q = r THEN s ELSE run[q].status
<1>1. PICK t \in RunStatus, p \in BOOLEAN : run[r] = [status |-> t, pair |-> p]
    BY DEF RunRow
<1>2. [run[r] EXCEPT !.status = s] = [status |-> s, pair |-> p]
    BY <1>1
<1>3. [status |-> s, pair |-> p] \in RunRow
    BY DEF RunRow
<1> QED
    BY <1>1, <1>2, <1>3

LEMMA PairRows ==
    ASSUME run \in [Runs -> RunRow], NEW r \in Runs, NEW p \in BOOLEAN,
           run' = [run EXCEPT ![r].pair = p]
    PROVE  /\ run' \in [Runs -> RunRow]
           /\ \A q \in Runs : run'[q].status = run[q].status
           /\ \A q \in Runs : run'[q].pair = IF q = r THEN p ELSE run[q].pair
<1>1. PICK t \in RunStatus, o \in BOOLEAN : run[r] = [status |-> t, pair |-> o]
    BY DEF RunRow
<1>2. [run[r] EXCEPT !.pair = p] = [status |-> t, pair |-> p]
    BY <1>1
<1>3. [status |-> t, pair |-> p] \in RunRow
    BY DEF RunRow
<1> QED
    BY <1>1, <1>2, <1>3

LEMMA JobRecord ==
    ASSUME NEW x \in JobRow, NEW s, NEW u, NEW v
    PROVE  [x EXCEPT !.stage = s, !.seen = u, !.seenExp = v]
              = [stage |-> s, attempt |-> x.attempt, seen |-> u, seenExp |-> v]
<1>1. PICK t \in JobStage, n \in 0 .. MaxAttempts, y \in RunStatus, z \in ExpStatus :
         x = [stage |-> t, attempt |-> n, seen |-> y, seenExp |-> z]
    BY DEF JobRow
<1>2. [x EXCEPT !.stage = s] = [stage |-> s, attempt |-> n, seen |-> y, seenExp |-> z]
    BY <1>1
<1>3. [[stage |-> s, attempt |-> n, seen |-> y, seenExp |-> z] EXCEPT !.seen = u]
         = [stage |-> s, attempt |-> n, seen |-> u, seenExp |-> z]
    OBVIOUS
<1>4. [[stage |-> s, attempt |-> n, seen |-> u, seenExp |-> z] EXCEPT !.seenExp = v]
         = [stage |-> s, attempt |-> n, seen |-> u, seenExp |-> v]
    OBVIOUS
<1> QED
    BY <1>1, <1>2, <1>3, <1>4

LEMMA StageRows ==
    ASSUME job \in [Runs -> JobRow], NEW r \in Runs, NEW s \in JobStage, Stage(r, s)
    PROVE  /\ job' \in [Runs -> JobRow]
           /\ \A q \in Runs : job'[q].stage = IF q = r THEN s ELSE job[q].stage
<1>1. job[r] \in JobRow /\ "absent" \in RunStatus /\ "absent" \in ExpStatus
    BY DEF RunStatus, ExpStatus
<1>2. job' = [job EXCEPT ![r] = [job[r] EXCEPT !.stage = s, !.seen = "absent", !.seenExp = "absent"]]
    BY DEF Stage
<1>3. [stage |-> s, attempt |-> job[r].attempt, seen |-> "absent", seenExp |-> "absent"] \in JobRow
    BY <1>1 DEF JobRow
<1> QED
    BY <1>1, <1>2, <1>3, JobRecord

LEMMA CallRows ==
    ASSUME ci \in [Runs -> CIRow], NEW r \in Runs, NEW s \in CIStage,
           ci' = [ci EXCEPT ![r].stage = s]
    PROVE  /\ ci' \in [Runs -> CIRow]
           /\ \A q \in Runs : ci'[q].status = ci[q].status /\ ci'[q].outcome = ci[q].outcome
           /\ \A q \in Runs : ci'[q].stage = IF q = r THEN s ELSE ci[q].stage
<1>1. PICK t \in CIStage, u \in {"none", "RUNNING", "COMPLETED", "FAILED"}, v \in {"none", "PASS", "FAIL"} :
         ci[r] = [stage |-> t, status |-> u, outcome |-> v]
    BY DEF CIRow
<1>2. [ci[r] EXCEPT !.stage = s] = [stage |-> s, status |-> u, outcome |-> v]
    BY <1>1
<1>3. [stage |-> s, status |-> u, outcome |-> v] \in CIRow
    BY DEF CIRow
<1> QED
    BY <1>1, <1>2, <1>3

LEMMA ResolveRows ==
    ASSUME ci \in [Runs -> CIRow], NEW r \in Runs, NEW s \in {"COMPLETED", "FAILED"},
           NEW o \in {"PASS", "FAIL"}, Resolve(r, s, o)
    PROVE  /\ ci' \in [Runs -> CIRow]
           /\ \A q \in Runs : q # r \/ ci[q].stage # "linked" => ci'[q] = ci[q]
           /\ \A q \in Runs : ci'[q].stage = ci[q].stage
           /\ ci[r].stage = "linked" => ci'[r].status = s /\ ci'[r].outcome = o
<1>1. PICK t \in CIStage, u \in {"none", "RUNNING", "COMPLETED", "FAILED"}, v \in {"none", "PASS", "FAIL"} :
         ci[r] = [stage |-> t, status |-> u, outcome |-> v]
    BY DEF CIRow
<1>2. [ci[r] EXCEPT !.status = s] = [stage |-> t, status |-> s, outcome |-> v]
    BY <1>1
<1>3. [[stage |-> t, status |-> s, outcome |-> v] EXCEPT !.outcome = o]
         = [stage |-> t, status |-> s, outcome |-> o]
    OBVIOUS
<1>4. ci' = [ci EXCEPT ![r] = IF ci[r].stage = "linked"
                              THEN [stage |-> t, status |-> s, outcome |-> o] ELSE ci[r]]
    BY <1>2, <1>3 DEF Resolve
<1>5. [stage |-> t, status |-> s, outcome |-> o] \in CIRow /\ ci[r] \in CIRow
    BY DEF CIRow
<1> QED
    BY <1>1, <1>4, <1>5

LEMMA ExperimentInitInv == ExperimentInit => ExperimentInv
<1> SUFFICES ASSUME ExperimentInit
             PROVE  ExperimentInv
    OBVIOUS
<1> USE DEF ExperimentInit, Delivery
<1>1. ExperimentTypeOK
    BY ExperimentAssumption DEF ExperimentTypeOK, RunRow, CancelCall, JobRow, EvalStatus, CIRow,
       RunStatus, ExpStatus, JobStage, CIStage, InSlot
<1>2. Started
    BY DEF Started
<1>3. CIRows /\ OneRowPerKey
    <2>1. ASSUME NEW r \in Runs
          PROVE  /\ ci[r].stage = IF r \in scope.calls THEN "idle" ELSE "none"
                 /\ ci[r].status = "none" /\ ci[r].outcome = "none"
        BY <1>1 DEF ExperimentTypeOK
    <2>2. scope.calls \subseteq Runs
        BY ExperimentAssumption
    <2> QED
        BY <2>1, <2>2 DEF CIRows, OneRowPerKey
<1>4. Deciding
    BY DEF Deciding
<1>5. EarlyHeld /\ EarlyCancelSticks
    BY DEF EarlyHeld, EarlyCancelSticks
<1> QED
    BY <1>1, <1>2, <1>3, <1>4, <1>5 DEF ExperimentInv

(* start_run and create_ci_run make the one run that is not there yet. *)
LEMMA StartedRunPreserves ==
    ASSUME ExperimentInv, NEW r \in Runs, StartedRun(r),
           UNCHANGED <<scope, cancel, evals, verdict, early, expFaults>>,
           ci' \in [Runs -> CIRow], CIRows', OneRowPerKey',
           \A q \in Runs : ci'[q].stage = IF q = r THEN ci'[r].stage ELSE ci[q].stage,
           ci'[r].stage \notin {"idle", "looked", "created"}
    PROVE  ExperimentInv'
<1>1. ExperimentTypeOK /\ Started /\ Deciding /\ EarlyHeld /\ EarlyCancelSticks
    BY DEF ExperimentInv
<1>2. /\ run' \in [Runs -> RunRow]
      /\ \A q \in Runs : run'[q].pair = run[q].pair
      /\ \A q \in Runs : run'[q].status = IF q = r THEN "QUEUED" ELSE run[q].status
    BY <1>1, RunRows, "QUEUED" \in RunStatus DEF StartedRun, ExperimentTypeOK, RunStatus
<1>3. /\ job' \in [Runs -> JobRow]
      /\ \A q \in Runs : job'[q].stage = IF q = r THEN "unsent" ELSE job[q].stage
    BY <1>1, StageRows, "unsent" \in JobStage DEF StartedRun, ExperimentTypeOK, JobStage
<1>4. exp' \in [Runs -> ExpStatus] /\ \A q \in Runs : q # r => exp'[q] = exp[q]
    BY <1>1 DEF StartedRun, ExperimentTypeOK, ExpStatus
<1>5. ExperimentTypeOK'
    BY <1>1, <1>2, <1>3, <1>4 DEF ExperimentTypeOK
<1>6. run[r].status = "absent" /\ verdict[r] = "none" /\ r \notin early /\ early \subseteq Runs
    BY <1>1 DEF Started, StartedRun, EarlyCancelSticks, ExperimentTypeOK
<1>7. Started'
    BY <1>1, <1>2, <1>3, <1>6 DEF Started
<1>8. Deciding'
    BY <1>1, <1>2, <1>3, <1>6 DEF Deciding, Compared
<1>9. EarlyHeld' /\ EarlyCancelSticks'
    BY <1>1, <1>2, <1>3, <1>4, <1>6, SMTT(30) DEF EarlyHeld, EarlyCancelSticks
<1> QED
    BY <1>5, <1>7, <1>8, <1>9 DEF ExperimentInv

(* Users create, start, cancel and delete. *)
LEMMA UsersPreserve ==
    ASSUME ExperimentInv, NEW r \in Runs,
           CreateExperiment(r) \/ StartRun(r) \/ CancelRead(r) \/ CancelCommit(r) \/ DeleteExperiment(r)
    PROVE  ExperimentInv'
<1>1. ExperimentTypeOK /\ Started /\ CIRows /\ OneRowPerKey /\ Deciding /\ EarlyHeld /\ EarlyCancelSticks
    BY DEF ExperimentInv
<1>2. CASE CreateExperiment(r)
    <2>1. exp' \in [Runs -> ExpStatus] /\ \A q \in Runs : q # r => exp'[q] = exp[q]
        BY <1>1, <1>2 DEF CreateExperiment, ExperimentTypeOK, ExpStatus
    <2>2. ExperimentTypeOK'
        BY <1>1, <1>2, <2>1 DEF CreateExperiment, ExperimentTypeOK
    <2>3. EarlyCancelSticks'
        BY <1>1, <1>2, <2>1 DEF CreateExperiment, EarlyCancelSticks, ExperimentTypeOK
    <2>4. Started' /\ CIRows' /\ OneRowPerKey' /\ Deciding' /\ EarlyHeld'
        BY <1>1, <1>2 DEF CreateExperiment, Started, CIRows, OneRowPerKey, Deciding, Compared, EarlyHeld
    <2> QED
        BY <2>2, <2>3, <2>4 DEF ExperimentInv
<1>3. CASE StartRun(r)
    <2>1. r \notin scope.calls
        BY <1>1, <1>3, ExperimentAssumption DEF StartRun, ExperimentTypeOK
    <2>2. StartedRun(r) /\ UNCHANGED <<scope, cancel, evals, ci, verdict, early, expFaults>>
        BY <1>3 DEF StartRun
    <2>3. ci' \in [Runs -> CIRow] /\ CIRows' /\ OneRowPerKey'
        BY <1>1, <2>2 DEF CIRows, OneRowPerKey, ExperimentTypeOK
    <2>4. ci'[r].stage = "none"
        BY <1>1, <2>1, <2>2 DEF CIRows
    <2> QED
        BY <2>2, <2>3, <2>4, StartedRunPreserves
<1>4. CASE CancelRead(r)
    <2>1. /\ cancel' \in [Runs -> CancelCall]
          /\ \A q \in Runs \ {r} : cancel'[q] = cancel[q]
          /\ cancel'[r].stage = "open" /\ cancel[r].stage = "idle"
        BY <1>1, <1>4 DEF CancelRead, ExperimentTypeOK, CancelCall, Pair
    <2>2. ExperimentTypeOK'
        BY <1>1, <1>4, <2>1 DEF CancelRead, ExperimentTypeOK
    <2>3. Deciding'
        <3>1. \A q \in Runs : cancel'[q].stage = "idle" => cancel'[q].hits = {}
            BY <1>1, <2>1 DEF Deciding
        <3>2. \A q \in Runs : Compared(q) => Compared(q)'
            BY <1>1, <1>4, <2>1 DEF Deciding, Compared, CancelRead
        <3> QED
            BY <1>1, <1>4, <3>1, <3>2 DEF Deciding, CancelRead
    <2>4. Started' /\ CIRows' /\ OneRowPerKey' /\ EarlyHeld' /\ EarlyCancelSticks'
        BY <1>1, <1>4 DEF CancelRead, Started, CIRows, OneRowPerKey, EarlyHeld, EarlyCancelSticks
    <2> QED
        BY <2>2, <2>3, <2>4 DEF ExperimentInv
<1>5. CASE CancelCommit(r)
    <2>1. /\ run' \in [Runs -> RunRow]
          /\ \A q \in Runs : run'[q].pair = run[q].pair
          /\ \A q \in Runs : run'[q].status = IF q = r THEN "CANCELLED" ELSE run[q].status
        BY <1>1, <1>5, RunRows, "CANCELLED" \in RunStatus
           DEF CancelCommit, ExperimentTypeOK, RunStatus, Terminal
    <2>2. /\ cancel' \in [Runs -> CancelCall]
          /\ \A q \in Runs : cancel'[q].hits = cancel[q].hits
          /\ \A q \in Runs : cancel'[q].stage = IF q = r THEN "done" ELSE cancel[q].stage
        BY <1>1, <1>5 DEF CancelCommit, ExperimentTypeOK, CancelCall
    <2>3. exp' \in [Runs -> ExpStatus] /\ \A q \in Runs : exp'[q] = IF q = r THEN "CANCELLED" ELSE exp[q]
        BY <1>1, <1>5 DEF CancelCommit, ExperimentTypeOK, ExpStatus, Terminal
    <2>4. /\ evals' \in [Evaluations -> EvalStatus]
          /\ \A e \in Evaluations : e \notin cancel[r].hits => evals'[e] = evals[e]
        BY <1>1, <1>5 DEF CancelCommit, ExperimentTypeOK, EvalStatus, Terminal
    <2>5. ExperimentTypeOK'
        BY <1>1, <1>5, <2>1, <2>2, <2>3, <2>4 DEF CancelCommit, ExperimentTypeOK
    <2>6. run[r].status # "absent" /\ cancel[r].stage = "open"
        BY <1>1, <1>5 DEF CancelCommit, Started
    <2>7. Started' /\ CIRows' /\ OneRowPerKey'
        BY <1>1, <1>5, <2>1, <2>2, <2>6 DEF CancelCommit, Started, CIRows, OneRowPerKey
    <2>8. Deciding'
        <3>1. \A q \in Runs : Compared(q) => Compared(q)'
            BY <1>1, <2>1, <2>2, <2>4 DEF Deciding, Compared, Pair
        <3>2. \A q \in Runs : /\ cancel'[q].stage = "idle" => cancel'[q].hits = {}
                               /\ cancel'[q].hits \subseteq Pair(q)
            BY <1>1, <2>2 DEF Deciding
        <3> QED
            BY <1>1, <1>5, <2>1, <3>1, <3>2 DEF Deciding, CancelCommit, Pair
    <2>9. EarlyHeld' /\ EarlyCancelSticks'
        BY <1>1, <1>5, <2>1, <2>3 DEF CancelCommit, EarlyHeld, EarlyCancelSticks, ExperimentTypeOK
    <2> QED
        BY <2>5, <2>7, <2>8, <2>9 DEF ExperimentInv
<1>6. CASE DeleteExperiment(r)
    <2> DEFINE s == IF run[r].status = "absent" THEN "absent" ELSE "DELETED"
               t == IF ci[r].stage = "linked" THEN "ended" ELSE ci[r].stage
    <2>1. /\ run' \in [Runs -> RunRow]
          /\ \A q \in Runs : run'[q].pair = run[q].pair
          /\ \A q \in Runs : run'[q].status = IF q = r THEN s ELSE run[q].status
        <3>1. run' = [run EXCEPT ![r].status = s]
            BY <1>6 DEF DeleteExperiment
        <3>2. s \in RunStatus
            BY DEF RunStatus
        <3> HIDE DEF s
        <3> QED
            BY <1>1, <3>1, <3>2, RunRows DEF ExperimentTypeOK
    <2>2. exp' \in [Runs -> ExpStatus] /\ \A q \in Runs : exp'[q] = IF q = r THEN "absent" ELSE exp[q]
        BY <1>1, <1>6 DEF DeleteExperiment, ExperimentTypeOK, ExpStatus
    <2>3. /\ ci' \in [Runs -> CIRow]
          /\ \A q \in Runs : ci'[q].status = ci[q].status /\ ci'[q].outcome = ci[q].outcome
          /\ \A q \in Runs : ci'[q].stage = IF q = r THEN t ELSE ci[q].stage
        <3>1. ci' = [ci EXCEPT ![r].stage = t]
            BY <1>6 DEF DeleteExperiment
        <3>2. t \in CIStage
            BY <1>1 DEF CIStage, CIRow, ExperimentTypeOK
        <3> HIDE DEF t
        <3> QED
            BY <1>1, <3>1, <3>2, CallRows DEF ExperimentTypeOK
    <2>4. ExperimentTypeOK'
        BY <1>1, <1>6, <2>1, <2>2, <2>3 DEF DeleteExperiment, ExperimentTypeOK
    <2>5. Started'
        BY <1>1, <1>6, <2>1, <2>3 DEF DeleteExperiment, Started
    <2>6. CIRows' /\ OneRowPerKey'
        BY <1>1, <1>6, <2>3, ExperimentAssumption DEF DeleteExperiment, CIRows, OneRowPerKey, ExperimentTypeOK
    <2>7. Deciding'
        BY <1>1, <1>6, <2>1 DEF DeleteExperiment, Deciding, Compared
    <2>8. EarlyHeld' /\ EarlyCancelSticks'
        BY <1>1, <1>6, <2>1, <2>2 DEF DeleteExperiment, EarlyHeld, EarlyCancelSticks, ExperimentTypeOK
    <2> QED
        BY <2>4, <2>5, <2>6, <2>7, <2>8 DEF ExperimentInv
<1> QED
    BY <1>2, <1>3, <1>4, <1>5, <1>6
-----------------------------------------------------------------------------
(* A step that compares nothing: it completes no run, and brings no delivery to
   its polling or its decision. *)
LEMMA PlainStep ==
    ASSUME ExperimentInv, ExperimentTypeOK', CIRows', EarlyHeld', EarlyCancelSticks',
           UNCHANGED <<scope, cancel, evals, verdict, early>>,
           \A q \in Runs :
              /\ run'[q].pair = run[q].pair
              /\ run'[q].status = "absent" <=> run[q].status = "absent"
              /\ run'[q].status = "COMPLETED" => run[q].status = "COMPLETED"
              /\ job'[q].stage = job[q].stage \/
                    /\ job[q].stage \notin {"none", "done"}
                    /\ job'[q].stage \notin {"none", "poll", "decide"}
              /\ ci'[q].status = "none" <=> ci[q].status = "none"
              /\ ci'[q].stage \in {"idle", "looked", "created"} => ci'[q].stage = ci[q].stage
    PROVE  ExperimentInv'
<1>1. ExperimentTypeOK /\ Started /\ OneRowPerKey /\ Deciding
    BY DEF ExperimentInv
<1>2. Started'
    BY <1>1 DEF Started
<1>3. OneRowPerKey'
    BY <1>1, ExperimentAssumption DEF OneRowPerKey, ExperimentTypeOK
<1>4. \A q \in Runs : Compared(q) => Compared(q)'
    BY DEF Compared
<1>5. Deciding'
    BY <1>1, <1>4 DEF Deciding
<1> QED
    BY <1>2, <1>3, <1>5 DEF ExperimentInv

LEMMA SendPreserves ==
    ASSUME ExperimentInv, NEW r \in Runs, Send(r) \/ SendLost(r)
    PROVE  ExperimentInv'
<1>1. ExperimentTypeOK /\ Started /\ CIRows /\ EarlyHeld /\ EarlyCancelSticks /\ early \subseteq Runs
    BY DEF ExperimentInv, ExperimentTypeOK
<1>2. CASE Send(r)
    <2>1. /\ job' \in [Runs -> JobRow]
          /\ \A q \in Runs : job'[q].stage = IF q = r THEN "queued" ELSE job[q].stage
        <3>1. PICK t \in JobStage, n \in 0 .. MaxAttempts, y \in RunStatus, z \in ExpStatus :
                 job[r] = [stage |-> t, attempt |-> n, seen |-> y, seenExp |-> z]
            BY <1>1 DEF JobRow, ExperimentTypeOK
        <3>2. [job[r] EXCEPT !.stage = "queued"] = [stage |-> "queued", attempt |-> n, seen |-> y, seenExp |-> z]
            BY <3>1
        <3>3. [[stage |-> "queued", attempt |-> n, seen |-> y, seenExp |-> z] EXCEPT !.attempt = 1]
                 = [stage |-> "queued", attempt |-> 1, seen |-> y, seenExp |-> z]
            OBVIOUS
        <3>4. [stage |-> "queued", attempt |-> 1, seen |-> y, seenExp |-> z] \in JobRow
            BY ExperimentAssumption DEF JobRow, JobStage
        <3>5. job' = [job EXCEPT ![r] = [stage |-> "queued", attempt |-> 1, seen |-> y, seenExp |-> z]]
            BY <1>1, <1>2, <3>2, <3>3 DEF Send, ExperimentTypeOK
        <3> QED
            BY <1>1, <3>4, <3>5 DEF ExperimentTypeOK
    <2>2. ExperimentTypeOK'
        BY <1>1, <1>2, <2>1 DEF Send, ExperimentTypeOK
    <2>3. CIRows' /\ EarlyHeld' /\ EarlyCancelSticks'
        BY <1>1, <1>2, <2>1 DEF Send, CIRows, EarlyHeld, EarlyCancelSticks
    <2> QED
        BY <1>2, <2>1, <2>2, <2>3, PlainStep DEF Send
<1>3. CASE SendLost(r)
    <2> DEFINE t == IF ci[r].stage = "inserted" THEN "ended" ELSE ci[r].stage
    <2>1. /\ job' \in [Runs -> JobRow]
          /\ \A q \in Runs : job'[q].stage = IF q = r THEN "lost" ELSE job[q].stage
        BY <1>1, <1>3, StageRows, "lost" \in JobStage DEF SendLost, ExperimentTypeOK, JobStage
    <2>2. /\ ci' \in [Runs -> CIRow]
          /\ \A q \in Runs : ci'[q].status = ci[q].status /\ ci'[q].outcome = ci[q].outcome
          /\ \A q \in Runs : ci'[q].stage = IF q = r THEN t ELSE ci[q].stage
        <3>1. ci' = [ci EXCEPT ![r].stage = t]
            BY <1>3 DEF SendLost
        <3>2. t \in CIStage
            BY <1>1 DEF CIStage, CIRow, ExperimentTypeOK
        <3> HIDE DEF t
        <3> QED
            BY <1>1, <3>1, <3>2, CallRows DEF ExperimentTypeOK
    <2>3. expFaults' \in Nat
        BY <1>1, <1>3 DEF SendLost, ExpFault, ExperimentTypeOK
    <2>4. ExperimentTypeOK'
        BY <1>1, <1>3, <2>1, <2>2, <2>3 DEF SendLost, ExperimentTypeOK
    <2>5. CIRows' /\ EarlyHeld' /\ EarlyCancelSticks'
        BY <1>1, <1>3, <2>1, <2>2 DEF SendLost, CIRows, EarlyHeld, EarlyCancelSticks
    <2>6. job[r].stage = "unsent"
        BY <1>3 DEF SendLost
    <2> QED
        BY <1>3, <2>1, <2>2, <2>4, <2>5, <2>6, PlainStep DEF SendLost
<1> QED
    BY <1>2, <1>3

(* Recovery and the start of a delivery. *)
LEMMA TakePreserves ==
    ASSUME ExperimentInv, NEW r \in Runs, Take(r)
    PROVE  ExperimentInv'
<1>1. ExperimentTypeOK /\ Started /\ CIRows /\ EarlyHeld /\ EarlyCancelSticks /\ early \subseteq Runs
    BY DEF ExperimentInv, ExperimentTypeOK
<1>2. PICK dead \in SUBSET {q \in Runs : Stale(q)} : Recovered(dead)
    BY DEF Take
<1>3. /\ run' \in [Runs -> RunRow]
      /\ \A q \in Runs : run'[q].pair = run[q].pair
      /\ \A q \in Runs : run'[q].status = IF q \in dead THEN "FAILED" ELSE run[q].status
    <2>1. \A q \in Runs : run'[q] = IF q \in dead THEN [run[q] EXCEPT !.status = "FAILED"] ELSE run[q]
        BY <1>2 DEF Recovered
    <2>2. run' = [q \in Runs |-> run'[q]]
        BY <1>2 DEF Recovered
    <2>3. ASSUME NEW q \in Runs
          PROVE  /\ run'[q] \in RunRow /\ run'[q].pair = run[q].pair
                 /\ run'[q].status = IF q \in dead THEN "FAILED" ELSE run[q].status
        <3>1. run[q] \in RunRow
            BY <1>1 DEF ExperimentTypeOK
        <3> QED
            BY <2>1, <3>1 DEF RunRow, RunStatus, Terminal
    <2> QED
        BY <2>2, <2>3
<1>4. exp' \in [Runs -> ExpStatus] /\ \A q \in Runs : exp'[q] = IF q \in dead THEN "FAILED" ELSE exp[q]
    BY <1>1, <1>2 DEF Recovered, ExperimentTypeOK, ExpStatus, Terminal
<1>5. \A q \in dead : run[q].status = "RUNNING" /\ q \in Runs
    BY <1>2 DEF Stale
<1>6. /\ job' \in [Runs -> JobRow]
      /\ \A q \in Runs \ {r} : job'[q] = job[q]
      /\ job[r].stage = "queued"
      /\ job'[r].stage \in {"loaded", "done"}
      /\ job'[r].stage = "loaded" => run'[r].status \in {"QUEUED", "RUNNING"}
    <2>1. job[r] \in JobRow /\ run'[r].status \in RunStatus /\ exp'[r] \in ExpStatus
        BY <1>1, <1>3, <1>4 DEF ExperimentTypeOK, RunRow
    <2>2. CASE run'[r].status \in {"QUEUED", "RUNNING"}
        <3>1. job' = [job EXCEPT ![r] = [job[r] EXCEPT !.stage = "loaded", !.seen = run'[r].status,
                                                       !.seenExp = exp'[r]]]
            BY <2>2 DEF Take
        <3>2. [stage |-> "loaded", attempt |-> job[r].attempt, seen |-> run'[r].status,
               seenExp |-> exp'[r]] \in JobRow
            BY <2>1 DEF JobRow, JobStage, InSlot
        <3>3. job' = [job EXCEPT ![r] = [stage |-> "loaded", attempt |-> job[r].attempt,
                                         seen |-> run'[r].status, seenExp |-> exp'[r]]]
            BY <2>1, <3>1, JobRecord, ZenonT(30)
        <3>4. job[r].stage = "queued"
            BY DEF Take
        <3> QED
            BY <1>1, <2>2, <3>2, <3>3, <3>4 DEF ExperimentTypeOK
    <2>3. CASE run'[r].status \notin {"QUEUED", "RUNNING"}
        <3>1. job' = [job EXCEPT ![r] = Delivery("done", job[r].attempt)]
            BY <2>3 DEF Take
        <3>2. Delivery("done", job[r].attempt) \in JobRow
            BY <2>1 DEF JobRow, Delivery, JobStage, RunStatus, ExpStatus
        <3> QED
            BY <1>1, <2>3, <3>1, <3>2 DEF Take, ExperimentTypeOK, Delivery
    <2> QED
        BY <2>2, <2>3
<1>7. ExperimentTypeOK'
    BY <1>1, <1>3, <1>4, <1>6 DEF Take, ExperimentTypeOK
<1>8. CIRows'
    BY <1>1 DEF Take, CIRows
<1>9. \A q \in early : q \notin dead /\ run'[q].status = run[q].status /\ exp'[q] = exp[q]
    BY <1>1, <1>3, <1>4, <1>5 DEF EarlyCancelSticks
<1>10. EarlyHeld' /\ EarlyCancelSticks'
    BY <1>1, <1>6, <1>9 DEF Take, EarlyHeld, EarlyCancelSticks
<1> QED
    BY <1>3, <1>5, <1>6, <1>7, <1>8, <1>10, PlainStep DEF Take
-----------------------------------------------------------------------------
(* A delivery marks the run, and looks at a run that was cancelled. *)
LEMMA MarkPreserves ==
    ASSUME ExperimentInv, NEW r \in Runs, MarkRunning(r) \/ PollCancelled(r)
    PROVE  ExperimentInv'
<1>1. ExperimentTypeOK /\ Started /\ CIRows /\ Deciding /\ EarlyHeld /\ EarlyCancelSticks /\ early \subseteq Runs
    BY DEF ExperimentInv, ExperimentTypeOK
<1>2. CASE MarkRunning(r)
    <2> DEFINE s == Overwrite(job[r].seen, "RUNNING", run[r].status)
    <2>0. job[r].stage = "loaded"
        BY <1>2 DEF MarkRunning, Present
    <2>1. /\ run' \in [Runs -> RunRow]
          /\ \A q \in Runs : run'[q].pair = run[q].pair
          /\ \A q \in Runs : run'[q].status = IF q = r THEN s ELSE run[q].status
        <3>1. run' = [run EXCEPT ![r].status = s]
            BY <1>2 DEF MarkRunning
        <3>2. s \in RunStatus
            BY <1>1 DEF Overwrite, RunStatus, RunRow, ExperimentTypeOK
        <3> HIDE DEF s
        <3> QED
            BY <1>1, <3>1, <3>2, RunRows DEF ExperimentTypeOK
    <2>2. /\ job' \in [Runs -> JobRow]
          /\ \A q \in Runs : job'[q].stage = IF q = r THEN "baseline" ELSE job[q].stage
        BY <1>1, <1>2, StageRows, "baseline" \in JobStage DEF MarkRunning, ExperimentTypeOK, JobStage, InSlot
    <2>3. exp' \in [Runs -> ExpStatus] /\ \A q \in Runs : q # r => exp'[q] = exp[q]
        BY <1>1, <1>2 DEF MarkRunning, Overwrite, ExperimentTypeOK, ExpStatus
    <2>4. ExperimentTypeOK'
        BY <1>1, <1>2, <2>1, <2>2, <2>3 DEF MarkRunning, ExperimentTypeOK
    <2>5. CIRows'
        BY <1>1, <1>2 DEF MarkRunning, CIRows
    <2>6. r \notin early
        BY <1>1, <2>0 DEF EarlyHeld
    <2>7. EarlyHeld' /\ EarlyCancelSticks'
        BY <1>1, <1>2, <2>1, <2>2, <2>3, <2>6 DEF MarkRunning, EarlyHeld, EarlyCancelSticks
    <2>8. run[r].status # "absent" /\ s \in {"RUNNING", run[r].status}
        BY <1>1, <2>0 DEF Started, Overwrite
    <2> HIDE DEF s
    <2> QED
        BY <1>2, <2>0, <2>1, <2>2, <2>4, <2>5, <2>7, <2>8, PlainStep DEF MarkRunning
<1>3. CASE PollCancelled(r)
    <2>1. /\ job' \in [Runs -> JobRow]
          /\ \A q \in Runs : job'[q].stage = IF q = r THEN "done" ELSE job[q].stage
        BY <1>1, <1>3, StageRows, "done" \in JobStage DEF PollCancelled, ExperimentTypeOK, JobStage
    <2>2. ExperimentTypeOK' /\ CIRows'
        BY <1>1, <1>3, <2>1 DEF PollCancelled, ExperimentTypeOK, CIRows
    <2>3. EarlyHeld' /\ EarlyCancelSticks'
        BY <1>1, <1>3, <2>1 DEF PollCancelled, EarlyHeld, EarlyCancelSticks
    <2>4. job[r].stage = "poll"
        BY <1>3 DEF PollCancelled, Present
    <2> QED
        BY <1>3, <2>1, <2>2, <2>3, <2>4, PlainStep DEF PollCancelled
<1> QED
    BY <1>2, <1>3

(* The two evaluations and their ids. *)
LEMMA CreatePreserves ==
    ASSUME ExperimentInv, NEW r \in Runs, CreateBaseline(r) \/ CreateCandidate(r) \/ StoreIds(r)
    PROVE  ExperimentInv'
<1>1. /\ ExperimentTypeOK /\ Started /\ CIRows /\ OneRowPerKey /\ Deciding
      /\ EarlyHeld /\ EarlyCancelSticks /\ early \subseteq Runs
    BY DEF ExperimentInv, ExperimentTypeOK
<1>2. \A q \in Runs, e \in Evaluations :
         e \in Pair(q) /\ q # r => e # <<r, "BASELINE">> /\ e # <<r, "CANDIDATE">>
    BY DEF Pair
<1>3. <<r, "BASELINE">> \in Evaluations /\ <<r, "CANDIDATE">> \in Evaluations
    BY DEF Evaluations
<1>4. CASE CreateBaseline(r)
    <2>0. job[r].stage = "baseline" /\ UNCHANGED <<scope, exp, ci, verdict, early, expFaults>>
        BY <1>4 DEF CreateBaseline, Present
    <2>1. /\ run' \in [Runs -> RunRow]
          /\ \A q \in Runs : run'[q].status = run[q].status
          /\ \A q \in Runs : run'[q].pair = IF q = r THEN FALSE ELSE run[q].pair
        BY <1>1, <1>4, PairRows, FALSE \in BOOLEAN DEF CreateBaseline, ExperimentTypeOK
    <2>2. /\ job' \in [Runs -> JobRow]
          /\ \A q \in Runs : job'[q].stage = IF q = r THEN "candidate" ELSE job[q].stage
        BY <1>1, <1>4, StageRows, "candidate" \in JobStage DEF CreateBaseline, ExperimentTypeOK, JobStage, InSlot
    <2>3. /\ evals' \in [Evaluations -> EvalStatus]
          /\ \A e \in Evaluations : e # <<r, "BASELINE">> /\ e # <<r, "CANDIDATE">> => evals'[e] = evals[e]
        BY <1>1, <1>3, <1>4 DEF CreateBaseline, ExperimentTypeOK, EvalStatus
    <2>4. /\ cancel' \in [Runs -> CancelCall]
          /\ \A q \in Runs : cancel'[q].hits = IF q = r THEN {} ELSE cancel[q].hits
          /\ \A q \in Runs : cancel'[q].stage = cancel[q].stage
        BY <1>1, <1>4 DEF CreateBaseline, ExperimentTypeOK, CancelCall
    <2>5. ExperimentTypeOK'
        BY <1>1, <2>0, <2>1, <2>2, <2>3, <2>4 DEF ExperimentTypeOK
    <2>6. Started'
        BY <1>1, <2>0, <2>1, <2>2, <2>4 DEF Started
    <2>7. CIRows' /\ OneRowPerKey' /\ EarlyHeld' /\ EarlyCancelSticks'
        BY <1>1, <2>0, <2>1, <2>2 DEF CIRows, OneRowPerKey, EarlyHeld, EarlyCancelSticks
    <2>8. \A q \in Runs : q # r /\ Compared(q) => Compared(q)'
        BY <1>2, <2>1, <2>3, <2>4 DEF Compared, Pair
    <2>9. Deciding'
        <3>1. verdict[r] = "none"
            BY <1>1, <2>0 DEF Deciding
        <3>2. run'[r].status # "COMPLETED"
            BY <1>1, <2>1, <3>1 DEF Deciding
        <3>3. ASSUME NEW q \in Runs
              PROVE  /\ cancel'[q].stage = "idle" => cancel'[q].hits = {}
                     /\ cancel'[q].hits \subseteq Pair(q)
            BY <1>1, <2>0, <2>4 DEF Deciding
        <3>4. ASSUME NEW q \in Runs, q # r
              PROVE  /\ job'[q].stage = "poll" => run'[q].pair
                     /\ job'[q].stage = "decide" => Compared(q)'
                     /\ verdict'[q] # "none" => Compared(q)' /\ job'[q].stage = "done"
                     /\ run'[q].status = "COMPLETED" => verdict'[q] # "none"
            BY <1>1, <2>0, <2>1, <2>2, <2>8, <3>4 DEF Deciding
        <3>5. /\ job'[r].stage = "poll" => run'[r].pair
              /\ job'[r].stage # "decide" /\ verdict'[r] = "none"
            BY <2>0, <2>1, <2>2, <3>1
        <3> QED
            BY <3>2, <3>3, <3>4, <3>5 DEF Deciding, Pair
    <2> QED
        BY <2>5, <2>6, <2>7, <2>9 DEF ExperimentInv
<1>5. CASE CreateCandidate(r)
    <2>0. job[r].stage = "candidate" /\ UNCHANGED <<scope, run, cancel, exp, ci, verdict, early, expFaults>>
        BY <1>5 DEF CreateCandidate, Present
    <2>1. /\ job' \in [Runs -> JobRow]
          /\ \A q \in Runs : job'[q].stage = IF q = r THEN "store" ELSE job[q].stage
        BY <1>1, <1>5, StageRows, "store" \in JobStage DEF CreateCandidate, ExperimentTypeOK, JobStage, InSlot
    <2>2. /\ evals' \in [Evaluations -> EvalStatus]
          /\ \A e \in Evaluations : e # <<r, "CANDIDATE">> => evals'[e] = evals[e]
        BY <1>1, <1>3, <1>5 DEF CreateCandidate, ExperimentTypeOK, EvalStatus
    <2>3. ExperimentTypeOK'
        BY <1>1, <2>0, <2>1, <2>2 DEF ExperimentTypeOK
    <2>4. Started' /\ CIRows' /\ OneRowPerKey' /\ EarlyHeld' /\ EarlyCancelSticks'
        BY <1>1, <2>0, <2>1 DEF Started, CIRows, OneRowPerKey, EarlyHeld, EarlyCancelSticks
    <2>5. \A q \in Runs : q # r /\ Compared(q) => Compared(q)'
        BY <1>2, <2>0, <2>2 DEF Compared, Pair
    <2>6. Deciding'
        BY <1>1, <2>0, <2>1, <2>5 DEF Deciding, Pair
    <2> QED
        BY <2>3, <2>4, <2>6 DEF ExperimentInv
<1>6. CASE StoreIds(r)
    <2>0. job[r].stage = "store" /\ UNCHANGED <<scope, cancel, exp, evals, ci, verdict, early, expFaults>>
        BY <1>6 DEF StoreIds, Present
    <2>1. /\ run' \in [Runs -> RunRow]
          /\ \A q \in Runs : run'[q].status = run[q].status
          /\ \A q \in Runs : run'[q].pair = IF q = r THEN TRUE ELSE run[q].pair
        BY <1>1, <1>6, PairRows, TRUE \in BOOLEAN DEF StoreIds, ExperimentTypeOK
    <2>2. /\ job' \in [Runs -> JobRow]
          /\ \A q \in Runs : job'[q].stage = IF q = r THEN "poll" ELSE job[q].stage
        BY <1>1, <1>6, StageRows, "poll" \in JobStage DEF StoreIds, ExperimentTypeOK, JobStage, InSlot
    <2>3. ExperimentTypeOK'
        BY <1>1, <2>0, <2>1, <2>2 DEF ExperimentTypeOK
    <2>4. Started' /\ CIRows' /\ OneRowPerKey' /\ EarlyHeld' /\ EarlyCancelSticks'
        BY <1>1, <2>0, <2>1, <2>2 DEF Started, CIRows, OneRowPerKey, EarlyHeld, EarlyCancelSticks
    <2>5. \A q \in Runs : q # r /\ Compared(q) => Compared(q)'
        BY <2>0, <2>1 DEF Compared, Pair
    <2>6. Deciding'
        <3>1. verdict[r] = "none"
            BY <1>1, <2>0 DEF Deciding
        <3>2. run'[r].status # "COMPLETED"
            BY <1>1, <2>1, <3>1 DEF Deciding
        <3>3. ASSUME NEW q \in Runs
              PROVE  /\ cancel'[q].stage = "idle" => cancel'[q].hits = {}
                     /\ cancel'[q].hits \subseteq Pair(q)
            BY <1>1, <2>0 DEF Deciding
        <3>4. ASSUME NEW q \in Runs, q # r
              PROVE  /\ job'[q].stage = "poll" => run'[q].pair
                     /\ job'[q].stage = "decide" => Compared(q)'
                     /\ verdict'[q] # "none" => Compared(q)' /\ job'[q].stage = "done"
                     /\ run'[q].status = "COMPLETED" => verdict'[q] # "none"
            BY <1>1, <2>0, <2>1, <2>2, <2>5, <3>4 DEF Deciding
        <3>5. /\ job'[r].stage = "poll" => run'[r].pair
              /\ job'[r].stage # "decide" /\ verdict'[r] = "none"
            BY <2>0, <2>1, <2>2, <3>1
        <3> QED
            BY <3>2, <3>3, <3>4, <3>5 DEF Deciding, Pair
    <2> QED
        BY <2>3, <2>4, <2>6 DEF ExperimentInv
<1> QED
    BY <1>4, <1>5, <1>6

(* The comparison: both evaluations have completed when the delivery decides. *)
LEMMA DecidePreserves ==
    ASSUME ExperimentInv, NEW r \in Runs, PollCompleted(r) \/ Finish(r)
    PROVE  ExperimentInv'
<1>1. /\ ExperimentTypeOK /\ Started /\ CIRows /\ OneRowPerKey /\ Deciding
      /\ EarlyHeld /\ EarlyCancelSticks /\ early \subseteq Runs
    BY DEF ExperimentInv, ExperimentTypeOK
<1>2. CASE PollCompleted(r)
    <2>0. /\ job[r].stage = "poll" /\ UNCHANGED <<scope, cancel, run, exp, evals, ci, verdict, early, expFaults>>
          /\ run[r].status \notin {"CANCELLED", "DELETED"} /\ PairCompleted(r)
        BY <1>2 DEF PollCompleted, Present
    <2>1. /\ job' \in [Runs -> JobRow]
          /\ \A q \in Runs : job'[q].stage = IF q = r THEN "decide" ELSE job[q].stage
        <3>1. job[r] \in JobRow /\ run[r].status \in RunStatus /\ exp[r] \in ExpStatus
            BY <1>1 DEF ExperimentTypeOK, RunRow
        <3>2. job' = [job EXCEPT ![r] = [job[r] EXCEPT !.stage = "decide", !.seen = run[r].status,
                                                       !.seenExp = exp[r]]]
            BY <1>2 DEF PollCompleted
        <3>3. job' = [job EXCEPT ![r] = [stage |-> "decide", attempt |-> job[r].attempt,
                                         seen |-> run[r].status, seenExp |-> exp[r]]]
            BY <3>1, <3>2, JobRecord, ZenonT(30)
        <3>4. [stage |-> "decide", attempt |-> job[r].attempt, seen |-> run[r].status,
               seenExp |-> exp[r]] \in JobRow
            BY <3>1 DEF JobRow, JobStage, InSlot
        <3> QED
            BY <1>1, <3>3, <3>4 DEF ExperimentTypeOK
    <2>2. ExperimentTypeOK'
        BY <1>1, <2>0, <2>1 DEF ExperimentTypeOK
    <2>3. r \notin early
        BY <1>1, <2>0 DEF EarlyHeld, EarlyCancelSticks
    <2>4. Started' /\ CIRows' /\ OneRowPerKey' /\ EarlyHeld' /\ EarlyCancelSticks'
        BY <1>1, <2>0, <2>1, <2>3 DEF Started, CIRows, OneRowPerKey, EarlyHeld, EarlyCancelSticks
    <2>5. Compared(r)
        BY <1>1, <2>0 DEF Deciding, Compared, PairCompleted
    <2>6. \A q \in Runs : Compared(q) => Compared(q)'
        BY <2>0 DEF Compared, Pair
    <2>7. Deciding'
        BY <1>1, <2>0, <2>1, <2>5, <2>6 DEF Deciding, Pair
    <2> QED
        BY <2>2, <2>4, <2>7 DEF ExperimentInv
<1>3. CASE Finish(r)
    <2> DEFINE s == Overwrite(job[r].seen, "COMPLETED", run[r].status)
    <2>0. job[r].stage = "decide" /\ UNCHANGED <<scope, cancel, evals, early, expFaults>>
        BY <1>3 DEF Finish, Present
    <2>1. /\ run' \in [Runs -> RunRow]
          /\ \A q \in Runs : run'[q].pair = run[q].pair
          /\ \A q \in Runs : run'[q].status = IF q = r THEN s ELSE run[q].status
        <3>1. run' = [run EXCEPT ![r].status = s]
            BY <1>3 DEF Finish
        <3>2. s \in RunStatus
            BY <1>1 DEF Overwrite, RunStatus, RunRow, Terminal, ExperimentTypeOK
        <3> HIDE DEF s
        <3> QED
            BY <1>1, <3>1, <3>2, RunRows DEF ExperimentTypeOK
    <2>2. /\ job' \in [Runs -> JobRow]
          /\ \A q \in Runs : job'[q].stage = IF q = r THEN "done" ELSE job[q].stage
        BY <1>1, <1>3, StageRows, "done" \in JobStage DEF Finish, ExperimentTypeOK, JobStage
    <2>3. PICK gate \in Gate :
             /\ verdict' = [verdict EXCEPT ![r] = gate]
             /\ exp' = [exp EXCEPT ![r] = Overwrite(job[r].seenExp,
                        CASE StoredGates(r, gate) = "PASS" -> "COMPLETED"
                          [] StoredGates(r, gate) = "FAIL" -> "FAILED"
                          [] OTHER -> "INCONCLUSIVE", exp[r])]
             /\ Resolve(r, "COMPLETED", IF StoredGates(r, gate) = "FAIL" THEN "FAIL" ELSE "PASS")
        BY <1>3 DEF Finish
    <2>4. exp' \in [Runs -> ExpStatus] /\ \A q \in Runs : q # r => exp'[q] = exp[q]
        BY <1>1, <2>3 DEF Overwrite, ExperimentTypeOK, ExpStatus, Terminal
    <2>5. PICK o \in {"PASS", "FAIL"} : Resolve(r, "COMPLETED", o)
        BY <2>3
    <2>6. /\ ci' \in [Runs -> CIRow]
          /\ \A q \in Runs : q # r \/ ci[q].stage # "linked" => ci'[q] = ci[q]
          /\ \A q \in Runs : ci'[q].stage = ci[q].stage
          /\ ci[r].stage = "linked" => ci'[r].status = "COMPLETED" /\ ci'[r].outcome = o
        BY <1>1, <2>5, ResolveRows DEF ExperimentTypeOK
    <2>7. /\ verdict' \in [Runs -> Gate \cup {"none"}] /\ verdict'[r] # "none"
          /\ \A q \in Runs : q # r => verdict'[q] = verdict[q]
        BY <1>1, <2>3 DEF ExperimentTypeOK, Gate
    <2>8. ExperimentTypeOK'
        BY <1>1, <2>0, <2>1, <2>2, <2>4, <2>6, <2>7 DEF ExperimentTypeOK
    <2>9. run[r].status # "absent" /\ s # "absent"
        BY <1>1, <2>0 DEF Started, Overwrite
    <2>10. r \notin early
        BY <1>1, <2>0 DEF EarlyHeld
    <2> HIDE DEF s
    <2>11. Started'
        BY <1>1, <2>0, <2>1, <2>2, <2>6, <2>7, <2>9 DEF Started
    <2>12. CIRows'
        BY <1>1, <2>0, <2>6, <2>7 DEF CIRows
    <2>13. OneRowPerKey'
        <3>1. \A q \in Runs : ci'[q].status # "none" => ci[q].status # "none"
            BY <1>1, <2>6 DEF CIRows
        <3> QED
            BY <1>1, <2>0, <3>1, ExperimentAssumption DEF OneRowPerKey, ExperimentTypeOK
    <2>14. EarlyHeld' /\ EarlyCancelSticks'
        BY <1>1, <2>0, <2>1, <2>2, <2>4, <2>10 DEF EarlyHeld, EarlyCancelSticks
    <2>15. \A q \in Runs : Compared(q) => Compared(q)'
        BY <2>0, <2>1 DEF Compared, Pair
    <2>16. Deciding'
        BY <1>1, <2>0, <2>1, <2>2, <2>7, <2>15 DEF Deciding, Pair
    <2> QED
        BY <2>8, <2>11, <2>12, <2>13, <2>14, <2>16 DEF ExperimentInv
<1> QED
    BY <1>2, <1>3

(* Failures, time-outs and crashes end or requeue a delivery. *)
LEMMA FailPreserves ==
    ASSUME ExperimentInv, NEW r \in Runs, Fail(r)
    PROVE  ExperimentInv'
<1>1. /\ ExperimentTypeOK /\ Started /\ CIRows /\ Deciding
      /\ EarlyHeld /\ EarlyCancelSticks /\ early \subseteq Runs
    BY DEF ExperimentInv, ExperimentTypeOK
<1>2. /\ job[r].stage \in Executing /\ UNCHANGED <<scope, cancel, evals, verdict, early>>
      /\ expFaults' \in Nat
    BY <1>1 DEF Fail, ExpFault, ExperimentTypeOK
<1>3. /\ run' \in [Runs -> RunRow]
      /\ \A q \in Runs : run'[q].pair = run[q].pair
      /\ \A q \in Runs : run'[q].status = IF q = r THEN "FAILED" ELSE run[q].status
    BY <1>1, RunRows, "FAILED" \in RunStatus DEF Fail, ExperimentTypeOK, RunStatus, Terminal
<1>4. exp' \in [Runs -> ExpStatus] /\ \A q \in Runs : exp'[q] = IF q = r THEN "FAILED" ELSE exp[q]
    BY <1>1 DEF Fail, ExperimentTypeOK, ExpStatus, Terminal
<1>5. /\ job' \in [Runs -> JobRow]
      /\ \A q \in Runs : job'[q].stage = IF q = r THEN "done" ELSE job[q].stage
    BY <1>1, StageRows, "done" \in JobStage DEF Fail, ExperimentTypeOK, JobStage
<1>6. /\ ci' \in [Runs -> CIRow]
      /\ \A q \in Runs : q # r \/ ci[q].stage # "linked" => ci'[q] = ci[q]
      /\ \A q \in Runs : ci'[q].stage = ci[q].stage
      /\ ci[r].stage = "linked" => ci'[r].status = "FAILED" /\ ci'[r].outcome = "FAIL"
    BY <1>1, ResolveRows DEF Fail, ExperimentTypeOK
<1>7. ExperimentTypeOK'
    BY <1>1, <1>2, <1>3, <1>4, <1>5, <1>6 DEF ExperimentTypeOK
<1>8. CIRows'
    BY <1>1, <1>2, <1>6 DEF CIRows
<1>9. EarlyHeld' /\ EarlyCancelSticks'
    BY <1>1, <1>2, <1>3, <1>4, <1>5 DEF EarlyHeld, EarlyCancelSticks
<1>10. job[r].stage \notin {"none", "done"} /\ run[r].status # "absent"
    BY <1>1, <1>2 DEF Executing, InSlot, Started
<1>11. \A q \in Runs : ci'[q].status = "none" <=> ci[q].status = "none"
    BY <1>1, <1>6 DEF CIRows
<1> QED
    BY <1>2, <1>3, <1>5, <1>6, <1>7, <1>8, <1>9, <1>10, <1>11, PlainStep

LEMMA InterruptPreserves ==
    ASSUME ExperimentInv, Crash \/ \E r \in Runs : Interrupt(r)
    PROVE  ExperimentInv'
<1>1. /\ ExperimentTypeOK /\ CIRows /\ EarlyHeld /\ EarlyCancelSticks /\ early \subseteq Runs
    BY DEF ExperimentInv, ExperimentTypeOK
<1>2. \A q \in Runs : job[q] \in JobRow
    BY <1>1 DEF ExperimentTypeOK
<1>3. /\ UNCHANGED <<scope, cancel, run, exp, evals, ci, verdict, early>> /\ expFaults' \in Nat
    BY <1>1 DEF Crash, Interrupt, ExpFault, ExperimentTypeOK
<1>4. /\ job' \in [Runs -> JobRow]
      /\ \A q \in Runs : job'[q].stage = job[q].stage \/
            (job[q].stage \in InSlot /\ job'[q].stage \in {"queued", "dead", "lost"})
    <2>1. \A n \in 0 .. MaxAttempts, s \in {"queued", "dead", "lost"} :
             Delivery(s, n) \in JobRow /\ Delivery(s, n).stage = s
        BY DEF Delivery, JobRow, JobStage, RunStatus, ExpStatus
    <2>2. CASE Crash
        <3>1. \A q \in Runs : job[q].attempt \in 0 .. MaxAttempts
            BY <1>2 DEF JobRow
        <3>2. job' = [q \in Runs |-> IF job[q].stage \in InSlot THEN Delivery("lost", job[q].attempt)
                                                                 ELSE job[q]]
            BY <2>2 DEF Crash
        <3>3. \A q \in Runs : Delivery("lost", job[q].attempt) \in JobRow
                               /\ Delivery("lost", job[q].attempt).stage = "lost"
            BY <2>1, <3>1
        <3> QED
            <4>1. ASSUME NEW q \in Runs
                  PROVE  /\ job'[q] \in JobRow
                         /\ job'[q].stage = IF job[q].stage \in InSlot THEN "lost" ELSE job[q].stage
                <5>1. CASE job[q].stage \in InSlot
                    <6>1. job'[q] = Delivery("lost", job[q].attempt)
                        BY <3>2, <5>1
                    <6>2. job'[q].stage = "lost"
                        BY <6>1, <3>3
                    <6> QED
                        BY <5>1, <6>1, <6>2, <3>3
                <5>2. CASE job[q].stage \notin InSlot
                    <6>1. job'[q] = job[q]
                        BY <3>2, <5>2
                    <6> QED
                        BY <5>2, <6>1, <1>2
                <5> QED
                    BY <5>1, <5>2
            <4>2. job' = [q \in Runs |-> job'[q]]
                BY <3>2
            <4>3. job' \in [Runs -> JobRow]
                BY <4>1, <4>2
            <4>4. \A q \in Runs : job'[q].stage = job[q].stage \/
                     (job[q].stage \in InSlot /\ job'[q].stage \in {"queued", "dead", "lost"})
                BY <4>1
            <4> QED
                BY <4>3, <4>4
    <2>3. CASE \E r \in Runs : Interrupt(r)
        <3>1. PICK r \in Runs : Interrupt(r)
            BY <2>3
        <3>2. job[r].attempt \in 0 .. MaxAttempts
            BY <1>2 DEF JobRow
        <3>3. job[r].attempt < MaxAttempts => job[r].attempt + 1 \in 0 .. MaxAttempts
            BY <3>2, ExperimentAssumption
        <3> QED
            <4>1. PICK s \in {"queued", "dead"}, n \in 0 .. MaxAttempts :
                     job' = [job EXCEPT ![r] = Delivery(s, n)]
                BY <3>1, <3>2, <3>3 DEF Interrupt
            <4>2. Delivery(s, n) \in JobRow /\ Delivery(s, n).stage = s
                BY <2>1
            <4>3. job[r].stage \in InSlot
                BY <3>1 DEF Interrupt
            <4> QED
                <5>1. job' \in [Runs -> JobRow]
                    BY <1>1, <4>1, <4>2 DEF ExperimentTypeOK
                <5>2. job'[r] = Delivery(s, n) /\ \A q \in Runs : q # r => job'[q] = job[q]
                    BY <1>1, <4>1 DEF ExperimentTypeOK
                <5>3. job'[r].stage = s
                    BY <4>2, <5>2
                <5>4. ASSUME NEW q \in Runs
                      PROVE  job'[q].stage = job[q].stage \/
                               (job[q].stage \in InSlot /\ job'[q].stage \in {"queued", "dead", "lost"})
                    BY <4>3, <5>2, <5>3, Zenon
                <5> QED
                    BY <5>1, <5>4
    <2> QED
        BY <2>2, <2>3
<1>5. ExperimentTypeOK'
    BY <1>1, <1>3, <1>4 DEF ExperimentTypeOK
<1>6. CIRows' /\ EarlyHeld' /\ EarlyCancelSticks'
    BY <1>1, <1>3, <1>4 DEF CIRows, EarlyHeld, EarlyCancelSticks, InSlot
<1>7. \A q \in Runs : job[q].stage \in InSlot => job[q].stage \notin {"none", "done"}
    BY DEF InSlot
<1> QED
    BY <1>3, <1>4, <1>5, <1>6, <1>7, PlainStep
-----------------------------------------------------------------------------
(* The jobs of the evaluations never touch one that has completed. *)
LEMMA EvaluationsPreserve ==
    ASSUME ExperimentInv, NEW x \in Evaluations, Evaluate(x) \/ RecoverEvaluation(x)
    PROVE  ExperimentInv'
<1>1. /\ ExperimentTypeOK /\ Started /\ CIRows /\ OneRowPerKey /\ Deciding
      /\ EarlyHeld /\ EarlyCancelSticks
    BY DEF ExperimentInv
<1>2. UNCHANGED <<scope, run, cancel, exp, job, ci, verdict, early>> /\ expFaults' \in Nat
    BY <1>1 DEF Evaluate, RecoverEvaluation, ExpFault, ExperimentTypeOK
<1>3. /\ evals' \in [Evaluations -> EvalStatus]
      /\ \A e \in Evaluations : evals[e] = "COMPLETED" => evals'[e] = "COMPLETED"
    BY <1>1 DEF Evaluate, RecoverEvaluation, ExperimentTypeOK, EvalStatus, Terminal
<1>4. ExperimentTypeOK'
    BY <1>1, <1>2, <1>3 DEF ExperimentTypeOK
<1>5. Started' /\ CIRows' /\ OneRowPerKey' /\ EarlyHeld' /\ EarlyCancelSticks'
    BY <1>1, <1>2 DEF Started, CIRows, OneRowPerKey, EarlyHeld, EarlyCancelSticks
<1>6. \A q \in Runs : Compared(q) => Compared(q)'
    BY <1>2, <1>3 DEF Compared, Pair
<1>7. Deciding'
    BY <1>1, <1>2, <1>6 DEF Deciding, Pair
<1> QED
    BY <1>4, <1>5, <1>7 DEF ExperimentInv

(* The calls of create_ci_run: the unique key admits one row. *)
LEMMA CallsPreserve ==
    ASSUME ExperimentInv, NEW r \in Runs, CICall(r)
    PROVE  ExperimentInv'
<1>1. /\ ExperimentTypeOK /\ Started /\ CIRows /\ OneRowPerKey /\ Deciding
      /\ EarlyHeld /\ EarlyCancelSticks
    BY DEF ExperimentInv
<1>2. scope.calls \subseteq Runs /\ early \subseteq Runs
    BY <1>1, ExperimentAssumption DEF ExperimentTypeOK
<1>3. ASSUME NEW s \in CIStage, ci' = [ci EXCEPT ![r].stage = s], ci[r].stage # "none", s # "none",
             s \in {"inserted", "linked"} => ci[r].status # "none",
             s \in {"looked", "created"} => run[r].status = "absent", s # "idle",
             UNCHANGED <<scope, run, cancel, job, evals, verdict, early, expFaults>>,
             exp' = exp \/ (exp' = [exp EXCEPT ![r] = "DRAFT"] /\ run[r].status = "absent")
      PROVE  ExperimentInv'
    <2>1. /\ ci' \in [Runs -> CIRow]
          /\ \A q \in Runs : ci'[q].status = ci[q].status /\ ci'[q].outcome = ci[q].outcome
          /\ \A q \in Runs : ci'[q].stage = IF q = r THEN s ELSE ci[q].stage
        BY <1>1, <1>3, CallRows DEF ExperimentTypeOK
    <2>2. exp' \in [Runs -> ExpStatus] /\ \A q \in Runs : run[q].status # "absent" => exp'[q] = exp[q]
        BY <1>1, <1>3 DEF ExperimentTypeOK, ExpStatus
    <2>3. ExperimentTypeOK'
        BY <1>1, <1>3, <2>1, <2>2 DEF ExperimentTypeOK
    <2>4. Started'
        BY <1>1, <1>3, <2>1 DEF Started
    <2>5. CIRows' /\ OneRowPerKey'
        BY <1>1, <1>2, <1>3, <2>1 DEF CIRows, OneRowPerKey
    <2>6. Deciding'
        BY <1>1, <1>3 DEF Deciding, Compared
    <2>7. EarlyHeld' /\ EarlyCancelSticks'
        BY <1>1, <1>2, <1>3, <2>2 DEF EarlyHeld, EarlyCancelSticks
    <2> QED
        BY <2>3, <2>4, <2>5, <2>6, <2>7 DEF ExperimentInv
<1>4. CASE LookUpKey(r)
    <2>1. PICK s \in {"ended", "looked"} : ci' = [ci EXCEPT ![r].stage = s]
        BY <1>4 DEF LookUpKey
    <2>2. run[r].status = "absent" /\ ci[r].stage = "idle"
        BY <1>1, <1>4 DEF LookUpKey, Started
    <2> QED
        BY <1>3, <1>4, <2>1, <2>2 DEF LookUpKey, CIStage
<1>5. CASE CreateCIExperiment(r)
    <2>1. run[r].status = "absent" /\ ci[r].stage = "looked"
        BY <1>1, <1>5 DEF CreateCIExperiment, Started
    <2> QED
        BY <1>3, <1>5, <2>1, "created" \in CIStage DEF CreateCIExperiment, CIStage
<1>6. CASE InsertRefused(r)
    BY <1>3, <1>6, "ended" \in CIStage DEF InsertRefused, CIStage
<1>7. CASE LinkRun(r)
    <2>1. PICK s \in {"ended", "linked"} : ci' = [ci EXCEPT ![r].stage = s]
        BY <1>7 DEF LinkRun
    <2>2. ci[r].status # "none" /\ ci[r].stage = "inserted"
        BY <1>1, <1>7 DEF LinkRun, CIRows
    <2> QED
        BY <1>3, <1>7, <2>1, <2>2 DEF LinkRun, CIStage
<1>8. CASE InsertCI(r)
    <2>0. /\ ci[r].stage = "created" /\ ~KeyTaken(r) /\ StartedRun(r)
          /\ ci' = [ci EXCEPT ![r].stage = "inserted", ![r].status = "RUNNING"]
          /\ UNCHANGED <<scope, cancel, evals, verdict, early, expFaults>>
        BY <1>8 DEF InsertCI
    <2>1. /\ ci' \in [Runs -> CIRow]
          /\ \A q \in Runs : ci'[q].outcome = ci[q].outcome
          /\ \A q \in Runs : ci'[q].stage = IF q = r THEN "inserted" ELSE ci[q].stage
          /\ \A q \in Runs : ci'[q].status = IF q = r THEN "RUNNING" ELSE ci[q].status
        <3>1. PICK t \in CIStage, u \in {"none", "RUNNING", "COMPLETED", "FAILED"},
                   v \in {"none", "PASS", "FAIL"} : ci[r] = [stage |-> t, status |-> u, outcome |-> v]
            BY <1>1 DEF CIRow, ExperimentTypeOK
        <3>2. [ci[r] EXCEPT !.stage = "inserted"] = [stage |-> "inserted", status |-> u, outcome |-> v]
            BY <3>1
        <3>3. [[stage |-> "inserted", status |-> u, outcome |-> v] EXCEPT !.status = "RUNNING"]
                 = [stage |-> "inserted", status |-> "RUNNING", outcome |-> v]
            OBVIOUS
        <3>4. [stage |-> "inserted", status |-> "RUNNING", outcome |-> v] \in CIRow
            BY DEF CIRow, CIStage
        <3>5. ci' = [ci EXCEPT ![r] = [stage |-> "inserted", status |-> "RUNNING", outcome |-> v]]
            BY <1>1, <2>0, <3>2, <3>3 DEF ExperimentTypeOK
        <3> QED
            BY <1>1, <3>1, <3>4, <3>5 DEF ExperimentTypeOK
    <2>2. CIRows'
        BY <1>1, <2>0, <2>1 DEF CIRows
    <2>3. OneRowPerKey'
        BY <1>1, <1>2, <2>0, <2>1 DEF OneRowPerKey, KeyTaken
    <2> QED
        BY <2>0, <2>1, <2>2, <2>3, StartedRunPreserves
<1> QED
    BY <1>4, <1>5, <1>6, <1>7, <1>8 DEF CICall

LEMMA ExperimentNextPreserves == ExperimentInv /\ [ExperimentNext]_expVars => ExperimentInv'
<1> SUFFICES ASSUME ExperimentInv, [ExperimentNext]_expVars
             PROVE  ExperimentInv'
    OBVIOUS
<1>1. ASSUME NEW r \in Runs, Deliver(r)
      PROVE  ExperimentInv'
    BY <1>1, TakePreserves, MarkPreserves, CreatePreserves, DecidePreserves, FailPreserves DEF Deliver
<1>2. CASE UNCHANGED expVars
    BY <1>2 DEF ExperimentInv, expVars, ExperimentTypeOK, Started, CIRows, OneRowPerKey, Deciding,
       Compared, Pair, EarlyHeld, EarlyCancelSticks
<1> QED
    BY <1>1, <1>2, UsersPreserve, SendPreserves, InterruptPreserves, CallsPreserve,
       EvaluationsPreserve DEF ExperimentNext

LEMMA ExperimentInvHolds == ExperimentSpec => []ExperimentInv
<1> QED
    BY ExperimentInitInv, ExperimentNextPreserves, PTL DEF ExperimentSpec

(* The rows of runs, evaluations and CI runs have their types. *)
THEOREM ExperimentTypeCorrect == ExperimentSpec => []ExperimentTypeOK
<1>1. ExperimentInv => ExperimentTypeOK
    BY DEF ExperimentInv
<1> QED
    BY <1>1, ExperimentInvHolds, PTL

(* What a COMPLETED run compared is real: the two evaluations it refers to were
   queued by one delivery and both completed, unless a cancellation that had read
   them earlier was committed afterwards. *)
THEOREM CompletedRunsCompared == ExperimentSpec => []CompletedFromItsPair
<1>1. ExperimentInv => CompletedFromItsPair
    BY DEF ExperimentInv, Deciding, Compared, CompletedFromItsPair
<1> QED
    BY <1>1, ExperimentInvHolds, PTL

(* A cancellation committed while no delivery holds a copy of the row is never
   undone, by a delivery, a retry or the recovery. *)
THEOREM CancellationsStick == ExperimentSpec => []EarlyCancelSticks
<1>1. ExperimentInv => EarlyCancelSticks
    BY DEF ExperimentInv
<1> QED
    BY <1>1, ExperimentInvHolds, PTL

(* One idempotency key has one CI run, and one that reports PASS belongs to a run
   whose evaluations both completed. *)
THEOREM CIRunsTruthful == ExperimentSpec => []CITruthful
<1>1. ExperimentInv => CITruthful
    <2> SUFFICES ASSUME ExperimentInv
                 PROVE  CITruthful
        OBVIOUS
    <2>1. scope.calls \subseteq Runs
        BY ExperimentAssumption DEF ExperimentInv, ExperimentTypeOK
    <2> QED
        BY <2>1 DEF ExperimentInv, CIRows, OneRowPerKey, Deciding, Compared, CITruthful
<1> QED
    BY <1>1, ExperimentInvHolds, PTL
-----------------------------------------------------------------------------
(* BenchmarkRun.  A delivery that can still write results has the run RUNNING,
   and the transaction that writes them ends that.  The record sets of the type
   invariant are split here, so that each step is about one field. *)
BenchStatus == BenchTerminal \cup {"absent", "QUEUED", "RUNNING"}
BenchStage == BenchInSlot \cup {"none", "queued", "done", "dead", "lost"}

Counting ==
    /\ bench \in [BenchRuns -> [status : BenchStatus, version : Nat]]
    /\ benchJob \in [BenchRuns -> [stage : BenchStage, attempt : Nat]]
    /\ results \in [BenchRuns -> [Candidates -> Nat]]
    /\ \A r \in BenchRuns :
          benchJob[r].stage \in {"create", "poll", "process"} => bench[r].status = "RUNNING"
    /\ OneResultPerCandidate

LEMMA BenchStatusRows ==
    ASSUME Counting, NEW r \in BenchRuns, NEW s \in BenchStatus, bench' = [bench EXCEPT ![r].status = s]
    PROVE  /\ bench' \in [BenchRuns -> [status : BenchStatus, version : Nat]]
           /\ \A q \in BenchRuns : bench'[q].status = IF q = r THEN s ELSE bench[q].status
<1>1. [bench[r] EXCEPT !.status = s] = [status |-> s, version |-> bench[r].version]
    BY DEF Counting
<1>2. bench' = [bench EXCEPT ![r] = [status |-> s, version |-> bench[r].version]]
    BY <1>1
<1> QED
    BY <1>2 DEF Counting

LEMMA BenchGoRows ==
    ASSUME Counting, NEW r \in BenchRuns, NEW here, NEW s \in BenchStage, BenchGo(r, here, s)
    PROVE  /\ benchJob[r].stage = here
           /\ benchJob' \in [BenchRuns -> [stage : BenchStage, attempt : Nat]]
           /\ \A q \in BenchRuns : benchJob'[q].stage = IF q = r THEN s ELSE benchJob[q].stage
<1>1. [benchJob[r] EXCEPT !.stage = s] = [stage |-> s, attempt |-> benchJob[r].attempt]
    BY DEF Counting
<1>2. benchJob' = [benchJob EXCEPT ![r] = [stage |-> s, attempt |-> benchJob[r].attempt]]
    BY <1>1 DEF BenchGo
<1> QED
    BY <1>2 DEF Counting, BenchGo

(* The deliveries go from stage to stage; only BenchProcess writes results. *)
LEMMA CountingStep ==
    ASSUME Counting, NEW r \in BenchRuns, JobStep(r)
    PROVE  Counting'
<1>1. ASSUME NEW here, NEW s \in BenchStage, BenchGo(r, here, s), UNCHANGED <<bench, results>>,
             s \in {"create", "poll", "process"} => here \in {"create", "poll", "process"}
      PROVE  Counting'
    <2>1. /\ benchJob[r].stage = here
          /\ benchJob' \in [BenchRuns -> [stage : BenchStage, attempt : Nat]]
          /\ \A q \in BenchRuns : benchJob'[q].stage = IF q = r THEN s ELSE benchJob[q].stage
        BY <1>1, BenchGoRows
    <2> QED
        BY <1>1, <2>1 DEF Counting, OneResultPerCandidate
<1>2. ASSUME NEW here, NEW s \in BenchStage, BenchGo(r, here, s),
             NEW t \in BenchStatus, bench' = [bench EXCEPT ![r].status = t],
             s \in {"create", "poll", "process"} => t = "RUNNING",
             results' \in [BenchRuns -> [Candidates -> Nat]],
             \A m \in Candidates : results'[r][m] = IF t = "COMPLETED" THEN 1 ELSE 0,
             \A q \in BenchRuns : q # r => results'[q] = results[q]
      PROVE  Counting'
    <2>1. /\ benchJob' \in [BenchRuns -> [stage : BenchStage, attempt : Nat]]
          /\ \A q \in BenchRuns : benchJob'[q].stage = IF q = r THEN s ELSE benchJob[q].stage
        BY <1>2, BenchGoRows
    <2>2. /\ bench' \in [BenchRuns -> [status : BenchStatus, version : Nat]]
          /\ \A q \in BenchRuns : bench'[q].status = IF q = r THEN t ELSE bench[q].status
        BY <1>2, BenchStatusRows
    <2> QED
        BY <1>2, <2>1, <2>2 DEF Counting, OneResultPerCandidate
<1>3. CASE TakeBench(r)
    <2>1. /\ BenchGo(r, "queued", "create") /\ bench' = [bench EXCEPT ![r].status = "RUNNING"]
          /\ results' = results /\ bench[r].status \notin BenchTerminal
        BY <1>3 DEF TakeBench
    <2>2. results \in [BenchRuns -> [Candidates -> Nat]] /\ \A m \in Candidates : results[r][m] = 0
        BY <2>1 DEF Counting, OneResultPerCandidate, BenchTerminal
    <2>3. "create" \in BenchStage /\ "RUNNING" \in BenchStatus
        BY DEF BenchStage, BenchInSlot, BenchStatus
    <2> QED
        BY <1>2, <2>1, <2>2, <2>3
<1>4. CASE SkipBench(r)
    BY <1>1, <1>4, "done" \in BenchStage DEF SkipBench, BenchStage
<1>5. CASE StartPolling(r)
    BY <1>1, <1>5, "poll" \in BenchStage DEF StartPolling, BenchStage, BenchInSlot
<1>6. CASE BenchPoll(r)
    BY <1>1, <1>6, "process" \in BenchStage DEF BenchPoll, BenchStage, BenchInSlot
<1>7. CASE BenchReturn(r)
    BY <1>1, <1>7, "done" \in BenchStage DEF BenchReturn, BenchStage
<1>8. CASE CreateChild(r) \/ \E m \in Models : EndChild(r, m)
    BY <1>8 DEF CreateChild, EndChild, Counting, OneResultPerCandidate
<1>9. CASE BenchProcess(r)
    <2>1. /\ BenchGo(r, "process", "return") /\ bench' = [bench EXCEPT ![r].status = "COMPLETED"]
          /\ results' = [results EXCEPT ![r] = [m \in Candidates |-> results[r][m] + 1]]
        BY <1>9 DEF BenchProcess
    <2>2. \A m \in Candidates : results[r][m] = 0
        BY <2>1 DEF BenchGo, Counting, OneResultPerCandidate
    <2>3. results' \in [BenchRuns -> [Candidates -> Nat]]
        BY <2>1 DEF Counting
    <2>4. /\ \A m \in Candidates : results'[r][m] = 1
          /\ \A q \in BenchRuns : q # r => results'[q] = results[q]
        BY <2>1, <2>2 DEF Counting
    <2>5. "return" \in BenchStage /\ "COMPLETED" \in BenchStatus
        BY DEF BenchStage, BenchInSlot, BenchStatus, BenchTerminal
    <2> QED
        BY <1>2, <2>1, <2>3, <2>4, <2>5, ZenonT(30)
<1>10. CASE BenchFail(r)
    <2>1. PICK here \in {"create", "poll", "process"} : BenchGo(r, here, "done")
        BY <1>10 DEF BenchFail
    <2>2. bench' = [bench EXCEPT ![r].status = "FAILED"] /\ results' = results
        BY <1>10 DEF BenchFail
    <2>3. results \in [BenchRuns -> [Candidates -> Nat]] /\ \A m \in Candidates : results[r][m] = 0
        BY <2>1 DEF BenchGo, Counting, OneResultPerCandidate
    <2>4. "done" \in BenchStage /\ "FAILED" \in BenchStatus
        BY DEF BenchStage, BenchStatus, BenchTerminal
    <2> QED
        BY <1>2, <2>1, <2>2, <2>3, <2>4
<1>11. CASE BenchInterrupt(r) \/ BenchCrash(r)
    <2>1. UNCHANGED <<bench, results>>
        BY <1>11 DEF BenchInterrupt, BenchCrash
    <2>2. benchJob[r].attempt \in Nat
        BY DEF Counting
    <2>3. PICK s \in {"queued", "dead", "lost"}, n \in Nat :
             benchJob' = [benchJob EXCEPT ![r] = [stage |-> s, attempt |-> n]]
        <3>1. \A s \in {"dead", "lost"} :
                 [benchJob[r] EXCEPT !.stage = s] = [stage |-> s, attempt |-> benchJob[r].attempt]
            BY DEF Counting
        <3> QED
            BY <1>11, <2>2, <3>1 DEF BenchInterrupt, BenchCrash
    <2>4. s \in BenchStage
        BY DEF BenchStage
    <2> QED
        BY <2>1, <2>3, <2>4 DEF Counting, OneResultPerCandidate
<1> QED
    BY <1>3, <1>4, <1>5, <1>6, <1>7, <1>8, <1>9, <1>10, <1>11 DEF JobStep

LEMMA TriggerCounts ==
    ASSUME Counting, NEW r \in BenchRuns, NEW i \in Nat, Trigger(r, i)
    PROVE  Counting'
<1>1. /\ bench[r].status = "absent" /\ results' = results
      /\ bench' = [bench EXCEPT ![r] = [status |-> "QUEUED", version |-> i]]
    BY DEF Trigger
<1>2. PICK s \in {"queued", "lost"}, n \in Nat :
         benchJob' = [benchJob EXCEPT ![r] = [stage |-> s, attempt |-> n]]
    <2>1. [benchJob[r] EXCEPT !.stage = "lost"] = [stage |-> "lost", attempt |-> benchJob[r].attempt]
        BY DEF Counting
    <2>2. benchJob[r].attempt \in Nat
        BY DEF Counting
    <2> QED
        BY <2>1, <2>2 DEF Trigger
<1>3. s \in BenchStage /\ "QUEUED" \in BenchStatus /\ i \in Nat
    BY DEF BenchStage, BenchStatus
<1> QED
    BY <1>1, <1>2, <1>3 DEF Counting, OneResultPerCandidate

VersionRow == [suite : Nat \ {0}, number : Nat \ {0}, dataset : Datasets]

(* What is numbered is in range: the versions and the calls that number them;
   the suites are numbered from 1 on. *)
Numbering ==
    /\ versions \in Seq(VersionRow)
    /\ edit \in [Edits -> [stage : {"idle", "read", "done"}, suite : Nat, number : Nat]]
    /\ \A e \in Edits : edit[e].stage = "read" => edit[e].suite \in Suites /\ edit[e].number # 0
    /\ Suites = 1 .. Cardinality(Suites) /\ Cardinality(Suites) \in Nat

LEMMA AppendRow ==
    ASSUME Numbering, NEW row \in VersionRow, versions' = Append(versions, row)
    PROVE  /\ versions' \in Seq(VersionRow) /\ Len(versions') = Len(versions) + 1
           /\ DOMAIN versions = 1 .. Len(versions) /\ DOMAIN versions' = 1 .. (Len(versions) + 1)
           /\ \A i \in DOMAIN versions : versions'[i] = versions[i]
           /\ versions'[Len(versions')] = row
           /\ Suites' = Suites \cup {row.suite}
<1>1. /\ versions' \in Seq(VersionRow) /\ Len(versions') = Len(versions) + 1
      /\ DOMAIN versions = 1 .. Len(versions) /\ DOMAIN versions' = 1 .. (Len(versions) + 1)
      /\ \A i \in DOMAIN versions : versions'[i] = versions[i]
      /\ versions'[Len(versions')] = row /\ Len(versions) \in Nat
    BY DEF Numbering
<1>2. Suites' = Suites \cup {row.suite}
    <2>1. Suites' = {versions'[i].suite : i \in DOMAIN versions'} /\ Suites = {versions[i].suite : i \in DOMAIN versions}
        BY DEF Suites
    <2>2. DOMAIN versions' = DOMAIN versions \cup {Len(versions')}
        BY <1>1
    <2> QED
        BY <1>1, <2>1, <2>2
<1> QED
    BY <1>1, <1>2

LEMMA EditPreserves ==
    ASSUME Numbering, NEW e \in Edits, Edit(e)
    PROVE  Numbering'
<1>1. Cardinality(Suites) + 1 \in Nat \ {0}
    BY DEF Numbering
<1>2. CASE CreateSuite(e)
    <2>1. PICK d \in Datasets :
             versions' = Append(versions, [suite |-> Cardinality(Suites) + 1, number |-> 1, dataset |-> d])
        BY <1>2 DEF CreateSuite
    <2>2. [suite |-> Cardinality(Suites) + 1, number |-> 1, dataset |-> d] \in VersionRow
        BY <1>1 DEF VersionRow
    <2>3. versions' \in Seq(VersionRow) /\ Suites' = Suites \cup {Cardinality(Suites) + 1}
        BY <2>1, <2>2, AppendRow
    <2>4. /\ edit' \in [Edits -> [stage : {"idle", "read", "done"}, suite : Nat, number : Nat]]
          /\ \A x \in Edits : edit'[x].stage = "read" => edit'[x] = edit[x]
        BY <1>2 DEF CreateSuite, Numbering
    <2>5. Suites' = 1 .. Cardinality(Suites') /\ Cardinality(Suites') \in Nat
        <3>1. Suites' = 1 .. (Cardinality(Suites) + 1)
            BY <1>1, <2>3 DEF Numbering
        <3>2. Cardinality(1 .. (Cardinality(Suites) + 1)) = Cardinality(Suites) + 1
            BY <1>1, FS_Interval
        <3> QED
            BY <1>1, <3>1, <3>2
    <2> QED
        BY <2>3, <2>4, <2>5 DEF Numbering
<1>3. CASE \E s \in Suites : ReadLatest(e, s)
    <2>0. PICK s \in Suites : ReadLatest(e, s)
        BY <1>3
    <2>1. PICK i \in Latest(s) :
             /\ edit' = [edit EXCEPT ![e] = [stage |-> "read", suite |-> s, number |-> versions[i].number + 1]]
             /\ versions' = versions
        BY <2>0 DEF ReadLatest
    <2>2. s \in Suites /\ s \in Nat /\ versions[i].number + 1 \in Nat \ {0}
        <3>1. \A k \in DOMAIN versions : versions[k] \in VersionRow
            BY DEF Numbering
        <3> QED
            BY <2>1, <3>1 DEF Suites, Latest, VersionRow
    <2> QED
        BY <2>1, <2>2 DEF Numbering, Suites
<1>4. CASE InsertVersion(e)
    <2>1. PICK d \in Datasets :
             versions' = Append(versions, [suite |-> edit[e].suite, number |-> edit[e].number, dataset |-> d])
        BY <1>4 DEF InsertVersion
    <2>2. [suite |-> edit[e].suite, number |-> edit[e].number, dataset |-> d] \in VersionRow
        BY <1>4 DEF VersionRow, Numbering, InsertVersion
    <2>3. versions' \in Seq(VersionRow) /\ Suites' = Suites
        <3>1. Suites' = Suites \cup {edit[e].suite} /\ versions' \in Seq(VersionRow)
            BY <2>1, <2>2, AppendRow
        <3> QED
            BY <1>4, <3>1 DEF InsertVersion, Numbering
    <2>4. /\ edit' \in [Edits -> [stage : {"idle", "read", "done"}, suite : Nat, number : Nat]]
          /\ \A x \in Edits : edit'[x].stage = "read" => edit'[x] = edit[x]
        BY <1>4 DEF InsertVersion, Numbering
    <2> QED
        BY <2>3, <2>4 DEF Numbering
<1> QED
    BY <1>2, <1>3, <1>4 DEF Edit

LEMMA BenchmarkInitInv == BenchmarkInit => Counting /\ Numbering
<1> SUFFICES ASSUME BenchmarkInit
             PROVE  Counting /\ Numbering
    OBVIOUS
<1>1. bench \in [BenchRuns -> [status : BenchStatus, version : Nat]]
    BY DEF BenchmarkInit, BenchStatus
<1>2. benchJob \in [BenchRuns -> [stage : BenchStage, attempt : Nat]]
    BY DEF BenchmarkInit, BenchStage, BenchIdle
<1>3. results \in [BenchRuns -> [Candidates -> Nat]]
    BY DEF BenchmarkInit, NoResults
<1>4. \A r \in BenchRuns : /\ benchJob[r].stage = "none" /\ bench[r].status = "absent"
                           /\ \A m \in Candidates : results[r][m] = 0
    BY DEF BenchmarkInit, NoResults, BenchIdle
<1>5. Counting
    BY <1>1, <1>2, <1>3, <1>4 DEF Counting, OneResultPerCandidate
<1>6. versions \in Seq(VersionRow) /\ Suites = 1 .. Cardinality(Suites) /\ Cardinality(Suites) \in Nat
    <2>1. CASE versions = <<>>
        <3>1. Suites = {}
            BY <2>1 DEF Suites
        <3> QED
            BY <2>1, <3>1, FS_EmptySet
    <2>2. CASE versions # <<>>
        <3>1. PICK d \in Datasets : versions = <<[suite |-> 1, number |-> 1, dataset |-> d]>>
            BY <2>2 DEF BenchmarkInit
        <3>2. Suites = {1}
            BY <3>1 DEF Suites
        <3>3. [suite |-> 1, number |-> 1, dataset |-> d] \in VersionRow
            BY DEF VersionRow
        <3>4. \A row \in VersionRow : <<row>> \in Seq(VersionRow)
            OBVIOUS
        <3>5. Cardinality({1}) = 1
            BY FS_Singleton
        <3> QED
            BY <3>1, <3>2, <3>3, <3>4, <3>5
    <2> QED
        BY <2>1, <2>2
<1>7. Numbering
    BY <1>6 DEF BenchmarkInit, Numbering
<1> QED
    BY <1>5, <1>7

LEMMA BenchmarkNextPreserves ==
    Counting /\ Numbering /\ [BenchmarkNext]_benchVars => Counting' /\ Numbering'
<1> SUFFICES ASSUME Counting, Numbering, [BenchmarkNext]_benchVars
             PROVE  Counting' /\ Numbering'
    OBVIOUS
<1>1. CASE \E e \in Edits : Edit(e)
    <2>1. UNCHANGED <<bench, benchJob, results>>
        BY <1>1 DEF Edit, CreateSuite, ReadLatest, InsertVersion
    <2> QED
        BY <1>1, <2>1, EditPreserves DEF Counting, OneResultPerCandidate
<1>2. ASSUME NEW r \in BenchRuns, JobStep(r) \/ \E i \in DOMAIN versions : Trigger(r, i)
      PROVE  Counting' /\ Numbering'
    <2>1. UNCHANGED <<versions, edit>>
        BY <1>2 DEF JobStep, TakeBench, SkipBench, CreateChild, StartPolling, EndChild, BenchPoll,
           BenchProcess, BenchReturn, BenchFail, BenchInterrupt, BenchCrash, Trigger
    <2>2. DOMAIN versions \subseteq Nat
        BY DEF Numbering
    <2> QED
        <3>1. Suites' = Suites
            BY <2>1 DEF Suites
        <3>2. Counting'
            BY <1>2, <2>2, CountingStep, TriggerCounts
        <3> QED
            BY <2>1, <3>1, <3>2 DEF Numbering
<1>3. CASE UNCHANGED benchVars
    <2>1. Suites' = Suites /\ versions' = versions /\ edit' = edit
        BY <1>3 DEF benchVars, Suites
    <2>2. bench' = bench /\ benchJob' = benchJob /\ results' = results
        BY <1>3 DEF benchVars
    <2>3. Counting'
        BY <2>2 DEF Counting, OneResultPerCandidate
    <2> QED
        BY <2>1, <2>3 DEF Numbering
<1> QED
    BY <1>1, <1>2, <1>3 DEF BenchmarkNext

LEMMA BenchmarkInvHolds == BenchmarkSpec => [](Counting /\ Numbering)
<1> QED
    BY BenchmarkInitInv, BenchmarkNextPreserves, PTL DEF BenchmarkSpec

(* Every candidate has exactly one result if the run is COMPLETED and none
   otherwise, whichever delivery wrote it and whether or not it lived to return. *)
THEOREM ResultsPerCandidate == BenchmarkSpec => []OneResultPerCandidate
<1>1. Counting => OneResultPerCandidate
    BY DEF Counting
<1> QED
    BY <1>1, BenchmarkInvHolds, PTL
-----------------------------------------------------------------------------
(* CIClient.  A client that polls, reads or reports knows one run, its own or one
   of its key; what it has seen of the run is still true of it. *)
ClientRow == [stage : {"waiting", "polling", "reading", "exited"}, mode : {"ci", "id", "new"},
              watched : SUBSET Runs, seen : RunStatus, code : Int]

Knows(r) == \E q \in Runs : client[r].watched = {q} /\ (q = r \/ IdemKey[q] = IdemKey[r])

Sure(r) ==
    LET row == client[r] IN
    /\ row.stage \in {"polling", "reading"} => Knows(r)
    /\ row.stage = "reading" =>
          /\ row.seen \in Terminal
          /\ row.seen = "COMPLETED" => verdict[Watched(r)] # "none"
          /\ row.seen = "CANCELLED" => cancel[Watched(r)].stage = "done"
    /\ row.stage = "exited" =>
          /\ row.code \in {0, 1, 4, 7, 8} => Knows(r)
          /\ row.code = 0 => /\ verdict[Watched(r)] # "none"
                             /\ GatesStored(r) => verdict[Watched(r)] # "FAIL"
          /\ row.code = 8 => cancel[Watched(r)].stage = "done"
          /\ row.code = 6 => r \in scope.calls /\ ci[r].stage = "ended" /\ run[r].status = "absent"

ClientInv ==
    /\ client \in [Clients -> ClientRow]
    /\ \A q \in Runs : run[q].status = "CANCELLED" => cancel[q].stage = "done"
    /\ \A r \in Clients : Sure(r)

(* BenchmarkClient.  The version a pipeline posted is of its suite, and the one
   its run pins is that one or of no lower number. *)
PipelineRow == [stage : {"listing", "creating", "versioning", "triggering", "polling", "exited"},
                suite : Nat, own : Nat, code : Int]

Posted(p) ==
    LET own == pipeline[p].own IN
    /\ own # 0 => own \in DOMAIN versions /\ versions[own].suite = pipeline[p].suite
    /\ edit[p].stage = "read" =>
          edit[p].suite = pipeline[p].suite /\ pipeline[p].stage \in {"versioning", "exited"}

Pinned(p) ==
    LET own == pipeline[p].own
        pinned == bench[p].version
    IN pinned # 0 =>
          /\ pipeline[p].stage \in {"polling", "exited"} /\ pinned \in DOMAIN versions
          /\ own # 0 => /\ versions[pinned].suite = versions[own].suite
                        /\ pinned = own \/ versions[pinned].number >= versions[own].number

Reported(p) ==
    /\ pipeline[p].stage = "exited" /\ pipeline[p].code = 0 => bench[p].status = "COMPLETED"
    /\ pipeline[p].stage = "exited" /\ pipeline[p].code = 1 => bench[p].status = "FAILED"

PipelineInv ==
    /\ pipeline \in [Pipelines -> PipelineRow]
    /\ \A p \in Pipelines : Posted(p) /\ (p \in BenchRuns => Pinned(p) /\ Reported(p))
    /\ \A r \in BenchRuns : bench[r].status # "CANCELLED"
    /\ \A s \in Suites : s > 1 => s \in twins

(* Which actions write which table. *)
LEMMA Writers ==
    ASSUME ExperimentNext
    PROVE  /\ scope' = scope
           /\ verdict' = verdict \/ \E r \in Runs : Finish(r)
           /\ cancel' = cancel \/ \E r \in Runs : CancelRead(r) \/ CancelCommit(r) \/ CreateBaseline(r)
           /\ run' = run \/ \E r \in Runs :
                 \/ StartRun(r) \/ InsertCI(r) \/ CancelCommit(r) \/ DeleteExperiment(r) \/ Take(r)
                 \/ MarkRunning(r) \/ CreateBaseline(r) \/ StoreIds(r) \/ Finish(r) \/ Fail(r)
           /\ ci' = ci \/ \E r \in Runs :
                 SendLost(r) \/ DeleteExperiment(r) \/ Finish(r) \/ Fail(r) \/ CICall(r)
<1>1. CASE Crash
    BY <1>1 DEF Crash
<1>2. CASE \E e \in Evaluations : Evaluate(e) \/ RecoverEvaluation(e)
    BY <1>2 DEF Evaluate, RecoverEvaluation
<1>3. ASSUME NEW r \in Runs,
             \/ CreateExperiment(r) \/ StartRun(r) \/ Send(r) \/ SendLost(r)
             \/ CancelRead(r) \/ CancelCommit(r) \/ DeleteExperiment(r) \/ Interrupt(r)
      PROVE  /\ scope' = scope /\ verdict' = verdict
             /\ cancel' = cancel \/ CancelRead(r) \/ CancelCommit(r)
             /\ run' = run \/ StartRun(r) \/ CancelCommit(r) \/ DeleteExperiment(r)
             /\ ci' = ci \/ SendLost(r) \/ DeleteExperiment(r)
    BY <1>3 DEF CreateExperiment, StartRun, Send, SendLost, CancelRead, CancelCommit, DeleteExperiment, Interrupt
<1>4. ASSUME NEW r \in Runs, Deliver(r)
      PROVE  /\ scope' = scope
             /\ verdict' = verdict \/ Finish(r)
             /\ cancel' = cancel \/ CreateBaseline(r)
             /\ run' = run \/ Take(r) \/ MarkRunning(r) \/ CreateBaseline(r) \/ StoreIds(r) \/ Finish(r) \/ Fail(r)
             /\ ci' = ci \/ Finish(r) \/ Fail(r)
    BY <1>4 DEF Deliver, Take, MarkRunning, CreateBaseline, CreateCandidate, StoreIds, PollCancelled,
       PollCompleted, Finish, Fail
<1>5. ASSUME NEW r \in Runs, CICall(r)
      PROVE  scope' = scope /\ verdict' = verdict /\ cancel' = cancel /\ (run' = run \/ InsertCI(r))
    BY <1>5 DEF CICall, LookUpKey, CreateCIExperiment, InsertCI, InsertRefused, LinkRun
<1> QED
    BY <1>1, <1>2, <1>3, <1>4, <1>5 DEF ExperimentNext

(* What a client has seen of a run stays true of it. *)
LEMMA ServerKeeps ==
    ASSUME ExperimentInv, ExperimentNext,
           \A q \in Runs : run[q].status = "CANCELLED" => cancel[q].stage = "done"
    PROVE  /\ \A q \in Runs : verdict[q] # "none" => verdict'[q] = verdict[q]
           /\ \A q \in Runs : cancel[q].stage = "done" => cancel'[q].stage = "done"
           /\ \A q \in Runs : run'[q].status = "CANCELLED" => cancel'[q].stage = "done"
           /\ \A q \in Runs : run[q].status = "COMPLETED" => verdict[q] # "none"
<1>1. ExperimentTypeOK /\ Started /\ CIRows /\ Deciding /\ ExperimentInv'
    BY ExperimentNextPreserves DEF ExperimentInv
<1>2. \A q \in Runs : verdict[q] # "none" => verdict'[q] = verdict[q]
    <2>1. ASSUME NEW r \in Runs, Finish(r)
          PROVE  verdict[r] = "none" /\ \A q \in Runs : q # r => verdict'[q] = verdict[q]
        <3>1. verdict[r] = "none"
            BY <1>1, <2>1 DEF Finish, Present, Deciding
        <3> QED
            BY <1>1, <2>1, <3>1 DEF Finish, ExperimentTypeOK
    <2> QED
        BY <2>1, Writers
<1>3. \A q \in Runs : cancel[q].stage = "done" => cancel'[q].stage = "done"
    <2>1. ASSUME NEW r \in Runs, CancelRead(r) \/ CancelCommit(r) \/ CreateBaseline(r)
          PROVE  \A q \in Runs : cancel[q].stage = "done" => cancel'[q].stage = "done"
        <3>1. \A q \in Runs \ {r} : cancel'[q] = cancel[q]
            BY <1>1, <2>1 DEF CancelRead, CancelCommit, CreateBaseline, ExperimentTypeOK
        <3>2. CASE CancelRead(r)
            BY <3>1, <3>2 DEF CancelRead
        <3>3. CASE CancelCommit(r)
            BY <1>1, <3>1, <3>3 DEF CancelCommit, ExperimentTypeOK, CancelCall
        <3>4. CASE CreateBaseline(r)
            BY <1>1, <3>1, <3>4 DEF CreateBaseline, ExperimentTypeOK, CancelCall
        <3> QED
            BY <2>1, <3>2, <3>3, <3>4
    <2> QED
        BY <2>1, Writers
<1>4. \A q \in Runs : run'[q].status = "CANCELLED" => run[q].status = "CANCELLED" \/ cancel'[q].stage = "done"
    <2>1. ASSUME NEW r \in Runs, StartRun(r) \/ InsertCI(r)
          PROVE  \A q \in Runs : run'[q].status = "CANCELLED" => run[q].status = "CANCELLED"
        <3>1. run' = [run EXCEPT ![r].status = "QUEUED"] /\ "QUEUED" \in RunStatus
            BY <2>1 DEF StartRun, InsertCI, StartedRun, RunStatus
        <3> QED
            BY <1>1, <3>1, RunRows DEF ExperimentTypeOK
    <2>2. ASSUME NEW r \in Runs, CancelCommit(r)
          PROVE  \A q \in Runs : run'[q].status = "CANCELLED" => run[q].status = "CANCELLED" \/ cancel'[q].stage = "done"
        <3>1. cancel'[r].stage = "done"
            BY <1>1, <2>2 DEF CancelCommit, ExperimentTypeOK, CancelCall
        <3>2. \A q \in Runs \ {r} : run'[q] = run[q]
            BY <1>1, <2>2 DEF CancelCommit, ExperimentTypeOK
        <3> QED
            BY <3>1, <3>2
    <2>3. ASSUME NEW r \in Runs, DeleteExperiment(r) \/ MarkRunning(r) \/ Finish(r) \/ Fail(r)
          PROVE  \A q \in Runs : run'[q].status = "CANCELLED" => run[q].status = "CANCELLED"
        <3>1. PICK s \in RunStatus : /\ run' = [run EXCEPT ![r].status = s]
                                     /\ s = "CANCELLED" => run[r].status = "CANCELLED"
            <4>1. run[r].status \in RunStatus
                BY <1>1 DEF ExperimentTypeOK, RunRow
            <4> QED
                BY <2>3, <4>1 DEF DeleteExperiment, MarkRunning, Finish, Fail, Overwrite, RunStatus, Terminal
        <3> QED
            BY <1>1, <3>1, RunRows DEF ExperimentTypeOK
    <2>4. ASSUME NEW r \in Runs, Take(r)
          PROVE  \A q \in Runs : run'[q].status = "CANCELLED" => run[q].status = "CANCELLED"
        <3>1. PICK dead \in SUBSET {q \in Runs : Stale(q)} : Recovered(dead)
            BY <2>4 DEF Take
        <3>2. ASSUME NEW q \in Runs
              PROVE  run'[q] = IF q \in dead THEN [run[q] EXCEPT !.status = "FAILED"] ELSE run[q]
            BY <3>1 DEF Recovered
        <3>3. \A q \in Runs : run[q] \in RunRow
            BY <1>1 DEF ExperimentTypeOK
        <3> QED
            BY <3>2, <3>3 DEF RunRow
    <2>5. ASSUME NEW r \in Runs, CreateBaseline(r) \/ StoreIds(r)
          PROVE  \A q \in Runs : run'[q].status = "CANCELLED" => run[q].status = "CANCELLED"
        <3>1. PICK b \in BOOLEAN : run' = [run EXCEPT ![r].pair = b]
            BY <2>5 DEF CreateBaseline, StoreIds
        <3> QED
            BY <1>1, <3>1, PairRows DEF ExperimentTypeOK
    <2> QED
        BY <2>1, <2>2, <2>3, <2>4, <2>5, Writers
<1> QED
    BY <1>1, <1>2, <1>3, <1>4 DEF Deciding

(* A call that was refused, or that has not begun, has no run. *)
LEMMA RefusedStays ==
    ASSUME ExperimentInv, ExperimentNext, NEW r \in scope.calls,
           ci[r].stage \in {"idle", "ended"}, run[r].status = "absent"
    PROVE  run'[r].status = "absent" /\ (ci[r].stage = "ended" => ci'[r].stage = "ended")
<1>1. ExperimentTypeOK /\ Started /\ CIRows /\ Deciding
    BY DEF ExperimentInv
<1>2. r \in Runs /\ r \notin scope.users
    BY <1>1, ExperimentAssumption DEF ExperimentTypeOK
<1>3. job[r].stage = "none" /\ cancel[r].stage = "idle"
    BY <1>1, <1>2 DEF Started
<1>4. run'[r].status = "absent"
    <2>1. ASSUME NEW q \in Runs,
                 \/ StartRun(q) \/ InsertCI(q) \/ CancelCommit(q) \/ DeleteExperiment(q)
                 \/ MarkRunning(q) \/ CreateBaseline(q) \/ StoreIds(q) \/ Finish(q) \/ Fail(q)
          PROVE  run'[r].status = "absent"
        <3>1. CASE q = r
            <4>1. DeleteExperiment(r)
                BY <1>2, <1>3, <2>1, <3>1 DEF StartRun, InsertCI, CancelCommit, MarkRunning, CreateBaseline,
                   StoreIds, Finish, Fail, Present, Executing, InSlot
            <4>2. run' = [run EXCEPT ![r].status = "absent"]
                BY <4>1 DEF DeleteExperiment
            <4> QED
                BY <1>1, <1>2, <4>2, RunRows, "absent" \in RunStatus DEF ExperimentTypeOK, RunStatus
        <3>2. CASE q # r
            <4>1. run'[r] = run[r]
                BY <1>1, <1>2, <2>1, <3>2 DEF StartRun, InsertCI, StartedRun, CancelCommit, DeleteExperiment,
                   MarkRunning, CreateBaseline, StoreIds, Finish, Fail, ExperimentTypeOK
            <4> QED
                BY <4>1
        <3> QED
            BY <3>1, <3>2
    <2>2. ASSUME NEW q \in Runs, Take(q)
          PROVE  run'[r].status = "absent"
        <3>1. PICK dead \in SUBSET {x \in Runs : Stale(x)} : Recovered(dead)
            BY <2>2 DEF Take
        <3>2. run'[r] = run[r]
            BY <1>2, <3>1 DEF Recovered, Stale
        <3> QED
            BY <3>2
    <2> QED
        BY <2>1, <2>2, Writers
<1>5. ASSUME ci[r].stage = "ended"
      PROVE  ci'[r].stage = "ended"
    <2>1. ASSUME NEW q \in Runs, SendLost(q) \/ DeleteExperiment(q)
          PROVE  ci'[r].stage = "ended"
        <3>1. PICK s \in {"ended", ci[q].stage} : ci' = [ci EXCEPT ![q].stage = s]
            BY <2>1 DEF SendLost, DeleteExperiment
        <3>2. s \in CIStage
            BY <1>1 DEF ExperimentTypeOK, CIRow, CIStage
        <3> QED
            BY <1>1, <1>2, <1>5, <3>1, <3>2, CallRows DEF ExperimentTypeOK
    <2>2. ASSUME NEW q \in Runs, Finish(q) \/ Fail(q)
          PROVE  ci'[r].stage = "ended"
        <3>1. PICK s \in {"COMPLETED", "FAILED"}, o \in {"PASS", "FAIL"} : Resolve(q, s, o)
            BY <2>2 DEF Finish, Fail
        <3> QED
            BY <1>1, <1>2, <1>5, <3>1, ResolveRows DEF ExperimentTypeOK
    <2>3. ASSUME NEW q \in Runs, CICall(q)
          PROVE  ci'[r].stage = "ended"
        <3>1. q # r /\ ci'[r] = ci[r]
            BY <1>1, <1>2, <1>5, <2>3 DEF CICall, LookUpKey, CreateCIExperiment, InsertCI, InsertRefused,
               LinkRun, ExperimentTypeOK
        <3> QED
            BY <1>5, <3>1
    <2> QED
        BY <1>5, <2>1, <2>2, <2>3, Writers
<1> QED
    BY <1>4, <1>5

LEMMA WatchedKnown ==
    ASSUME NEW r \in Clients, NEW q \in Runs, client[r].watched = {q}
    PROVE  Watched(r) = q
BY DEF Watched

LEMMA ExitRow ==
    ASSUME NEW r \in Clients, client[r] \in ClientRow, NEW code \in Int
    PROVE  /\ Exit(r, code) \in ClientRow
           /\ Exit(r, code).stage = "exited" /\ Exit(r, code).code = code
           /\ Exit(r, code).watched = client[r].watched /\ Exit(r, code).mode = client[r].mode
<1>1. ASSUME NEW row \in ClientRow
      PROVE  LET new == [row EXCEPT !.stage = "exited", !.code = code] IN
             /\ new \in ClientRow /\ new.stage = "exited" /\ new.code = code
             /\ new.watched = row.watched /\ new.mode = row.mode
    BY DEF ClientRow
<1> QED
    BY <1>1, Zenon DEF Exit

LEMMA WatchRow ==
    ASSUME NEW r \in Clients, client[r] \in ClientRow, NEW q \in Runs
    PROVE  Watch(r, q) \in ClientRow /\ Watch(r, q).stage = "polling" /\ Watch(r, q).watched = {q}
<1>1. ASSUME NEW row \in ClientRow
      PROVE  LET new == [row EXCEPT !.stage = "polling", !.watched = {q}] IN
             new \in ClientRow /\ new.stage = "polling" /\ new.watched = {q}
    BY DEF ClientRow
<1> QED
    BY <1>1, Zenon DEF Watch

(* The answer to a post names the run of the client or one of its key. *)
LEMMA ServerStepKeeps ==
    ASSUME ExperimentInv, ClientInv, ServerStep
    PROVE  ClientInv'
<1>1. /\ ExperimentTypeOK /\ Started /\ ExperimentNext /\ scope' = scope
      /\ \A q \in Runs : run[q].status = "CANCELLED" => cancel[q].stage = "done"
      /\ client \in [Clients -> ClientRow] /\ Clients \subseteq Runs
    BY Writers, ClientsAssumption DEF ExperimentInv, ClientInv, ServerStep
<1>2. /\ \A q \in Runs : verdict[q] # "none" => verdict'[q] = verdict[q]
      /\ \A q \in Runs : cancel[q].stage = "done" => cancel'[q].stage = "done"
      /\ \A q \in Runs : run'[q].status = "CANCELLED" => cancel'[q].stage = "done"
    BY <1>1, ServerKeeps
<1>3. \A r \in Clients : client'[r] = IF client[r].stage = "waiting" THEN Answered(r) ELSE client[r]
    BY DEF ServerStep
<1>4. ASSUME NEW r \in Clients, client[r].stage = "waiting"
      PROVE  \/ client'[r] = client[r]
             \/ client'[r] = Exit(r, 5)
             \/ client'[r] = Exit(r, 6) /\ ci[r].stage = "idle" /\ ci'[r].stage = "ended"
             \/ \E q \in Runs : client'[r] = Watch(r, q) /\ (q = r \/ IdemKey[q] = IdemKey[r])
    <2>1. client'[r] = Answered(r) /\ r \in Runs /\ scope.calls \subseteq Runs
        BY <1>1, <1>3, <1>4, ExperimentAssumption DEF ExperimentTypeOK
    <2>2. CASE ci[r].stage = "idle" /\ ci'[r].stage = "ended"
        <3> DEFINE same == {q \in scope.calls : IdemKey[q] = IdemKey[r] /\ ci[q].status # "none"}
                   linked == {q \in same : ci[q].stage = "linked"}
        <3>1. job[r].stage # "unsent"
            BY <1>1, <2>1, <2>2 DEF Started
        <3>2. Answered(r) = IF linked = {} THEN Exit(r, 6) ELSE Watch(r, CHOOSE q \in linked : TRUE)
            BY <2>2, <3>1, Zenon DEF Answered
        <3>3. linked # {} => (CHOOSE q \in linked : TRUE) \in linked
            OBVIOUS
        <3>4. \A q \in linked : q \in Runs /\ IdemKey[q] = IdemKey[r]
            BY <2>1
        <3> HIDE DEF linked
        <3> QED
            BY <2>1, <2>2, <3>2, <3>3, <3>4
    <2>3. CASE ~(ci[r].stage = "idle" /\ ci'[r].stage = "ended")
        <3>1. client'[r] \in {Exit(r, 5), Watch(r, r), client[r]}
            BY <2>1, <2>3 DEF Answered
        <3> QED
            BY <2>1, <3>1
    <2> QED
        BY <2>2, <2>3
<1>5. ASSUME NEW r \in Clients
      PROVE  client'[r] \in ClientRow /\ Sure(r)'
    <2>1. client[r] \in ClientRow /\ r \in Runs
        BY <1>1
    <2>2. CASE client[r].stage = "waiting" /\ client'[r] = client[r]
        BY <2>1, <2>2 DEF Sure
    <2>3. CASE client'[r] = Exit(r, 5)
        <3>1. client'[r] \in ClientRow /\ client'[r].stage = "exited" /\ client'[r].code = 5
            BY <2>1, <2>3, ExitRow
        <3> QED
            BY <3>1 DEF Sure
    <2>4. CASE client'[r] = Exit(r, 6) /\ ci[r].stage = "idle" /\ ci'[r].stage = "ended"
        <3>1. client'[r] \in ClientRow /\ client'[r].stage = "exited" /\ client'[r].code = 6
            BY <2>1, <2>4, ExitRow
        <3>2. r \in scope.calls /\ run[r].status = "absent"
            BY <1>1, <2>1, <2>4 DEF Started, CIRows, ExperimentInv
        <3>3. run'[r].status = "absent"
            BY <1>1, <2>4, <3>2, RefusedStays
        <3> QED
            BY <1>1, <2>4, <3>1, <3>2, <3>3 DEF Sure
    <2>5. ASSUME NEW q \in Runs, client'[r] = Watch(r, q), q = r \/ IdemKey[q] = IdemKey[r]
          PROVE  client'[r] \in ClientRow /\ Sure(r)'
        <3>1. client'[r] \in ClientRow /\ client'[r].stage = "polling" /\ client'[r].watched = {q}
            BY <2>1, <2>5, WatchRow
        <3> QED
            BY <2>5, <3>1 DEF Sure, Knows
    <2>6. CASE client[r].stage # "waiting"
        <3>1. client'[r] = client[r] /\ Watched(r)' = Watched(r) /\ Sure(r)
            BY <1>3, <2>6 DEF Watched, ClientInv
        <3>2. Knows(r) => Watched(r) \in Runs
            BY WatchedKnown DEF Knows
        <3>3. client[r].code = 6 /\ client[r].stage = "exited" =>
                 r \in scope.calls /\ ci'[r].stage = "ended" /\ run'[r].status = "absent"
            BY <1>1, <3>1, RefusedStays DEF Sure
        <3>4. Knows(r)' <=> Knows(r)
            BY <3>1 DEF Knows
        <3>5. GatesStored(r)' <=> GatesStored(r)
            BY <3>1 DEF GatesStored
        <3> QED
            BY <1>1, <1>2, <2>1, <3>1, <3>2, <3>3, <3>4, <3>5 DEF Sure
    <2> QED
        BY <1>4, <2>2, <2>3, <2>4, <2>5, <2>6
<1>6. client' \in [Clients -> ClientRow]
    BY <1>5 DEF ServerStep
<1> QED
    BY <1>2, <1>5, <1>6 DEF ClientInv

(* What a client does by itself changes its own row only, and it reports what it
   has seen. *)
LEMMA ClientStepKeeps ==
    ASSUME ExperimentInv, ClientInv, ClientStep
    PROVE  ClientInv'
<1>1. /\ Deciding /\ ExperimentTypeOK /\ client \in [Clients -> ClientRow]
      /\ \A q \in Runs : run[q].status = "CANCELLED" => cancel[q].stage = "done"
      /\ \A r \in Clients : client[r] \in ClientRow /\ Sure(r)
    BY DEF ExperimentInv, ClientInv
<1>2. ASSUME NEW r \in Clients, NEW value, Becomes(r, value)
      PROVE  /\ UNCHANGED expVars /\ client'[r] = value /\ Watched(r)' = CHOOSE q \in value.watched : TRUE
             /\ \A x \in Clients \ {r} : client'[x] = client[x]
             /\ client' \in [Clients -> ClientRow] <=> value \in ClientRow
    BY <1>1, <1>2 DEF Becomes, Watched
<1>3. ASSUME NEW r \in Clients, NEW value, Becomes(r, value), value \in ClientRow, Sure(r)'
      PROVE  ClientInv'
    <2>1. run' = run /\ cancel' = cancel /\ ci' = ci /\ verdict' = verdict /\ scope' = scope
        BY <1>2, <1>3 DEF expVars
    <2>2. ASSUME NEW x \in Clients \ {r}
          PROVE  Sure(x)'
        <3>1. client'[x] = client[x] /\ Sure(x)
            BY <1>1, <1>2, <1>3
        <3>2. Watched(x)' = Watched(x) /\ (Knows(x)' <=> Knows(x)) /\ (GatesStored(x)' <=> GatesStored(x))
            BY <3>1 DEF Watched, Knows, GatesStored
        <3> QED
            BY <2>1, <3>1, <3>2 DEF Sure
    <2> QED
        BY <1>1, <1>2, <1>3, <2>1, <2>2 DEF ClientInv
<1>4. ASSUME NEW r \in Clients, NEW code \in Int, Becomes(r, Exit(r, code)),
             code \in {0, 1, 4, 7, 8} => Knows(r),
             code = 0 => verdict[Watched(r)] # "none" /\ (GatesStored(r) => verdict[Watched(r)] # "FAIL"),
             code = 8 => cancel[Watched(r)].stage = "done",
             code # 6
      PROVE  ClientInv'
    <2>1. /\ Exit(r, code) \in ClientRow /\ client'[r] = Exit(r, code) /\ client'[r].stage = "exited"
          /\ client'[r].code = code /\ client'[r].watched = client[r].watched /\ client'[r].mode = client[r].mode
          /\ verdict' = verdict /\ cancel' = cancel
        BY <1>1, <1>2, <1>4, ExitRow DEF expVars
    <2>2. Watched(r)' = Watched(r) /\ (Knows(r)' <=> Knows(r)) /\ (GatesStored(r)' <=> GatesStored(r))
        BY <2>1 DEF Watched, Knows, GatesStored
    <2>3. Sure(r)'
        BY <1>4, <2>1, <2>2 DEF Sure
    <2> QED
        BY <1>3, <1>4, <2>1, <2>3
<1>5. PICK r \in Clients : PollStatus(r) \/ TimeOut(r) \/ RequestFails(r) \/ ReadGates(r)
    BY DEF ClientStep
<1>6. CASE PollStatus(r)
    <2>1. client[r].stage = "polling" /\ Knows(r)
        BY <1>1, <1>6 DEF PollStatus, Sure
    <2>2. Watched(r) \in Runs
        BY <2>1, WatchedKnown DEF Knows
    <2>3. CASE Becomes(r, Exit(r, 4))
        BY <1>4, <2>1, <2>3
    <2>4. ASSUME Becomes(r, [client[r] EXCEPT !.stage = "reading", !.seen = run[Watched(r)].status]),
                 run[Watched(r)].status \in Terminal
          PROVE  ClientInv'
        <3> DEFINE status == run[Watched(r)].status
                   new == [client[r] EXCEPT !.stage = "reading", !.seen = status]
        <3>1. status \in Terminal /\ status \in RunStatus
            BY <2>4 DEF RunStatus
        <3>2. ASSUME NEW row \in ClientRow, NEW s \in RunStatus
              PROVE  LET read == [row EXCEPT !.stage = "reading", !.seen = s] IN
                     read \in ClientRow /\ read.stage = "reading" /\ read.seen = s /\ read.watched = row.watched
            BY DEF ClientRow
        <3> HIDE DEF status
        <3>3. new \in ClientRow /\ new.stage = "reading" /\ new.seen = status /\ new.watched = client[r].watched
            BY <1>1, <3>1, <3>2, Zenon
        <3> HIDE DEF new
        <3>4. Becomes(r, new)
            BY <2>4 DEF new, status
        <3>5. client'[r] = new /\ Watched(r)' = Watched(r) /\ verdict' = verdict /\ cancel' = cancel
            BY <1>2, <3>3, <3>4 DEF Watched, expVars
        <3>6. Knows(r)'
            BY <2>1, <3>3, <3>5 DEF Knows
        <3>7. /\ status = "COMPLETED" => verdict[Watched(r)] # "none"
              /\ status = "CANCELLED" => cancel[Watched(r)].stage = "done"
            BY <1>1, <2>2 DEF Deciding, status
        <3>8. Sure(r)'
            BY <3>1, <3>3, <3>5, <3>6, <3>7 DEF Sure
        <3> QED
            BY <1>3, <3>3, <3>4, <3>8
    <2> QED
        BY <1>6, <2>3, <2>4 DEF PollStatus, Terminal
<1>7. CASE TimeOut(r)
    <2>1. Knows(r) /\ Becomes(r, Exit(r, 7))
        BY <1>1, <1>7 DEF TimeOut, Sure
    <2> QED
        BY <1>4, <2>1
<1>8. CASE RequestFails(r)
    BY <1>4, <1>8 DEF RequestFails
<1>9. CASE ReadGates(r)
    <2>1. client[r].stage = "reading" /\ Knows(r) /\ Sure(r)
        BY <1>1, <1>9 DEF ReadGates, Sure
    <2>2. CASE Becomes(r, Exit(r, 4))
        BY <1>4, <2>1, <2>2
    <2>3. CASE client[r].seen = "CANCELLED" /\ Becomes(r, Exit(r, 8))
        BY <1>4, <2>1, <2>3 DEF Sure
    <2>4. CASE client[r].seen # "CANCELLED" /\ OutcomeOfGates(r)
        <3>1. client[r].seen # "FAILED" => verdict[Watched(r)] # "none"
            BY <2>1, <2>4 DEF Sure, Terminal
        <3>2. PICK optional \in BOOLEAN :
                LET failed == GatesStored(r) /\ (optional \/ verdict[Watched(r)] = "FAIL") IN
                Becomes(r, Exit(r, IF failed \/ client[r].seen = "FAILED" THEN 1 ELSE 0))
            BY <2>4 DEF OutcomeOfGates
        <3> QED
            BY <1>4, <2>1, <3>1, <3>2
    <2> QED
        BY <1>9, <2>2, <2>3, <2>4 DEF ReadGates
<1> QED
    BY <1>5, <1>6, <1>7, <1>8, <1>9

LEMMA CIClientInitInv == CIClientInit => ClientInv
<1> SUFFICES ASSUME CIClientInit
             PROVE  ClientInv
    OBVIOUS
<1>1. /\ client \in [Clients -> UNION {{Waiting(m) : m \in Modes(r)} : r \in Clients}]
      /\ run = [r \in Runs |-> [status |-> "absent", pair |-> FALSE]]
    BY DEF CIClientInit, ExperimentInit
<1>2. ASSUME NEW r \in Clients
      PROVE  client[r] \in ClientRow /\ client[r].stage = "waiting"
    <2>1. PICK m \in {"ci", "id", "new"} : client[r] = Waiting(m)
        BY <1>1 DEF Modes
    <2> QED
        BY <2>1 DEF Waiting, ClientRow, RunStatus
<1>3. \A q \in Runs : run[q].status # "CANCELLED"
    BY <1>1
<1> QED
    BY <1>1, <1>2, <1>3 DEF ClientInv, Sure

(* What a client does by itself changes nothing of the server. *)
LEMMA ClientsMapToServer == [CIClientNext]_clientVars => [ExperimentNext]_expVars
<1>1. UNCHANGED clientVars => UNCHANGED expVars
    BY DEF clientVars
<1>2. ServerStep => ExperimentNext
    BY DEF ServerStep
<1>3. ASSUME NEW r \in Clients, PollStatus(r) \/ TimeOut(r) \/ RequestFails(r) \/ ReadGates(r)
      PROVE  UNCHANGED expVars
    <2>1. PICK value : Becomes(r, value)
        BY <1>3, Zenon DEF PollStatus, TimeOut, RequestFails, ReadGates, OutcomeOfGates
    <2> QED
        BY <2>1 DEF Becomes
<1> QED
    BY <1>1, <1>2, <1>3 DEF CIClientNext, ClientStep

LEMMA CIClientInvHolds == CIClientSpec => [](ExperimentInv /\ ClientInv)
<1>1. CIClientInit => ExperimentInv /\ ClientInv
    BY CIClientInitInv, ExperimentInitInv DEF CIClientInit
<1>2. ExperimentInv /\ ClientInv /\ [CIClientNext]_clientVars => (ExperimentInv /\ ClientInv)'
    <2> SUFFICES ASSUME ExperimentInv, ClientInv, [CIClientNext]_clientVars
                 PROVE  ExperimentInv' /\ ClientInv'
        OBVIOUS
    <2>1. [ExperimentNext]_expVars
        BY ClientsMapToServer
    <2>2. CASE UNCHANGED clientVars
        <3>1. client' = client /\ UNCHANGED expVars
            BY <2>2 DEF clientVars
        <3>2. ExperimentInv'
            BY <2>1, ExperimentNextPreserves
        <3>3. \A r \in Clients : Sure(r) => Sure(r)'
            BY <3>1 DEF expVars, Sure, Knows, Watched, GatesStored
        <3> QED
            BY <3>1, <3>2, <3>3 DEF expVars, ClientInv
    <2> QED
        BY <2>1, <2>2, ExperimentNextPreserves, ServerStepKeeps, ClientStepKeeps DEF CIClientNext
<1> QED
    BY <1>1, <1>2, PTL DEF CIClientSpec

(* Every behaviour with clients is a behaviour of the server. *)
THEOREM ClientsUseTheServer == CIClientSpec => ExperimentSpec
<1>1. CIClientInit => ExperimentInit
    BY DEF CIClientInit
<1>2. [CIClientNext]_clientVars => [ExperimentNext]_expVars
    BY ClientsMapToServer
<1> QED
    BY <1>1, <1>2, PTL DEF CIClientSpec, ExperimentSpec

LEMMA ExitsTruthful == CIClientSpec => []ExitTruthful
<1>1. ExperimentInv /\ ClientInv => ExitTruthful
    <2> SUFFICES ASSUME ExperimentInv, ClientInv, NEW r \in Clients, client[r].stage = "exited"
                 PROVE  LET code == client[r].code IN
                        /\ code = 0 => /\ verdict[Watched(r)] # "none"
                                       /\ GatesStored(r) => verdict[Watched(r)] # "FAIL"
                        /\ code = 8 => cancel[Watched(r)].stage = "done"
                        /\ code = 6 => run[r].status = "absent"
                        /\ code \in {0, 1, 4, 7, 8} => Watched(r) = r \/ IdemKey[Watched(r)] = IdemKey[r]
        BY Zenon DEF ExitTruthful
    <2>1. Sure(r)
        BY DEF ClientInv
    <2> QED
        BY <2>1, WatchedKnown DEF Sure, Knows
<1> QED
    BY <1>1, CIClientInvHolds, PTL
-----------------------------------------------------------------------------
(* A delivery ends a run once and never changes the version it pinned. *)
LEMMA JobKeeps ==
    ASSUME Counting, NEW r \in BenchRuns, JobStep(r)
    PROVE  \A q \in BenchRuns :
              /\ bench'[q].version = bench[q].version
              /\ bench[q].status \in {"COMPLETED", "FAILED"} => bench'[q].status = bench[q].status
              /\ bench[q].status # "CANCELLED" => bench'[q].status # "CANCELLED"
<1>1. CASE bench' = bench
    BY <1>1
<1>2. ASSUME NEW s \in {"RUNNING", "COMPLETED", "FAILED"}, bench' = [bench EXCEPT ![r].status = s],
             bench[r].status \notin {"COMPLETED", "FAILED"}
      PROVE  \A q \in BenchRuns :
                /\ bench'[q].version = bench[q].version
                /\ bench[q].status \in {"COMPLETED", "FAILED"} => bench'[q].status = bench[q].status
                /\ bench[q].status # "CANCELLED" => bench'[q].status # "CANCELLED"
    <2>1. s \in BenchStatus
        BY DEF BenchStatus, BenchTerminal
    <2>2. [bench[r] EXCEPT !.status = s] = [status |-> s, version |-> bench[r].version]
        BY DEF Counting
    <2>3. bench' = [bench EXCEPT ![r] = [status |-> s, version |-> bench[r].version]]
        BY <1>2, <2>2
    <2> QED
        BY <1>2, <2>3 DEF Counting
<1>3. bench' = bench \/ TakeBench(r) \/ BenchProcess(r) \/ BenchFail(r)
    BY DEF JobStep, SkipBench, CreateChild, StartPolling, EndChild, BenchPoll, BenchReturn, BenchInterrupt, BenchCrash
<1>4. CASE TakeBench(r)
    BY <1>2, <1>4 DEF TakeBench, BenchTerminal
<1>5. CASE BenchProcess(r) \/ BenchFail(r)
    <2>1. benchJob[r].stage \in {"create", "poll", "process"}
        BY <1>5 DEF BenchProcess, BenchFail, BenchGo
    <2>2. bench[r].status = "RUNNING"
        BY <2>1 DEF Counting
    <2> QED
        BY <1>2, <1>5, <2>2 DEF BenchProcess, BenchFail
<1> QED
    BY <1>1, <1>3, <1>4, <1>5

(* What holds of a pipeline goes on holding while others append versions and its
   run goes on. *)
LEMMA PipelineKeeps ==
    ASSUME PipelineInv, NEW p \in Pipelines, pipeline'[p] = pipeline[p], edit'[p] = edit[p],
           \A i \in DOMAIN versions : i \in DOMAIN versions' /\ versions'[i] = versions[i],
           p \in BenchRuns => /\ bench'[p].version = bench[p].version
                              /\ bench[p].status \in {"COMPLETED", "FAILED"} => bench'[p].status = bench[p].status
    PROVE  Posted(p)' /\ (p \in BenchRuns => Pinned(p)' /\ Reported(p)')
<1>1. Posted(p) /\ (p \in BenchRuns => Pinned(p) /\ Reported(p))
    BY DEF PipelineInv
<1>2. Posted(p)'
    BY <1>1 DEF Posted
<1>3. p \in BenchRuns => Pinned(p)'
    BY <1>1 DEF Posted, Pinned
<1>4. p \in BenchRuns => Reported(p)'
    BY <1>1 DEF Reported
<1> QED
    BY <1>2, <1>3, <1>4

(* A step of one pipeline: its own row is shown anew, those of the others keep. *)
LEMMA OnePipeline ==
    ASSUME PipelineInv, NEW p \in Pipelines, NEW value \in PipelineRow, Goes(p, value),
           \A e \in Edits : e # p => edit'[e] = edit[e],
           \A i \in DOMAIN versions : i \in DOMAIN versions' /\ versions'[i] = versions[i],
           \A r \in BenchRuns : r # p => bench'[r] = bench[r],
           p \in BenchRuns => bench'[p].status # "CANCELLED",
           \A s \in Suites' : s > 1 => s \in twins',
           pipeline'[p] = value => Posted(p)' /\ (p \in BenchRuns => Pinned(p)' /\ Reported(p)')
    PROVE  PipelineInv'
<1>1. pipeline' = [pipeline EXCEPT ![p] = value] /\ pipeline \in [Pipelines -> PipelineRow]
    BY DEF Goes, PipelineInv
<1>2. pipeline'[p] = value /\ pipeline' \in [Pipelines -> PipelineRow]
    BY <1>1
<1>3. ASSUME NEW x \in Pipelines \ {p}
      PROVE  Posted(x)' /\ (x \in BenchRuns => Pinned(x)' /\ Reported(x)')
    <2>1. pipeline'[x] = pipeline[x] /\ edit'[x] = edit[x] /\ (x \in BenchRuns => bench'[x] = bench[x])
        BY <1>1, PipelinesAssumption
    <2> QED
        BY <2>1, PipelineKeeps
<1>4. \A r \in BenchRuns : bench'[r].status # "CANCELLED"
    BY DEF PipelineInv
<1> QED
    BY <1>2, <1>3, <1>4 DEF PipelineInv

LEMMA ToldRow ==
    ASSUME NEW p \in Pipelines, pipeline[p] \in PipelineRow, NEW code \in Int
    PROVE  /\ Told(p, code) \in PipelineRow /\ Told(p, code).stage = "exited"
           /\ Told(p, code).code = code /\ Told(p, code).own = pipeline[p].own
           /\ Told(p, code).suite = pipeline[p].suite
<1>1. ASSUME NEW row \in PipelineRow
      PROVE  LET new == [row EXCEPT !.stage = "exited", !.code = code] IN
             /\ new \in PipelineRow /\ new.stage = "exited" /\ new.code = code
             /\ new.own = row.own /\ new.suite = row.suite
    BY DEF PipelineRow
<1> QED
    BY <1>1, Zenon DEF Told

(* Before it triggers: looking, posting and giving up. *)
LEMMA PostingKeeps ==
    ASSUME Counting, Numbering, PipelineInv, NEW p \in Pipelines,
           FindSuite(p) \/ PostSuite(p) \/ PostVersion(p) \/ VersionPosted(p) \/ GiveUp(p)
    PROVE  PipelineInv'
<1>1. /\ pipeline \in [Pipelines -> PipelineRow] /\ pipeline[p] \in PipelineRow /\ p \in Edits
      /\ Posted(p) /\ (p \in BenchRuns => Pinned(p) /\ Reported(p))
      /\ \A r \in BenchRuns : bench[r].status # "CANCELLED"
      /\ \A s \in Suites : s > 1 => s \in twins
    BY PipelinesAssumption DEF PipelineInv
<1>2. \A i \in DOMAIN versions : versions[i] \in VersionRow
    BY DEF Numbering
<1>3. CASE FindSuite(p)
    <2>1. PICK s \in Nat, stage \in {"creating", "versioning"} :
             Goes(p, Start(stage, s)) /\ pipeline[p].stage = "listing"
        <3>1. ASSUME Suites # {}
              PROVE  (CHOOSE s \in Suites : \A t \in Suites : t <= s) \in Nat
            <4>1. /\ Suites = 1 .. Cardinality(Suites) /\ Cardinality(Suites) \in Nat
                  /\ Cardinality(Suites) # 0 /\ \A s \in Suites : s \in Nat
                BY <3>1 DEF Numbering
            <4>2. \E s \in Suites : \A t \in Suites : t <= s
                <5>1. ASSUME NEW n \in Nat, n # 0
                      PROVE  \E s \in 1 .. n : \A t \in 1 .. n : t <= s
                    <6>1. n \in 1 .. n /\ \A t \in 1 .. n : t <= n
                        BY <5>1
                    <6> QED
                        BY <6>1
                <5> QED
                    BY <4>1, <5>1
            <4> QED
                BY <4>1, <4>2
        <3> QED
            BY <1>3, <3>1 DEF FindSuite
    <2>2. /\ Start(stage, s) \in PipelineRow /\ Start(stage, s).own = 0 /\ Start(stage, s).stage = stage
          /\ Start(stage, s).suite = s
        BY DEF Start, PipelineRow
    <2>3. versions' = versions /\ edit' = edit /\ bench' = bench /\ twins' = twins /\ Suites' = Suites
        BY <1>3 DEF FindSuite, benchVars, Suites
    <2>4. edit[p].stage # "read" /\ (p \in BenchRuns => bench[p].version = 0)
        BY <1>1, <2>1 DEF Posted, Pinned
    <2>5. pipeline'[p] = Start(stage, s) => Posted(p)' /\ (p \in BenchRuns => Pinned(p)' /\ Reported(p)')
        BY <2>2, <2>3, <2>4 DEF Posted, Pinned, Reported
    <2> HIDE DEF Start
    <2> QED
        BY <1>1, <2>1, <2>2, <2>3, <2>5, OnePipeline
<1>4. CASE PostSuite(p)
    <2>1. PICK d \in Datasets :
             versions' = Append(versions, [suite |-> Cardinality(Suites) + 1, number |-> 1, dataset |-> d])
        BY <1>4 DEF PostSuite, CreateSuite
    <2> DEFINE s == Cardinality(Suites) + 1
               row == [suite |-> s, number |-> 1, dataset |-> d]
               new == Len(versions')
               value == [pipeline[p] EXCEPT !.stage = "triggering", !.suite = s, !.own = new]
    <2>2. s \in Nat \ {0} /\ (s > 1 => Suites # {})
        <3>1. Suites = {} => Cardinality(Suites) = 0
            BY FS_EmptySet, Zenon
        <3> QED
            BY <3>1 DEF Numbering
    <2>3. row \in VersionRow /\ row.suite = s
        BY <2>2 DEF VersionRow
    <2>4. versions' = Append(versions, row)
        BY <2>1
    <2> HIDE DEF row, s
    <2>5. /\ versions' \in Seq(VersionRow) /\ new = Len(versions) + 1 /\ Len(versions) \in Nat
          /\ DOMAIN versions = 1 .. Len(versions) /\ DOMAIN versions' = 1 .. new
          /\ \A i \in DOMAIN versions : versions'[i] = versions[i]
          /\ versions'[new] = row /\ Suites' = Suites \cup {s}
        BY <2>3, <2>4, AppendRow DEF Numbering
    <2>6. /\ Goes(p, value) /\ pipeline[p].stage = "creating" /\ bench' = bench
          /\ twins' = IF Suites = {} THEN twins ELSE twins \cup {s}
          /\ edit' = [edit EXCEPT ![p].stage = "done"]
        BY <1>4, <2>3, <2>5 DEF PostSuite, CreateSuite
    <2>7. value \in PipelineRow /\ value.stage = "triggering" /\ value.own = new /\ value.suite = s
        <3>1. new \in Nat /\ s \in Nat
            BY <2>2, <2>5
        <3> HIDE DEF new
        <3>2. ASSUME NEW at \in PipelineRow
              PROVE  LET moved == [at EXCEPT !.stage = "triggering", !.suite = s, !.own = new] IN
                     /\ moved \in PipelineRow /\ moved.stage = "triggering"
                     /\ moved.own = new /\ moved.suite = s
            BY <3>1 DEF PipelineRow
        <3> QED
            BY <1>1, <3>2, Zenon
    <2> HIDE DEF new, value
    <2>8. edit'[p].stage = "done" /\ \A e \in Edits : e # p => edit'[e] = edit[e]
        BY <1>1, <2>6 DEF Numbering
    <2>9. pipeline'[p] = value => Posted(p)' /\ (p \in BenchRuns => Pinned(p)' /\ Reported(p)')
        <3>1. p \in BenchRuns => bench[p].version = 0
            BY <1>1, <2>6 DEF Pinned
        <3>2. new \in DOMAIN versions' /\ versions'[new].suite = s
            BY <2>3, <2>5
        <3> QED
            BY <2>6, <2>7, <2>8, <3>1, <3>2 DEF Posted, Pinned, Reported
    <2>10. \A x \in Suites' : x > 1 => x \in twins'
        BY <1>1, <2>2, <2>5, <2>6
    <2>11. \A i \in DOMAIN versions : i \in DOMAIN versions' /\ versions'[i] = versions[i]
        BY <2>5
    <2> QED
        BY <1>1, <2>6, <2>7, <2>8, <2>9, <2>10, <2>11, OnePipeline
<1>5. CASE PostVersion(p)
    <2>1. /\ pipeline' = pipeline /\ twins' = twins /\ versions' = versions /\ bench' = bench
          /\ Suites' = Suites /\ pipeline[p].stage = "versioning"
        BY <1>5 DEF PostVersion, ReadLatest, Suites
    <2>2. PICK n : edit' = [edit EXCEPT ![p] = [stage |-> "read", suite |-> pipeline[p].suite, number |-> n]]
        BY <1>5 DEF PostVersion, ReadLatest
    <2>3. edit'[p].suite = pipeline[p].suite /\ \A e \in Edits : e # p => edit'[e] = edit[e]
        BY <1>1, <2>2 DEF Numbering
    <2>4. ASSUME NEW x \in Pipelines \ {p}
          PROVE  Posted(x)' /\ (x \in BenchRuns => Pinned(x)' /\ Reported(x)')
        BY <2>1, <2>3, PipelineKeeps, PipelinesAssumption
    <2>5. Posted(p)' /\ (p \in BenchRuns => Pinned(p)' /\ Reported(p)')
        BY <1>1, <2>1, <2>3 DEF Posted, Pinned, Reported
    <2> QED
        BY <1>1, <2>1, <2>4, <2>5 DEF PipelineInv
<1>6. CASE VersionPosted(p)
    <2>1. PICK d \in Datasets :
             versions' = Append(versions, [suite |-> edit[p].suite, number |-> edit[p].number, dataset |-> d])
        BY <1>6 DEF VersionPosted, InsertVersion
    <2> DEFINE s == edit[p].suite
               row == [suite |-> s, number |-> edit[p].number, dataset |-> d]
               new == Len(versions')
               value == IF pipeline[p].stage = "exited" THEN pipeline[p]
                        ELSE [pipeline[p] EXCEPT !.stage = "triggering", !.own = new]
    <2>2. edit[p].stage = "read" /\ s = pipeline[p].suite /\ pipeline[p].stage \in {"versioning", "exited"}
        BY <1>1, <1>6 DEF VersionPosted, InsertVersion, Posted
    <2>3. row \in VersionRow /\ row.suite = s /\ s \in Nat /\ s \in Suites
        BY <1>1, <2>2 DEF VersionRow, Numbering
    <2>4. versions' = Append(versions, row)
        BY <2>1
    <2> HIDE DEF row, s
    <2>5. /\ versions' \in Seq(VersionRow) /\ new = Len(versions) + 1 /\ Len(versions) \in Nat
          /\ DOMAIN versions = 1 .. Len(versions) /\ DOMAIN versions' = 1 .. new
          /\ \A i \in DOMAIN versions : versions'[i] = versions[i]
          /\ versions'[new] = row /\ Suites' = Suites \cup {s}
        BY <2>3, <2>4, AppendRow DEF Numbering
    <2>6. Goes(p, value) /\ bench' = bench /\ twins' = twins /\ edit' = [edit EXCEPT ![p].stage = "done"]
        BY <1>6 DEF VersionPosted, InsertVersion
    <2>7. /\ value \in PipelineRow /\ value.suite = pipeline[p].suite
          /\ pipeline[p].stage = "exited" => value = pipeline[p]
          /\ pipeline[p].stage # "exited" => value.stage = "triggering" /\ value.own = new
        <3>1. new \in Nat
            BY <2>5
        <3> HIDE DEF new
        <3>2. ASSUME NEW at \in PipelineRow
              PROVE  LET moved == [at EXCEPT !.stage = "triggering", !.own = new] IN
                     /\ moved \in PipelineRow /\ moved.stage = "triggering"
                     /\ moved.own = new /\ moved.suite = at.suite
            BY <3>1 DEF PipelineRow
        <3> QED
            BY <1>1, <3>2, Zenon
    <2>8. edit'[p].stage = "done" /\ \A e \in Edits : e # p => edit'[e] = edit[e]
        BY <1>1, <2>6 DEF Numbering
    <2>9. new \in DOMAIN versions' /\ versions'[new].suite = pipeline[p].suite
          /\ \A i \in DOMAIN versions : i \in DOMAIN versions' /\ versions'[i] = versions[i]
        BY <2>2, <2>3, <2>5
    <2> HIDE DEF new, value
    <2>10. pipeline'[p] = value => Posted(p)' /\ (p \in BenchRuns => Pinned(p)' /\ Reported(p)')
        <3>1. CASE pipeline[p].stage = "exited"
            BY <1>1, <2>6, <2>7, <2>8, <2>9, <3>1 DEF Posted, Pinned, Reported
        <3>2. CASE pipeline[p].stage = "versioning"
            <4>1. p \in BenchRuns => bench[p].version = 0
                BY <1>1, <3>2 DEF Pinned
            <4> QED
                BY <2>6, <2>7, <2>8, <2>9, <3>2, <4>1 DEF Posted, Pinned, Reported
        <3> QED
            BY <2>2, <3>1, <3>2
    <2>11. \A x \in Suites' : x > 1 => x \in twins'
        BY <1>1, <2>3, <2>5, <2>6
    <2> QED
        BY <1>1, <2>6, <2>7, <2>8, <2>9, <2>10, <2>11, OnePipeline
<1>7. CASE GiveUp(p)
    <2>1. /\ Goes(p, Told(p, 5)) /\ versions' = versions /\ edit' = edit /\ bench' = bench /\ twins' = twins
          /\ Suites' = Suites /\ pipeline[p].stage # "exited"
        BY <1>7 DEF GiveUp, benchVars, Suites
    <2>2. /\ Told(p, 5) \in PipelineRow /\ Told(p, 5).stage = "exited" /\ Told(p, 5).code = 5
          /\ Told(p, 5).own = pipeline[p].own /\ Told(p, 5).suite = pipeline[p].suite
        BY <1>1, ToldRow
    <2>3. pipeline'[p] = Told(p, 5) => Posted(p)' /\ (p \in BenchRuns => Pinned(p)' /\ Reported(p)')
        BY <1>1, <2>1, <2>2 DEF Posted, Pinned, Reported
    <2> QED
        BY <1>1, <2>1, <2>2, <2>3, OnePipeline
<1> QED
    BY <1>3, <1>4, <1>5, <1>6, <1>7

(* Triggering runs the latest version of the suite, which has no lower number
   than any other of it. *)
LEMMA TriggeringKeeps ==
    ASSUME Counting, Numbering, PipelineInv, NEW p \in Pipelines \cap BenchRuns, TriggerLatest(p) \/ PollRun(p)
    PROVE  PipelineInv'
<1>1. /\ pipeline \in [Pipelines -> PipelineRow] /\ pipeline[p] \in PipelineRow /\ p \in Edits
      /\ Posted(p) /\ Pinned(p) /\ Reported(p)
      /\ \A r \in BenchRuns : bench[r].status # "CANCELLED"
      /\ \A s \in Suites : s > 1 => s \in twins
    BY PipelinesAssumption DEF PipelineInv
<1>2. versions' = versions /\ Suites' = Suites /\ edit' = edit /\ twins' = twins
    BY DEF TriggerLatest, PollRun, Trigger, benchVars, Suites
<1>3. /\ \A code \in Int : Told(p, code) \in PipelineRow /\ Told(p, code).stage = "exited" /\ Told(p, code).code = code
      /\ \A code \in Int : Told(p, code).own = pipeline[p].own /\ Told(p, code).suite = pipeline[p].suite
    BY <1>1, ToldRow
<1>4. CASE TriggerLatest(p)
    <2>1. PICK i \in Latest(pipeline[p].suite) : Trigger(p, i)
        BY <1>4 DEF TriggerLatest
    <2>2. /\ i \in DOMAIN versions /\ versions[i].suite = pipeline[p].suite
          /\ pipeline[p].stage = "triggering" /\ bench' = [bench EXCEPT ![p] = [status |-> "QUEUED", version |-> i]]
        BY <1>4, <2>1 DEF TriggerLatest, Trigger, Latest
    <2>3. \A k \in DOMAIN versions : versions[k].suite = pipeline[p].suite => versions[k].number <= versions[i].number
        BY <2>1 DEF Latest
    <2>4. /\ bench'[p].status = "QUEUED" /\ bench'[p].version = i
          /\ \A r \in BenchRuns : r # p => bench'[r] = bench[r]
        BY <2>2 DEF Counting
    <2>5. ASSUME NEW value \in PipelineRow, Goes(p, value), value.stage \in {"polling", "exited"},
                 value.own = pipeline[p].own, value.suite = pipeline[p].suite,
                 value.stage = "exited" => value.code = 5
          PROVE  PipelineInv'
        <3>1. pipeline'[p] = value => Posted(p)' /\ Pinned(p)' /\ Reported(p)'
            <4> SUFFICES ASSUME pipeline'[p] = value
                         PROVE  Posted(p)' /\ Pinned(p)' /\ Reported(p)'
                OBVIOUS
            <4>1. Posted(p)'
                BY <1>1, <1>2, <2>2, <2>5 DEF Posted
            <4>2. pipeline[p].own # 0 =>
                     /\ versions[i].suite = versions[pipeline[p].own].suite
                     /\ versions[i].number >= versions[pipeline[p].own].number
                <5>1. \A k \in DOMAIN versions : versions[k].number \in Nat
                    <6>1. \A k \in DOMAIN versions : versions[k] \in VersionRow
                        BY DEF Numbering
                    <6> QED
                        BY <6>1 DEF VersionRow
                <5>2. pipeline[p].own # 0 => /\ pipeline[p].own \in DOMAIN versions
                                             /\ versions[pipeline[p].own].suite = pipeline[p].suite
                    BY <1>1 DEF Posted
                <5>3. pipeline[p].own # 0 => versions[pipeline[p].own].number <= versions[i].number
                    BY <2>3, <5>2
                <5> QED
                    BY <2>2, <5>1, <5>2, <5>3
            <4>3. Pinned(p)'
                BY <1>2, <2>2, <2>4, <2>5, <4>2 DEF Pinned
            <4> QED
                BY <2>5, <4>1, <4>3 DEF Reported
        <3> QED
            BY <1>1, <1>2, <2>4, <2>5, <3>1, OnePipeline
    <2>6. CASE Goes(p, Told(p, 5))
        BY <1>3, <2>5, <2>6
    <2>7. CASE Goes(p, [pipeline[p] EXCEPT !.stage = "polling"])
        <3>1. ASSUME NEW row \in PipelineRow
              PROVE  LET moved == [row EXCEPT !.stage = "polling"] IN
                     /\ moved \in PipelineRow /\ moved.stage = "polling"
                     /\ moved.own = row.own /\ moved.suite = row.suite
            BY DEF PipelineRow
        <3> DEFINE value == [pipeline[p] EXCEPT !.stage = "polling"]
        <3>2. value \in PipelineRow /\ value.stage = "polling" /\ value.own = pipeline[p].own /\ value.suite = pipeline[p].suite
            BY <1>1, <3>1, Zenon
        <3>3. Goes(p, value)
            BY <2>7
        <3> HIDE DEF value
        <3> QED
            BY <2>5, <3>2, <3>3
    <2> QED
        BY <1>4, <2>6, <2>7 DEF TriggerLatest
<1>5. CASE PollRun(p)
    <2>1. PICK code \in {0, 1} : /\ Goes(p, Told(p, code)) /\ bench' = bench /\ pipeline[p].stage = "polling"
                                 /\ code = 0 => bench[p].status = "COMPLETED"
                                 /\ code = 1 => bench[p].status = "FAILED"
        BY <1>1, <1>5 DEF PollRun, BenchTerminal, benchVars
    <2>2. pipeline'[p] = Told(p, code) => Posted(p)' /\ Pinned(p)' /\ Reported(p)'
        BY <1>1, <1>2, <1>3, <2>1 DEF Posted, Pinned, Reported
    <2> QED
        BY <1>1, <1>2, <1>3, <2>1, <2>2, OnePipeline
<1> QED
    BY <1>4, <1>5

LEMMA PipelineInitInv == BenchmarkClientInit => PipelineInv
<1> SUFFICES ASSUME BenchmarkClientInit
             PROVE  PipelineInv
    OBVIOUS
<1>1. /\ pipeline \in [Pipelines -> {Start("listing", 0)} \cup {Start("triggering", s) : s \in Suites}]
      /\ \A r \in BenchRuns : bench[r] = [status |-> "absent", version |-> 0]
      /\ \A e \in Edits : edit[e].stage = "idle"
      /\ versions \in {<<>>} \cup {<<[suite |-> 1, number |-> 1, dataset |-> d]>> : d \in Datasets}
    BY DEF BenchmarkClientInit, BenchmarkInit
<1>2. Suites \subseteq {1}
    <2>1. CASE versions = <<>>
        BY <2>1 DEF Suites
    <2>2. CASE versions # <<>>
        <3>1. PICK d \in Datasets : versions = <<[suite |-> 1, number |-> 1, dataset |-> d]>>
            BY <1>1, <2>2
        <3> QED
            BY <3>1 DEF Suites
    <2> QED
        BY <2>1, <2>2
<1>3. ASSUME NEW p \in Pipelines
      PROVE  pipeline[p] \in PipelineRow /\ pipeline[p].stage # "exited" /\ pipeline[p].own = 0
    <2>1. PICK stage \in {"listing", "triggering"}, s \in {0, 1} : pipeline[p] = Start(stage, s)
        BY <1>1, <1>2
    <2> QED
        BY <2>1 DEF Start, PipelineRow
<1> QED
    BY <1>1, <1>2, <1>3, PipelinesAssumption DEF PipelineInv, Posted, Pinned, Reported

(* What a pipeline does to the server is an edit or a trigger of its own. *)
LEMMA PipelinesMapToServer == [BenchmarkClientNext]_pipelineVars => [BenchmarkNext]_benchVars
<1>1. UNCHANGED pipelineVars => UNCHANGED benchVars
    BY DEF pipelineVars
<1>2. ASSUME NEW p \in Pipelines, FindSuite(p) \/ PostSuite(p) \/ PostVersion(p) \/ VersionPosted(p) \/ GiveUp(p)
      PROVE  [BenchmarkNext]_benchVars
    <2>1. p \in Edits
        BY PipelinesAssumption
    <2>2. CASE PostVersion(p)
        <3>1. pipeline[p].suite \in Suites /\ ReadLatest(p, pipeline[p].suite)
            BY <2>2 DEF PostVersion, ReadLatest, Latest, Suites
        <3> QED
            BY <2>1, <3>1 DEF BenchmarkNext, Edit
    <2>3. CreateSuite(p) \/ InsertVersion(p) => BenchmarkNext
        BY <2>1 DEF BenchmarkNext, Edit
    <2> QED
        BY <1>2, <2>2, <2>3 DEF FindSuite, PostSuite, VersionPosted, GiveUp
<1>3. ASSUME NEW p \in Pipelines \cap BenchRuns, TriggerLatest(p) \/ PollRun(p)
      PROVE  [BenchmarkNext]_benchVars
    BY <1>3 DEF TriggerLatest, PollRun, Latest, BenchmarkNext
<1> QED
    BY <1>1, <1>2, <1>3 DEF BenchmarkClientNext, BenchmarkNext

(* Every behaviour with pipelines is a behaviour of the server. *)
THEOREM PipelinesUseTheServer == BenchmarkClientSpec => BenchmarkSpec
<1>1. BenchmarkClientInit => BenchmarkInit
    BY DEF BenchmarkClientInit
<1> QED
    BY <1>1, PipelinesMapToServer, PTL DEF BenchmarkClientSpec, BenchmarkSpec

LEMMA PipelineInvHolds == BenchmarkClientSpec => [](Counting /\ Numbering /\ PipelineInv)
<1>1. BenchmarkClientInit => Counting /\ Numbering /\ PipelineInv
    BY BenchmarkInitInv, PipelineInitInv DEF BenchmarkClientInit
<1>2. Counting /\ Numbering /\ PipelineInv /\ [BenchmarkClientNext]_pipelineVars => (Counting /\ Numbering /\ PipelineInv)'
    <2> SUFFICES ASSUME Counting, Numbering, PipelineInv, [BenchmarkClientNext]_pipelineVars
                 PROVE  (Counting /\ Numbering /\ PipelineInv)'
        OBVIOUS
    <2>1. Counting' /\ Numbering'
        BY BenchmarkNextPreserves, PipelinesMapToServer
    <2>2. ASSUME UNCHANGED <<pipeline, twins, versions, edit>>, bench' = bench \/ \E r \in BenchRuns : JobStep(r)
          PROVE  PipelineInv'
        <3>1. \A r \in BenchRuns :
                 /\ bench'[r].version = bench[r].version
                 /\ bench[r].status \in {"COMPLETED", "FAILED"} => bench'[r].status = bench[r].status
                 /\ bench'[r].status # "CANCELLED"
            BY <2>2, JobKeeps DEF PipelineInv
        <3>2. \A p \in Pipelines : Posted(p)' /\ (p \in BenchRuns => Pinned(p)' /\ Reported(p)')
            BY <2>2, <3>1, PipelineKeeps
        <3>3. Suites' = Suites
            BY <2>2 DEF Suites
        <3> QED
            BY <2>2, <3>1, <3>2, <3>3 DEF PipelineInv
    <2>3. ASSUME NEW r \in BenchRuns, JobStep(r)
          PROVE  versions' = versions /\ edit' = edit
        BY <2>3 DEF JobStep, TakeBench, SkipBench, CreateChild, StartPolling, EndChild, BenchPoll,
           BenchProcess, BenchReturn, BenchFail, BenchInterrupt, BenchCrash
    <2>4. UNCHANGED pipelineVars => UNCHANGED <<pipeline, twins, versions, edit, bench>>
        BY DEF pipelineVars, benchVars
    <2> QED
        BY <2>1, <2>2, <2>3, <2>4, PostingKeeps, TriggeringKeeps DEF BenchmarkClientNext
<1> QED
    BY <1>1, <1>2, PTL DEF BenchmarkClientSpec

LEMMA PipelinesTold == BenchmarkClientSpec => []BenchmarkTold
<1>1. Counting /\ Numbering /\ PipelineInv => BenchmarkTold
    <2> SUFFICES ASSUME Counting, Numbering, PipelineInv
                 PROVE  BenchmarkTold
        OBVIOUS
    <2>1. ASSUME NEW p \in Pipelines \cap BenchRuns
          PROVE  Pinned(p) /\ Reported(p)
        BY DEF PipelineInv
    <2>2. \A p \in BenchRuns : bench[p].status = "COMPLETED" => \A m \in Candidates : results[p][m] = 1
        BY DEF Counting, OneResultPerCandidate
    <2>3. \A s \in Suites : s > 1 => s \in twins
        BY DEF PipelineInv
    <2> QED
        BY <2>1, <2>2, <2>3 DEF BenchmarkTold, Pinned, Reported
<1> QED
    BY <1>1, PipelineInvHolds, PTL

(* What the command line tells a pipeline is so, of an experiment and of a
   benchmark, whatever the server and the other clients do between its requests. *)
THEOREM ClientsToldTruly == CommandLineSpec => []ClientsTold
<1>1. ExitTruthful /\ BenchmarkTold => ClientsTold
    BY DEF ClientsTold
<1> QED
    BY <1>1, ExitsTruthful, PipelinesTold, PTL DEF CommandLineSpec
=============================================================================
