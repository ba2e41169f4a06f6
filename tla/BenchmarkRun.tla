---------------------------- MODULE BenchmarkRun -----------------------------
(***************************************************************************)
(* Benchmark suites, their versions and runs: services/benchmark.py,        *)
(* evaluations/benchmark_runner.py and repositories/benchmark.py.  The job  *)
(* of a run has the shape of an experiment's, but it keeps the ids of its   *)
(* evaluations in local variables and writes everything it finds out in the *)
(* transaction that completes the run.  Scores are WeightedScore.           *)
(***************************************************************************)
EXTENDS Integers, Sequences, FiniteSets

CONSTANTS
    BenchRuns,     \* benchmark runs of the suites of one name
    Edits,         \* calls of create_suite or create_version
    Datasets,      \* dataset versions a benchmark version may pin
    Candidates,    \* candidate models of every version
    BenchAttempts, \* _max_retries
    BenchFaults    \* bound on crashes and unexpected exceptions

ASSUME BenchmarkAssumption ==
    BenchAttempts \in Nat \ {0} /\ BenchFaults \in Nat /\ Candidates # {}

VARIABLES
    versions,   \* benchmark_versions rows, in the order of insertion
    edit,       \* the calls of Edits, with the suite and the number each computed
    bench,      \* benchmark_runs: status and the index of the pinned version
    benchJob,   \* the delivery of each run's message
    children,   \* status of the evaluations the delivery created, by model
    results,    \* benchmark_results: how many rows each candidate has
    benchFaults \* faults so far

benchVars == <<versions, edit, bench, benchJob, children, results, benchFaults>>
-----------------------------------------------------------------------------
Baseline == "baseline"
Models == Candidates \cup {Baseline}
BenchTerminal == {"COMPLETED", "FAILED", "CANCELLED"}
BenchInSlot == {"create", "poll", "process", "return"}
BenchIdle == [stage |-> "none", attempt |-> 0]

BenchmarkTypeOK ==
    /\ versions \in Seq([suite : Nat \ {0}, number : Nat \ {0}, dataset : Datasets])
    /\ edit \in [Edits -> [stage : {"idle", "read", "done"}, suite : Nat, number : Nat]]
    /\ bench \in [BenchRuns -> [status : BenchTerminal \cup {"absent", "QUEUED", "RUNNING"},
                                version : 0 .. Len(versions)]]
    /\ benchJob \in [BenchRuns -> [stage : BenchInSlot \cup {"none", "queued", "done", "dead", "lost"},
                                   attempt : 0 .. BenchAttempts]]
    /\ children \in [BenchRuns -> [Models -> {"absent", "QUEUED", "COMPLETED", "FAILED"}]]
    /\ results \in [BenchRuns -> [Candidates -> Nat]]
    /\ benchFaults \in 0 .. BenchFaults

NoChildren == [m \in Models |-> "absent"]
NoResults == [m \in Candidates |-> 0]

(* There is no suite yet, or one with its first version. *)
BenchmarkInit ==
    /\ versions \in {<<>>} \cup {<<[suite |-> 1, number |-> 1, dataset |-> d]>> : d \in Datasets}
    /\ edit = [e \in Edits |-> [stage |-> "idle", suite |-> 0, number |-> 0]]
    /\ bench = [r \in BenchRuns |-> [status |-> "absent", version |-> 0]]
    /\ benchJob = [r \in BenchRuns |-> BenchIdle]
    /\ children = [r \in BenchRuns |-> NoChildren]
    /\ results = [r \in BenchRuns |-> NoResults]
    /\ benchFaults = 0

BenchFault == benchFaults < BenchFaults /\ benchFaults' = benchFaults + 1

Suites == {versions[i].suite : i \in DOMAIN versions}

(* get_latest_version: a row of the highest number, whichever if several have it *)
Latest(s) ==
    {i \in DOMAIN versions : /\ versions[i].suite = s
                             /\ \A k \in DOMAIN versions : versions[k].suite = s => versions[k].number <= versions[i].number}
-----------------------------------------------------------------------------
(* create_suite inserts version 1 with the suite; nothing makes its name unique. *)
CreateSuite(e) ==
    /\ edit[e].stage = "idle"
    /\ \E d \in Datasets :
          versions' = Append(versions, [suite |-> Cardinality(Suites) + 1, number |-> 1, dataset |-> d])
    /\ edit' = [edit EXCEPT ![e].stage = "done"]
    /\ UNCHANGED <<bench, benchJob, children, results, benchFaults>>

(* create_version numbers the version after the latest one it can see ... *)
ReadLatest(e, s) ==
    /\ edit[e].stage = "idle"
    /\ \E i \in Latest(s) :
          edit' = [edit EXCEPT ![e] = [stage |-> "read", suite |-> s, number |-> versions[i].number + 1]]
    /\ UNCHANGED <<versions, bench, benchJob, children, results, benchFaults>>

(* ... and inserts it; nothing makes the number unique. *)
InsertVersion(e) ==
    /\ edit[e].stage = "read"
    /\ \E d \in Datasets :
          versions' = Append(versions, [suite |-> edit[e].suite, number |-> edit[e].number, dataset |-> d])
    /\ edit' = [edit EXCEPT ![e].stage = "done"]
    /\ UNCHANGED <<bench, benchJob, children, results, benchFaults>>

(* trigger_run pins the version asked for, or the latest, and commits the run
   before it queues it: the message may never be sent. *)
Trigger(r, i) ==
    /\ bench[r].status = "absent"
    /\ bench' = [bench EXCEPT ![r] = [status |-> "QUEUED", version |-> i]]
    /\ \/ /\ benchJob' = [benchJob EXCEPT ![r] = [stage |-> "queued", attempt |-> 1]]
          /\ UNCHANGED benchFaults
       \/ benchJob' = [benchJob EXCEPT ![r].stage = "lost"] /\ BenchFault
    /\ UNCHANGED <<versions, edit, children, results>>
-----------------------------------------------------------------------------
BenchGo(r, here, next) ==
    /\ benchJob[r].stage = here
    /\ benchJob' = [benchJob EXCEPT ![r].stage = next]

TakeAlways(r) ==
    /\ BenchGo(r, "queued", "create")
    /\ bench' = [bench EXCEPT ![r].status = "RUNNING"]
    /\ children' = [children EXCEPT ![r] = NoChildren]
    /\ UNCHANGED <<versions, edit, results, benchFaults>>

(* BenchmarkRunner.run marks the run RUNNING unless it is terminal; no request
   changes the status of a benchmark run, so loading and marking are one step. *)
TakeBench(r) ==
    /\ bench[r].status \notin BenchTerminal
    /\ BenchGo(r, "queued", "create")
    /\ bench' = [bench EXCEPT ![r].status = "RUNNING"]
    /\ children' = [children EXCEPT ![r] = NoChildren]
    /\ UNCHANGED <<versions, edit, results, benchFaults>>

SkipBench(r) ==
    /\ bench[r].status \in BenchTerminal
    /\ BenchGo(r, "queued", "done")
    /\ UNCHANGED <<versions, edit, bench, children, results, benchFaults>>

(* One evaluation after another is committed and queued, the baseline first;
   the ids are only in the delivery. *)
CreateChild(r) ==
    /\ benchJob[r].stage = "create"
    /\ \E m \in Models :
          /\ children[r][m] = "absent" /\ (children[r][Baseline] = "absent" => m = Baseline)
          /\ children' = [children EXCEPT ![r][m] = "QUEUED"]
    /\ UNCHANGED <<versions, edit, bench, benchJob, results, benchFaults>>

StartPolling(r) ==
    /\ \A m \in Models : children[r][m] # "absent"
    /\ BenchGo(r, "create", "poll")
    /\ UNCHANGED <<versions, edit, bench, children, results, benchFaults>>

EndChild(r, m) ==
    /\ children[r][m] = "QUEUED"
    /\ \E s \in {"COMPLETED", "FAILED"} : children' = [children EXCEPT ![r][m] = s]
    /\ UNCHANGED <<versions, edit, bench, benchJob, results, benchFaults>>

(* The loop ends when all evaluations have ended.  (Its look at CANCELLED never
   finds it: nothing cancels a benchmark run.) *)
BenchPoll(r) ==
    /\ \A m \in Models : children[r][m] \in {"COMPLETED", "FAILED"}
    /\ BenchGo(r, "poll", "process")
    /\ UNCHANGED <<versions, edit, bench, children, results, benchFaults>>

(* A result per candidate, the evidence, clusters and recommendations derived
   from them, and the status, in one transaction. *)
BenchProcess(r) ==
    /\ \A m \in Models : children[r][m] = "COMPLETED"
    /\ BenchGo(r, "process", "return")
    /\ results' = [results EXCEPT ![r] = [m \in Candidates |-> @[m] + 1]]
    /\ bench' = [bench EXCEPT ![r].status = "COMPLETED"]
    /\ UNCHANGED <<versions, edit, children, benchFaults>>

BenchReturn(r) ==
    /\ BenchGo(r, "return", "done")
    /\ UNCHANGED <<versions, edit, bench, children, results, benchFaults>>

(* an evaluation that did not complete, a bad configuration, any other error:
   the run is FAILED and the worker does not retry *)
BenchFail(r) ==
    /\ \/ \E m \in Models : children[r][m] = "FAILED"
          /\ BenchGo(r, "process", "done") /\ UNCHANGED benchFaults
       \/ /\ benchJob[r].stage \in {"create", "poll", "process"}
          /\ BenchGo(r, benchJob[r].stage, "done") /\ BenchFault
    /\ bench' = [bench EXCEPT ![r].status = "FAILED"]
    /\ UNCHANGED <<versions, edit, children, results>>

(* the time-out of the worker: retried, then dead-lettered *)
BenchInterrupt(r) ==
    /\ benchJob[r].stage \in BenchInSlot
    /\ benchJob' = [benchJob EXCEPT ![r] =
                       IF @.attempt < BenchAttempts
                       THEN [stage |-> "queued", attempt |-> @.attempt + 1]
                       ELSE [@ EXCEPT !.stage = "dead"]]
    /\ UNCHANGED <<versions, edit, bench, children, results, benchFaults>>

BenchCrash(r) ==
    /\ benchJob[r].stage \in BenchInSlot /\ BenchFault
    /\ benchJob' = [benchJob EXCEPT ![r].stage = "lost"]
    /\ UNCHANGED <<versions, edit, bench, children, results>>
-----------------------------------------------------------------------------
Edit(e) == CreateSuite(e) \/ (\E s \in Suites : ReadLatest(e, s)) \/ InsertVersion(e)

JobStep(r) ==
    \/ TakeBench(r) \/ SkipBench(r) \/ CreateChild(r) \/ StartPolling(r)
    \/ \E m \in Models : EndChild(r, m)
    \/ BenchPoll(r) \/ BenchProcess(r) \/ BenchReturn(r)
    \/ BenchFail(r) \/ BenchInterrupt(r) \/ BenchCrash(r)

BenchmarkNext ==
    \/ \E e \in Edits : Edit(e)
    \/ \E r \in BenchRuns : JobStep(r) \/ \E i \in DOMAIN versions : Trigger(r, i)

BenchmarkSpec == BenchmarkInit /\ [][BenchmarkNext]_benchVars
-----------------------------------------------------------------------------
(* Time-outs, retries and crashes never leave half a comparison or two: every
   candidate has exactly one result if the run is COMPLETED and none otherwise,
   whichever delivery wrote it and whether or not it lived to return
   (evaluations/benchmark_runner.py:69-70, 231-453). *)
OneResultPerCandidate ==
    \A r \in BenchRuns, m \in Candidates :
        results[r][m] = IF bench[r].status = "COMPLETED" THEN 1 ELSE 0
=============================================================================
