---------------------------- MODULE BenchmarkClient ----------------------------
(***************************************************************************)
(* `airex benchmark run` over the server of BenchmarkRun: app/cli.py         *)
(* cmd_benchmark_run.  With --config a pipeline looks its suite up by name,   *)
(* posts its configuration as a new version, or as a new suite when it found  *)
(* none, and triggers a run of the suite without naming the version; with     *)
(* --id it triggers at once.  It polls the run and exits with a code.  All    *)
(* suites here have the name in the configurations of all pipelines.          *)
(***************************************************************************)
EXTENDS BenchmarkRun

CONSTANT Pipelines   \* those outside BenchRuns are stopped before they trigger

ASSUME PipelinesAssumption == Pipelines \subseteq Edits

VARIABLES
    pipeline,   \* where each stands, the suite it found, its own version, its exit code
    twins       \* suites whose creator had looked before another of the name was there

pipelineVars == <<pipeline, twins, benchVars>>
-----------------------------------------------------------------------------
Start(stage, s) == [stage |-> stage, suite |-> s, own |-> 0, code |-> -1]

BenchmarkClientInit ==
    /\ BenchmarkInit /\ twins = {}
    /\ pipeline \in [Pipelines -> {Start("listing", 0)} \cup {Start("triggering", s) : s \in Suites}]

Goes(p, value) == pipeline' = [pipeline EXCEPT ![p] = value]
Told(p, code) == [pipeline[p] EXCEPT !.stage = "exited", !.code = code]

(* The newest suite comes first in the list. *)
FindSuite(p) ==
    /\ pipeline[p].stage = "listing"
    /\ Goes(p, IF Suites = {} THEN Start("creating", 0)
               ELSE Start("versioning", CHOOSE s \in Suites : \A t \in Suites : t <= s))
    /\ UNCHANGED <<twins, benchVars>>

PostSuite(p) ==
    /\ pipeline[p].stage = "creating"
    /\ CreateSuite(p)
    /\ LET new == Len(versions') IN
       /\ Goes(p, [pipeline[p] EXCEPT !.stage = "triggering", !.suite = versions'[new].suite, !.own = new])
       /\ twins' = IF Suites = {} THEN twins ELSE twins \cup {versions'[new].suite}

PostVersion(p) ==
    /\ pipeline[p].stage = "versioning"
    /\ ReadLatest(p, pipeline[p].suite)
    /\ UNCHANGED <<pipeline, twins>>

(* The server goes on with a version whose pipeline gave up waiting for it. *)
VersionPosted(p) ==
    /\ InsertVersion(p)
    /\ Goes(p, IF pipeline[p].stage = "exited" THEN pipeline[p]
               ELSE [pipeline[p] EXCEPT !.stage = "triggering", !.own = Len(versions')])
    /\ UNCHANGED twins

TriggerAny(p) ==
    /\ pipeline[p].stage = "triggering"
    /\ \E i \in DOMAIN versions : Trigger(p, i)
    /\ Goes(p, IF benchJob'[p].stage = "lost" THEN Told(p, 5) ELSE [pipeline[p] EXCEPT !.stage = "polling"])
    /\ UNCHANGED twins

(* Names no version, so the latest by then is run. *)
TriggerLatest(p) ==
    /\ pipeline[p].stage = "triggering"
    /\ \E i \in Latest(pipeline[p].suite) : Trigger(p, i)
    /\ Goes(p, IF benchJob'[p].stage = "lost" THEN Told(p, 5) ELSE [pipeline[p] EXCEPT !.stage = "polling"])
    /\ UNCHANGED twins

PollRun(p) ==
    /\ pipeline[p].stage = "polling"
    /\ bench[p].status \in BenchTerminal
    /\ Goes(p, Told(p, IF bench[p].status = "COMPLETED" THEN 0 ELSE 1))
    /\ UNCHANGED <<twins, benchVars>>

(* The polling has taken too long, or a request was refused or lost: codes 2 to 5. *)
GiveUp(p) ==
    /\ pipeline[p].stage # "exited"
    /\ Goes(p, Told(p, 5))
    /\ UNCHANGED <<twins, benchVars>>

BenchmarkClientNext ==
    \/ \E p \in Pipelines : \/ FindSuite(p) \/ PostSuite(p) \/ PostVersion(p) \/ VersionPosted(p) \/ GiveUp(p)
    \/ \E p \in Pipelines \cap BenchRuns : TriggerLatest(p) \/ PollRun(p)
    \/ (\E r \in BenchRuns : JobStep(r)) /\ UNCHANGED <<pipeline, twins>>

BenchmarkClientSpec == BenchmarkClientInit /\ [][BenchmarkClientNext]_pipelineVars
-----------------------------------------------------------------------------
(* What a pipeline is told of a benchmark is so: exit 0 belongs to a run with a
   result for every candidate, exit 1 to one that failed; the run is of the version
   the pipeline posted, or of one that was posted to its suite at the same time or
   later; and the name has one suite unless two pipelines found none
   (cli.py:844-958). *)
BenchmarkTold ==
    /\ \A p \in Pipelines \cap BenchRuns : pipeline[p].stage = "exited" =>
          LET pinned == bench[p].version
              own == pipeline[p].own
          IN /\ pipeline[p].code = 0 => bench[p].status = "COMPLETED" /\ \A m \in Candidates : results[p][m] = 1
             /\ pipeline[p].code = 1 => bench[p].status = "FAILED"
             /\ pinned # 0 /\ own # 0 =>
                   /\ versions[pinned].suite = versions[own].suite
                   /\ pinned = own \/ versions[pinned].number >= versions[own].number
    /\ \A s \in Suites : s > 1 => s \in twins
=============================================================================
