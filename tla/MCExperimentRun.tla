-------------------------- MODULE MCExperimentRun ---------------------------
(* Small instances of ExperimentRun, of BenchmarkRun and of the command line clients
   over them for TLC: a behaviour is of one of the four. *)
EXTENDS CommandLine

CONSTANTS r1, r2, key

VARIABLE part

SameKey == [r \in Runs |-> key]

Scenario(users, calls, cancels, deletes, faults) ==
    [users |-> users, calls |-> calls, cancels |-> cancels, deletes |-> deletes,
     faults |-> faults]

(* Two users and a fault; one user who does everything, with a fault; and two
   CI calls with one key, a cancellation, a deletion and a fault. *)
SmallScenarios ==
    {Scenario(Runs, {}, {}, {}, 1), Scenario({r1}, {}, {r1}, {r1}, 1),
     Scenario({}, Runs, {r1}, {r1}, 1), Scenario({}, {}, {}, {}, 0),
     Scenario({}, Runs, {r1}, {}, 0), Scenario({r1}, {}, {r1}, {r1}, 0)}

NoScenario == Scenario({}, {}, {}, {}, 0)

(* One client: its post and another with the same key, or its own start of a run
   which is cancelled or deleted. *)
ClientScenarios == {Scenario({}, Runs, {r1}, {}, 0), Scenario({r1}, {}, {r1}, {r1}, 0)}

RunsInit ==
    /\ part \in {"experiments", "benchmarks", "clients", "pipelines"}
    /\ CIClientInit /\ BenchmarkClientInit
    /\ part \in {"benchmarks", "pipelines"} => scope = NoScenario
    /\ part = "clients" => scope \in ClientScenarios
    /\ part # "pipelines" => \A p \in Pipelines : pipeline[p].stage = "listing"
    /\ part \notin {"benchmarks", "pipelines"} => versions = <<>>
    /\ part # "clients" => scope \notin ClientScenarios /\ \A r \in Clients : client[r].mode # "id"

RunsNext ==
    \/ part = "experiments" /\ ExperimentNext /\ UNCHANGED <<part, client, pipelineVars>>
    \/ part = "benchmarks" /\ BenchmarkNext /\ twins' = Suites' /\ UNCHANGED <<part, clientVars, pipeline>>
    \/ part = "clients" /\ CIClientNext /\ UNCHANGED <<part, pipelineVars>>
    \/ part = "pipelines" /\ BenchmarkClientNext /\ UNCHANGED <<part, clientVars>>

RunsSpec ==
    RunsInit /\ [][RunsNext]_<<part, clientVars, pipelineVars>> /\ ExperimentFairness

(* Every variable has its type. *)
RunsTypeOK == ExperimentTypeOK /\ BenchmarkTypeOK
=============================================================================
