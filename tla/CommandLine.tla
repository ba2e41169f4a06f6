----------------------------- MODULE CommandLine ------------------------------
(***************************************************************************)
(* The two commands of app/cli.py a pipeline waits for, side by side: what   *)
(* their servers keep is in different tables.                               *)
(***************************************************************************)
EXTENDS CIClient, BenchmarkClient

CommandLineSpec == CIClientSpec /\ BenchmarkClientSpec

(* What the command line tells a pipeline is so (cmd_experiment_run,
   cmd_benchmark_run). *)
ClientsTold == ExitTruthful /\ BenchmarkTold
=============================================================================
