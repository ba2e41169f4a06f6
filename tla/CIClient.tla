------------------------------ MODULE CIClient ------------------------------
(***************************************************************************)
(* `airex experiment run`: the command a pipeline waits for, over the       *)
(* server of ExperimentRun.  app/cli.py cmd_experiment_run and _request.    *)
(*                                                                          *)
(* A client posts, polls the runs of its experiment until one is terminal,  *)
(* its time is up or a request fails, and exits with a code.  An answer to  *)
(* a post leaves with the server's step that ends the request.              *)
(***************************************************************************)
EXTENDS ExperimentRun

CONSTANT Clients   \* the runs a client of the command line asked for

ASSUME ClientsAssumption == Clients \subseteq Runs

VARIABLE client

clientVars == <<client, expVars>>
-----------------------------------------------------------------------------
(* With a CI token the client posts a CI run, with --id it starts an experiment
   that was created before, else it creates one. *)
Modes(r) == IF r \in scope.calls THEN {"ci"} ELSE {"id", "new"}

Waiting(mode) == [stage |-> "waiting", mode |-> mode, watched |-> {}, seen |-> "absent", code |-> -1]
Watch(r, q) == [client[r] EXCEPT !.stage = "polling", !.watched = {q}]
Exit(r, code) == [client[r] EXCEPT !.stage = "exited", !.code = code]

CIClientInit ==
    /\ ExperimentInit
    /\ client \in [Clients -> UNION {{Waiting(m) : m \in Modes(r)} : r \in Clients}]
    /\ \A r \in Clients : client[r].mode \in Modes(r)

(* What the post of r is answered, if this step of the server ends it: with the
   CI run of the same key, whose run is not known before it is linked (6), with
   a server error (5), or with the run that was queued. *)
Answered(r) ==
    LET same == {q \in scope.calls : IdemKey[q] = IdemKey[r] /\ ci[q].status # "none"}
        linked == {q \in same : ci[q].stage = "linked"}
    IN CASE ci[r].stage = "idle" /\ ci'[r].stage = "ended" ->
              IF linked = {} THEN Exit(r, 6) ELSE Watch(r, CHOOSE q \in linked : TRUE)
         [] ci[r].stage \in {"created", "inserted"} /\ ci'[r].stage = "ended" -> Exit(r, 5)
         [] job[r].stage = "unsent" /\ job'[r].stage = "lost" -> Exit(r, 5)
         [] ci[r].stage = "inserted" /\ ci'[r].stage = "linked" -> Watch(r, r)
         [] r \in scope.users /\ job[r].stage = "unsent" /\ job'[r].stage = "queued" -> Watch(r, r)
         [] OTHER -> client[r]

ServerStep ==
    /\ ExperimentNext
    /\ client' = [r \in Clients |-> IF client[r].stage = "waiting" THEN Answered(r) ELSE client[r]]

Watched(r) == CHOOSE q \in client[r].watched : TRUE
Becomes(r, value) == client' = [client EXCEPT ![r] = value] /\ UNCHANGED expVars

(* One turn of the polling loop that finds the run gone or terminal; any other
   changes nothing. *)
PollStatus(r) ==
    /\ client[r].stage = "polling"
    /\ LET status == run[Watched(r)].status IN
       CASE status = "DELETED" -> Becomes(r, Exit(r, 4))
         [] status \in Terminal -> Becomes(r, [client[r] EXCEPT !.stage = "reading", !.seen = status])
         [] OTHER -> FALSE

TimeOut(r) == client[r].stage = "polling" /\ Becomes(r, Exit(r, 7))

(* A request is lost (5) or refused (3). *)
RequestFails(r) ==
    /\ client[r].stage \in {"waiting", "polling", "reading"}
    /\ \E code \in {3, 5} : Becomes(r, Exit(r, code))

(* Only an experiment that was not created by the command line has gates. *)
GatesStored(r) == client[r].mode = "id"

(* The gates of the run, an optional one of which may have failed. *)
OutcomeOfGates(r) ==
    \E optional \in BOOLEAN :
        LET failed == GatesStored(r) /\ (optional \/ verdict[Watched(r)] = "FAIL") IN
        Becomes(r, Exit(r, IF failed \/ client[r].seen = "FAILED" THEN 1 ELSE 0))

ReadGates(r) ==
    /\ client[r].stage = "reading"
    /\ CASE run[Watched(r)].status = "DELETED" -> Becomes(r, Exit(r, 4))
         [] client[r].seen = "CANCELLED" -> Becomes(r, Exit(r, 8))
         [] OTHER -> OutcomeOfGates(r)

ClientStep == \E r \in Clients : PollStatus(r) \/ TimeOut(r) \/ RequestFails(r) \/ ReadGates(r)

CIClientNext == ServerStep \/ ClientStep

CIClientSpec == CIClientInit /\ [][CIClientNext]_clientVars
-----------------------------------------------------------------------------
(* What a pipeline is told is so, whatever happened between its requests: a
   passing exit belongs to a run whose pair was compared and that failed no gate
   it had, exit 8 to a run somebody cancelled, exit 6 to a post that started
   none, and a client never reports on a run of another key (cli.py:505). *)
ExitTruthful ==
    \A r \in Clients : client[r].stage = "exited" =>
        LET code == client[r].code IN
        /\ code = 0 => /\ verdict[Watched(r)] # "none"
                       /\ GatesStored(r) => verdict[Watched(r)] # "FAIL"
        /\ code = 8 => cancel[Watched(r)].stage = "done"
        /\ code = 6 => run[r].status = "absent"
        /\ code \in {0, 1, 4, 7, 8} => Watched(r) = r \/ IdemKey[Watched(r)] = IdemKey[r]
=============================================================================
