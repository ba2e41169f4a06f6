----------------------------- MODULE Operations -----------------------------
(***************************************************************************)
(* What the platform reports about itself: the heartbeats of the workers,    *)
(* the readiness diagnostic, the operations overview and the alerts that go  *)
(* with it.  services/system_readiness.py, operations_service.py,            *)
(* operational_alert_service.py, api/v1/system.py, health.py.                *)
(*                                                                           *)
(* The plant is what the reports look at; a tick is the time the ages are    *)
(* counted in.  An overview reads the readiness, the queue and the workers   *)
(* one after the other, and the rest with the workers.                       *)
(***************************************************************************)
EXTENDS Integers, FiniteSets

CONSTANTS
    Fleet,          \* worker processes
    Consoles,       \* API processes that answer overviews
    Plants,         \* states of the rest of the platform
    HeartbeatLimit, \* 35 seconds, in ticks
    Shown,          \* heartbeats an overview reads, 20
    DedupWindow,    \* alert_dedup_window_seconds, in ticks
    MaxPlants       \* bound on the changes of the plant

(* The window is at least a tick: 300 seconds unless configured. *)
ASSUME OperationsAssumption ==
    /\ IsFiniteSet(Fleet) /\ Shown \in Nat \ {0}
    /\ HeartbeatLimit \in Nat /\ DedupWindow \in Nat \ {0}
    /\ Plants \subseteq [db : BOOLEAN, schema : {"head", "other", "unreadable"}, queue : {"up", "down", "memory"},
                        key : BOOLEAN, disk : BOOLEAN, depth : {"none", "some", "many"}, dlq : BOOLEAN,
                        traffic : {"quiet", "errors", "slow"}, open : Nat, checkedOut : Nat, alertRows : BOOLEAN]

VARIABLES
    plant,      \* database, schema, queue, key, disk, traffic, connections, alerts
    plants,     \* changes of the plant so far
    heartbeat,  \* worker_heartbeats rows: status and age, up to the limit and one more
    overview,   \* the overview each console is about to answer, or answered last
    since,      \* _last_alert_timestamps of each console, as ages up to the window
    told        \* how long ago an answer of the console held the alert, likewise

opsVars == <<plant, plants, heartbeat, overview, since, told>>
-----------------------------------------------------------------------------
AlertKeys == {"error_rate", "latency", "backlog", "dlq", "pool", "offline"}
NoOverview == [stage |-> "idle", checks |-> {}, depth |-> "none", dlq |-> FALSE,
               breached |-> {}, answer |-> {}, calm |-> TRUE]
Never == [k \in AlertKeys |-> DedupWindow]

OperationsInit ==
    /\ plant \in Plants /\ plants = 0
    /\ heartbeat = [w \in Fleet |-> [status |-> "absent", age |-> 0]]
    /\ overview = [p \in Consoles |-> NoOverview]
    /\ since = [p \in Consoles |-> Never]
    /\ told = [p \in Consoles |-> Never]

Older(age, limit) == IF age < limit THEN age + 1 ELSE age
Disturbed == [p \in Consoles |-> [overview[p] EXCEPT !.calm = FALSE]]

(* Every loop writes its row when it can; a failure is ignored. *)
Beat(w) ==
    /\ plant.db /\ heartbeat[w].status # "STOPPED"
    /\ heartbeat' = [heartbeat EXCEPT ![w] = [status |-> "ACTIVE", age |-> 0]]
    /\ overview' = Disturbed
    /\ UNCHANGED <<plant, plants, since, told>>

StopWorker(w) ==
    /\ plant.db /\ heartbeat[w].status = "ACTIVE"
    /\ heartbeat' = [heartbeat EXCEPT ![w] = [status |-> "STOPPED", age |-> 0]]
    /\ overview' = Disturbed
    /\ UNCHANGED <<plant, plants, since, told>>

PlantChanges ==
    /\ plants < MaxPlants /\ plants' = plants + 1
    /\ plant' \in Plants \ {plant}
    /\ overview' = Disturbed
    /\ UNCHANGED <<heartbeat, since, told>>

Aged(ages) == [p \in Consoles |-> [k \in AlertKeys |-> Older(ages[p][k], DedupWindow)]]
Tick ==
    /\ heartbeat' = [w \in Fleet |-> [heartbeat[w] EXCEPT !.age = Older(@, HeartbeatLimit + 1)]]
    /\ since' = Aged(since) /\ told' = Aged(told)
    /\ overview' = Disturbed
    /\ UNCHANGED <<plant, plants>>
-----------------------------------------------------------------------------
Alive == {w \in Fleet : heartbeat[w].status = "ACTIVE" /\ heartbeat[w].age <= HeartbeatLimit}

(* The statement that finds no alembic_version aborts the transaction: those after
   it fail as well. *)
SessionWorks == plant.db /\ plant.schema # "unreadable"

WorkersCheck ==
    IF SessionWorks /\ (Alive # {} \/ plant.queue = "memory") THEN "HEALTHY" ELSE "DEGRADED"

Diagnostics ==
    {<<"database", IF plant.db THEN "HEALTHY" ELSE "UNREADY">>,
     <<"database_migrations", IF SessionWorks /\ plant.schema = "head" THEN "HEALTHY" ELSE "DEGRADED">>,
     <<"task_queue", IF plant.queue = "down" THEN "UNREADY" ELSE "HEALTHY">>,
     <<"workers", WorkersCheck>>,
     <<"encryption_key", IF plant.key THEN "HEALTHY" ELSE "UNREADY">>,
     <<"storage", IF plant.disk THEN "HEALTHY" ELSE "DEGRADED">>}

OverallStatus(checks) ==
    LET Some(status) == \E c \in checks : c[2] = status
    IN IF Some("UNREADY") THEN "UNREADY" ELSE IF Some("DEGRADED") THEN "DEGRADED" ELSE "HEALTHY"

(* get_operations_overview begins with the diagnostic ... *)
EvaluateReadiness(p) ==
    /\ overview[p].stage \in {"idle", "answered", "raised"}
    /\ overview' = [overview EXCEPT ![p] = [NoOverview EXCEPT !.stage = "ready", !.checks = Diagnostics]]
    /\ UNCHANGED <<plant, plants, heartbeat, since, told>>

(* ... asks the queue, whose failure counts as an empty queue ... *)
ReadQueue(p) ==
    /\ overview[p].stage = "ready"
    /\ overview' = [overview EXCEPT ![p].stage = "queue",
           ![p].depth = IF plant.queue = "down" THEN "none" ELSE plant.depth,
           ![p].dlq = plant.queue # "down" /\ plant.dlq]
    /\ UNCHANGED <<plant, plants, heartbeat, since, told>>

(* Tenths of a percent, rounded, of the connections that are open and not of those
   the pool may open. *)
Utilization ==
    LET open == IF plant.open = 0 THEN 1 ELSE plant.open
    IN (2000 * plant.checkedOut + open) \div (2 * open)

(* The newest heartbeats, of running and stopped workers alike, and no more than an
   overview reads. *)
Rows == {w \in Fleet : heartbeat[w].status # "absent"}
NewestRows ==
    IF Cardinality(Rows) <= Shown THEN {Rows}
    ELSE {rows \in SUBSET Rows :
             /\ Cardinality(rows) = Shown
             /\ \A w \in rows, other \in Rows \ rows : heartbeat[w].age <= heartbeat[other].age}

Breached(p, rows) ==
    {k \in AlertKeys :
        CASE k = "error_rate" -> plant.traffic = "errors"
          [] k = "latency" -> plant.traffic = "slow"
          [] k = "backlog" -> overview[p].depth = "many"
          [] k = "dlq" -> overview[p].dlq
          [] k = "pool" -> Utilization > 850
          [] k = "offline" -> rows \cap Alive = {} /\ overview[p].depth # "none"}

(* _should_emit *)
ShouldEmit(p, k) == since[p][k] = DedupWindow

(* The workers are read in the same transaction; an alert row has no name, which
   the count of the incidents asks for. *)
OverviewRaises(p) == ~SessionWorks \/ plant.alertRows

Refreshed(p, breached) == [k \in AlertKeys |-> IF k \in breached THEN 0 ELSE since[p][k]]
Stamped(p, breached) == [k \in AlertKeys |-> IF k \in breached /\ ShouldEmit(p, k) THEN 0 ELSE since[p][k]]

(* ... and then the workers, and answers with the alerts of this console. *)
AnswerOverview(p) ==
    /\ overview[p].stage = "queue" /\ ~OverviewRaises(p)
    /\ \E rows \in NewestRows :
       LET breached == Breached(p, rows)
           answer == {k \in breached : ShouldEmit(p, k)}
       IN /\ overview' = [overview EXCEPT ![p].stage = "answered",
                                          ![p].breached = breached, ![p].answer = answer]
          /\ since' = [since EXCEPT ![p] = Stamped(p, breached)]
          /\ told' = [told EXCEPT ![p] = [k \in AlertKeys |-> IF k \in answer THEN 0 ELSE @[k]]]
    /\ UNCHANGED <<plant, plants, heartbeat>>

RaiseOverview(p) ==
    /\ overview[p].stage = "queue" /\ OverviewRaises(p)
    /\ overview' = [overview EXCEPT ![p] = [NoOverview EXCEPT !.stage = "raised"]]
    /\ UNCHANGED <<plant, plants, heartbeat, since, told>>

OperationsNext ==
    \/ Tick \/ PlantChanges
    \/ \E w \in Fleet : Beat(w) \/ StopWorker(w)
    \/ \E p \in Consoles : EvaluateReadiness(p) \/ ReadQueue(p) \/ AnswerOverview(p) \/ RaiseOverview(p)

OperationsSpec == OperationsInit /\ [][OperationsNext]_opsVars
-----------------------------------------------------------------------------
(* Workers that stopped so lately that a beat as old would still count. *)
StoppedLately == {w \in Fleet : heartbeat[w].status = "STOPPED" /\ heartbeat[w].age <= HeartbeatLimit}

(* "Sliding-window deduplication" silences repetitions and no breach: whatever an
   overview finds is in its answer, or was in one of the same console within the
   window, however the plant goes up and down between them.  And the parts of an
   answer agree if nothing happened while it was collected: workers are reported
   offline only if the diagnostic missed them too, or the queue is in memory, or as
   many as the overview reads stopped lately and hide those that run; and a queue
   that is down hides its backlog behind UNREADY. *)
BreachesAreTold ==
    \A p \in Consoles : overview[p].stage = "answered" =>
        /\ overview[p].calm => \A k \in overview[p].breached : told[p][k] < DedupWindow
        /\ overview[p].calm =>
             LET overall == OverallStatus(overview[p].checks) IN
             /\ "offline" \in overview[p].breached =>
                   \/ <<"workers", "DEGRADED">> \in overview[p].checks
                   \/ plant.queue = "memory" \/ Cardinality(StoppedLately) >= Shown
             /\ plant.queue = "down" => overall = "UNREADY" /\ overview[p].breached \cap {"backlog", "dlq", "offline"} = {}
             /\ overall = "HEALTHY" => Alive # {} \/ plant.queue = "memory"
=============================================================================
