-------------------------------- MODULE Alerts --------------------------------
(* The alert engine (evaluations/alert_engine.py), several evaluations of which
   may run at once, and the endpoints that acknowledge alerts and delete rules.
   One evaluation is one transaction over all the rules. *)
EXTENDS Integers, Sequences, FiniteSets

CONSTANTS Rules, Engines, Ackers, MaxAlerts, MaxEvaluations

ASSUME AlertsAssumption == IsFiniteSet(Rules) /\ IsFiniteSet(Engines)

VARIABLES enabled, alerts, engine, acker, evaluations, overlapping, paged, aborted

alertVars == <<enabled, alerts, engine, acker, evaluations, overlapping, paged, aborted>>

ActiveStatus == {"TRIGGERED", "ACKNOWLEDGED"}
AlertStatus == ActiveStatus \union {"RESOLVED", "DELETED"}
IdleEngine == [at |-> "idle", todo |-> {}, resolves |-> {}, inserts |-> {}]

AlertsInit ==
    /\ enabled = Rules /\ alerts = <<>>
    /\ engine = [e \in Engines |-> IdleEngine] /\ acker = [a \in Ackers |-> 0]
    /\ evaluations = 0 /\ overlapping = {}
    /\ paged = [r \in Rules |-> 0] /\ aborted = [r \in Rules |-> 0]

StartEvaluation(e) ==
    /\ engine[e].at = "idle" /\ evaluations < MaxEvaluations /\ enabled # {}
    /\ evaluations' = evaluations + 1
    /\ engine' = [engine EXCEPT ![e] = [IdleEngine EXCEPT !.at = "rules", !.todo = enabled]]
    /\ UNCHANGED <<enabled, alerts, acker, overlapping, paged, aborted>>

ActiveOf(r) == {i \in DOMAIN alerts : alerts[i].rule = r /\ alerts[i].status \in ActiveStatus}
TriggeredOf(r) == {i \in DOMAIN alerts : alerts[i].rule = r /\ alerts[i].status = "TRIGGERED"}

Checked(e, r) == [engine[e] EXCEPT !.todo = @ \ {r}]

(* A rollback takes back every insert of the evaluation, but no webhook. *)
Rollback(e) ==
    /\ engine' = [engine EXCEPT ![e] = IdleEngine]
    /\ aborted' = [r \in Rules |-> aborted[r] + IF r \in engine[e].inserts THEN 1 ELSE 0]
    /\ UNCHANGED <<enabled, alerts, acker, evaluations, overlapping, paged>>

(* No data, an incident that goes on, or nothing wrong and no incident. *)
NothingToDo(e, r) ==
    /\ r \in engine[e].todo
    /\ engine' = [engine EXCEPT ![e] = Checked(e, r)]
    /\ UNCHANGED <<enabled, alerts, acker, evaluations, overlapping, paged, aborted>>

TriggerUnlessTriggered(e, r) ==
    /\ r \in engine[e].todo /\ TriggeredOf(r) = {} /\ r \in enabled
    /\ engine' = [engine EXCEPT ![e] = [Checked(e, r) EXCEPT !.inserts = @ \union {r}]]
    /\ paged' = [paged EXCEPT ![r] = @ + 1]
    /\ overlapping' = overlapping \union {x \in {r} : \E f \in Engines \ {e} : r \in engine[f].inserts}
    /\ UNCHANGED <<enabled, alerts, acker, evaluations, aborted>>

(* The row is flushed, then the webhook sent, then the next rule looked at. *)
Trigger(e, r) ==
    /\ r \in engine[e].todo /\ ActiveOf(r) = {} /\ r \in enabled
    /\ engine' = [engine EXCEPT ![e] = [Checked(e, r) EXCEPT !.inserts = @ \union {r}]]
    /\ paged' = [paged EXCEPT ![r] = @ + 1]
    /\ overlapping' = overlapping \union {x \in {r} : \E f \in Engines \ {e} : r \in engine[f].inserts}
    /\ UNCHANGED <<enabled, alerts, acker, evaluations, aborted>>

(* The condition is normal again: the status is written at the commit. *)
Recover(e, r) ==
    /\ r \in engine[e].todo /\ Cardinality(ActiveOf(r)) = 1
    /\ engine' = [engine EXCEPT ![e] = [Checked(e, r) EXCEPT !.resolves = @ \union ActiveOf(r)]]
    /\ UNCHANGED <<enabled, alerts, acker, evaluations, overlapping, paged, aborted>>

(* scalar_one_or_none raises on two active alerts, and the insert of an alert
   whose rule is gone fails: the whole evaluation is lost. *)
RuleRaises(e, r) ==
    /\ r \in engine[e].todo
    /\ Cardinality(ActiveOf(r)) > 1 \/ (ActiveOf(r) = {} /\ r \notin enabled)
    /\ Rollback(e)

StillThere(ids) == \A i \in ids : alerts[i].status # "DELETED"

NewAlerts(inserts) ==
    {q \in [1..Cardinality(inserts) -> [rule : inserts, status : {"TRIGGERED"}]] :
        \A r \in inserts : \E i \in DOMAIN q : q[i].rule = r}

CommitEvaluation(e) ==
    /\ engine[e].at = "rules" /\ engine[e].todo = {} /\ StillThere(engine[e].resolves)
    /\ Len(alerts) + Cardinality(engine[e].inserts) <= MaxAlerts
    /\ \E new \in NewAlerts(engine[e].inserts) :
         alerts' = [i \in DOMAIN alerts |-> IF i \in engine[e].resolves
                                            THEN [alerts[i] EXCEPT !.status = "RESOLVED"] ELSE alerts[i]] \o new
    /\ engine' = [engine EXCEPT ![e] = IdleEngine]
    /\ UNCHANGED <<enabled, acker, evaluations, overlapping, paged, aborted>>

(* The update of a deleted row, a crash or a lost connection: nothing is written. *)
FailEvaluation(e) == engine[e].at = "rules" /\ Rollback(e)

(* acknowledge_alert looks at the status it read and writes without looking again;
   an acknowledgement of an alert resolved meanwhile makes it active again. *)
ReadAlert(a, i) ==
    /\ acker[a] = 0 /\ alerts[i].status = "TRIGGERED"
    /\ acker' = [acker EXCEPT ![a] = i]
    /\ UNCHANGED <<enabled, alerts, engine, evaluations, overlapping, paged, aborted>>

Acknowledge(a) ==
    /\ acker[a] # 0 /\ acker' = [acker EXCEPT ![a] = 0]
    /\ LET i == acker[a]
       IN IF alerts[i].status = "DELETED" THEN UNCHANGED <<alerts, overlapping>>
          ELSE /\ alerts' = [alerts EXCEPT ![i].status = "ACKNOWLEDGED"]
               /\ overlapping' = IF alerts[i].status = "RESOLVED" THEN overlapping \union {alerts[i].rule}
                                 ELSE overlapping
    /\ UNCHANGED <<enabled, engine, evaluations, paged, aborted>>

(* The alerts of a rule go with it; an insert that is not committed holds the row of its rule. *)
DeleteRule(r) ==
    /\ r \in enabled /\ \A e \in Engines : r \notin engine[e].inserts
    /\ enabled' = enabled \ {r}
    /\ alerts' = [i \in DOMAIN alerts |-> IF alerts[i].rule = r THEN [alerts[i] EXCEPT !.status = "DELETED"] ELSE alerts[i]]
    /\ UNCHANGED <<engine, acker, evaluations, overlapping, paged, aborted>>

AlertsNext ==
    \/ \E e \in Engines :
         \/ StartEvaluation(e) \/ CommitEvaluation(e) \/ FailEvaluation(e)
         \/ \E r \in Rules : NothingToDo(e, r) \/ Trigger(e, r) \/ Recover(e, r) \/ RuleRaises(e, r)
    \/ \E a \in Ackers : Acknowledge(a) \/ \E i \in DOMAIN alerts : ReadAlert(a, i)
    \/ \E r \in Rules : DeleteRule(r)

AlertsSpec == AlertsInit /\ [][AlertsNext]_alertVars
-----------------------------------------------------------------------------
AlertsTypeOK ==
    /\ enabled \subseteq Rules
    /\ \A i \in DOMAIN alerts : alerts[i].rule \in Rules /\ alerts[i].status \in AlertStatus
    /\ \A e \in Engines : engine[e].at \in {"idle", "rules"} /\ engine[e].inserts \subseteq Rules
    /\ paged \in [Rules -> Nat] /\ aborted \in [Rules -> Nat]

Pending(r) == Cardinality({e \in Engines : r \in engine[e].inserts})
Inserted(r) == Cardinality({i \in DOMAIN alerts : alerts[i].rule = r})

(* A rule has one active alert unless two evaluations overlapped on it or a stale
   acknowledgement revived one; and every page that went out has its alert, is of
   an evaluation still running, or of one that was rolled back. evaluate_alert_rules
   and acknowledge_alert. *)
OneAlertPerIncident ==
    \A r \in Rules :
        /\ r \notin overlapping => Cardinality(ActiveOf(r)) <= 1
        /\ paged[r] = Inserted(r) + Pending(r) + aborted[r]
=============================================================================
