------------------------------ MODULE Evidence ------------------------------
(* What is known of a model in an environment when its release is decided:
   services/evidence_aggregator.py as operators on the rows of the
   database.  Rows go by the order of their completion; where a row belongs
   is its scope:
     "model"     the model's own, in its project
     "project"   the project's, of another model or of none
     "elsewhere" another project's; of traces, another environment's too
   Whether a row is fresh is relative to the policy's age limit.  Traces are
   groups of like ones; scores and rates are in percent. *)
EXTENDS Integers, Sequences, Functions, FiniteSetsExt

NoEval == [there |-> FALSE, fresh |-> FALSE, dataset |-> FALSE, tests |-> 0, accuracy |-> 0]
NoExp == [there |-> FALSE, fresh |-> FALSE, severity |-> 0, gates |-> FALSE]
NoBench == [there |-> FALSE, fresh |-> FALSE, score |-> 0, sample |-> 0, confidence |-> 0]
NoObs == [there |-> FALSE, error |-> 0, p95 |-> 0]
NoAgent == [there |-> FALSE, fresh |-> FALSE, violations |-> 0, score |-> 0]

(* The rows a query looks at; of them it takes the one completed last. *)
Completed(rows, scopes) == {i \in DOMAIN rows : rows[i].status = "COMPLETED" /\ rows[i].scope \in scopes}

EvaluationEvidence(rows) ==
    LET own == Completed(rows, {"model"})
        e == rows[Max(own)]
    IN IF own = {} THEN NoEval
       ELSE [there |-> TRUE, fresh |-> e.fresh, dataset |-> e.dataset, tests |-> e.tests,
             accuracy |-> IF e.tests = 0 THEN 0 ELSE (100 * e.passed) \div e.tests]

(* The worst of its regressions, CRITICAL being 4; a run without gates has passed them. *)
ExperimentSummary(e) ==
    [there |-> TRUE, fresh |-> e.fresh, severity |-> Max(e.regressions \union {0}),
     gates |-> \A g \in e.gates : g = "PASS"]

(* Without an experiment of the model, any of the project stands in. *)
ExperimentEvidence(rows) ==
    LET own == Completed(rows, {"model"})
        any == Completed(rows, {"model", "project"})
    IN IF any = {} THEN NoExp
       ELSE ExperimentSummary(rows[Max(IF own = {} THEN any ELSE own)])

(* Without p-values the confidence is 95 %. *)
BenchmarkSummary(b, score) ==
    [there |-> TRUE, fresh |-> b.fresh, score |-> score, sample |-> Max(b.samples \union {0}),
     confidence |-> IF b.pvalues = {} THEN 95 ELSE 100 - Min(b.pvalues)]

(* Without a result of the model, the last run of anybody does, with the score of the run. *)
BenchmarkEvidence(rows) ==
    LET own == Completed(rows, {"model"})
        any == Completed(rows, {"model", "project", "elsewhere"})
    IN IF any = {} THEN NoBench
       ELSE IF own = {} THEN BenchmarkSummary(rows[Max(any)], rows[Max(any)].overall)
       ELSE BenchmarkSummary(rows[Max(own)], rows[Max(own)].result)

(* How many traces are in some of the groups. *)
TracesIn(groups, some) == FoldFunction(+, 0, [g \in groups |-> IF g \in some THEN g.count ELSE 0])

(* The least duration that 95 % of those that have one do not exceed. *)
P95(groups) ==
    LET timed == {g \in groups : g.duration >= 0}
        Within(d) == TracesIn(timed, {g \in timed : g.duration <= d})
    IN IF timed = {} THEN 0
       ELSE Min({d \in {g.duration : g \in timed} : 100 * Within(d) >= 95 * TracesIn(timed, timed)})

(* The traces in the environment and inside the limit, whichever model they are of. *)
ObservabilityEvidence(groups) ==
    LET own == {g \in groups : g.scope = "project" /\ g.fresh}
    IN IF own = {} THEN NoObs
       ELSE [there |-> TRUE, p95 |-> P95(own), error |-> (100 * TracesIn(own, {g \in own : g.error})) \div TracesIn(own, own)]

(* Of the whole project, whichever environment raised them. *)
ActiveAlerts(alerts) ==
    {a \in alerts : a.scope = "project" /\ a.status \in {"TRIGGERED", "ACKNOWLEDGED"}}

(* The last agent run of the project stands for every model. *)
AgentEvidence(rows) ==
    LET own == Completed(rows, {"project"})
        a == rows[Max(own)]
    IN IF own = {} THEN NoAgent
       ELSE [there |-> TRUE, fresh |-> a.fresh, violations |-> a.violations, score |-> a.score]

(* The runs are read first, what happens in operation after them. *)
RunEvidence(w) ==
    [eval |-> EvaluationEvidence(w.evals), exp |-> ExperimentEvidence(w.exps), bench |-> BenchmarkEvidence(w.benches)]
OperationEvidence(w) ==
    [obs |-> ObservabilityEvidence(w.traces), agent |-> AgentEvidence(w.agents),
     active |-> Cardinality(ActiveAlerts(w.alerts)),
     critical |-> Cardinality({a \in ActiveAlerts(w.alerts) : a.critical})]

Join(runs, operation) ==
    [f \in {"eval", "exp", "bench", "obs", "agent", "active", "critical"} |->
        IF f \in DOMAIN runs THEN runs[f] ELSE operation[f]]
Aggregate(w) == Join(RunEvidence(w), OperationEvidence(w))
-----------------------------------------------------------------------------
(* The rows a decision is to be about: those of the model, and of the project
   where they are of no model. *)
OwnRows(w) ==
    [evals |-> Restrict(w.evals, Completed(w.evals, {"model"})), exps |-> Restrict(w.exps, Completed(w.exps, {"model"})),
     benches |-> Restrict(w.benches, Completed(w.benches, {"model"})),
     agents |-> Restrict(w.agents, Completed(w.agents, {"project"})),
     traces |-> {g \in w.traces : g.scope = "project"}, alerts |-> {a \in w.alerts : a.scope = "project"}]

(* Evidence of something else stands in for what the model lacks. *)
Borrowed(w) ==
    \/ Completed(w.exps, {"model"}) = {} /\ ExperimentEvidence(w.exps).there
    \/ Completed(w.benches, {"model"}) = {} /\ BenchmarkEvidence(w.benches).there
-----------------------------------------------------------------------------
(* What the columns hold; a trace that has no duration has a negative one. *)
Scopes == {"model", "project", "elsewhere"}
EvaluationRows ==
    {r \in [scope : Scopes, status : STRING, fresh : BOOLEAN, dataset : BOOLEAN, tests : Nat, passed : Nat] :
        r.passed <= r.tests}
ExperimentRows ==
    [scope : Scopes, status : STRING, fresh : BOOLEAN, regressions : SUBSET (1 .. 4), gates : SUBSET STRING]
BenchmarkRows ==
    {r \in [scope : Scopes, status : STRING, fresh : BOOLEAN, samples : SUBSET Nat, pvalues : SUBSET (0 .. 100),
           overall : 0 .. 100, result : 0 .. 100] : IsFiniteSet(r.samples)}
AgentRows == [scope : Scopes, status : STRING, fresh : BOOLEAN, violations : Nat, score : 0 .. 100]
TraceRows == [scope : Scopes, fresh : BOOLEAN, error : BOOLEAN, duration : Int, count : Nat \ {0}]
AlertRows == [scope : Scopes, status : STRING, critical : BOOLEAN]

WorldRows ==
    {w \in [evals : Seq(EvaluationRows), exps : Seq(ExperimentRows), benches : Seq(BenchmarkRows),
           traces : SUBSET TraceRows, alerts : SUBSET AlertRows, agents : Seq(AgentRows)] :
        IsFiniteSet(w.traces) /\ IsFiniteSet(w.alerts)}
=============================================================================
