---------------------------- MODULE DecisionEngine ----------------------------
(* The release decision engine (services/decision_engine.py) as operators on a
   policy and on aggregated evidence. A source of evidence is a record with the
   field "there"; an unset rule of a policy is Unset; scores are small integers. *)
EXTENDS Integers, FiniteSets

Unset == -1

Check(rule, status, blocking) == [rule |-> rule, status |-> status, blocking |-> blocking]

(* A rule that is set gives one check: absent evidence, a pass or a failure. *)
Judge(rule, isSet, have, holds, absent, absentBlocks, failBlocks) ==
    IF ~isSet THEN {}
    ELSE {IF ~have THEN Check(rule, absent, absentBlocks)
          ELSE IF holds THEN Check(rule, "PASS", FALSE) ELSE Check(rule, "FAIL", failBlocks)}

Required(rule, isSet, there) == Judge(rule, isSet, there, TRUE, "MISSING", TRUE, TRUE)

Sources == {"eval", "exp", "bench", "agent"}

(* Observability is of traces inside the window and alerts are read now: both fresh. *)
Freshness(ev) == {Check(s, IF ev[s].fresh THEN "PASS" ELSE "STALE", FALSE) : s \in {x \in Sources : ev[x].there}}

(* int(min * 0.8) is the edge of the warning zone. *)
SampleCheck(p, ev) ==
    LET most == IF ev.bench.sample >= ev.eval.tests THEN ev.bench.sample ELSE ev.eval.tests
    IN IF p.minSample = Unset THEN {}
       ELSE {Check("min_sample_size",
                   IF most >= p.minSample THEN "PASS"
                   ELSE IF most >= (p.minSample * 8) \div 10 THEN "WARNING"
                   ELSE IF most = 0 THEN "MISSING" ELSE "FAIL", FALSE)}

Severity(ev) == IF ev.exp.there THEN ev.exp.severity ELSE 0

(* What the candidate must show. *)
DatasetRule(p, ev) ==
    Judge("dataset_version_compatibility", p.dataset, TRUE, ev.eval.there /\ ev.eval.dataset, "FAIL", TRUE, TRUE)
ScoreRule(p, ev) ==
    Judge("min_reliability_score", p.minScore # Unset, ev.bench.there, ev.bench.score >= p.minScore,
          "MISSING", TRUE, FALSE)
SeverityRule(p, ev) ==
    Judge("max_regression_severity", p.maxSeverity # Unset, TRUE, Severity(ev) <= p.maxSeverity, "FAIL", TRUE, TRUE)
GatesRule(p, ev) == Judge("required_quality_gates", p.gates, ev.exp.there, ev.exp.gates, "MISSING", TRUE, TRUE)

(* What its environment must show. *)
AlertRule(p, ev) == Judge("critical_alerts", TRUE, TRUE, ev.critical <= p.maxAlerts, "FAIL", TRUE, TRUE)
ErrorRule(p, ev) ==
    Judge("max_error_rate", p.maxError # Unset, ev.obs.there, ev.obs.error <= p.maxError, "WARNING", FALSE, FALSE)
LatencyRule(p, ev) ==
    Judge("max_p95_latency", p.maxP95 # Unset, ev.obs.there, ev.obs.p95 <= p.maxP95, "WARNING", FALSE, FALSE)

ConfidenceCheck(p, ev) ==
    Judge("min_statistical_confidence", p.minConfidence # Unset, ev.bench.there,
          ev.bench.confidence >= p.minConfidence, "WARNING", FALSE, FALSE)

(* Two rules of the engine that ask the same of the evidence. *)
AgentSafety(ev) == Judge("agent_safety", ev.agent.there, TRUE, ev.agent.violations = 0, "FAIL", TRUE, TRUE)

Checks(p, ev) ==
    UNION {Required("required_evaluation", p.reqEval, ev.eval.there),
           Required("required_benchmark", p.reqBench, ev.bench.there),
           Freshness(ev), DatasetRule(p, ev), ScoreRule(p, ev), SeverityRule(p, ev), GatesRule(p, ev),
           AlertRule(p, ev), ErrorRule(p, ev), LatencyRule(p, ev), SampleCheck(p, ev),
           ConfidenceCheck(p, ev), AgentSafety(ev)}

OutcomeOfMissing(p, ev) ==
    LET checks == Checks(p, ev)
        Some(status) == \E c \in checks : c.status = status
    IN IF \E c \in checks : c.blocking /\ c.status = "FAIL" THEN "BLOCKED"
       ELSE IF Some("FAIL") THEN "REJECTED"
       ELSE IF Some("WARNING") \/ Some("STALE") THEN "CONDITIONALLY_APPROVED"
       ELSE "APPROVED"

(* Blocking rules win, whatever the readiness score. *)
Outcome(p, ev) ==
    LET checks == Checks(p, ev)
        Some(status) == \E c \in checks : c.status = status
    IN IF \E c \in checks : c.blocking /\ c.status \in {"FAIL", "MISSING"} THEN "BLOCKED"
       ELSE IF Some("MISSING") /\ (p.reqBench \/ p.reqEval) THEN "INSUFFICIENT_EVIDENCE"
       ELSE IF Some("FAIL") THEN "REJECTED"
       ELSE IF Some("WARNING") \/ Some("STALE") THEN "CONDITIONALLY_APPROVED"
       ELSE "APPROVED"

(* The weighted score in hundredths of a point: a missing source counts with a
   default, and the agent's dimension, when there is one, takes its 15% from
   evaluation, benchmark and regression. *)
SeverityScore == <<100, 85, 60, 20, 0>>
Clamp(x) == IF x < 0 THEN 0 ELSE IF x > 100 THEN 100 ELSE x

Readiness(ev) ==
    LET agent == ev.agent.there
        Part(there, value, default, weight) == weight * (IF there THEN value ELSE default)
    IN Part(ev.eval.there, ev.eval.accuracy, 50, IF agent THEN 15 ELSE 20)
       + Part(ev.bench.there, ev.bench.score, 50, IF agent THEN 20 ELSE 25)
       + Part(TRUE, SeverityScore[Severity(ev) + 1], 0, IF agent THEN 15 ELSE 20)
       + Part(agent, ev.agent.score, 0, IF agent THEN 15 ELSE 0)
       + Part(ev.obs.there, Clamp(100 - ev.obs.error), 95, 15)
       + Part(TRUE, IF ev.critical > 0 THEN 0 ELSE IF ev.active > 0 THEN 60 ELSE 100, 0, 10)
       + Part(ev.obs.there, Clamp(100 - ev.obs.p95 \div 50), 80, 10)

-----------------------------------------------------------------------------
(* What a user may set in a policy. *)
PolicyRules ==
    [reqEval : BOOLEAN, reqBench : BOOLEAN, dataset : BOOLEAN, gates : BOOLEAN,
     minScore : Nat \cup {Unset}, maxSeverity : 0 .. 4 \cup {Unset}, maxAlerts : Nat,
     maxError : Nat \cup {Unset}, maxP95 : Nat \cup {Unset},
     minSample : Nat \cup {Unset}, minConfidence : Nat \cup {Unset}]

(* What can be known of its evidence. *)
EvaluationFacts == [there : BOOLEAN, fresh : BOOLEAN, dataset : BOOLEAN, tests : Nat, accuracy : 0 .. 100]
ExperimentFacts == [there : BOOLEAN, fresh : BOOLEAN, severity : 0 .. 4, gates : BOOLEAN]
BenchmarkFacts == [there : BOOLEAN, fresh : BOOLEAN, score : 0 .. 100, sample : Nat, confidence : 0 .. 100]
OperationFacts == [there : BOOLEAN, error : 0 .. 100, p95 : Nat]
AgentFacts == [there : BOOLEAN, fresh : BOOLEAN, violations : Nat, score : 0 .. 100]

EvidenceFacts ==
    [eval : EvaluationFacts, exp : ExperimentFacts, bench : BenchmarkFacts, obs : OperationFacts,
     agent : AgentFacts, active : Nat, critical : Nat]

(* What a release manager reads into APPROVED: every rule the policy sets was
   looked at on fresh evidence and met. Only the regression rule is met without
   evidence. *)
Earned(p, ev) ==
    /\ p.reqEval => ev.eval.there
    /\ p.reqBench => ev.bench.there
    /\ \A s \in Sources : ev[s].there => ev[s].fresh
    /\ p.dataset => ev.eval.there /\ ev.eval.dataset
    /\ p.minScore # Unset => ev.bench.there /\ ev.bench.score >= p.minScore
    /\ p.maxSeverity # Unset /\ ev.exp.there => ev.exp.severity <= p.maxSeverity
    /\ p.gates => ev.exp.there /\ ev.exp.gates
    /\ ev.critical <= p.maxAlerts
    /\ p.maxError # Unset => ev.obs.there /\ ev.obs.error <= p.maxError
    /\ p.maxP95 # Unset => ev.obs.there /\ ev.obs.p95 <= p.maxP95
    /\ p.minSample # Unset => ev.bench.sample >= p.minSample \/ ev.eval.tests >= p.minSample
    /\ p.minConfidence # Unset => ev.bench.there /\ ev.bench.confidence >= p.minConfidence
    /\ ev.agent.there => ev.agent.violations = 0
=============================================================================
