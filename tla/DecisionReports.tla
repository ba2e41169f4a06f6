---------------------------- MODULE DecisionReports ----------------------------
(***************************************************************************)
(* What a release manager is shown of the decisions of a project: the        *)
(* overview, the actions asked for, and the comparison of a decision with    *)
(* the one before.  compare_decisions, get_project_overview and              *)
(* get_project_actions of services/intelligence_service.py, and the two      *)
(* queries they start from.                                                  *)
(***************************************************************************)
EXTENDS Release

CONSTANT EarlierWorlds   \* what decisions to compare with may have been made on

ASSUME ReportsAssumption == EarlierWorlds \subseteq WorldRows

-----------------------------------------------------------------------------
LastOf(among) == {d \in among : \A o \in among : decision[o].evaluated <= decision[d].evaluated}

LatestDecided == LastOf({d \in Decisions : decision[d].status = "DECIDED"})

(* Any other than the current one, even when it was evaluated later. *)
PreviousDecided(current) ==
    LastOf({d \in Decisions \ {current} : decision[d].status \in {"DECIDED", "SUPERSEDED"}})

(* "NONE" before anything was decided. *)
ProjectOutcome == IF LatestDecided = {} THEN "NONE" ELSE decision[CHOOSE d \in LatestDecided : TRUE].outcome

StoredChecks(d) == UNION {Checks(e.rules, e.seen) : e \in decision[d].evidence}

OverallStatus(outcome) ==
    CASE outcome = "APPROVED" -> "READY"
      [] outcome \in {"REJECTED", "CONDITIONALLY_APPROVED"} -> "AT_RISK"
      [] outcome = "NONE" -> "INSUFFICIENT_EVIDENCE"
      [] OTHER -> outcome

NothingDecided == Check("decision", "MISSING", TRUE)
Unmet(checks) == {c \in checks : c.status \in {"FAIL", "MISSING"}}

FailuresListed(outcome, checks) ==
    CASE outcome = "BLOCKED" -> {c \in checks : c.status = "FAIL" /\ c.blocking}
      [] outcome \in {"REJECTED", "INSUFFICIENT_EVIDENCE"} -> Unmet(checks)
      [] outcome = "NONE" -> {NothingDecided}
      [] OTHER -> {}

BlockingIssues(outcome, checks) ==
    CASE outcome = "BLOCKED" -> {c \in Unmet(checks) : c.blocking}
      [] outcome \in {"REJECTED", "INSUFFICIENT_EVIDENCE"} -> Unmet(checks)
      [] outcome = "NONE" -> {NothingDecided}
      [] OTHER -> {}

OverviewWarnings(outcome, checks) ==
    IF outcome = "CONDITIONALLY_APPROVED" THEN {c \in checks : c.status \in {"WARNING", "STALE"}} ELSE {}

(* Other checks ask for nothing; without any action the system is all clear. *)
Asked(c) ==
    CASE c.status = "MISSING" /\ c.rule = "required_benchmark" -> {"RUN_BENCHMARK"}
      [] c.status = "MISSING" /\ c.rule = "required_evaluation" -> {"RUN_EVALUATION"}
      [] c.status = "FAIL" /\ c.rule = "critical_alerts" -> {"RESOLVE_ALERT"}
      [] c.status = "STALE" -> {"REFRESH_EVIDENCE"}
      [] OTHER -> {}

ProjectActions(outcome, checks) ==
    LET asked == UNION {Asked(c) : c \in checks}
    IN IF outcome = "NONE" THEN {"CREATE_DECISION", "RUN_BENCHMARK"} ELSE IF asked = {} THEN {"NONE"} ELSE asked
-----------------------------------------------------------------------------
(* A difference in tenths of a point, as floats: that of one tenth is below 0.1 or not. *)
ReadinessChange(ev, old) ==
    LET change == (Readiness(ev) + 5) \div 10 - (Readiness(old) + 5) \div 10
    IN CASE change = 0 -> {"UNCHANGED"}
         [] change > 0 -> {"IMPROVED"} \union IF change = 1 THEN {"UNCHANGED"} ELSE {}
         [] change < 0 -> {"REGRESSED"} \union IF change = -1 THEN {"UNCHANGED"} ELSE {}

Shift(change, tolerance) ==
    IF -tolerance < change /\ change < tolerance THEN "UNCHANGED"
    ELSE IF change > 0 THEN "IMPROVED" ELSE "REGRESSED"

(* A figure that one of the two lacks is not compared; a missing experiment is one
   without regression.  Less is better of errors, latencies and severities. *)
MetricChange(metric, change) == [metric |-> metric, change |-> change]

Compare(ev, old) ==
    LET Both(source) == ev[source].there /\ old[source].there
    IN UNION {{MetricChange("readiness", c) : c \in ReadinessChange(ev, old)},
              {MetricChange("max_regression_severity", Shift(Severity(old) - Severity(ev), 1))},
              IF ~Both("bench") THEN {}
              ELSE {MetricChange("min_reliability_score", Shift(ev.bench.score - old.bench.score, 1))},
              IF ~Both("obs") THEN {}
              ELSE {MetricChange("max_error_rate", Shift(old.obs.error - ev.obs.error, 1)),
                    MetricChange("max_p95_latency", Shift(old.obs.p95 - ev.obs.p95, 5))}}

Mirror(row) ==
    MetricChange(row.metric, CASE row.change = "IMPROVED" -> "REGRESSED"
                               [] row.change = "REGRESSED" -> "IMPROVED"
                               [] OTHER -> row.change)

Earlier == {Aggregate(w) : w \in EarlierWorlds}
-----------------------------------------------------------------------------
(* A release that is not ready says why, an approved one asks for nothing, and all
   clear means at least that what was required is there, fresh and without alerts. *)
Consistent(p, ev) ==
    LET checks == Checks(p, ev)
        outcome == Outcome(p, ev)
    IN /\ OverallStatus(outcome) = "READY"
             <=> BlockingIssues(outcome, checks) \union OverviewWarnings(outcome, checks) = {}
       /\ outcome = "APPROVED" => ProjectActions(outcome, checks) = {"NONE"}
       /\ ProjectActions(outcome, checks) = {"NONE"} =>
             /\ (p.reqEval => ev.eval.there) /\ (p.reqBench => ev.bench.there)
             /\ (\A s \in Sources : ev[s].there => ev[s].fresh)
             /\ ev.critical <= p.maxAlerts

(* A comparison read in the other direction says the opposite, and shows no figure
   as improved whose rule was met before and is not any more. *)
Truthful(p, ev, old) ==
    LET shown == Compare(ev, old)
        met == {c.rule : c \in {x \in Checks(p, old) : x.status = "PASS"}}
        broken == {c.rule : c \in {x \in Checks(p, ev) : x.status # "PASS"}}
    IN /\ {Mirror(row) : row \in shown} = Compare(old, ev)
       /\ \A row \in shown : row.metric \in met \intersect broken => row.change # "IMPROVED"

(* What would be shown of a decision made now, alone and next to an earlier one. *)
EvidenceReported(p, w) ==
    LET ev == Aggregate(w)
    IN Consistent(p, ev) /\ \A old \in Earlier : Truthful(p, ev, old)

(* Once something was decided the overview has a decision to show; it lists a reason
   from its stored checks unless it is approved; and the one it is compared with was
   superseded, unless each was decided before the other saw it. *)
DecisionsReported ==
    /\ LatestDecided = {} => \A d \in Decisions : decision[d].outcome = "NONE"
    /\ LatestDecided \intersect doubled = {} =>
          LET checks == UNION {StoredChecks(d) : d \in LatestDecided}
              ready == OverallStatus(ProjectOutcome) = "READY"
          IN /\ ready <=> BlockingIssues(ProjectOutcome, checks) \union OverviewWarnings(ProjectOutcome, checks) = {}
             /\ ready => ProjectActions(ProjectOutcome, checks) = {"NONE"}
    /\ \A d \in LatestDecided : \A o \in PreviousDecided(d) :
          decision[o].status = "SUPERSEDED" \/ {d, o} \in crossed

(* What is shown agrees with the policy and the evidence, whatever they change to,
   and with the decisions that are stored: get_project_overview,
   get_project_actions and compare_decisions of services/intelligence_service.py. *)
ReportsAgree ==
    /\ []DecisionsReported
    /\ EvidenceReported(policy.rules, world)
    /\ [][world' # world \/ policy' # policy => EvidenceReported(policy'.rules, world')]_releaseVars
=============================================================================
