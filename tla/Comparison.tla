----------------------------- MODULE Comparison -----------------------------
(***************************************************************************)
(* What a finished experiment run concludes from the observations of one    *)
(* metric: the statistics, the classification, the severity of a regression *)
(* and the quality gates.  evaluations/statistics.py, regression.py,        *)
(* gates.py and the comparison loop of experiment_runner.py.                *)
(*                                                                          *)
(* A sample is a bag of observations, [ObservedValues -> count]; observing  *)
(* is the only action, and the conclusions are functions of the samples.    *)
(* Integers stand for the floats, multiplied out where the code divides, so *)
(* nothing here rounds: equal observations whose counts differ have equal   *)
(* means, where the code's may differ in the last bit.                      *)
(***************************************************************************)
EXTENDS Integers, FiniteSets, Functions

CONSTANTS
    ObservedValues,   \* values of an observation
    MaxSamples        \* bound on the observations of a side

ASSUME ComparisonAssumption == ObservedValues \subseteq Int /\ IsFiniteSet(ObservedValues) /\ MaxSamples \in Nat

VARIABLES baseline, candidate

comparisonVars == <<baseline, candidate>>
-----------------------------------------------------------------------------
Directions == {"HIGHER_IS_BETTER", "LOWER_IS_BETTER"}

SumOver(sample, Term(_)) == FoldFunction(+, 0, [v \in DOMAIN sample |-> sample[v] * Term(v)])
Size(sample) == SumOver(sample, LAMBDA v : 1)
Total(sample) == SumOver(sample, LAMBDA v : v)

(* n(n-1) times the variance of n observations *)
Spread(sample) == Size(sample) * SumOver(sample, LAMBDA v : v * v) - Total(sample) * Total(sample)

(* The sign of the difference of the means, and its value times both sizes. *)
MeanChange(b, c) == Total(c) * Size(b) - Total(b) * Size(c)

(* calculate_comparison_statistics returns None below five observations. *)
HasStatistics(b, c) == Size(b) >= 5 /\ Size(c) >= 5

(* p < 0.05, that is |t| > 1.96 = 49/25, squared and multiplied out; without any
   variance p is 0 or 1. *)
Significant(b, c) ==
    LET n == Size(b)
        m == Size(c)
        error == Spread(b) * m * m * (m - 1) + Spread(c) * n * n * (n - 1)
        change == MeanChange(b, c) * MeanChange(b, c) * (n - 1) * (m - 1)
    IN change > 3 * error + (526 * error) \div 625

(* classify_comparison; its tolerance of 1e-6 is below the differences here. *)
Classify(direction, b, c) ==
    IF IF HasStatistics(b, c) THEN ~Significant(b, c) ELSE MeanChange(b, c) = 0
    THEN "NO_SIGNIFICANT_CHANGE"
    ELSE IF (MeanChange(b, c) > 0) = (direction = "HIGHER_IS_BETTER") THEN "IMPROVED" ELSE "REGRESSED"

(* The relative difference of the means is at least percent/100; it counts as 0
   with a baseline of 0 or less. *)
RelativeAtLeast(b, c, percent) ==
    IF Total(b) > 0 THEN 100 * MeanChange(b, c) >= percent * Total(b) * Size(c) ELSE 0 >= percent
RelativeAtMost(b, c, percent) ==
    IF Total(b) > 0 THEN 100 * MeanChange(b, c) <= percent * Total(b) * Size(c) ELSE 0 <= percent

DegradedOfCandidate(direction, b, c, percent) ==
    IF direction = "HIGHER_IS_BETTER" THEN RelativeAtMost(c, b, percent) ELSE RelativeAtLeast(c, b, -percent)

(* The degradation is at most percent/100 of the baseline. *)
DegradedAtMost(direction, b, c, percent) ==
    IF direction = "HIGHER_IS_BETTER" THEN RelativeAtLeast(b, c, -percent) ELSE RelativeAtMost(b, c, percent)

(* calculate_severity *)
RegressionSeverity(direction, b, c) ==
    IF Classify(direction, b, c) # "REGRESSED" \/ DegradedAtMost(direction, b, c, 2) THEN "NONE"
    ELSE IF DegradedAtMost(direction, b, c, 5) THEN "LOW"
    ELSE IF DegradedAtMost(direction, b, c, 15) THEN "MEDIUM"
    ELSE IF DegradedAtMost(direction, b, c, 30) THEN "HIGH"
    ELSE "CRITICAL"

(* evaluate_gate of a RELATIVE_CHANGE gate; a metric that one side did not
   observe has no comparison. *)
Gate(operator, percent, required) == [operator |-> operator, percent |-> percent, required |-> required]
Passes(gate, b, c) ==
    CASE gate.operator = "GTE" -> RelativeAtLeast(b, c, gate.percent)
      [] gate.operator = "GT" -> ~RelativeAtMost(b, c, gate.percent)
      [] gate.operator = "LTE" -> RelativeAtMost(b, c, gate.percent)
      [] gate.operator = "LT" -> ~RelativeAtLeast(b, c, gate.percent)
GateStatus(gate, b, c) ==
    IF Size(b) = 0 \/ Size(c) = 0 THEN "INCONCLUSIVE"
    ELSE IF Passes(gate, b, c) THEN "PASS" ELSE "FAIL"

(* compute_overall_gate_status: optional gates have no say. *)
Overall(gates, b, c) ==
    LET required == {GateStatus(g, b, c) : g \in {h \in gates : h.required}} IN
    IF "FAIL" \in required THEN "FAIL" ELSE IF "INCONCLUSIVE" \in required THEN "INCONCLUSIVE" ELSE "PASS"
-----------------------------------------------------------------------------
ComparisonInit ==
    /\ baseline = [v \in ObservedValues |-> 0]
    /\ candidate = [v \in ObservedValues |-> 0]

(* A result of either evaluation contributes its observation. *)
Observe ==
    \E v \in ObservedValues :
        \/ Size(baseline) < MaxSamples /\ baseline' = [baseline EXCEPT ![v] = @ + 1] /\ UNCHANGED candidate
        \/ Size(candidate) < MaxSamples /\ candidate' = [candidate EXCEPT ![v] = @ + 1] /\ UNCHANGED baseline

ComparisonSpec == ComparisonInit /\ [][Observe]_comparisonVars
-----------------------------------------------------------------------------
Tolerated(direction, percent, required) ==
    IF direction = "HIGHER_IS_BETTER" THEN Gate("GTE", -percent, required) ELSE Gate("LTE", percent, required)

(* The three verdicts on one pair of samples are computed apart and fit
   together: with the sides swapped an improvement is a regression and no
   required gate fails both ways; and the severity of a regression is none
   exactly when a gate that tolerates a change of 2 % passes, at most HIGH when
   one that tolerates 30 % does - a baseline of 0 included, whose regressions
   have no severity and fail no such gate (evaluations/regression.py:75,
   gates.py:12). *)
VerdictsAgree ==
    Size(baseline) > 0 /\ Size(candidate) > 0 =>
        \A d \in Directions :
            LET class == Classify(d, baseline, candidate)
                severity == RegressionSeverity(d, baseline, candidate)
                gates(percent) == {Tolerated(d, percent, TRUE), Tolerated(d, 0, FALSE)}
                fails(percent) == Overall(gates(percent), baseline, candidate) = "FAIL"
            IN /\ (class = "REGRESSED") = (Classify(d, candidate, baseline) = "IMPROVED")
               /\ ~ (fails(2) /\ Overall(gates(2), candidate, baseline) = "FAIL")
               /\ class = "REGRESSED" => /\ (severity = "NONE") = ~fails(2)
                                         /\ (severity = "CRITICAL") = fails(30)
=============================================================================
