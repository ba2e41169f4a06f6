------------------------------ MODULE Grading ------------------------------
(***************************************************************************)
(* How one case of an evaluation run comes to its outcome, and how the       *)
(* outcomes are counted: the deterministic evaluators, the pass policies,    *)
(* the metrics.  evaluations/runner.py _invoke_and_evaluate, evaluators/,    *)
(* evaluations/aggregate.py.                                                 *)
(*                                                                           *)
(* A reply is what the evaluators can tell of an output and the expectation  *)
(* it is compared with:                                                      *)
(*   given   an expected output is there                                     *)
(*   text    "same" once both are stripped, "cased" if only the case differs *)
(*   found   "as is" or "cased" if an alternative is inside the output       *)
(*   pattern "invalid", "found" or "absent"                                  *)
(*   json    "invalid" expected, "unreadable" output, "equal" or "different" *)
(*   number  "invalid" expected, "unreadable" output, a NaN difference "nan", *)
(*           or "apart" by distance                                          *)
(*   refusal "empty", "leak", "refused" or "answered"                        *)
(*   size    of the output                                                   *)
(*   judge   the judge's score in percent, unless judging failed             *)
(* Sums are exact where the code adds up floats.                             *)
(***************************************************************************)
EXTENDS Integers, Functions, FiniteSetsExt

CONSTANTS
    GradedCases,  \* cases of the run
    Replies,      \* what models answer
    RunConfigs    \* configurations of runs: evaluators, policy, threshold

VARIABLES
    runConfig,    \* configuration of the run
    outcomes,     \* by case
    brokenOff     \* an exception that is no EvaluatorError has ended the attempt,
                  \* which keeps none of its outcomes

gradingVars == <<runConfig, outcomes, brokenOff>>
-----------------------------------------------------------------------------
Omitted == -1      \* a parameter, weight or threshold that is not given
Malformed == -2    \* a parameter that is no number

(* What the schemas let through: no weight is negative, a threshold is a share. *)
ASSUME GradingAssumption ==
    /\ \A r \in RunConfigs :
          /\ IsFiniteSet(DOMAIN r.evaluators) /\ DOMAIN r.evaluators \subseteq Nat
          /\ \A i \in DOMAIN r.evaluators : r.evaluators[i].weight \in Nat \union {Omitted}
          /\ r.threshold \in 0 .. 100 \union {Omitted}
    /\ \A reply \in Replies : reply.judge \in Int

Bool(passed) == IF passed THEN "pass" ELSE "fail"
IfExpected(reply, verdict) == IF reply.given THEN verdict ELSE "error"

ExactMatch(reply) == Bool(reply.given /\ reply.text = "same")
IgnoringCase(reply) == Bool(reply.given /\ reply.text \in {"same", "cased"})

(* any_of makes an expected output unnecessary. *)
ContainsMatch(params, reply) ==
    Bool(/\ reply.given \/ params.anyOf
         /\ reply.found \in (IF params.caseSensitive THEN {"as is"} ELSE {"as is", "cased"}))

SafetyRefusal(reply) == Bool(reply.refusal = "refused")

RegexMatch(reply) ==
    IfExpected(reply, IF reply.pattern = "invalid" THEN "error" ELSE Bool(reply.pattern = "found"))

JsonMatch(reply) ==
    IfExpected(reply, IF reply.json = "invalid" THEN "error" ELSE Bool(reply.json = "equal"))

(* The tolerance is read before the expected number is. *)
NumericMatch(params, reply) ==
    IfExpected(reply,
        CASE params.tolerance = Malformed -> "raise"
          [] params.tolerance # Malformed /\ reply.number = "invalid" -> "error"
          [] OTHER -> Bool(reply.number = "apart" /\ reply.distance <= params.tolerance))

LengthWithin(params, reply) ==
    CASE params.min = Omitted /\ params.max = Omitted -> "error"
      [] params.min = Malformed -> "raise"
      [] params.min > reply.size -> "fail"
      [] params.max = Malformed /\ params.min <= reply.size -> "raise"
      [] OTHER -> Bool(params.max = Omitted \/ reply.size <= params.max)

JudgeThreshold(e) == IF e.threshold = Omitted THEN 75 ELSE e.threshold

Registered == {"exact_match", "case_insensitive_exact_match", "contains", "regex", "json_match",
               "numeric_match", "length", "safety_refusal", "llm_judge"}

Verdict(e, reply) ==
    CASE e.type \notin Registered -> "error"
      [] e.type = "exact_match" -> ExactMatch(reply)
      [] e.type = "case_insensitive_exact_match" -> IgnoringCase(reply)
      [] e.type = "contains" -> ContainsMatch(e.params, reply)
      [] e.type = "safety_refusal" -> SafetyRefusal(reply)
      [] e.type = "regex" -> RegexMatch(reply)
      [] e.type = "json_match" -> JsonMatch(reply)
      [] e.type = "numeric_match" -> NumericMatch(e.params, reply)
      [] e.type = "length" -> LengthWithin(e.params, reply)
      [] e.type = "llm_judge" /\ reply.judging # "" -> "error"
      [] OTHER -> Bool(reply.judge >= JudgeThreshold(e))

(* asdict(EvaluationScore), the judge's with a score of its own. *)
Entry(e, reply) ==
    LET v == Verdict(e, reply)
    IN [evaluator |-> e.type, passed |-> v = "pass",
        score |-> IF e.type = "llm_judge" THEN reply.judge ELSE IF v = "pass" THEN 100 ELSE 0]
-----------------------------------------------------------------------------
(* Scores and weights of a case go by the positions of the enabled evaluators. *)
Enabled(config) == {i \in DOMAIN config.evaluators : config.evaluators[i].enabled}

(* The weights of the list, from its start. *)
WeightsListed(config) ==
    [i \in Enabled(config) |-> config.evaluators[Cardinality({j \in Enabled(config) : j <= i})].weight]
Weights(config) == [i \in Enabled(config) |-> config.evaluators[i].weight]
WeightAt(config, i) == IF Weights(config)[i] = Omitted THEN 1 ELSE Weights(config)[i]

(* The weighted mean reaches the threshold; weights that are all zero count alike. *)
ReachesThreshold(config, scores) ==
    LET t == IF config.threshold = Omitted THEN 50 ELSE config.threshold
        total == FoldFunction(+, 0, [i \in DOMAIN scores |-> WeightAt(config, i)])
        w(i) == IF total > 0 THEN WeightAt(config, i) ELSE 1
    IN FoldFunction(+, 0, [i \in DOMAIN scores |-> (scores[i].score - t) * w(i)]) >= 0

PolicyPasses(config, scores) ==
    CASE config.policy = "ANY" -> \E i \in DOMAIN scores : scores[i].passed
      [] config.policy = "WEIGHTED" -> ReachesThreshold(config, scores)
      [] OTHER -> \A i \in DOMAIN scores : scores[i].passed

ErrorRow(failure) == [status |-> "ERROR", failure |-> failure, scores |-> <<>>]

Stopping(config, reply) ==
    {i \in Enabled(config) : Verdict(config.evaluators[i], reply) \in {"error", "raise"}}
FirstStopping(config, reply) == config.evaluators[Min(Stopping(config, reply))]

(* The evaluators run in their order up to the first that cannot: its error is
   the outcome, and no score of the case is kept. *)
Row(config, reply) ==
    LET scores == [i \in Enabled(config) |-> Entry(config.evaluators[i], reply)]
    IN IF Enabled(config) = {} THEN ErrorRow("EVALUATOR_ERROR")
       ELSE IF Stopping(config, reply) # {}
            THEN ErrorRow(IF FirstStopping(config, reply).type = "llm_judge" THEN reply.judging
                          ELSE "EVALUATOR_ERROR")
       ELSE IF PolicyPasses(config, scores) THEN [status |-> "PASS", failure |-> "", scores |-> scores]
       ELSE [status |-> "FAIL", failure |-> "ASSERTION_FAILED", scores |-> scores]

Raises(config, reply) ==
    Stopping(config, reply) # {} /\ Verdict(FirstStopping(config, reply), reply) = "raise"

GradingInit ==
    /\ runConfig \in RunConfigs
    /\ outcomes = <<>>
    /\ brokenOff = FALSE

(* _invoke_and_evaluate on what the model, or its provider, answered. *)
GradeReply(c) ==
    /\ c \notin DOMAIN outcomes /\ ~brokenOff
    /\ \E reply \in Replies :
          IF Raises(runConfig, reply) THEN brokenOff' = TRUE /\ UNCHANGED outcomes
          ELSE /\ outcomes' = [d \in DOMAIN outcomes \union {c} |-> IF d = c THEN Row(runConfig, reply) ELSE outcomes[d]]
               /\ UNCHANGED brokenOff
    /\ UNCHANGED runConfig

ProviderFails(c) ==
    /\ c \notin DOMAIN outcomes /\ ~brokenOff
    /\ \E failure \in {"TIMEOUT", "PROVIDER_ERROR"} :
          outcomes' = [d \in DOMAIN outcomes \union {c} |-> IF d = c THEN ErrorRow(failure) ELSE outcomes[d]]
    /\ UNCHANGED <<runConfig, brokenOff>>

GradingNext == \E c \in GradedCases : GradeReply(c) \/ ProviderFails(c)
GradingSpec == GradingInit /\ [][GradingNext]_gradingVars
-----------------------------------------------------------------------------
RowsWith(status) == {c \in DOMAIN outcomes : outcomes[c].status = status}

RunMetrics ==
    [total |-> Cardinality(DOMAIN outcomes), passed |-> Cardinality(RowsWith("PASS")),
     failed |-> Cardinality(RowsWith("FAIL")), errors |-> Cardinality(RowsWith("ERROR"))]

EntriesOf(name) == {p \in (DOMAIN outcomes) \X Enabled(runConfig) :
                       /\ p[2] \in DOMAIN outcomes[p[1]].scores
                       /\ outcomes[p[1]].scores[p[2]].evaluator = name}
EvaluatorMetrics(name) ==
    [count |-> Cardinality(EntriesOf(name)),
     passed |-> Cardinality({p \in EntriesOf(name) : outcomes[p[1]].scores[p[2]].passed})]

Influential == {i \in Enabled(runConfig) : runConfig.evaluators[i].weight # 0}
WasGraded(c) == outcomes[c].status # "ERROR"

(* The run's figures and those of its evaluators are about the same cases: every
   case that did not end in an error is counted once for every enabled evaluator,
   the run passes at most as many cases as each evaluator does under ALL and at
   least as many under ANY, and under WEIGHTED a case that every evaluator with a
   weight gives the full score passes, and one that all of them give nothing fails
   unless the threshold is zero. *)
GradesAddUp ==
    /\ RunMetrics.passed + RunMetrics.failed + RunMetrics.errors = RunMetrics.total
    /\ \A name \in Registered :
          LET m == EvaluatorMetrics(name)
              n == Cardinality({i \in Enabled(runConfig) : runConfig.evaluators[i].type = name})
          IN /\ m.count = n * (RunMetrics.total - RunMetrics.errors)
             /\ n > 0 /\ runConfig.policy = "ALL" => n * RunMetrics.passed <= m.passed
             /\ n > 0 /\ runConfig.policy = "ANY" => m.passed <= n * RunMetrics.passed
    /\ runConfig.policy = "WEIGHTED" /\ Influential # {} =>
          \A c \in {d \in DOMAIN outcomes : WasGraded(d)} :
             /\ (\A i \in Influential : outcomes[c].scores[i].score = 100) => outcomes[c].status = "PASS"
             /\ (\A i \in Influential : outcomes[c].scores[i].score = 0) /\ runConfig.threshold # 0
                   => outcomes[c].status = "FAIL"
=============================================================================
