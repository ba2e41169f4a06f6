------------------------------- MODULE MCPlatform -------------------------------
(* Small instances for TLC of components that share no state: a behaviour is of one
   part, and the variables of the others keep their initial values. *)
EXTENDS Telemetry, DecisionReports, TraceStatistics, AgentRun, ModelCalls, Judging, Comparison, Rubrics,
        Grading, TLC

CONSTANTS t1, t2, s1, s2, s3, c1, c2, c3, p1, p2, d1, d2, a1, a2, e1, e2, e3

VARIABLE part

platformVars == <<part, teleVars, releaseVars, agentVars, callVars, judgeVars,
                  comparisonVars, rubricVars, gradingVars, statVars>>

(* Two scopes of one trace id and one of another, cut into two batches. *)
TwoBatches == <<[events |-> {Event(t1, "trace"), Event(t1, s1), Event(t2, s3)}, left |-> MaxDeliveries],
                [events |-> {Event(t1, "trace"), Event(t1, s2), Event(t2, "trace")}, left |-> MaxDeliveries]>>

(* The batches are posted, or one is and every span of it; in the client's part a
   request with a span outside every trace was lost before. *)
ClientInit ==
    /\ ctx = None /\ queue = <<>> /\ batch = <<>> /\ thread = "run"
    /\ dropped = {} /\ flush = NoFlush
    /\ CASE part = "ingest" ->
              /\ home = (s1 :> t1 @@ s2 :> t1 @@ s3 :> t2)
              /\ jobs = TwoBatches /\ scopes = MaxScopes /\ lost = {}
         [] part = "quality" ->
              /\ home = (s1 :> None @@ s2 :> t1 @@ s3 :> None)
              /\ jobs = <<[TwoBatches[2] EXCEPT !.left = 1]>> /\ scopes = MaxScopes /\ lost = {}
         [] OTHER ->
              /\ home = (s1 :> None @@ s2 :> None @@ s3 :> Stray)
              /\ jobs = <<>> /\ scopes = 0 /\ lost = {Event(Stray, s3)}

(* Policies that set no rule, each rule, or every rule; each source absent, good or bad. *)
NoRules == [reqEval |-> FALSE, reqBench |-> FALSE, dataset |-> FALSE, gates |-> FALSE, minScore |-> Unset,
            maxSeverity |-> Unset, maxAlerts |-> 0, maxError |-> Unset, maxP95 |-> Unset,
            minSample |-> Unset, minConfidence |-> Unset]
AllRules == [reqEval |-> TRUE, reqBench |-> TRUE, dataset |-> TRUE, gates |-> TRUE, minScore |-> 80,
             maxSeverity |-> 1, maxAlerts |-> 0, maxError |-> 5, maxP95 |-> 1000, minSample |-> 10, minConfidence |-> 95]
AnyPolicies == {[f \in DOMAIN NoRules |-> IF f \in set THEN AllRules[f] ELSE NoRules[f]] :
                   set \in {{}, DOMAIN NoRules} \union {{f} : f \in DOMAIN NoRules}
                          \union {{"minSample", g} : g \in {"reqEval", "reqBench", "minScore"}}}

(* Rows of every source: none, one, the last failed, or the last of something else. *)
Rows(Own, Good, others) ==
    {<<>>} \union {<<r>> : r \in Own \union others} \union {<<Good, r>> : r \in others}
GoodEval == [scope |-> "model", status |-> "COMPLETED", fresh |-> TRUE, dataset |-> TRUE, tests |-> 10, passed |-> 9]
GoodExp == [scope |-> "model", status |-> "COMPLETED", fresh |-> TRUE, regressions |-> {}, gates |-> {}]
GoodBench == [scope |-> "model", status |-> "COMPLETED", fresh |-> TRUE, samples |-> {4, 10}, pvalues |-> {},
              overall |-> 80, result |-> 80]
GoodAgent == [scope |-> "project", status |-> "COMPLETED", fresh |-> TRUE, violations |-> 0, score |-> 50]
Traces(error, duration, count) ==
    [scope |-> "project", fresh |-> TRUE, error |-> error, duration |-> duration, count |-> count]
Alarm(status, critical) == [scope |-> "project", status |-> status, critical |-> critical]
AnyWorlds ==
    [evals : Rows({GoodEval, [GoodEval EXCEPT !.fresh = FALSE], [GoodEval EXCEPT !.tests = 8, !.passed = 8],
                   [GoodEval EXCEPT !.tests = 0, !.passed = 0, !.dataset = FALSE]},
                  GoodEval, {[GoodEval EXCEPT !.status = "FAILED", !.passed = 0]}),
     exps : Rows({[GoodExp EXCEPT !.regressions = {1, 4}]},
                 [GoodExp EXCEPT !.gates = {"PASS"}], {[GoodExp EXCEPT !.scope = "project", !.gates = {"PASS", "FAIL"}]}),
     benches : Rows({[GoodBench EXCEPT !.result = 70], [GoodBench EXCEPT !.samples = {}, !.pvalues = {5, 6}],
                     [GoodBench EXCEPT !.pvalues = {6}]},
                    GoodBench, {[GoodBench EXCEPT !.scope = "elsewhere", !.overall = 90, !.result = 0]}),
     traces : {{Traces(FALSE, 1000, 19), Traces(TRUE, 1001, 1)}, {Traces(FALSE, 1000, 47), Traces(TRUE, 1001, 3)},
               {[Traces(TRUE, 1, 1) EXCEPT !.scope = "elsewhere"], [Traces(TRUE, 1, 1) EXCEPT !.fresh = FALSE]}},
     alerts : {{}, {Alarm("TRIGGERED", FALSE), Alarm("RESOLVED", TRUE)},
               {Alarm("ACKNOWLEDGED", TRUE), [Alarm("TRIGGERED", TRUE) EXCEPT !.scope = "elsewhere"]}},
     agents : {<<>>, <<GoodAgent, [GoodAgent EXCEPT !.violations = 1]>>,
               <<GoodAgent, [GoodAgent EXCEPT !.scope = "elsewhere", !.violations = 1]>>}]
GoodWorld == [evals |-> <<GoodEval>>, exps |-> <<>>, benches |-> <<>>, traces |-> {}, alerts |-> {}, agents |-> <<>>]
FewWorlds == {GoodWorld, [GoodWorld EXCEPT !.evals = <<>>, !.alerts = {Alarm("TRIGGERED", TRUE)}]}
FewPolicies == {NoRules, [NoRules EXCEPT !.maxAlerts = 1, !.minSample = 20]}

(* Decisions to compare with had everything, better or worse. *)
RichWorld == [evals |-> <<GoodEval>>, exps |-> <<GoodExp>>, benches |-> <<GoodBench>>, alerts |-> {}, agents |-> <<>>,
              traces |-> {Traces(FALSE, 1000, 19), Traces(TRUE, 1001, 1)}]
RichWorlds == {RichWorld,
               [RichWorld EXCEPT !.exps = <<[GoodExp EXCEPT !.regressions = {2}]>>, !.benches = <<[GoodBench EXCEPT !.result = 75]>>,
                                 !.traces = {Traces(TRUE, 1200, 1), Traces(FALSE, 900, 9)}]}

(* Traces of two environments and of none, with and without a duration, and one of
   another time; spans of either of two models, of none, and not of a model at all. *)
OneTrace == [env |-> "production", error |-> FALSE, duration |-> 20, within |-> TRUE]
FewTraces == {OneTrace, [OneTrace EXCEPT !.duration = 90, !.error = TRUE], [OneTrace EXCEPT !.env = "staging", !.duration = 0],
              [OneTrace EXCEPT !.env = "", !.duration = Absent], [OneTrace EXCEPT !.within = FALSE, !.duration = 50]}
OneSpan == [llm |-> TRUE, model |-> "small", provider |-> "one", error |-> FALSE, cost |-> 3, duration |-> 7]
FewSpans == {OneSpan, [OneSpan EXCEPT !.model = "large", !.cost = Absent], [OneSpan EXCEPT !.model = "", !.error = TRUE, !.cost = 5],
             [OneSpan EXCEPT !.llm = FALSE, !.cost = -4]}

(* Alerts and agent runs count by themselves: with either, no row of an experiment. *)
FewSourced ==
    {w \in AnyWorlds : (w.alerts = {} /\ w.agents = <<>>) \/ (w.exps = <<>> /\ (w.alerts = {} \/ w.agents = <<>>))}

EngineInit ==
    /\ \E p \in AnyPolicies : policy = [version |-> 1, rules |-> p] /\ policies = <<{p}>>
    /\ updates = [u \in PolicyWriters |-> NoUpdate] /\ contested = {}
    /\ world \in FewSourced /\ worlds = 0 /\ starts = 0
    /\ decision = [d \in Decisions |-> NoDecision]
    /\ evaluation = [d \in Decisions |-> NoEvaluation] /\ waiting = [d \in Decisions |-> NoEvaluation]
    /\ registry = [d \in Decisions |-> NoRecord] /\ crossed = {} /\ doubled = {} /\ clock = 0

Task(act, forbidden) == [expected |-> <<"calculator">>, forbidden |-> forbidden, maxSteps |-> 4, maxCalls |-> 2, act |-> act]
FewTasks == {Task("loop", <<>>), Task("forbidden", <<"calculator">>), Task("recover", <<>>), Task("", <<>>),
             [Task("", <<"forbidden_tool">>) EXCEPT !.maxSteps = 8, !.maxCalls = 3]}
FewSteps == {Call("calculator"), Call("fetch_api"), Call("search_tool"),
             Result("fetch_api", TRUE), Result("fetch_api", FALSE), Step("ERROR", FALSE, ""),
             Step("FINAL", TRUE, ""), Step("FINAL", FALSE, "")}

(* Two cases with equal prompts and one of its own; a judge that answers well, with
   a criterion left out, out of range, about a criterion nobody asked for, or
   without a reason. *)
CasePrompts == c1 :> p1 @@ c2 :> p1 @@ c3 :> p2
GoodAnswer == [object |-> TRUE, fields |-> TRUE, criteria |-> "within", overall |-> 75,
               confidence |-> 50, boolean |-> TRUE, reasoning |-> "given"]
FewAnswers == {GoodAnswer, [GoodAnswer EXCEPT !.criteria = "missing", !.overall = 74],
               [GoodAnswer EXCEPT !.overall = 101], [GoodAnswer EXCEPT !.criteria = "unknown"],
               [GoodAnswer EXCEPT !.reasoning = "blank"]}

(* Every evaluator by itself, and two together under every policy, one without a
   weight or disabled.  An output that is right, one of the right words, and one
   that is wrong; expectations that are none, or that cannot be read. *)
Plain == [anyOf |-> FALSE, caseSensitive |-> TRUE, tolerance |-> 0, min |-> Omitted, max |-> 80]
Evaluator(type, weight) == [type |-> type, enabled |-> TRUE, weight |-> weight, threshold |-> Omitted, params |-> Plain]
ExactOf == Evaluator("exact_match", 3)
JudgeOf == Evaluator("llm_judge", 1)
LooseOf == [Evaluator("contains", 0) EXCEPT !.params.caseSensitive = FALSE]
Misread(type) == [Evaluator(type, Omitted) EXCEPT !.params.tolerance = Malformed, !.params.max = Malformed]
FewConfigs ==
    [evaluators : {<<Evaluator(t, Omitted)>> : t \in Registered \union {"unknown"}}
                  \union {<<Misread(t)>> : t \in {"numeric_match", "length"}},
     policy : {"ALL"}, threshold : {Omitted}]
    \union [evaluators : {<<ExactOf, JudgeOf>>, <<LooseOf, ExactOf>>, <<[ExactOf EXCEPT !.enabled = FALSE], LooseOf, ExactOf>>,
                          <<[ExactOf EXCEPT !.enabled = FALSE]>>, <<LooseOf, LooseOf>>, <<JudgeOf, Evaluator("length", Omitted)>>},
            policy : {"ALL", "ANY", "WEIGHTED"}, threshold : {Omitted, 0, 100}]

RightReply == [given |-> TRUE, text |-> "same", found |-> "as is", pattern |-> "found", json |-> "equal",
               number |-> "apart", distance |-> 0, refusal |-> "refused", size |-> 80, judge |-> 100, judging |-> ""]
WordsReply == [RightReply EXCEPT !.text = "cased", !.found = "cased", !.pattern = "absent", !.json = "different",
                                 !.number = "nan", !.refusal = "leak", !.size = 81, !.judge = 74]
WrongReply == [WordsReply EXCEPT !.text = "other", !.found = "no", !.json = "unreadable", !.number = "unreadable",
                                 !.refusal = "answered", !.judge = 0]
FewReplies == {RightReply, WordsReply, WrongReply, [RightReply EXCEPT !.given = FALSE, !.judge = 75],
               [RightReply EXCEPT !.pattern = "invalid", !.json = "invalid", !.number = "invalid", !.judging = "TIMEOUT"]}

(* Decisions do not differ from each other, nor do updates of an agent and the spans and
   traces of a client: of two in the same state only the first moves. *)
DecisionsInTurn ==
    /\ decision[d1] = decision[d2] /\ evaluation[d1] = evaluation[d2] /\ waiting[d1] = waiting[d2]
    /\ registry[d1] = registry[d2] /\ (d1 \in doubled <=> d2 \in doubled)
    => UNCHANGED <<decision[d2], evaluation[d2], waiting[d2], registry[d2]>>

EditorsInTurn ==
    \A pair \in {<<e1, e2>>, <<e1, e3>>, <<e2, e3>>} :
        edits[pair[1]] = edits[pair[2]] => edits'[pair[2]].stage = edits[pair[2]].stage

SpansInTurn == home[s1] = None => home'[s2] = None

TracesInTurn == scopes = 0 => ctx' # t2

(* One flush at any moment tells what several do. *)
OneFlush == flush # NoFlush => UNCHANGED flush

(* Signals of two traces do not meet. *)
SignalsOfOne == \A w \in Writers : writer'[w].trace # t2

PlatformInit ==
    /\ part \in {"sdk", "ingest", "quality", "release", "policies", "engine", "agents", "loops", "trajectories",
                "calls", "judging", "comparison", "rubrics", "grading", "statistics"}
    /\ AgentInit /\ ModelCallsInit /\ JudgingInit /\ ComparisonInit /\ RubricsInit /\ GradingInit /\ TraceStatisticsInit
    /\ part # "calls" => provider.local
    /\ part # "judging" => stopOnError
    /\ part # "grading" => runConfig = CHOOSE c \in RunConfigs : TRUE
    /\ agent.config = [f \in Fields |-> CHOOSE v \in FieldValues(f) : TRUE]
    /\ ClientInit /\ ServerInit
    /\ IF part = "engine" THEN EngineInit
       ELSE ReleaseInit /\ world = GoodWorld /\ policies = <<{NoRules}>>

(* A step of the given group leaves the variables of the others alone. *)
Only(mine) ==
    /\ mine # "observe" => UNCHANGED teleVars
    /\ mine # "release" => UNCHANGED releaseVars
    /\ mine # "agents" => UNCHANGED agentVars
    /\ mine # "calls" => UNCHANGED callVars
    /\ mine # "judging" => UNCHANGED judgeVars
    /\ mine # "comparison" => UNCHANGED comparisonVars
    /\ mine # "rubrics" => UNCHANGED rubricVars
    /\ mine # "grading" => UNCHANGED gradingVars
    /\ mine # "statistics" => UNCHANGED statVars

ObserveNext ==
    /\ \/ part = "sdk" /\ (ClientNext \/ Posts) /\ SpansInTurn /\ TracesInTurn /\ OneFlush
       \/ part \in {"ingest", "quality"} /\ (IngestNext \/ SweepNext)
       \/ part = "quality" /\ QualityNext /\ SignalsOfOne
    /\ Only("observe")

(* Definitions are edited and run, or a trajectory grows: of calls alone up to the
   length where a cycle can show, or of steps of every kind, one tool's schema
   registered or not. *)
AgentPart ==
    /\ AgentNext /\ EditorsInTurn
    /\ part = "agents" =>
          /\ UNCHANGED trajectory /\ Cardinality(gone') <= 1 /\ \A t \in Tools \ {"calculator"} : schemas'[t] = "unregistered"
          /\ edits' = [e \in Editors |-> NoEdit] \/
                /\ schemas'["calculator"] = "unregistered"
                /\ \A n \in AgentRuns : agentRuns'[n].status # "absent" => agentRuns'[n].task = Task("", <<>>)
    /\ part # "agents" => UNCHANGED <<agent, edits, gone, agentRuns>>
    /\ part = "loops" => UNCHANGED schemas /\ IsCall(Last(trajectory'))
    /\ part = "trajectories" =>
          /\ trajectory # <<>> => UNCHANGED schemas
          /\ \A t \in Tools \ {"fetch_api"} : schemas'[t] = "unregistered"
          /\ Len(trajectory') < 6 /\ Call("search_tool") \notin ToSet(trajectory')
          /\ Len(trajectory') = 5 => ~IsCall(Last(trajectory'))

(* Two decisions while rows change; or one, and a policy that two users update; or one
   that is evaluated twice, and one update. *)
ReleasePart ==
    /\ ReleaseNext /\ DecisionsInTurn
    /\ IF part = "release" THEN UNCHANGED policyVars
       ELSE /\ UNCHANGED <<decision[d2], worlds, registry>>
            /\ starts' <= 1 \/ (starts' = 2 /\ updates'[a2] = NoUpdate /\ Len(policies') <= 2)

(* Spans of the first two traces, or more traces. *)
StatisticsPart == TraceStatisticsNext /\ (Len(statTraces') > 2 => statSpans' = <<>>)

PlatformNext ==
    /\ UNCHANGED part
    /\ \/ ObserveNext
       \/ part \in {"release", "policies"} /\ ReleasePart /\ Only("release")
       \/ part \in {"agents", "loops", "trajectories"} /\ AgentPart /\ Only("agents")
       \/ part = "calls" /\ ModelCallsNext /\ Only("calls")
       \/ part = "judging" /\ JudgingNext /\ Only("judging")
       \/ part = "comparison" /\ Observe /\ Only("comparison")
       \/ part = "rubrics" /\ RubricsNext /\ Only("rubrics")
       \/ part = "grading" /\ GradingNext /\ Only("grading")
       \/ part = "statistics" /\ StatisticsPart /\ Only("statistics")

PlatformSpec == PlatformInit /\ [][PlatformNext]_platformVars

(* Every variable has its type. *)
PlatformTypeOK == TelemetryTypeOK /\ ReleaseTypeOK
=============================================================================
