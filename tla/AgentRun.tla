------------------------------ MODULE AgentRun ------------------------------
(***************************************************************************)
(* Agents: definitions and their fingerprints, runs of the local test agent *)
(* and the verdict on a trajectory.  services/agent_service.py,             *)
(* agent_gateway.py, trajectory_evaluator.py, loop_detector.py,             *)
(* tool_evaluator.py, agent_reliability.py and repositories/agent.py.       *)
(*                                                                          *)
(* A request is one transaction.  start_run and evaluate_run only insert,   *)
(* or write what they compute from immutable steps, so each is one step;    *)
(* an update of a definition writes what it read earlier, so it is two.     *)
(* Deleting the model or the provider a definition refers to sets its       *)
(* reference to null (models/agent.py:63-68) and touches nothing else.      *)
(* A text or a manifest is a member of a small set, and a tool call's       *)
(* arguments are one value.                                                 *)
(***************************************************************************)
EXTENDS Integers, FiniteSets, SequencesExt

CONSTANTS
    Texts,        \* values of a field of a definition
    Targets,       \* models and providers it may refer to
    Cleared,      \* null
    Editors,      \* PUT requests on the definition
    AgentRuns,    \* POST requests that start a run
    Tools,        \* tool names
    Tasks,        \* [expected : Seq(Tools), forbidden : Seq(Tools), maxSteps, maxCalls, act]
    StepKinds,    \* the steps an explored trajectory is made of
    MaxLength     \* bound on its length

ASSUME AgentAssumption == Cleared \notin Texts \union Targets /\ MaxLength \in Nat

VARIABLES
    agent,       \* the agent_definitions row
    edits,       \* the PUT requests, with what each loaded and what came beside it since
    gone,        \* deleted models and providers
    lastEdit,    \* observer: whether the last update overlapped another, or nulls came with it or since
    agentRuns,   \* agent_runs rows with their steps
    schemas,     \* the registered tools: what the schema says of the arguments
    trajectory   \* a trajectory on its own

agentVars == <<agent, edits, gone, lastEdit, agentRuns, schemas, trajectory>>
-----------------------------------------------------------------------------
(* Of the eight parts the fingerprint covers, one stands for those that hold what
   they are given and one for those that refer to another row. *)
Fields == {"system_prompt", "model_id"}
FieldValues(f) == IF f = "model_id" THEN Targets ELSE Texts
Configs == {c \in [Fields -> Texts \union Targets \union {Cleared}] : \A f \in Fields : c[f] \in FieldValues(f) \union {Cleared}}

(* SHA-256 of the version and the configuration, as far as it can be told apart. *)
ConfigFingerprint(version, config) == <<version, config>>

NoEdit == [stage |-> "idle", field |-> "", value |-> Cleared, version |-> 0, config |-> <<>>,
           beside |-> "clean"]
NoRun == [status |-> "absent", task |-> 0, steps |-> <<>>, fingerprint |-> <<>>,
          version |-> 0, config |-> <<>>, edit |-> "clean"]

AgentInit ==
    /\ \E c \in Configs : agent = [version |-> 1, config |-> c, fingerprint |-> ConfigFingerprint(1, c)]
    /\ edits = [u \in Editors |-> NoEdit] /\ gone = {}
    /\ lastEdit = "clean"
    /\ agentRuns = [n \in AgentRuns |-> NoRun]
    /\ schemas = [t \in Tools |-> "unregistered"]
    /\ trajectory = <<>>

(* update_agent loads the definition ... *)
LoadAgent(u) ==
    /\ edits[u].stage = "idle"
    /\ \E f \in Fields : \E v \in FieldValues(f) \union {Cleared} :
          edits' = [edits EXCEPT ![u] = [stage |-> "loaded", field |-> f, value |-> v,
                                         version |-> agent.version, config |-> agent.config,
                                         beside |-> "clean"]]
    /\ UNCHANGED <<agent, gone, lastEdit, agentRuns, schemas, trajectory>>

(* Nulls are not written, nor what does not differ from what was loaded. *)
Written(e) == e.value \notin {Cleared, e.config[e.field]}

Update(u, fingerprint) ==
    LET e == edits[u] IN
    /\ e.stage = "loaded" /\ ~(Written(e) /\ e.value \in gone)
    /\ agent' = [version |-> e.version + 1,
                 config |-> IF Written(e) THEN [agent.config EXCEPT ![e.field] = e.value] ELSE agent.config,
                 fingerprint |-> fingerprint]
    /\ edits' = [v \in Editors |->
           IF v = u THEN [NoEdit EXCEPT !.stage = "done"]
           ELSE [edits[v] EXCEPT !.beside = IF edits[v].stage = "loaded" THEN "overlapped" ELSE @]]
    /\ lastEdit' = IF e.beside = "clean" /\ e.value = Cleared THEN "nulled" ELSE e.beside
    /\ UNCHANGED <<gone, agentRuns, schemas, trajectory>>

StoreWithOldVersion(u) ==
    Update(u, ConfigFingerprint(edits[u].version, [edits[u].config EXCEPT ![edits[u].field] = edits[u].value]))

(* ... and writes the fields that differ from what it loaded and are not null,
   the next version after the one loaded, and the fingerprint of what was asked
   for: of a null too. *)
StoreAgent(u) ==
    LET e == edits[u] IN
    Update(u, ConfigFingerprint(e.version + 1, [e.config EXCEPT ![e.field] = e.value]))

(* The database refuses a reference to what was deleted since. *)
RefuseAgent(u) ==
    /\ edits[u].stage = "loaded" /\ Written(edits[u]) /\ edits[u].value \in gone
    /\ edits' = [edits EXCEPT ![u] = [NoEdit EXCEPT !.stage = "done"]]
    /\ UNCHANGED <<agent, gone, lastEdit, agentRuns, schemas, trajectory>>

Nulled(since) == IF since = "overlapped" THEN since ELSE "nulled"

(* The delete of a model or a provider: ON DELETE SET NULL clears the reference, and
   leaves the version and the fingerprint. *)
DeleteTarget(m) ==
    /\ m \notin gone /\ gone' = gone \union {m}
    /\ IF agent.config["model_id"] = m
       THEN /\ agent' = [agent EXCEPT !.config["model_id"] = Cleared]
            /\ edits' = [v \in Editors |->
                   [edits[v] EXCEPT !.beside = IF edits[v].stage = "loaded" THEN Nulled(@) ELSE @]]
            /\ lastEdit' = Nulled(lastEdit)
       ELSE UNCHANGED <<agent, edits, lastEdit>>
    /\ UNCHANGED <<agentRuns, schemas, trajectory>>
-----------------------------------------------------------------------------
(* Trajectories *)
Step(type, ok, tool) == [type |-> type, ok |-> ok, tool |-> tool]
Call(t) == Step("TOOL_CALL", TRUE, t)
Result(t, ok) == Step("TOOL_RESULT", ok, t)

First(seq, default) == IF seq = <<>> THEN default ELSE Head(seq)

(* DeterministicLocalTestAgent.execute *)
LocalSteps(task) ==
    LET acts ==
          CASE task.act = "loop" ->
                 [i \in 1 .. 6 |-> IF i % 2 = 1 THEN Call("search_tool") ELSE Result("search_tool", TRUE)]
            [] task.act = "forbidden" ->
                 LET t == First(task.forbidden, "forbidden_tool") IN <<Call(t), Result(t, TRUE)>>
            [] task.act = "recover" ->
                 <<Call("fetch_api"), Result("fetch_api", FALSE), Call("fetch_api"), Result("fetch_api", TRUE)>>
            [] OTHER ->
                 LET t == First(task.expected, "calculator") IN <<Call(t), Result(t, TRUE)>>
    IN <<Step("MODEL_REQUEST", TRUE, "")>> \o acts \o <<Step("FINAL", TRUE, "")>>

IsCall(s) == s.type = "TOOL_CALL"
CallsOf(steps) ==
    LET calls[n \in 0 .. Len(steps)] ==
            IF n = 0 THEN <<>> ELSE IF IsCall(steps[n]) THEN Append(calls[n - 1], steps[n]) ELSE calls[n - 1]
    IN calls[Len(steps)]

(* The same call with the same arguments three times in a row. *)
Repeated(calls) ==
    \E i \in 1 .. Len(calls) - 2 : calls[i] = calls[i + 1] /\ calls[i] = calls[i + 2]
RepeatedAtTheEnd(calls) ==
    \E i \in {Len(calls) - 2} : i > 0 /\ calls[i] = calls[i + 1] /\ calls[i] = calls[i + 2]

(* A block of two or three calls three times in a row, or twice if the
   trajectory has no more than eight calls. *)
Cyclic(calls) ==
    \E len \in {2, 3}, times \in {2, 3} : \E start \in 0 .. Len(calls) - len * times :
        /\ times = 3 \/ Len(calls) <= 8
        /\ \A i \in 1 .. len * (times - 1) : calls[start + i].tool = calls[start + len + i].tool

DetectAtTheEnd(steps) ==
    LET calls == CallsOf(steps) IN Len(calls) >= 3 /\ (RepeatedAtTheEnd(calls) \/ Cyclic(calls))

Detect(steps) ==
    LET calls == CallsOf(steps) IN Len(calls) >= 3 /\ (Repeated(calls) \/ Cyclic(calls))

Count(steps, Test(_)) == Len(SelectSeq(steps, Test))
FailedResult(s) == s.type = "TOOL_RESULT" /\ ~s.ok
IsFinal(s) == s.type = "FINAL"

(* The last failure counts as recovered if a step after it succeeded, and a
   FINAL step is one. *)
Failures(steps) == {i \in DOMAIN steps : steps[i].type \in {"TOOL_RESULT", "ERROR"} /\ ~steps[i].ok}
Recovered(steps) ==
    \A i \in Failures(steps) :
        (\A k \in Failures(steps) : k <= i) =>
            \E k \in DOMAIN steps : k > i /\ (steps[k].ok \/ IsFinal(steps[k]))
GoalCompleted(steps) ==
    LET finals == SelectSeq(steps, IsFinal) IN finals # <<>> /\ Last(finals).ok /\ Recovered(steps)

Violations(steps, task) ==
    Count(steps, LAMBDA s : IsCall(s) /\ s.tool \in ToSet(task.forbidden))
Rejected(steps, tools) == Count(steps, LAMBDA s : IsCall(s) /\ tools[s.tool] = "rejects")

(* TrajectoryEvaluator.evaluate: the checks that fail, then the overall status.
   An expected tool that was not called is only a warning. *)
FailedChecks(steps, task, tools) ==
    {c \in {"max_steps_bound", "max_tool_calls_bound", "loop_free_trajectory",
            "forbidden_tools_safety", "tool_arguments_schema_valid", "failure_recovery",
            "goal_completion"} :
        CASE c = "max_steps_bound" -> Len(steps) > task.maxSteps
          [] c = "max_tool_calls_bound" -> Len(CallsOf(steps)) > task.maxCalls
          [] c = "loop_free_trajectory" -> Detect(steps)
          [] c = "forbidden_tools_safety" -> Violations(steps, task) > 0
          [] c = "tool_arguments_schema_valid" -> Rejected(steps, tools) > 0
          [] c = "failure_recovery" -> ~Recovered(steps)
          [] c = "goal_completion" -> ~GoalCompleted(steps)}

RunStatusOf(failed) == IF failed = {} THEN "COMPLETED" ELSE "FAILED"

AtLeast(floor, n) == IF n < floor THEN floor ELSE n

ReliabilityOfGoal(steps, task) ==
    LET goal == IF \E s \in ToSet(steps) : IsFinal(s) /\ s.ok THEN 4500 ELSE 200
        looping == IF Detect(steps) THEN 450 ELSE 0
    IN goal + 2500 + AtLeast(0, 1500 - looping) + 1500

(* AgentReliabilityScorer.compute_score, in hundredths of a point. *)
ReliabilityScore(steps, task) ==
    LET calls == Len(CallsOf(steps))
        failed == Count(steps, FailedResult)
        goal == IF GoalCompleted(steps) THEN 3500 + 1000 ELSE 200
        tools == IF calls = 0 THEN 2500 ELSE AtLeast(0, (2500 * (calls - failed)) \div calls)
        late == 75 * AtLeast(0, Len(steps) - task.maxSteps)
        looping == IF Detect(steps) THEN 450 ELSE 0
        recovery == IF Recovered(steps) THEN 1500 ELSE 0
    IN goal + tools + AtLeast(0, 1500 - late - looping) + recovery

-----------------------------------------------------------------------------
(* start_run records the version and the fingerprint of the definition it
   executes, the steps, and the verdict on them. *)
StartAgentRun(n) ==
    /\ agentRuns[n].status = "absent"
    /\ \E task \in Tasks :
          LET steps == LocalSteps(task) IN
          agentRuns' = [agentRuns EXCEPT ![n] =
              [status |-> RunStatusOf(FailedChecks(steps, task, schemas)),
               task |-> task, steps |-> steps, fingerprint |-> agent.fingerprint,
               version |-> agent.version, config |-> agent.config, edit |-> lastEdit]]
    /\ UNCHANGED <<agent, edits, gone, lastEdit, schemas, trajectory>>

(* create_tool: names are unique in a project *)
CreateTool(t) ==
    /\ schemas[t] = "unregistered"
    /\ \E verdict \in {"accepts", "rejects"} : schemas' = [schemas EXCEPT ![t] = verdict]
    /\ UNCHANGED <<agent, edits, gone, lastEdit, agentRuns, trajectory>>

(* evaluate_run, of the endpoint and of the worker's job: the stored steps
   against the tools registered now. *)
EvaluateRun(n) ==
    /\ agentRuns[n].status # "absent"
    /\ agentRuns' = [agentRuns EXCEPT ![n].status =
                        RunStatusOf(FailedChecks(agentRuns[n].steps, agentRuns[n].task, schemas))]
    /\ UNCHANGED <<agent, edits, gone, lastEdit, schemas, trajectory>>

AddTrajectoryStep ==
    /\ Len(trajectory) < MaxLength
    /\ \E s \in StepKinds : trajectory' = Append(trajectory, s)
    /\ UNCHANGED <<agent, edits, gone, lastEdit, agentRuns, schemas>>
-----------------------------------------------------------------------------
AgentNext ==
    \/ \E u \in Editors : LoadAgent(u) \/ StoreAgent(u) \/ RefuseAgent(u)
    \/ \E m \in Targets : DeleteTarget(m)
    \/ \E n \in AgentRuns : StartAgentRun(n) \/ EvaluateRun(n)
    \/ \E t \in Tools : CreateTool(t)
    \/ AddTrajectoryStep

AgentSpec == AgentInit /\ [][AgentNext]_agentVars
-----------------------------------------------------------------------------
(* Fields that differ are null on one side. *)
NullsApart(named, config) == \A f \in Fields : named[f] = config[f] \/ Cleared \in {named[f], config[f]}

(* "Deterministic SHA-256 fingerprint representing an immutable agent
   configuration state" (services/agent_gateway.py:27), as far as it holds: a run
   names its version and the configuration it executed, except for nulls when the
   update before it cleared a field or what it refers to was deleted, and unless
   that update overlapped another; the next update that does none of this repairs
   the name.  Versions do not tell overlaps: two updates of one version store the
   next one twice. *)
FingerprintTellsConfiguration ==
    \A n \in AgentRuns :
        LET r == agentRuns[n] IN
        r.status # "absent" =>
            \E named \in Configs :
                /\ r.fingerprint = ConfigFingerprint(r.version, named)
                /\ r.edit = "clean" => named = r.config
                /\ r.edit = "nulled" => NullsApart(named, r.config)

(* A loop once detected is detected for the rest of the trajectory, however the
   agent goes on; only the two-fold cycles are forgotten, with the ninth call
   (services/loop_detector.py:45-96). *)
LoopsStayFound ==
    [][Detect(trajectory) /\ ~Detect(trajectory')
          => Len(CallsOf(trajectory)) = 8 /\ ~Repeated(CallsOf(trajectory))]_agentVars

(* The status and the score are computed by two classes from the same steps and
   agree: a completed run lost points for recovered tool failures alone, and
   full marks without a violation, a rejected call or a bound of calls exceeded
   mean a completed run (trajectory_evaluator.py:220, agent_reliability.py:70). *)
GradesAgree ==
    \A task \in Tasks :
        LET failed == FailedChecks(trajectory, task, schemas)
            score == ReliabilityScore(trajectory, task)
        IN /\ RunStatusOf(failed) = "COMPLETED" => score >= 7500
           /\ score = 10000 => failed \subseteq {"max_tool_calls_bound", "forbidden_tools_safety",
                                                  "tool_arguments_schema_valid"}

(* Steps are immutable and tools only added: evaluating a run again can fail a
   completed run but never completes a failed one. *)
VerdictsOnlyWorsen ==
    [][\A n \in AgentRuns : agentRuns[n].status = "FAILED" => agentRuns'[n].status = "FAILED"]_agentVars
=============================================================================
