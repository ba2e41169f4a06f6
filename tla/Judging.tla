------------------------------ MODULE Judging ------------------------------
(***************************************************************************)
(* The cases of one attempt of an evaluation run that is graded by an LLM   *)
(* judge: the tasks that share the queue of cases, the judge's cache, and   *)
(* what is accepted of a judge's answer.  evaluations/runner.py             *)
(* _execute_test_cases, judge/llm_judge.py, cache.py, validation.py.        *)
(*                                                                          *)
(* A step is what a task does between two waits: for the model, for the     *)
(* judge's provider row, for the judge.  EvaluationRun takes the outcomes   *)
(* from here as given.                                                      *)
(***************************************************************************)
EXTENDS Integers, FiniteSets

CONSTANTS
    Judged,        \* test cases
    PromptOf,      \* [Judged -> what the judge is asked: output, input, reference, context]
    JudgeAnswers,  \* answers of a judge, see Acceptable
    Concurrency,   \* max_concurrency of the run: tasks that take cases
    Threshold      \* of the llm_judge evaluator, in percent

VARIABLES
    stopOnError,   \* execution.stop_on_error of the run
    graded,        \* the cases: where each is and its outcome
    judgeCache,    \* JudgeCache of the EvaluationRunner: prompts to answers
    attempt        \* "running", or "raised" once gather has re-raised

judgeVars == <<stopOnError, graded, judgeCache, attempt>>
-----------------------------------------------------------------------------
NoVerdict == [passed |-> FALSE, score |-> 0]
Queued == [stage |-> "queued", outcome |-> "", answer |-> "", verdict |-> NoVerdict, before |-> {}]

JudgingInit ==
    /\ stopOnError \in BOOLEAN
    /\ graded = [c \in Judged |-> Queued]
    /\ judgeCache = <<>>
    /\ attempt = "running"

StartedCases == {c \in Judged : graded[c].stage \notin {"queued", "ended", "abandoned"}}
EndedCases == {c \in Judged : graded[c].stage = "ended"}
Set(c, stage) == graded' = [graded EXCEPT ![c].stage = stage]

(* The cases still queued are dropped with the first error. *)
EndCase(c, outcome) ==
    graded' = [d \in Judged |->
        CASE d = c -> [graded[c] EXCEPT !.stage = "ended", !.outcome = outcome]
          [] stopOnError /\ outcome # "judged" /\ graded[d].stage = "queued" ->
                [graded[d] EXCEPT !.stage = "abandoned"]
          [] OTHER -> graded[d]]

(* A task takes a case and calls the model.  The tasks go on by themselves when
   another one's exception has ended the attempt. *)
TakeCase(c) ==
    /\ graded[c].stage = "queued" /\ Cardinality(StartedCases) < Concurrency
    /\ Set(c, "model")
    /\ UNCHANGED <<stopOnError, judgeCache, attempt>>

(* An exception that is no ProviderError or EvaluatorError ends the task, which
   is not replaced, and the attempt. *)
TaskDies(c) ==
    /\ Set(c, "dead")
    /\ attempt' = "raised"
    /\ UNCHANGED <<stopOnError, judgeCache>>

(* evaluate_async: passing is the threshold's word, not the judge's. *)
Grade(c, answer, before) ==
    graded' = [graded EXCEPT ![c] =
        [stage |-> "ended", outcome |-> "judged", answer |-> answer, before |-> before,
         verdict |-> [score |-> answer.overall, passed |-> answer.overall >= Threshold]]]

(* With the model's output the cache is asked, and on a miss the provider row
   is read on the session all tasks share. *)
ModelAnswers(c) ==
    /\ graded[c].stage = "model"
    /\ \/ EndCase(c, "provider_error") /\ UNCHANGED <<stopOnError, judgeCache, attempt>>
       \/ TaskDies(c)
       \/ LET p == PromptOf[c]
              seen == {d \in EndedCases : PromptOf[d] = p /\ graded[d].outcome = "judged"}
          IN /\ IF p \in DOMAIN judgeCache THEN Grade(c, judgeCache[p], seen)
                ELSE graded' = [graded EXCEPT ![c].before = seen, ![c].stage = "resolving"]
             /\ UNCHANGED <<stopOnError, judgeCache, attempt>>

(* _resolve_provider: a session refuses two statements at once; a provider that
   is gone is an evaluator error. *)
ResolveProvider(c) ==
    /\ graded[c].stage = "resolving"
    /\ \/ Set(c, "judge") /\ UNCHANGED <<stopOnError, judgeCache, attempt>>
       \/ EndCase(c, "evaluator_error") /\ UNCHANGED <<stopOnError, judgeCache, attempt>>
       \/ /\ \E d \in Judged \ {c} : graded[d].stage = "resolving"
          /\ TaskDies(c)

(* validate_judge_response, over what the answers in JudgeAnswers are wrong in.
   A criterion that is missing is not, and the judge's own "passed" is only
   looked at for its type. *)
Acceptable(answer) ==
    /\ answer.object /\ answer.fields
    /\ answer.criteria \in {"within", "missing"}
    /\ answer.overall \in 0 .. 100 /\ answer.confidence \in 0 .. 100
    /\ answer.boolean /\ answer.reasoning = "given"

Keep(c, answer) ==
    /\ judgeCache' = [p \in DOMAIN judgeCache \union {PromptOf[c]} |->
                         IF p = PromptOf[c] THEN answer ELSE judgeCache[p]]
    /\ Grade(c, answer, graded[c].before)

JudgeAnswersUnread(c) ==
    /\ graded[c].stage = "judge"
    /\ \/ \E o \in {"timeout", "provider_error"} : EndCase(c, o) /\ UNCHANGED <<stopOnError, judgeCache, attempt>>
       \/ TaskDies(c)
       \/ \E answer \in JudgeAnswers : Keep(c, answer) /\ UNCHANGED <<stopOnError, attempt>>

(* A valid answer is kept, over another one's if that was kept meanwhile; an
   error is not. *)
JudgeReplies(c) ==
    /\ graded[c].stage = "judge"
    /\ \/ \E o \in {"timeout", "provider_error"} : EndCase(c, o) /\ UNCHANGED <<stopOnError, judgeCache, attempt>>
       \/ TaskDies(c)
       \/ \E answer \in JudgeAnswers :
             IF Acceptable(answer) THEN Keep(c, answer) /\ UNCHANGED <<stopOnError, attempt>>
             ELSE EndCase(c, "evaluator_error") /\ UNCHANGED <<stopOnError, judgeCache, attempt>>
-----------------------------------------------------------------------------
JudgingNext ==
    \E c \in Judged : TakeCase(c) \/ ModelAnswers(c) \/ ResolveProvider(c) \/ JudgeReplies(c)

JudgingSpec == JudgingInit /\ [][JudgingNext]_judgeVars
-----------------------------------------------------------------------------
(* However the tasks interleave, a verdict comes from an acceptable answer to
   the case's own prompt; a case whose prompt had been judged before it got there
   has the verdict of one of those that had been, so equal outputs are graded
   alike (judge/cache.py:1); and once a case has failed in a run that stops on
   errors, no case is left that could still be started. *)
JudgedConsistently ==
    /\ \A c \in Judged : graded[c].stage = "ended" /\ graded[c].outcome = "judged" =>
          /\ Acceptable(graded[c].answer)
          /\ graded[c].before # {} =>
                \E d \in graded[c].before : graded[d].verdict = graded[c].verdict
    /\ stopOnError /\ (\E c \in EndedCases : graded[c].outcome # "judged")
          => \A c \in Judged : graded[c].stage # "queued"
=============================================================================
