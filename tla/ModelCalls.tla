----------------------------- MODULE ModelCalls -----------------------------
(***************************************************************************)
(* Calls to a model through the gateway: retries, error categories, the     *)
(* invocation record, and the health the model row shows.                   *)
(* integrations/gateway.py, integrations/provider.py, services/model.py,    *)
(* services/provider.py, repositories/provider.py.                          *)
(*                                                                          *)
(* A call loads the rows, waits for the provider any number of times and    *)
(* writes at the end; requests that do not wait are one step.  One model    *)
(* of one provider; a CUSTOM provider uses the adapter of GOOGLE.           *)
(***************************************************************************)
EXTENDS Integers, FiniteSets, SequencesExt

CONSTANTS
    ModelCallers,   \* requests that call the model
    Rotators,       \* requests that rotate the credential
    InvokeRetries   \* max_retries of the model's retry_policy

ASSUME ModelCallsAssumption == InvokeRetries \in Nat

VARIABLES
    provider,     \* the providers row: local or not, what a local one simulates
    model,        \* the models row
    modelCalls,   \* the requests and the answers they had
    rotations,    \* the credential_version each rotation loaded
    invocations   \* model_invocations rows

callVars == <<provider, model, modelCalls, rotations, invocations>>
-----------------------------------------------------------------------------
(* An HTTP status, a body that is not JSON, no answer in time, or no connection. *)
Answers == {"200", "garbage", "slow", "unreachable", "400", "401", "403", "404", "409", "429", "500"}

(* _normalize_error of the OpenAI, Anthropic and Gemini adapters *)
Category(answer) ==
    CASE answer = "slow" -> "TIMEOUT_ERROR"
      [] answer = "401" -> "AUTHENTICATION_ERROR"
      [] answer = "403" -> "AUTHORIZATION_ERROR"
      [] answer = "429" -> "RATE_LIMIT_ERROR"
      [] answer = "400" -> "INVALID_REQUEST_ERROR"
      [] answer = "404" -> "MODEL_NOT_FOUND"
      [] answer = "500" -> "PROVIDER_UNAVAILABLE"
      [] OTHER -> "UNKNOWN_PROVIDER_ERROR"

Transient == {"TIMEOUT_ERROR", "RATE_LIMIT_ERROR", "PROVIDER_UNAVAILABLE"}

(* A body that cannot be read raises ValueError, which is not a ProviderError. *)
IsError(answer) == answer \notin {"200", "garbage"}

(* The failure modes of LocalProviderAdapter, as the answers they amount to. *)
LocalModes == {"200", "429", "401", "slow", "500", "400"}

(* health_check asks no provider: the others check that there is a key, the
   local one looks at its failure mode. *)
HealthOf(p) == IF p.local /\ p.mode \in {"500", "slow"} THEN "unavailable" ELSE "healthy"

NoCall == [stage |-> "idle", kind |-> "", mode |-> "", health |-> "", answers |-> <<>>, orphan |-> FALSE]

ModelCallsInit ==
    /\ provider \in [local : BOOLEAN, mode : {"200"}, version : {1}, connection : {"UNTESTED"}]
    /\ model = [there |-> TRUE, health |-> "UNTESTED"]
    /\ modelCalls = [c \in ModelCallers |-> NoCall]
    /\ rotations = [r \in Rotators |-> 0]
    /\ invocations = <<>>
-----------------------------------------------------------------------------
(* invoke (with the model's retry policy) and test (with none) load the rows. *)
StartCall(c) ==
    /\ modelCalls[c].stage = "idle" /\ model.there
    /\ \E kind \in {"invoke", "test"} :
          modelCalls' = [modelCalls EXCEPT ![c] =
              [NoCall EXCEPT !.stage = "calling", !.kind = kind, !.mode = provider.mode, !.health = model.health]]
    /\ UNCHANGED <<provider, model, rotations, invocations>>

Answer(c) ==
    /\ modelCalls[c].stage = "calling"
    /\ \E a \in IF provider.local THEN {modelCalls[c].mode} ELSE Answers :
          modelCalls' = [modelCalls EXCEPT ![c].answers = Append(@, a), ![c].stage = "answered"]
    /\ UNCHANGED <<provider, model, rotations, invocations>>

MaxRetries(kind) == IF kind = "invoke" THEN InvokeRetries ELSE 0

(* run_with_retry *)
MayRetryAnyError(c) ==
    LET call == modelCalls[c] IN
    IsError(Last(call.answers)) /\ Len(call.answers) <= MaxRetries(call.kind)
MayRetry(c) ==
    LET call == modelCalls[c] IN
    /\ IsError(Last(call.answers)) /\ Category(Last(call.answers)) \in Transient
    /\ Len(call.answers) <= MaxRetries(call.kind)

Retry(c) ==
    /\ modelCalls[c].stage = "answered" /\ MayRetry(c)
    /\ modelCalls' = [modelCalls EXCEPT ![c].stage = "calling"]
    /\ UNCHANGED <<provider, model, rotations, invocations>>

(* The ORM writes a column that differs from what was loaded. *)
WithHealth(c, found) == IF modelCalls[c].health = found THEN model ELSE [model EXCEPT !.health = found]

(* The call ends.  An invocation is recorded, of success or of the category of
   the last error; a test only shows in the row, an invocation that failed does
   not.  Nothing is written of an answer that cannot be read, or once the model
   is deleted: the insert or the update fails, and the caller gets a 500. *)
EndCall(c) ==
    LET call == modelCalls[c]
        last == Last(call.answers)
    IN /\ call.stage = "answered" /\ ~MayRetry(c)
       /\ modelCalls' = [modelCalls EXCEPT ![c].stage = "ended", ![c].orphan = ~model.there]
       /\ IF ~model.there \/ last = "garbage" THEN UNCHANGED <<model, invocations>>
          ELSE CASE call.kind = "test" ->
                      /\ model' = WithHealth(c, IF IsError(last) THEN "degraded" ELSE "healthy")
                      /\ UNCHANGED invocations
                 [] call.kind = "invoke" /\ IsError(last) ->
                      /\ invocations' = Append(invocations, [by |-> c, result |-> Category(last)])
                      /\ UNCHANGED model
                 [] OTHER ->
                      /\ invocations' = Append(invocations, [by |-> c, result |-> "success"])
                      /\ model' = WithHealth(c, "healthy")
       /\ UNCHANGED <<provider, rotations>>

(* The API process dies: a provider may have been called that nobody recorded. *)
CrashApi ==
    /\ \E c \in ModelCallers : modelCalls[c].stage \in {"calling", "answered"}
    /\ modelCalls' = [c \in ModelCallers |->
                         IF modelCalls[c].stage \in {"calling", "answered"}
                         THEN [modelCalls[c] EXCEPT !.stage = "dead"] ELSE modelCalls[c]]
    /\ UNCHANGED <<provider, model, rotations, invocations>>

ModelHealth ==
    /\ model.there
    /\ model' = [model EXCEPT !.health = HealthOf(provider)]
    /\ UNCHANGED <<provider, modelCalls, rotations, invocations>>

TestProvider ==
    /\ provider' = [provider EXCEPT !.connection = IF HealthOf(provider) = "healthy" THEN "CONNECTED" ELSE "UNKNOWN"]
    /\ UNCHANGED <<model, modelCalls, rotations, invocations>>

(* update: a local provider's configuration takes another failure mode. *)
UpdateProvider ==
    /\ provider.local
    /\ \E mode \in LocalModes : provider' = [provider EXCEPT !.mode = mode]
    /\ UNCHANGED <<model, modelCalls, rotations, invocations>>

DeleteModel ==
    /\ model.there
    /\ model' = [model EXCEPT !.there = FALSE]
    /\ UNCHANGED <<provider, modelCalls, rotations, invocations>>

(* rotate loads the provider and stores the next version after the one loaded;
   calls go on with the key they read. *)
LoadForRotation(r) ==
    /\ rotations[r] = 0 /\ ~provider.local
    /\ rotations' = [rotations EXCEPT ![r] = provider.version]
    /\ UNCHANGED <<provider, model, modelCalls, invocations>>
StoreRotation(r) ==
    /\ rotations[r] \in 1 .. Cardinality(Rotators)
    /\ provider' = [provider EXCEPT !.version = rotations[r] + 1]
    /\ rotations' = [rotations EXCEPT ![r] = -1]
    /\ UNCHANGED <<model, modelCalls, invocations>>
-----------------------------------------------------------------------------
ModelCallsNext ==
    \/ \E c \in ModelCallers : StartCall(c) \/ Answer(c) \/ Retry(c) \/ EndCall(c)
    \/ CrashApi \/ ModelHealth \/ TestProvider \/ UpdateProvider \/ DeleteModel
    \/ \E r \in Rotators : LoadForRotation(r) \/ StoreRotation(r)

ModelCallsSpec == ModelCallsInit /\ [][ModelCallsNext]_callVars
-----------------------------------------------------------------------------
RecordsOf(c) == {i \in DOMAIN invocations : invocations[i].by = c}

(* What became of a call can be told from its record: all answers but the last
   were transient errors, a transient error is given up only after the last
   attempt the policy allows, and an invocation that got an answer its caller
   could be given left exactly one record, which says what that answer was
   (integrations/provider.py:166, services/model.py:233). *)
InvocationsTold ==
    \A c \in ModelCallers : modelCalls[c].stage = "ended" =>
        LET call == modelCalls[c]
            last == Last(call.answers)
            allowed == MaxRetries(call.kind) + 1
        IN /\ Len(call.answers) <= allowed
           /\ \A i \in 1 .. Len(call.answers) - 1 :
                 call.answers[i] # "200" /\ Category(call.answers[i]) \in Transient
           /\ IsError(last) /\ Category(last) \in Transient => Len(call.answers) = allowed
           /\ IF call.kind = "invoke" /\ last # "garbage" /\ ~call.orphan
              THEN \E i \in RecordsOf(c) :
                      /\ RecordsOf(c) = {i}
                      /\ invocations[i].result = IF last = "200" THEN "success" ELSE Category(last)
              ELSE RecordsOf(c) = {}
=============================================================================
