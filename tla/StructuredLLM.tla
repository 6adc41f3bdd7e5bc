---------------------------- MODULE StructuredLLM ----------------------------
(***************************************************************************)
(* StructuredLLMClient: one call of generate at a time, which asks the     *)
(* provider again after a failure it may retry and after an answer that    *)
(* does not fit the response model.  A provider is an OpenAI-compatible    *)
(* service or, for a replay, the queue of answers FakeLLMProvider holds.   *)
(***************************************************************************)
EXTENDS Integers, Sequences

CONSTANTS
  MaxAttempts,       \* max_attempts
  InvalidRetries,    \* invalid_response_retries
  StatusCodes,       \* HTTP statuses a provider answers with
  Tables,            \* tables of the snapshot, which the policy allows
  Responses,         \* contents a model may produce: [kind, tables, sql]
  NoResponse

ASSUME LLMAssumption == MaxAttempts \in Nat \ {0} /\ InvalidRetries \in {0, 1}

VARIABLES
  llm,      \* the call of generate
  sent,     \* requests sent since the caller began
  script,   \* FakeLLMProvider: the answers still queued
  replay    \* TRUE: FakeLLMProvider, FALSE: a configured provider

llmVars == <<llm, sent, script, replay>>

NoCall == [at |-> "idle", wants |-> "none", attempt |-> 0, invalid |-> 0, error |-> "none",
           reply |-> NoResponse]

LLMInit(queue) ==
  /\ replay \in BOOLEAN
  /\ script = IF replay THEN queue ELSE <<>>
  /\ llm = NoCall
  /\ sent = 0

\* The call generate(response_model = kind) begins.
Request(kind) == [NoCall EXCEPT !.at = "request", !.wants = kind, !.attempt = 1]

\* _raise_for_status
StatusError(code) ==
  CASE code \in 200..299            -> "none"
    [] code = 401                   -> "LLM_AUTHENTICATION_ERROR"
    [] code = 403                   -> "LLM_REQUEST_REJECTED"
    [] code \in {408, 504}          -> "LLM_TIMEOUT"
    [] code = 429                   -> "LLM_RATE_LIMITED"
    [] code >= 500 /\ code # 504    -> "LLM_UNAVAILABLE"
    [] OTHER                        -> "LLM_REQUEST_REJECTED"

Retryable == {"LLM_RATE_LIMITED", "LLM_TIMEOUT", "LLM_UNAVAILABLE", "LLM_INVALID_RESPONSE"}

\* The LLMErrors of complete: no answer in time, no connection, a status, or an answer
\* that is not a completion.
LLMErrors ==
  ({"LLM_TIMEOUT", "LLM_UNAVAILABLE", "LLM_INVALID_RESPONSE"} \cup {StatusError(c) : c \in StatusCodes})
  \ {"none"}

\* What complete may raise: an error of httpx that is neither a timeout nor one of the
\* network, such as a connection closed in the middle of an answer, is not converted.
ProviderErrors == LLMErrors \cup {"REMOTEPROTOCOLERROR"}

\* Mutant: a failure is retried once too often.
MutRetry(error) ==
  llm' = IF error \in Retryable /\ llm.attempt <= MaxAttempts
         THEN [llm EXCEPT !.attempt = @ + 1]
         ELSE [llm EXCEPT !.at = "error", !.error = error]

\* _retry: wait and ask again, or give up.
Retry(error) ==
  llm' = IF error \in Retryable /\ llm.attempt < MaxAttempts
         THEN [llm EXCEPT !.attempt = @ + 1]
         ELSE [llm EXCEPT !.at = "error", !.error = error]

\* The response models.  A selection may only name tables of the catalogue, with or
\* without their schema; the tables of a draft are any names.
Fits(response) ==
  /\ response.kind = llm.wants
  /\ Len(response.tables) \in 1..6
  /\ llm.wants = "selection" =>
       \A i \in DOMAIN response.tables :
         response.tables[i].table \in Tables /\ response.tables[i].schema \in {"none", "own"}

\* The answer is parsed as the response model; one that does not fit has a budget of
\* its own for being asked for again.
Validate(response) ==
  llm' = IF Fits(response) THEN [llm EXCEPT !.at = "ok", !.reply = response]
         ELSE IF llm.invalid < InvalidRetries /\ llm.attempt < MaxAttempts
         THEN [llm EXCEPT !.invalid = @ + 1, !.attempt = @ + 1]
         ELSE [llm EXCEPT !.at = "error", !.error = "LLM_INVALID_RESPONSE"]

Complete ==
  /\ llm.at = "request" /\ ~replay
  /\ sent' = sent + 1
  /\ \/ \E error \in ProviderErrors : Retry(error)
     \/ \E response \in Responses : Validate(response)
  /\ UNCHANGED <<script, replay>>

\* FakeLLMProvider.complete: an empty queue is an error that generate does not catch.
Replay ==
  /\ llm.at = "request" /\ replay
  /\ sent' = sent + 1
  /\ IF script = <<>>
     THEN llm' = [llm EXCEPT !.at = "error", !.error = "ASSERTIONERROR"] /\ UNCHANGED script
     ELSE Validate(Head(script)) /\ script' = Tail(script)
  /\ UNCHANGED replay

Generate == Complete \/ Replay
=============================================================================
