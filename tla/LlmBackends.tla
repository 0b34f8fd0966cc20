----------------------------- MODULE LlmBackends -----------------------------
(***************************************************************************)
(* One-shot requests to a model provider: chat completion behind           *)
(* RetryingLLMClient (llm/retry.py), embeddings and reranking behind       *)
(* retry_transient, the classification of failures (llm/errors.py), and    *)
(* how an answer's items are put back in the order they were asked in.     *)
(* Times are whole seconds.                                                *)
(***************************************************************************)
EXTENDS Integers, Sequences, FiniteSets, SequencesExt

CONSTANTS
  Hints,        \* Retry-After values the provider sends
  Answers,      \* item lists of an answer: <<[index, value], ...>>
  MaxRetries,   \* max_retries of the completion client
  Base, MaxDelay   \* base_seconds and max_seconds of its backoff

None == -1
RETRY_AFTER_DELAY_CAP_SECONDS == 300
SHORT_RETRY_MAX_RETRIES == 1
SHORT_RETRY_DELAY_SECONDS == 1
NoError == [kind |-> "none", retry_after |-> None]

VARIABLES
  req,      \* the request: its kind and how many items it asks about
  attempt,  \* retries made so far
  calls,    \* HTTP requests issued
  error,    \* the last failure
  fatal,    \* whether a failure that must not be retried was met
  slept,    \* the last sleep
  reply,    \* "none", "raised" or "ok"
  items     \* the values returned, in order

vars == <<req, attempt, calls, error, fatal, slept, reply, items>>

Kinds == {"complete", "embed", "rerank"}
Statuses == {400, 401, 402, 403, 429, 500, 503}
Markers == {"none", "quota", "context"}
TRANSIENT_KINDS == {"rate_limit", "provider_internal", "transport"}

(* The service's own meaning of an answer that must not be repeated. *)
Fatal(status, marker) == marker # "none" \/ status \in {400, 401, 402, 403}

Init ==
  /\ req \in [kind : Kinds, expected : {2}]
  /\ attempt = 0 /\ calls = 0 /\ error = NoError /\ fatal = FALSE /\ slept = None
  /\ reply = "none" /\ items = <<>>

(* Body markers win over the status. *)
classify_http_error(status, marker) ==
  CASE marker = "quota" -> "quota"
    [] marker = "context" -> "context_overflow"
    [] status = 429 -> "rate_limit"
    [] status \in {401, 403} -> "auth"
    [] status = 402 -> "quota"
    [] status >= 500 -> "provider_internal"
    [] OTHER -> "client"

max_retries == IF req.kind = "complete" THEN MaxRetries ELSE SHORT_RETRY_MAX_RETRIES

Smaller(a, b) == IF a < b THEN a ELSE b

(* Exponential backoff with full jitter on top of the provider's hint. *)
_delay(n, exc) ==
  LET ceiling == Smaller(MaxDelay, Base * 2^(n - 1))
  IN  IF exc.retry_after # None
        THEN {Smaller(exc.retry_after + jitter, RETRY_AFTER_DELAY_CAP_SECONDS) : jitter \in {0, ceiling}}
        ELSE {0, ceiling}

(* The secondary backends sleep the hint, or a short fixed time. *)
ShortDelay(exc) ==
  {Smaller(IF exc.retry_after > 0 THEN exc.retry_after ELSE SHORT_RETRY_DELAY_SECONDS, RETRY_AFTER_DELAY_CAP_SECONDS)}

Delays(exc) == IF req.kind = "complete" THEN _delay(attempt + 1, exc) ELSE ShortDelay(exc)

(* A failed request: raised, or slept on and tried again. *)
retry_transient(exc) ==
  /\ error' = exc
  /\ IF exc.kind \notin TRANSIENT_KINDS \/ attempt >= max_retries
       THEN reply' = "raised" /\ UNCHANGED <<attempt, slept>>
       ELSE attempt' = attempt + 1 /\ slept' \in Delays(exc) /\ UNCHANGED reply

Request == reply = "none" /\ calls' = calls + 1 /\ UNCHANGED req

(* The provider answers with an error status. *)
raise_for_error_status(status, marker, hint) ==
  /\ Request /\ UNCHANGED items
  /\ fatal' = (fatal \/ Fatal(status, marker))
  /\ retry_transient([kind |-> classify_http_error(status, marker), retry_after |-> hint])

(* The request gets no HTTP response. *)
TransportFails ==
  /\ Request /\ UNCHANGED <<fatal, items>>
  /\ retry_transient([kind |-> "transport", retry_after |-> None])

-----------------------------------------------------------------------------
(* Answers.  A payload the client cannot use raises LLMResponseError, which *)
(* is not retried.                                                         *)
Within(got, n) == \A i \in DOMAIN got : got[i].index \in 0..n - 1
Indexes(got) == {got[i].index : i \in DOMAIN got}
LastFor(got, k) ==
  got[CHOOSE i \in DOMAIN got : got[i].index = k /\ \A j \in DOMAIN got : got[j].index = k => j <= i].value

(* Embeddings: as many items as texts, sorted by index without a gap. *)
_parse_response(got, n) ==
  IF Len(got) = n /\ Indexes(got) = 0..n - 1 THEN [k \in 1..n |-> LastFor(got, k - 1)] ELSE <<>>

(* Scores: every index in range and every document scored; the last score  *)
(* of an index counts.                                                     *)
_parse_scores(got, n) ==
  IF Within(got, n) /\ Indexes(got) = 0..n - 1 THEN [k \in 1..n |-> LastFor(got, k - 1)] ELSE <<>>

Answered(got) ==
  /\ Request /\ req.kind \in {"embed", "rerank"}
  /\ items' = IF req.kind = "embed" THEN _parse_response(got, req.expected) ELSE _parse_scores(got, req.expected)
  /\ reply' = IF items' = <<>> THEN "raised" ELSE "ok"
  /\ UNCHANGED <<attempt, error, fatal, slept>>

(* A completion: the message, or a payload without one. *)
complete ==
  /\ Request /\ req.kind = "complete"
  /\ reply' \in {"ok", "raised"}
  /\ UNCHANGED <<attempt, error, fatal, slept, items>>

(* The caller makes its next request. *)
Again ==
  /\ reply # "none"
  /\ req' \in [kind : Kinds, expected : {2}]
  /\ attempt' = 0 /\ calls' = 0 /\ error' = NoError /\ fatal' = FALSE /\ slept' = None /\ reply' = "none" /\ items' = <<>>

Next ==
  \/ \E s \in Statuses, m \in Markers, h \in Hints \cup {None} : raise_for_error_status(s, m, h)
  \/ TransportFails \/ complete \/ Again
  \/ \E got \in Answers : Answered(got)

Spec == Init /\ [][Next]_vars
-----------------------------------------------------------------------------
(* Types. *)
BackendTypeOK == attempt \in 0..MaxRetries + 1 /\ calls \in Nat /\ fatal \in BOOLEAN /\ slept \in Int

(* A failure that repeating cannot cure (an exhausted quota reported as a  *)
(* bare 429 or as a 5xx, a refused key, an overlong prompt) is the last    *)
(* request the call makes.                                                 *)
FatalEndsIt == fatal => reply = "raised"

(* A call is at most one request and its budget of retries. *)
BudgetedCalls == calls <= max_retries + 1

(* A retry never comes before the provider's hint, nor later than the cap  *)
(* however large the hint is.                                              *)
HintIsFloor ==
  slept # None => /\ slept <= RETRY_AFTER_DELAY_CAP_SECONDS
                  /\ error.retry_after # None /\ reply = "none" =>
                       slept >= Smaller(error.retry_after, RETRY_AFTER_DELAY_CAP_SECONDS)

(* Vectors and scores belong to the texts they were asked for, in whatever *)
(* order the provider lists them: the value at place k is one the answer   *)
(* gave for index k - 1, and no place is filled without one.               *)
ItemsAligned ==
  reply = "ok" /\ req.kind # "complete" =>
    Len(items) = req.expected /\ \A k \in DOMAIN items : items[k] % 10 = k - 1 /\ items[k] > 0
=============================================================================
