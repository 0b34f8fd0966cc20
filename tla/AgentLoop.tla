------------------------------ MODULE AgentLoop ------------------------------
(***************************************************************************)
(* One run of the agent loop (agent/loop.py) over the retrying LLM client  *)
(* (llm/retry.py): the assistant's stream, the tool runs started eagerly   *)
(* while it is still streaming, the stop flag, the idle and tool limits,   *)
(* and the transcript the next call is built from.  The provider, the      *)
(* tools and the user act between any two awaits of the loop.              *)
(***************************************************************************)
EXTENDS Naturals, Sequences, SequencesExt, FiniteSets

CONSTANTS MaxIterations, MaxCalls, max_retries, Failures   \* <<status, body marker>>

VARIABLES pc,       \* "boundary", "stream", "tools" or "done"
          index,    \* iterations started
          llm,      \* the retrying client's call
          order,    \* _ToolRunTracker._order: <<call, ...>>, call a number
          tool,     \* call -> "none", "running", "queued", "landed" or "aborted"
          final,    \* _AssistantStreamState.final_message: the calls, or NoMessage
          history,  \* what the run appended
          cancelled, outcome, leaky

loopVars == <<pc, index, llm, order, tool, final, history, cancelled, outcome, leaky>>

Calls == 1..MaxCalls
NoMessage == <<0>>
Assistant(calls) == [role |-> "assistant", calls |-> calls, of |-> 0, content |-> "text"]
ToolReply(c, content) == [role |-> "tool", calls |-> <<>>, of |-> c, content |-> content]
Fresh == [attempt |-> 0, emitted |-> FALSE, asleep |-> FALSE, heard |-> {}]
NoTools == [c \in Calls |-> "none"]

Init ==
  /\ pc = "boundary" /\ index = 0 /\ llm = Fresh /\ order = <<>> /\ tool = NoTools
  /\ final = NoMessage /\ history = <<>> /\ cancelled = FALSE /\ outcome = "none" /\ leaky = FALSE

Running == {c \in Calls : tool[c] = "running"}
drain(t) == [c \in Calls |-> IF t[c] = "queued" THEN "landed" ELSE t[c]]

(* abort: the running tools are cancelled, the results that landed stay.   *)
abort == [c \in Calls |-> IF tool[c] = "running" THEN "aborted" ELSE drain(tool)[c]]

(* tool_messages: in call order; a missing result reads as a cancellation. *)
tool_messages(calls, t) ==
  [i \in DOMAIN calls |-> ToolReply(calls[i], IF t[calls[i]] = "landed" THEN "result" ELSE "cancelled")]

End(o) == pc' = "done" /\ outcome' = o

-----------------------------------------------------------------------------
(* The world: the user's stop, a tool that returns or fails, the limit on  *)
(* a tool that does not.                                                   *)
Cancel == ~cancelled /\ outcome = "none" /\ cancelled' = TRUE
          /\ UNCHANGED <<pc, index, llm, order, tool, final, history, outcome, leaky>>

_run_one(c) == tool[c] = "running" /\ tool' = [tool EXCEPT ![c] = "queued"]
               /\ UNCHANGED <<pc, index, llm, order, final, history, cancelled, outcome, leaky>>

(* Mutant: a tool has no time limit. *)
NoToolLimit(c) == FALSE /\ _run_one(c)

ToolTimeout(c) == pc # "done" /\ _run_one(c)

-----------------------------------------------------------------------------
(* _run: the iteration limit, the flag, then a stream with its tracker.    *)
_run ==
  /\ pc = "boundary"
  /\ IF index = MaxIterations THEN End("failed") /\ UNCHANGED <<index, llm, order, tool, final>>
     ELSE IF cancelled THEN End("cancelled") /\ UNCHANGED <<index, llm, order, tool, final>>
     ELSE /\ pc' = "stream" /\ index' = index + 1 /\ llm' = Fresh /\ order' = <<>>
          /\ tool' = NoTools /\ final' = NoMessage /\ UNCHANGED outcome
  /\ UNCHANGED <<history, cancelled, leaky>>

Heard == llm' = [llm EXCEPT !.emitted = TRUE, !.heard = @ \union {llm.attempt}]
Streaming == pc = "stream" /\ ~llm.asleep /\ final = NoMessage

(* _handle_stream_event: text or a ready call; what landed is drained.     *)
TextDelta ==
  /\ Streaming /\ ~cancelled /\ Heard /\ tool' = drain(tool)
  /\ UNCHANGED <<pc, index, order, final, history, cancelled, outcome, leaky>>

spawn ==
  /\ Streaming /\ ~cancelled /\ Len(order) < MaxCalls /\ Heard
  /\ order' = Append(order, Len(order) + 1)
  /\ tool' = [drain(tool) EXCEPT ![Len(order) + 1] = "running"]
  /\ UNCHANGED <<pc, index, final, history, cancelled, outcome, leaky>>

mark_broken ==
  /\ Streaming /\ ~cancelled /\ Len(order) < MaxCalls /\ Heard
  /\ order' = Append(order, Len(order) + 1)
  /\ tool' = [drain(tool) EXCEPT ![Len(order) + 1] = "landed"]
  /\ UNCHANGED <<pc, index, final, history, cancelled, outcome, leaky>>

(* StreamFinished: the message holds the calls announced, or, from a       *)
(* client that announces none, a batch of them.                            *)
StreamFinished(batch) ==
  /\ Streaming /\ ~cancelled /\ (order # <<>> => batch = 0)
  /\ Heard /\ tool' = drain(tool)
  /\ final' = IF order # <<>> THEN order ELSE [i \in 1..batch |-> i]
  /\ UNCHANGED <<pc, index, order, history, cancelled, outcome, leaky>>

-----------------------------------------------------------------------------
(* classify_http_error: the body's markers win over the status.            *)
classify_http_error(status, marker) ==
  IF marker = "quota" THEN "quota"
  ELSE IF marker = "context" THEN "context_overflow"
  ELSE IF status = 429 THEN "rate_limit"
  ELSE IF status \in {401, 403} THEN "auth"
  ELSE IF status = 402 THEN "quota"
  ELSE IF status >= 500 THEN "provider_internal"
  ELSE IF status = 0 THEN "transport" ELSE "client"
transient(kind) == kind \in {"rate_limit", "provider_internal", "transport"}

(* Only a failure before the first event is retried.                       *)
Retried(kind) == ~llm.emitted /\ transient(kind) /\ llm.attempt < max_retries

(* RetryingLLMClient.stream: sleep and call again, or raise, which aborts  *)
(* the tools of the turn and fails the run.                                *)
StreamFails(f) ==
  /\ Streaming
  /\ IF Retried(classify_http_error(f[1], f[2]))
     THEN /\ llm' = [llm EXCEPT !.attempt = @ + 1, !.emitted = FALSE, !.asleep = TRUE]
          /\ UNCHANGED <<pc, tool, outcome>>
     ELSE End("failed") /\ tool' = abort /\ UNCHANGED llm
  /\ UNCHANGED <<index, order, final, history, cancelled, leaky>>

Wake == pc = "stream" /\ llm.asleep /\ llm' = [llm EXCEPT !.asleep = FALSE]
        /\ UNCHANGED <<pc, index, order, tool, final, history, cancelled, outcome, leaky>>

IdleTimeout ==
  /\ pc = "stream" /\ End("failed") /\ tool' = abort
  /\ UNCHANGED <<index, llm, order, final, history, cancelled, leaky>>

(* Mutant: the partial message is stored without replies. *)
InterruptUnanswered ==
  /\ pc = "stream" /\ cancelled
  /\ tool' = abort /\ End("cancelled")
  /\ history' = Append(history, Assistant(order))
  /\ UNCHANGED <<index, llm, order, final, cancelled, leaky>>

(* _interrupt_iteration: the partial message with a reply for every call.  *)
_interrupt_iteration ==
  /\ pc = "stream" /\ cancelled
  /\ tool' = abort /\ End("cancelled")
  /\ history' = history \o <<Assistant(order)>> \o tool_messages(order, abort)
  /\ UNCHANGED <<index, llm, order, final, cancelled, leaky>>

(* The calls no event announced are started by the final message.          *)
SpawnUnseen ==
  IF order # <<>> THEN UNCHANGED <<order, tool>>
  ELSE order' = final /\ tool' = [c \in Calls |-> IF c <= Len(final) THEN "running" ELSE "none"]

(* The end of the stream and _finalize_assistant.                          *)
_finalize_assistant ==
  /\ pc = "stream" /\ ~llm.asleep
  /\ IF final = NoMessage
     THEN End("failed") /\ leaky' = (Running # {}) /\ UNCHANGED <<history, order, tool>>
     ELSE /\ history' = Append(history, Assistant(final)) /\ UNCHANGED leaky
          /\ IF final = <<>> THEN End("finished") /\ UNCHANGED <<order, tool>>
             ELSE pc' = "tools" /\ SpawnUnseen /\ UNCHANGED outcome
  /\ UNCHANGED <<index, llm, final, cancelled>>

(* _stream_tool_calls: wait for every run or the flag; then the replies.   *)
_stream_tool_calls ==
  LET t == IF cancelled THEN abort ELSE drain(tool)
  IN /\ pc = "tools" /\ (cancelled \/ Running = {})
     /\ tool' = t /\ history' = history \o tool_messages(final, t) /\ pc' = "boundary"
     /\ UNCHANGED <<index, llm, order, final, cancelled, outcome, leaky>>

(* ConversationRunner.stop cancels the pump itself: inside the stream the  *)
(* tools are aborted, inside the wait for tools they are left running.     *)
Kill ==
  /\ pc # "done" /\ End("killed") /\ cancelled' = TRUE
  /\ tool' = IF pc = "stream" THEN abort ELSE tool
  /\ leaky' = (pc = "tools" /\ Running # {})
  /\ UNCHANGED <<index, llm, order, final, history>>

Loop == _run \/ _interrupt_iteration \/ _stream_tool_calls
Provider == \/ TextDelta \/ spawn \/ mark_broken \/ Wake \/ _finalize_assistant
            \/ \E n \in 0..MaxCalls : StreamFinished(n)
            \/ \E f \in Failures : StreamFails(f)
Next == \/ Loop \/ Provider \/ Cancel \/ Kill \/ IdleTimeout
        \/ \E c \in Calls : _run_one(c) \/ ToolTimeout(c)

(* The event loop runs the loop's own ready steps, and the timers of the   *)
(* tool limit fire; the provider and the tools owe nothing.                *)
Fair == WF_loopVars(Loop) /\ \A c \in Calls : WF_loopVars(ToolTimeout(c))
Spec == Init /\ [][Next]_loopVars /\ Fair

-----------------------------------------------------------------------------
(* The state of a run has its shape, and a run that ended stays ended.     *)
LoopTypeOK ==
  /\ pc \in {"boundary", "stream", "tools", "done"} /\ index \in 0..MaxIterations
  /\ (pc = "done") = (outcome # "none")
  /\ llm.attempt \in 0..max_retries /\ Len(order) <= MaxCalls

Replied(i) ==
  LET calls == history[i].calls
  IN /\ i + Len(calls) <= Len(history)
     /\ \A j \in DOMAIN calls : history[i + j].role = "tool" /\ history[i + j].of = calls[j]

(* "history follows the call order": whatever was stopped, at the start of *)
(* an iteration and at the end of a run every assistant message is         *)
(* followed by exactly one reply per call, in its order.                   *)
TranscriptWellFormed ==
  (pc = "boundary" \/ outcome \in {"finished", "cancelled", "failed"}) =>
    /\ \A i \in DOMAIN history : history[i].role = "assistant" => Replied(i)
    /\ Len(history) = FoldLeft(LAMBDA n, m : n + (IF m.role = "assistant" THEN 1 + Len(m.calls) ELSE 0), 0, history)

(* "a missing result means cancellation": the model is told a call was     *)
(* cancelled only in a run the user stopped.                               *)
CancelledMeansStopped ==
  (\E i \in DOMAIN history : history[i].content = "cancelled") => cancelled

(* "A run cancelled from outside must take the tool with it": no tool runs *)
(* on after its run ended, but where the pump was cancelled while it       *)
(* waited for tools, or the stream ended with no message.                  *)
NoToolOutlivesRun == outcome # "none" /\ ~leaky => Running = {}

(* "once deltas went downstream, a retry would duplicate partial output":  *)
(* of the attempts of one call, only the last is ever heard.               *)
HeardOnce == Cardinality(llm.heard) <= 1

RunOver == outcome # "none"
InTools == pc = "tools"

(* "a user's stop is not held hostage": with a silent provider and wedged  *)
(* tools a stopped run still ends.                                         *)
StopEndsRun == cancelled ~> RunOver

(* "a tool that never returns holds its iteration open forever": with the  *)
(* time limit every wait for tools ends.                                   *)
ToolsNeverHold == InTools ~> ~InTools
=============================================================================
