----------------------------- MODULE TelegramBridge -----------------------------
(***************************************************************************)
(* How an answer is written into a Telegram chat while it streams:         *)
(* bridge.py and drafts.py.  The forwarder task renders the events of one  *)
(* exchange into its draft and flushes it once per throttle window; a      *)
(* timer task flushes what is pending when no event comes; the terminal    *)
(* event flushes for the last time and drops the draft.  Every flush waits *)
(* for Telegram in the middle of its work, and the two tasks share the     *)
(* draft.  A remembered draft lets the next owner of the dialog go on in   *)
(* the same message.                                                       *)
(*                                                                         *)
(* A text is how many pieces of the answer it holds; a message holds at    *)
(* most Limit pieces (MAX_RICH_MESSAGE_LENGTH).  The status line above the *)
(* text and the typing indicator are left out.                             *)
(***************************************************************************)
EXTENDS Naturals, Sequences

CONSTANTS MaxPieces, Limit, MaxRuns, MaxFailures

VARIABLES chat,    \* the messages in the chat, by id
          draft,   \* the _Draft of the exchange
          timer,   \* flush_timer: none, asleep, rung (its delay is over) or flushing
          fwd,     \* what the forwarder is doing
          flush,   \* flush[t]: the flush task t is in the middle of
          store,   \* the remembered draft
          run,     \* which run of the exchange is streaming
          seen     \* what happened that a property asks about

bridgeVars == <<chat, draft, timer, fwd, flush, store, run, seen>>

Writers == {"forwarder", "timer"}
NoText == [chunk |-> 0, run |-> 0, to |-> 0]
_Draft == [message_id |-> 0, buffer |-> 0, delivered_text |-> NoText,
           sealed_chunks |-> 0, pending |-> "no"]
NoRow == [message_id |-> 0, sealed_chunks |-> 0]
NoFlush == [pc |-> "none", length |-> 0, chunk |-> 0, message |-> 0]

Init ==
  /\ chat = <<>> /\ draft = _Draft /\ timer = "none" /\ fwd = "idle"
  /\ flush = [t \in Writers |-> NoFlush] /\ store = NoRow /\ run = 1
  /\ seen = [failures |-> 0, overlap |-> FALSE, resealed |-> FALSE, reopened |-> FALSE,
             cut |-> FALSE]

-----------------------------------------------------------------------------
Least(a, b) == IF a < b THEN a ELSE b

(* _split_markdown over _compose: how many chunks, and what the k-th says. *)
_split_markdown(length) == (length + Limit - 1) \div Limit
Chunk(length, k) == [chunk |-> k, run |-> run, to |-> Least(length, k * Limit)]

Seal(d) == [d EXCEPT !.message_id = 0, !.delivered_text = NoText, !.sealed_chunks = @ + 1]

(* The loop of _flush_draft up to its next await: heads already delivered  *)
(* are sealed; `chunk` is the next one to deliver, 0 for none.             *)
_flush_draft(d, length) ==
  LET chunks == _split_markdown(length)
      head == d.sealed_chunks < chunks - 1
      skip == head /\ Chunk(length, d.sealed_chunks + 1) = d.delivered_text
      next == IF skip THEN Seal(d) ELSE d
      target == IF next.sealed_chunks < chunks - 1 THEN next.sealed_chunks + 1 ELSE chunks
  IN [draft |-> next,
      chunk |-> IF chunks = 0 \/ Chunk(length, target) = next.delivered_text THEN 0 ELSE target]

(* _deliver up to its await: the request is on its way.  Telegram acts on  *)
(* it at once (a new message, or an edit of the known one) or it is lost.  *)
_deliver(t, d, length, k) ==
  LET new == d.message_id = 0
      f == [pc |-> IF new THEN "send" ELSE "edit", length |-> length, chunk |-> k,
            message |-> IF new THEN Len(chat) + 1 ELSE d.message_id]
  IN \/ /\ chat' = IF new THEN Append(chat, Chunk(length, k))
                   ELSE [chat EXCEPT ![d.message_id] = Chunk(length, k)]
        /\ flush' = [flush EXCEPT ![t] = f]
        /\ seen' = [seen EXCEPT !.overlap = @ \/ (\E o \in Writers \ {t} : flush[o].pc # "none")]
     \/ /\ seen.failures < MaxFailures
        /\ seen' = [seen EXCEPT !.failures = @ + 1]
        /\ flush' = [flush EXCEPT ![t] = [f EXCEPT !.pc = "lost"]]
        /\ UNCHANGED chat

(* The end of a flush, or of the last of them (a final flush that failed   *)
(* twice ends the same way): the draft goes and its row is forgotten.      *)
Ended(t, state) ==
  /\ flush' = [flush EXCEPT ![t] = NoFlush]
  /\ timer' = IF t = "timer" THEN "none" ELSE timer
  /\ fwd' = IF t = "timer" THEN fwd ELSE IF state = "render" THEN "idle" ELSE "done"
  /\ store' = IF t = "forwarder" /\ state # "render" THEN NoRow ELSE store

(* Task t goes on with its flush of a text of `length` pieces, the draft   *)
(* being d; the forwarder flushes for the reason `state`.                  *)
Continue(t, d, length, state) ==
  LET work == _flush_draft(d, length)
  IN /\ draft' = work.draft
     /\ IF work.chunk = 0
        THEN Ended(t, state) /\ UNCHANGED <<chat, seen>>
        ELSE /\ _deliver(t, work.draft, length, work.chunk)
             /\ fwd' = IF t = "forwarder" THEN state ELSE fwd
             /\ timer' = IF t = "timer" THEN "flushing" ELSE timer
             /\ UNCHANGED store

(* send_rich_message returned: the id is known and _remember_draft writes  *)
(* it down, or fails to, which is logged.                                  *)
_remember_draft(t) ==
  /\ flush[t].pc = "send"
  /\ draft' = [draft EXCEPT !.message_id = flush[t].message]
  /\ \/ /\ store' = [message_id |-> flush[t].message, sealed_chunks |-> draft.sealed_chunks]
        /\ UNCHANGED seen
     \/ /\ seen.failures < MaxFailures
        /\ seen' = [seen EXCEPT !.failures = @ + 1]
        /\ UNCHANGED store
  /\ flush' = [flush EXCEPT ![t].pc = "edit"]
  /\ UNCHANGED <<chat, timer, fwd, run>>

(* _deliver is over: a head is sealed and the loop goes on, the last chunk *)
(* ends the flush.                                                         *)
Delivered(t) ==
  LET f == flush[t]
      told == [draft EXCEPT !.delivered_text = Chunk(f.length, f.chunk)]
  IN /\ f.pc = "edit"
     /\ IF f.chunk < _split_markdown(f.length)
        THEN Continue(t, Seal(told), f.length, fwd)
        ELSE draft' = told /\ Ended(t, fwd) /\ UNCHANGED <<chat, seen>>
     /\ UNCHANGED run

(* The call raised, whether or not Telegram acted on it.  The timer's and  *)
(* an ordinary render's failure is logged; the final flush is tried again. *)
_flush_terminal_with_retry(t) ==
  /\ \/ flush[t].pc = "lost"
     \/ flush[t].pc \in {"send", "edit"} /\ seen.failures < MaxFailures
  /\ seen' = [seen EXCEPT !.failures = IF flush[t].pc = "lost" THEN @ ELSE @ + 1]
  /\ IF t = "forwarder" /\ fwd = "last"
     THEN /\ fwd' = "retry" /\ flush' = [flush EXCEPT ![t] = NoFlush]
          /\ UNCHANGED <<timer, store>>
     ELSE Ended(t, fwd)
  /\ UNCHANGED <<chat, draft, run>>

(* The final flush, and its second attempt.                                *)
FlushLast ==
  /\ fwd \in {"final", "retry"}
  /\ Continue("forwarder", draft, draft.buffer, IF fwd = "final" THEN "last" ELSE "again")
  /\ UNCHANGED run

-----------------------------------------------------------------------------
(* A text delta: _render, _flush_throttled, _flush_when_due.  Output that  *)
(* has waited a whole window is flushed here; otherwise a timer is left to *)
(* do it, unless there is one.                                             *)
_flush_throttled ==
  /\ fwd = "idle" /\ draft.buffer < MaxPieces
  /\ LET d == [draft EXCEPT !.buffer = @ + 1] IN
     IF d.pending = "due"
     THEN Continue("forwarder", [d EXCEPT !.pending = "no"], d.buffer, "render")
     ELSE /\ draft' = [d EXCEPT !.pending = "fresh"]
          /\ timer' = IF timer = "none" THEN "asleep" ELSE timer
          /\ UNCHANGED <<chat, fwd, flush, store, seen>>
  /\ UNCHANGED run

(* The throttle window passes.                                             *)
Elapse ==
  /\ draft.pending = "fresh" \/ timer = "asleep"
  /\ draft' = [draft EXCEPT !.pending = IF @ = "fresh" THEN "due" ELSE @]
  /\ timer' = IF timer = "asleep" THEN "rung" ELSE timer
  /\ UNCHANGED <<chat, fwd, flush, store, run, seen>>

(* The timer task after its sleep: it finds output that is due, or nothing *)
(* it may deliver (and leaves no other timer behind: it is not done yet).  *)
_flush_after ==
  /\ timer = "rung"
  /\ IF draft.pending = "due"
     THEN Continue("timer", [draft EXCEPT !.pending = "no"], draft.buffer, fwd)
     ELSE timer' = "none" /\ UNCHANGED <<chat, draft, fwd, flush, store, seen>>
  /\ UNCHANGED run

(* The flush timer is cancelled wherever it stands.                        *)
_cancel_flush_timer == timer' = "none" /\ flush' = [flush EXCEPT !["timer"] = NoFlush]

(* The terminal event: nothing may fire after the flush that follows it.   *)
_render_terminal ==
  /\ fwd = "idle" /\ draft.buffer > 0
  /\ fwd' = "final"
  /\ draft' = [draft EXCEPT !.pending = "no"]
  /\ _cancel_flush_timer
  /\ seen' = [seen EXCEPT !.overlap = @ \/ flush["timer"].pc # "none"]
  /\ UNCHANGED <<chat, store, run>>


(* A bridge of the next owner has no draft yet: it adopts the remembered   *)
(* message, and streams the answer from its beginning.                     *)
_restore_drafts ==
  /\ draft' = [_Draft EXCEPT !.message_id = store.message_id,
                             !.sealed_chunks = store.sealed_chunks]
  /\ UNCHANGED store

(* The dialog leaves (detach, or the process stops): the bridge is closed, *)
(* its forwarder and timer cancelled even where they wait for Telegram,    *)
(* and its drafts go with it; the next owner's bridge starts.  The load of *)
(* the remembered drafts may fail, which is logged.                        *)
aclose ==
  /\ fwd \in {"idle", "render"} /\ run < MaxRuns
  /\ fwd' = "idle" /\ run' = run + 1
  /\ timer' = "none" /\ flush' = [t \in Writers |-> NoFlush]
  /\ LET left == [seen EXCEPT !.overlap = @ \/ (\E t \in Writers : flush[t].pc # "none"),
                              !.resealed = @ \/ store.sealed_chunks > 0]
     IN \/ _restore_drafts /\ seen' = left
        \/ /\ seen.failures < MaxFailures
           /\ draft' = _Draft /\ seen' = [left EXCEPT !.failures = @ + 1]
           /\ UNCHANGED store
  /\ UNCHANGED chat

(* Closed within the terminal flush or before its second attempt: the      *)
(* finally clause drops the draft and forgets its row, and what was not    *)
(* written yet is never written.                                           *)
CutShort ==
  /\ fwd \in {"last", "retry", "again"}
  /\ fwd' = "done" /\ store' = NoRow
  /\ flush' = [flush EXCEPT !["forwarder"] = NoFlush]
  /\ seen' = [seen EXCEPT !.cut = TRUE]
  /\ UNCHANGED <<chat, draft, timer, run>>

(* The stream ends and the same bridge is started again: its own draft     *)
(* stands before the remembered one (setdefault), with the text it has.    *)
Reopened ==
  /\ fwd = "idle" /\ ~seen.reopened
  /\ _cancel_flush_timer
  /\ seen' = [seen EXCEPT !.reopened = TRUE, !.overlap = @ \/ flush["timer"].pc # "none"]
  /\ UNCHANGED <<chat, draft, fwd, store, run>>

Next ==
  \/ _flush_throttled \/ Elapse \/ _flush_after
  \/ _render_terminal \/ FlushLast
  \/ aclose \/ CutShort \/ Reopened
  \/ \E t \in Writers : _remember_draft(t) \/ Delivered(t) \/ _flush_terminal_with_retry(t)

Spec == Init /\ [][Next]_bridgeVars

-----------------------------------------------------------------------------
(* The bridge's state is of its declared shape; a task in the middle of a  *)
(* flush is one that is running, and the message it writes to exists.      *)
BridgeTypeOK ==
  /\ draft.pending \in {"no", "fresh", "due"} /\ draft.message_id \in 0 .. Len(chat)
  /\ timer \in {"none", "asleep", "rung", "flushing"}
  /\ fwd \in {"idle", "render", "final", "last", "retry", "again", "done"}
  /\ flush["timer"].pc # "none" <=> timer = "flushing"
  /\ flush["forwarder"].pc # "none" <=> fwd \in {"render", "last", "again"}
  /\ \A t \in Writers : flush[t].pc \in {"send", "edit"} => flush[t].message \in DOMAIN chat

Shown(p) == \E m \in DOMAIN chat :
  /\ chat[m].run = run
  /\ p \in (chat[m].chunk - 1) * Limit + 1 .. chat[m].to

(* Once the terminal flush is over every piece of the answer stands in the *)
(* chat, however timer flushes, sealed heads and the stream interleaved:   *)
(* no delta is lost between a flush's snapshot of the buffer and its end.  *)
(* After a failed call, when a sealed answer was taken over and begins     *)
(* anew under the old count of sealed chunks, or when the bridge is closed *)
(* within the terminal flush, this does not hold.                          *)
AnswerComplete ==
  fwd = "done" /\ seen.failures = 0 /\ ~seen.resealed /\ ~seen.cut =>
    \A p \in 1 .. draft.buffer : Shown(p)

(* drafts.py: a second message for one answer would have the user "see a   *)
(* truncated answer followed by a complete one": no chunk of an answer is  *)
(* ever written into two messages, across a change of owner too, unless a  *)
(* call failed, a flush began while the other task waited for Telegram, or *)
(* one was cancelled there.                                                *)
OneMessagePerChunk ==
  seen.failures = 0 /\ ~seen.overlap /\ ~seen.resealed =>
    \A m, n \in DOMAIN chat : m # n => chat[m].chunk # chat[n].chunk
=============================================================================
