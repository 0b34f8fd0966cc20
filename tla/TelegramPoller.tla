----------------------------- MODULE TelegramPoller -----------------------------
(***************************************************************************)
(* Telegram ingestion: surfaces/telegram/.../poller.py.  One long-poll     *)
(* loop fetches updates and only queues them; one worker per user drains   *)
(* that user's queue in order, gathers albums, passes the gate, asks the   *)
(* service to read pictures and recordings (under a shared number of       *)
(* slots) and submits what came out to the dialog.                         *)
(*                                                                         *)
(* An update is its number in `log`, Telegram's record of what was sent.   *)
(* Texts are abstracted to what routing tells apart: no body, plain text,  *)
(* or a `/start <payload>` command.  The invite and status gates are       *)
(* modelled in Admission; here their verdict is a choice.                  *)
(***************************************************************************)
EXTENDS Naturals, Sequences, FiniteSets, SequencesExt, FiniteSetsExt

CONSTANTS Users, Sends, MaxUpdates, IngestSlots, MaxMishaps

VARIABLES log,        \* updates sent so far: message records with their user
          confirmed,  \* how many of them Telegram has forgotten
          offset,     \* _offset: the next update asked for, 0 for None
          pending,    \* pending[u]: the deque of an inbox
          worker,     \* worker[u]: what the inbox's task is doing, its batch
          dialog,     \* dialog[u]: entries submitted to the user's dialog
          mishaps     \* failures and restarts so far, against MaxMishaps

pollerVars == <<log, confirmed, offset, pending, worker, dialog, mishaps>>

NoWorker == [pc |-> "none", batch |-> <<>>]
Dead == [pc |-> "dead", batch |-> <<>>]    \* the task ended in an exception
Idle == [pc |-> "idle", batch |-> <<>>]

OwnerOf(i) == log[i].user

Init ==
  /\ log = <<>> /\ confirmed = 0 /\ offset = 0
  /\ pending = [u \in Users |-> <<>>]
  /\ worker = [u \in Users |-> NoWorker]
  /\ dialog = [u \in Users |-> <<>>]
  /\ mishaps = [failures |-> 0, restarts |-> 0]

-----------------------------------------------------------------------------
(* Routing.  An effect is the words said to the user and the entry         *)
(* submitted: its kind, and whether the caption found its way into it.     *)

Nothing == [said |-> {}, kind |-> "none", caption |-> FALSE]
Say(notice) == [Nothing EXCEPT !.said = {notice}]
Submit(kind, caption) == [Nothing EXCEPT !.kind = kind, !.caption = caption]
Also(notice, effect) == [effect EXCEPT !.said = @ \union {notice}]

HasBody(m) == m.body # "none"

_dispatch_text(m) ==
  CASE m.body = "start"   -> Say("greeting")
    [] m.body = "payload" -> Nothing
    [] m.body = "command" -> Say("link")
    [] OTHER              -> Submit("OWN", TRUE)

_dispatch_plain_or_notice(m) ==
  IF HasBody(m) THEN _dispatch_text(m) ELSE Say("text_only")

_dispatch_material(m) == Submit("MATERIAL", HasBody(m))

_dispatch_without_vision(m) ==
  IF m.forwarded THEN _dispatch_material(m) ELSE _dispatch_plain_or_notice(m)

(* Mutant: the refusal is not told. *)
RefuseVisionQuietly(m) ==
  IF m.forwarded THEN _dispatch_material(m)
  ELSE IF HasBody(m) THEN _dispatch_plain_or_notice(m)
  ELSE Nothing

_refuse_vision(m) ==
  Also("vision_plan",
       IF m.forwarded THEN _dispatch_material(m)
       ELSE IF HasBody(m) THEN _dispatch_plain_or_notice(m)
       ELSE Nothing)

_dispatch_voice(m, kind, outcome) ==
  CASE outcome = "refused_by_plan" ->
         Also("voice_plan", IF HasBody(m) THEN _dispatch_plain_or_notice(m) ELSE Nothing)
    [] outcome = "out_of_bounds" -> Say("duration")
    [] outcome = "unavailable"   -> _dispatch_without_vision(m)
    [] outcome = "empty"         -> Say("voice_empty")
    [] outcome = "understood"    -> Submit(kind, HasBody(m))

(* _submit_images joined to the caller's reading of its outcome.           *)
_submit_images(anchor, kind, caption, outcome, fallback) ==
  CASE outcome = "refused_by_plan" -> _refuse_vision(anchor)
    [] outcome = "unavailable"     -> fallback
    [] outcome = "understood"      -> Submit(kind, caption)

_dispatch_forward(m, outcome) ==
  CASE m.media = "audio" /\ outcome # "off" -> _dispatch_voice(m, "MATERIAL", outcome)
    [] m.media = "image" /\ outcome # "off" ->
         _submit_images(m, "MATERIAL", HasBody(m), outcome, _dispatch_material(m))
    [] OTHER -> _dispatch_material(m)

_dispatch_own_image(m, outcome) ==
  _submit_images(m, IF HasBody(m) THEN "OWN" ELSE "MATERIAL", HasBody(m), outcome,
                 _dispatch_plain_or_notice(m))

_dispatch_album(batch, outcome) ==
  LET anchor == batch[1]
      captioned == \E k \in DOMAIN batch : HasBody(batch[k])
      pictured == \E k \in DOMAIN batch : batch[k].media = "image"
      kind == IF anchor.forwarded \/ ~captioned THEN "MATERIAL" ELSE "OWN"
  IN IF outcome = "off" \/ ~pictured
     THEN _dispatch_without_vision(anchor)
     ELSE _submit_images(anchor, kind, captioned, outcome, _dispatch_without_vision(anchor))

(* _handle past the gate: the route of a message or an album.              *)
Route(batch, outcome) ==
  LET m == batch[1] IN
  CASE Len(batch) > 1 \/ m.album # 0 -> _dispatch_album(batch, outcome)
    [] m.forwarded -> _dispatch_forward(m, outcome)
    [] m.media = "image" /\ outcome # "off" -> _dispatch_own_image(m, outcome)
    [] m.media = "audio" /\ outcome # "off" -> _dispatch_voice(m, "OWN", outcome)
    [] OTHER -> _dispatch_plain_or_notice(m)

(* What the service can say about this batch's media; "off" when the       *)
(* route asks it nothing.                                                  *)
Outcomes(batch) ==
  LET m == batch[1]
      isAlbum == Len(batch) > 1 \/ m.album # 0
  IN CASE isAlbum /\ \E k \in DOMAIN batch : batch[k].media = "image" ->
            {"understood", "refused_by_plan", "unavailable"}
       [] ~isAlbum /\ m.media = "image" -> {"understood", "refused_by_plan", "unavailable"}
       [] ~isAlbum /\ m.media = "audio" ->
            {"understood", "refused_by_plan", "unavailable", "out_of_bounds", "empty"}
       [] OTHER -> {"off"}

(* Mutant: text takes a media slot too. *)
AlwaysASlot(batch) == batch # <<>>

NeedsMedia(batch) == Outcomes(batch) # {"off"}

-----------------------------------------------------------------------------
(* Telegram's side: a user sends a message.                                *)
Send(sent) ==
  /\ Len(log) < MaxUpdates
  /\ log' = Append(log, sent)
  /\ UNCHANGED <<confirmed, offset, pending, worker, dialog, mishaps>>

(* dispatch and _enqueue for the updates `ids`: nothing here awaits.       *)
_enqueue(ids) ==
  /\ pending' = [u \in Users |->
                   pending[u] \o SelectSeq(ids, LAMBDA i : OwnerOf(i) = u)]
  /\ worker' = [u \in Users |->
                  IF worker[u] \in {NoWorker, Dead} /\ \E k \in DOMAIN ids : OwnerOf(ids[k]) = u
                  THEN Idle ELSE worker[u]]

(* The loop advances its offset past every update it was given.            *)
_poll_once ==
  LET from == IF offset = 0 THEN confirmed + 1 ELSE offset
  IN /\ from <= Len(log)
     /\ confirmed' = from - 1
     /\ offset' = Len(log) + 1
     /\ _enqueue([k \in 1 .. Len(log) - from + 1 |-> from + k - 1])
     /\ UNCHANGED <<log, dialog, mishaps>>

Batch(ids) == [k \in DOMAIN ids |-> log[ids[k]].msg]

(* _next_message found something: a lone message or an album's first.      *)
_work(u) ==
  /\ worker[u].pc = "idle" /\ pending[u] # <<>>
  /\ LET i == Head(pending[u])
     IN worker' = [worker EXCEPT ![u] = [pc |-> IF log[i].msg.album # 0 THEN "album" ELSE "handle",
                                         batch |-> <<i>>]]
  /\ pending' = [pending EXCEPT ![u] = Tail(@)]
  /\ UNCHANGED <<log, confirmed, offset, dialog, mishaps>>

(* INBOX_IDLE_SECONDS passed and the deque, read again, is still empty.    *)
IdleOut(u) ==
  /\ worker[u].pc = "idle" /\ pending[u] = <<>>
  /\ worker' = [worker EXCEPT ![u] = NoWorker]
  /\ UNCHANGED <<log, confirmed, offset, pending, dialog, mishaps>>

NextIsPage(u) ==
  /\ pending[u] # <<>>
  /\ log[Head(pending[u])].msg.album = log[worker[u].batch[1]].msg.album

(* Mutant: the foreign message is put back at the end. *)
CollectPutsLast(u) ==
  /\ worker[u].pc = "album"
  /\ \/ /\ NextIsPage(u)
        /\ worker' = [worker EXCEPT ![u].batch = Append(@, Head(pending[u]))]
        /\ pending' = [pending EXCEPT ![u] = Tail(@)]
     \/ /\ ~NextIsPage(u)
        /\ worker' = [worker EXCEPT ![u].pc = "handle"]
        /\ pending' = [pending EXCEPT ![u] =
                         IF @ = <<>> THEN @ ELSE Append(Tail(@), Head(@))]
  /\ UNCHANGED <<log, confirmed, offset, dialog, mishaps>>

(* One turn of _collect_album: another page, a foreign message put back at *)
(* the head, or ALBUM_QUIET_SECONDS with nothing queued.                   *)
_collect_album(u) ==
  /\ worker[u].pc = "album"
  /\ \/ /\ NextIsPage(u)
        /\ worker' = [worker EXCEPT ![u].batch = Append(@, Head(pending[u]))]
        /\ pending' = [pending EXCEPT ![u] = Tail(@)]
     \/ /\ ~NextIsPage(u)
        /\ worker' = [worker EXCEPT ![u].pc = "handle"]
        /\ UNCHANGED pending
  /\ UNCHANGED <<log, confirmed, offset, dialog, mishaps>>

(* The batch is done with: an entry under the anchor's message id, which   *)
(* the dialog ignores when it has it, or what the user was told.           *)
Settle(u, effect) ==
  LET ids == worker[u].batch
      known == \E k \in DOMAIN dialog[u] : dialog[u][k].key = ids[1]
  IN /\ worker' = [worker EXCEPT ![u] = Idle]
     /\ dialog' = [dialog EXCEPT ![u] =
                     IF effect.kind = "none" \/ known THEN @
                     ELSE Append(@, [key |-> ids[1], kind |-> effect.kind])]
     /\ UNCHANGED <<log, confirmed, offset, pending, mishaps>>

(* A gate turned the batch away, or it came from a group chat: the user is *)
(* told (a status notice once a day: Admission), the dialog is not.        *)
_gate(u) ==
  /\ worker[u].pc = "handle"
  /\ Settle(u, Say("refusal"))

_handle(u) ==
  /\ worker[u].pc = "handle"
  /\ LET batch == Batch(worker[u].batch) IN
     IF NeedsMedia(batch)
     THEN /\ worker' = [worker EXCEPT ![u].pc = "slot"]
          /\ UNCHANGED <<log, confirmed, offset, pending, dialog, mishaps>>
     ELSE Settle(u, Route(batch, "off"))

Ingesting == {u \in Users : worker[u].pc = "ingest"}

(* async with _ingest_slots.                                               *)
AcquireSlot(u) ==
  /\ worker[u].pc = "slot" /\ Cardinality(Ingesting) < IngestSlots
  /\ worker' = [worker EXCEPT ![u].pc = "ingest"]
  /\ UNCHANGED <<log, confirmed, offset, pending, dialog, mishaps>>

(* describe or transcribe answered; the slot is released.                  *)
Ingested(u) ==
  /\ worker[u].pc = "ingest"
  /\ \E outcome \in Outcomes(Batch(worker[u].batch)) :
       Settle(u, Route(Batch(worker[u].batch), outcome))

(* An exception out of _handle is logged and swallowed; the worker lives.  *)
_handle_safely(u) ==
  /\ worker[u].pc \in {"handle", "ingest"} /\ mishaps.failures + mishaps.restarts < MaxMishaps
  /\ worker' = [worker EXCEPT ![u] = Idle]
  /\ mishaps' = [mishaps EXCEPT !.failures = @ + 1]
  /\ UNCHANGED <<log, confirmed, offset, pending, dialog>>

(* The service refused the person, and telling them so failed: this        *)
(* exception escapes the handler, the task ends, and what is queued waits  *)
(* until the user's next message starts another.                           *)
_refuse_access(u) ==
  /\ worker[u].pc \in {"handle", "ingest"} /\ mishaps.failures + mishaps.restarts < MaxMishaps
  /\ worker' = [worker EXCEPT ![u] = Dead]
  /\ mishaps' = [mishaps EXCEPT !.failures = @ + 1]
  /\ UNCHANGED <<log, confirmed, offset, pending, dialog>>

(* At start the last update alone is asked for, which makes Telegram       *)
(* forget those before it; when that call fails the offset stays None.     *)
_drain_backlog ==
  \/ /\ confirmed < Len(log)
     /\ confirmed' = Len(log) - 1 /\ offset' = Len(log) + 1
  \/ confirmed' = confirmed /\ offset' = 0

(* The process dies or is stopped, queued work with it, and starts again.  *)
run_forever ==
  /\ mishaps.failures + mishaps.restarts < MaxMishaps
  /\ mishaps' = [mishaps EXCEPT !.restarts = @ + 1]
  /\ pending' = [u \in Users |-> <<>>]
  /\ worker' = [u \in Users |-> NoWorker]
  /\ _drain_backlog
  /\ UNCHANGED <<log, dialog>>

Next ==
  \/ \E sent \in Sends : Send(sent)
  \/ _poll_once
  \/ \E u \in Users : \/ _work(u) \/ IdleOut(u) \/ _collect_album(u)
                      \/ _handle(u) \/ _gate(u) \/ AcquireSlot(u)
                      \/ Ingested(u) \/ _handle_safely(u) \/ _refuse_access(u)
  \/ run_forever

-----------------------------------------------------------------------------
(* Everything the poller holds is of its declared shape, and a queue is    *)
(* left without a worker to drain it only by one that died.                *)
PollerTypeOK ==
  /\ confirmed \in 0 .. Len(log) /\ offset \in 0 .. Len(log) + 1
  /\ \A u \in Users :
       /\ \A i \in Range(pending[u]) \union Range(worker[u].batch) :
            i \in DOMAIN log /\ OwnerOf(i) = u
       /\ worker[u].pc \in {"none", "dead", "idle", "album", "handle", "slot", "ingest"}
       /\ worker[u] = NoWorker => pending[u] = <<>>
  /\ Cardinality(Ingesting) <= IngestSlots

(* _collect_album: "the pictures can never be overtaken by the question    *)
(* about them": entries join a dialog in the order the user sent them,     *)
(* across albums, slow media and failures; a restart may refetch an update *)
(* the gate turned away before, and is left out.                           *)
NeverOvertaken ==
  mishaps.restarts = 0 =>
    \A u \in Users : \A j, k \in DOMAIN dialog[u] :
      j < k => dialog[u][j].key < dialog[u][k].key

AnyMessage == [forwarded : BOOLEAN, media : {"none", "image", "audio"}, album : {0, 1},
               body : {"none", "text", "start", "payload", "command"}]
AnyBatch == {<<m>> : m \in AnyMessage}
            \union {<<m, n>> : m, n \in {x \in AnyMessage : x.album = 1}}

(* Everything routed is answered by words or joins the dialog, except a    *)
(* `/start <payload>` message, which the gate is expected to have          *)
(* answered: no fallback of the media paths ends in silence, whatever the  *)
(* service answers and whether or not media understanding is wired.        *)
NoSilentRoute ==
  \A batch \in AnyBatch : \A outcome \in Outcomes(batch) \union {"off"} :
    LET effect == Route(batch, outcome)
    IN effect.said = {} /\ effect.kind = "none" => batch[1].body = "payload"

OnlyText(u) == \A i \in DOMAIN log : OwnerOf(i) = u => log[i].msg.media = "none"
Waiting(u) == worker[u] \notin {NoWorker, Dead} /\ (pending[u] # <<>> \/ worker[u].batch # <<>>)
TextWaits(u) == Waiting(u) /\ OnlyText(u)

(* __init__: "no dialog's slow work (download, vision, transcription) can  *)
(* stall the updates of any other user": the queue of a user who sends     *)
(* only text drains even though another user's media call never returns.   *)
(* A worker that died telling a refusal holds its own user's queue until   *)
(* their next message, and is left out.                                    *)
TextNeverStalls == \A u \in Users : TextWaits(u) ~> ~TextWaits(u)

Fairness ==
  /\ WF_pollerVars(_poll_once)
  /\ \A u \in Users : /\ WF_pollerVars(_work(u)) /\ WF_pollerVars(_collect_album(u))
                      /\ WF_pollerVars(_handle(u)) /\ SF_pollerVars(AcquireSlot(u))

Spec == Init /\ [][Next]_pollerVars /\ Fairness
=============================================================================
