------------------------- MODULE ConversationRunner -------------------------
(***************************************************************************)
(* The conversation actor of one dialog (agent/runner.py) with the rows it *)
(* writes (dialogs/store.py, tasks/store.py).                              *)
(*                                                                         *)
(* Three coroutines write the dialog's state: the actor, which takes the   *)
(* inbox commands one at a time; the user's stop, which bypasses the       *)
(* inbox; the manager, which recovers the dialog while it builds the       *)
(* runner. Beside them every process has a pump. A coroutine gives way     *)
(* only at an await, so an action is what a coroutine does between two     *)
(* awaits that another coroutine can tell apart, and `frame' holds the     *)
(* locals a coroutine keeps across the await.                              *)
(*                                                                         *)
(* Ids are handed out in creation order. 0 is None everywhere.             *)
(***************************************************************************)
EXTENDS Naturals, Sequences, FiniteSets

CONSTANTS
    MaxProcesses,   \* OF_MAX_PROCESSES
    Kinds,          \* the message kinds the user sends, of {"OWN", "MATERIAL"}
    Budgeted,       \* whether the tariff may refuse a run
    CanAsk,         \* whether runs call ask_user
    Watched,        \* whether a transport is subscribed at the start
    MaxExchanges, MaxTasks, MaxMessages,                  \* bounds on rows
    MaxStops, MaxRuns, MaxCrashes, MaxFaults, MaxResends, \* bounds on events
    MaxDetaches

ASSUME BoundsAssumption ==
    /\ MaxProcesses \in Nat \ {0}
    /\ MaxExchanges \in Nat /\ MaxTasks \in Nat /\ MaxMessages \in Nat
    /\ MaxStops \in Nat /\ MaxRuns \in Nat /\ MaxCrashes \in Nat
    /\ MaxFaults \in Nat /\ MaxResends \in Nat /\ MaxDetaches \in Nat

ASSUME ChoicesAssumption ==
    /\ Kinds \subseteq {"OWN", "MATERIAL"}
    /\ Budgeted \in BOOLEAN /\ CanAsk \in BOOLEAN /\ Watched \in BOOLEAN

None == 0
Exchanges == 1..MaxExchanges
Tasks == 1..MaxTasks
Messages == 1..MaxMessages
Threads == {"actor", "user", "manager"}
Free == "free"
Events == {"stops", "runs", "crashes", "faults", "resends", "detaches"}

LiveStatuses == {"COLLECTING", "OPEN", "IN_PROGRESS", "AWAITING_USER"}
ClosedStatuses == {"ANSWERED", "CANCELLED", "FAILED"}

VARIABLES
    \* rows of the database
    status,       \* ExchangeRow.status; "absent" before the row exists
    quiet,        \* the collection was last touched a quiet window ago
    task,         \* TaskRow
    message,      \* MessageRow; kind "unsent" before the user sends it
    recorded,     \* messages whose row is stored
    \* memory of the runner
    narrative,    \* _narrative: its user messages
    process,      \* _processes; phase "none" when there is no such process
    inbox,        \* _inbox
    frame,        \* locals of the coroutines
    spawnLock,    \* _spawn_lock: its holder, or Free
    cancelEpoch,  \* _cancel_epoch
    outbox,       \* _pending_deliveries: tasks whose outcome waits there
    watching,     \* _subscribers is not empty
    reached,      \* history: tasks whose outcome entered a subscriber's queue
    \* history
    served,       \* messages the user had an outcome for
    used          \* how much of each event bound is used up

rows == <<status, quiet, task, message, recorded>>
delivery == <<outbox, watching, reached>>
vars == <<rows, narrative, process, inbox, frame, spawnLock, cancelEpoch,
          delivery, served, used>>

-----------------------------------------------------------------------------
(* Rows and commands *)

NoTask == [status |-> "absent", ex |-> None, delivered |-> FALSE, empty |-> FALSE]

NoProcess == [phase |-> "none", tripped |-> FALSE, epoch |-> None,
              ask |-> "none", seen |-> {},
              terminal |-> "none", heard |-> FALSE]

NoCommand == [type |-> "none", m |-> None, epoch |-> None, ex |-> None,
              t |-> None, outcome |-> "none", unseen |-> "NONE",
              terminal |-> "none", heard |-> FALSE]

_Submit(m) == [NoCommand EXCEPT !.type = "submit", !.m = m, !.epoch = cancelEpoch]
_Flush == [NoCommand EXCEPT !.type = "flush"]
Redelivery(t) == [NoCommand EXCEPT !.type = "terminated", !.t = t]
_PromoteCollected(e) == [NoCommand EXCEPT !.type = "promote", !.ex = e]

IdleFrame == [pc |-> "idle", cmd |-> NoCommand, live |-> {}, act |-> "NEW",
              ex |-> None, rest |-> {}, cancelled |-> {}, todo |-> {},
              t |-> None, then |-> "idle"]

-----------------------------------------------------------------------------
(* What the handlers ask of the state *)

Live(t) == process[t].phase # "none"
Processes == {t \in Tasks : Live(t)}

(* Mutant: a run told to stop no longer counts. *)
WorkingProcessFor(e) == {t \in Processes : task[t].ex = e /\ ~process[t].tripped}

_live_process_for(e) == {t \in Processes : task[t].ex = e}

_cancelled_tasks(cancelled) == {e \in cancelled : _live_process_for(e) # {}}

(* Mutant: every cancelled exchange is taken to free a slot. *)
ExceedsGenerousLimit(cancelled) ==
    Cardinality(Processes) + 1 > MaxProcesses + Cardinality(cancelled)

_exceeds_limit(cancelled) ==
    Cardinality(Processes) + 1 > MaxProcesses + Cardinality(_cancelled_tasks(cancelled))

list_live == {e \in Exchanges : status[e] \in LiveStatuses}

_has_live_task(e) == \E t \in Tasks : task[t].ex = e /\ task[t].status = "RUNNING"

(* Mutant: an exchange that ever had a task counts as owned. *)
NeverOwnedOpen == {e \in Exchanges : status[e] = "OPEN" /\ \A t \in Tasks : task[t].ex # e}

list_unowned_open == {e \in Exchanges : status[e] = "OPEN" /\ ~_has_live_task(e)}

list_orphaned == {t \in Tasks : task[t].status = "RUNNING"}

(* Mutant: failures are not delivered again. *)
UndeliveredDone == {t \in Tasks : task[t].status = "DONE" /\ ~task[t].delivered}

list_undelivered == {t \in Tasks : task[t].status \in {"DONE", "FAILED"} /\ ~task[t].delivered}

_newest_task_of(e, t) ==
    /\ task[t].ex = e
    /\ \A u \in Tasks : task[u].ex = e => u <= t

NextExchange(e) == \A x \in Exchanges : status[x] = "absent" <=> x >= e
NextTask(t) == \A x \in Tasks : task[x].status = "absent" <=> x >= t
NextMessage(m) == \A x \in Messages : message[x].kind = "unsent" <=> x >= m

MessagesOf(e) == {m \in narrative : message[m].ex = e}

(* Mutant: whatever arrived after the last sync is overlooked. *)
NothingUnseen(t) == "NONE"

(* Mutant: material that arrived after the last sync is overlooked. *)
UnseenWords(t) ==
    IF \E m \in narrative \ process[t].seen :
            message[m].kind = "OWN" /\ message[m].ex = task[t].ex
    THEN "SPOKEN" ELSE "NONE"

_unseen_kind(t) ==
    LET arrived == {m \in narrative \ process[t].seen :
                        task[t].ex # None /\ message[m].ex = task[t].ex}
    IN  IF arrived = {} THEN "NONE"
        ELSE IF \A m \in arrived : message[m].kind = "MATERIAL"
        THEN "MATERIAL_ONLY" ELSE "SPOKEN"

Outcome(t) == CASE process[t].phase = "unsaved"      -> "FAILED"
                [] process[t].terminal \in {"Finished", "Silent"} -> "ANSWERED"
                [] process[t].terminal = "Cancelled" -> "CANCELLED"
                [] OTHER                             -> "FAILED"

First(S) == CHOOSE x \in S : \A y \in S : x <= y

-----------------------------------------------------------------------------
(* Writes several handlers share *)

Goto(th, f) == frame' = [frame EXCEPT ![th] = f]
Done(th) == Goto(th, IdleFrame)

(* set_status: every write of the row also moves updated_at. *)
set_status(e, s) ==
    /\ status' = [status EXCEPT ![e] = s]
    /\ quiet' = [quiet EXCEPT ![e] = FALSE]

(* Queue outcomes T and flush: with a subscriber attached everything that  *)
(* waits is broadcast and stamped, with none it keeps waiting.             *)
_flush_deliveries(T, rowsNow) ==
    IF watching
    THEN /\ outbox' = {}
         /\ reached' = reached \cup outbox \cup T
         /\ task' = [t \in Tasks |-> [rowsNow[t] EXCEPT
                        !.delivered = @ \/ t \in outbox \cup T]]
    ELSE /\ outbox' = outbox \cup T
         /\ task' = rowsNow
         /\ UNCHANGED reached

-----------------------------------------------------------------------------
(* The user and the transports *)

Spend(what, bound) ==
    /\ used[what] < bound
    /\ used' = [used EXCEPT ![what] = @ + 1]

(* A user's call reaches the runner once get_or_create_runner has built and *)
(* recovered it; background work reaches it as soon as it is registered.    *)
(* What arrives before recovery has read its rows is left out.              *)
Built == frame["manager"].pc = "idle"
Adopted == frame["manager"].pc # "recover"

submit(m) ==
    /\ Built
    /\ NextMessage(m)
    /\ \E k \in Kinds :
          message' = [message EXCEPT ![m] = [kind |-> k, ex |-> None]]
    /\ inbox' = Append(inbox, _Submit(m))
    /\ UNCHANGED <<status, quiet, task, recorded, narrative, process, frame,
                   spawnLock, cancelEpoch, delivery, served, used>>

(* A transport delivers a message again under the same client_message_id. *)
Resend(m) ==
    /\ Built
    /\ message[m].kind # "unsent"
    /\ Spend("resends", MaxResends)
    /\ inbox' = Append(inbox, _Submit(m))
    /\ UNCHANGED <<rows, narrative, process, frame, spawnLock, cancelEpoch, delivery, served>>

(* cancel, its synchronous part: _handle_cancel. *)
_handle_cancel ==
    /\ Built /\ frame["user"].pc = "idle"
    /\ Spend("stops", MaxStops)
    /\ cancelEpoch' = cancelEpoch + 1
    /\ process' = [t \in Tasks |->
                      IF Live(t) /\ task[t].ex # None
                      THEN [process[t] EXCEPT !.tripped = TRUE] ELSE process[t]]
    /\ served' = served \cup {m \in Messages : message[m].kind # "unsent"}
    /\ Goto("user", [IdleFrame EXCEPT !.pc = "listing"])
    /\ UNCHANGED <<rows, narrative, inbox, spawnLock, delivery>>

(* cancel, the rest: _cancel_parked_exchanges lists, then writes one by one *)
(* from the statuses it listed and the processes it finds at that moment.   *)
ListParked ==
    /\ frame["user"].pc = "listing"
    /\ LET collecting == {e \in list_live : status[e] = "COLLECTING"}
           awaiting == {e \in list_live : status[e] = "AWAITING_USER"}
       IN  Goto("user", IF collecting \cup awaiting = {} THEN IdleFrame
                        ELSE [IdleFrame EXCEPT !.pc = "closing",
                                !.live = collecting, !.rest = collecting \cup awaiting])
    /\ UNCHANGED <<rows, narrative, process, inbox, spawnLock, cancelEpoch,
                   delivery, served, used>>

_cancel_parked_exchanges ==
    /\ frame["user"].pc = "closing"
    /\ LET f == frame["user"]
           e == First(f.rest)
       IN  /\ IF e \in f.live \/ _live_process_for(e) = {}
              THEN set_status(e, "CANCELLED") ELSE UNCHANGED <<status, quiet>>
           /\ Goto("user", IF f.rest = {e} THEN IdleFrame ELSE [f EXCEPT !.rest = @ \ {e}])
    /\ UNCHANGED <<task, message, recorded, narrative, process, inbox, spawnLock,
                   cancelEpoch, delivery, served, used>>

(* Mutant: a new subscriber does not flush the outbox. *)
SubscribeOnly ==
    /\ Built /\ ~watching
    /\ watching' = TRUE
    /\ UNCHANGED <<rows, narrative, process, inbox, frame, spawnLock, cancelEpoch, outbox,
                   reached, served, used>>

subscribe ==
    /\ Built /\ ~watching
    /\ watching' = TRUE
    /\ inbox' = Append(inbox, _Flush)
    /\ UNCHANGED <<rows, narrative, process, frame, spawnLock, cancelEpoch, outbox,
                   reached, served, used>>

unsubscribe ==
    /\ watching
    /\ Spend("detaches", MaxDetaches)
    /\ watching' = FALSE
    /\ UNCHANGED <<rows, narrative, process, inbox, frame, spawnLock, cancelEpoch, outbox,
                   reached, served>>

(* spawn_task and wake: a RUN task and its process, or a refusal. The slots *)
(* only free up while the lock is held, so the count may be taken with the  *)
(* insert.                                                                  *)
spawn_task ==
    /\ Adopted /\ spawnLock = Free
    /\ Cardinality(Processes) < MaxProcesses
    /\ Spend("runs", MaxRuns)
    /\ \E t \in Tasks :
          /\ NextTask(t)
          /\ task' = [task EXCEPT ![t] = [NoTask EXCEPT !.status = "RUNNING"]]
          /\ process' = [process EXCEPT ![t] = [NoProcess EXCEPT !.phase = "new"]]
    /\ UNCHANGED <<status, quiet, message, recorded, narrative, inbox, frame,
                   spawnLock, cancelEpoch, delivery, served>>

(* delete_task: the tool of one process stops another. *)
delete_task(t) ==
    /\ Live(t) /\ ~process[t].tripped
    /\ \E u \in Processes : u # t /\ process[u].phase = "running"
    /\ Spend("stops", MaxStops)
    /\ process' = [process EXCEPT ![t].tripped = TRUE]
    /\ served' = served \cup {m \in Messages : message[m].ex # None /\ message[m].ex = task[t].ex}
    /\ UNCHANGED <<rows, narrative, inbox, frame, spawnLock, cancelEpoch, delivery>>

-----------------------------------------------------------------------------
(* A process: its loop, finalization and termination *)

(* The iteration boundary: _sync_branch takes in the narrative, then the   *)
(* loop reads its cancellation flag.                                       *)
Iterate(t) ==
    /\ process[t].phase \in {"new", "running"} /\ process[t].ask # "asking"
    /\ process' = [process EXCEPT
          ![t].seen = IF task[t].ex = None THEN {} ELSE narrative,
          ![t].phase = IF process[t].tripped THEN "ended" ELSE "running",
          ![t].terminal = IF process[t].tripped THEN "Cancelled" ELSE "none"]
    /\ UNCHANGED <<rows, narrative, inbox, frame, spawnLock, cancelEpoch, delivery, served, used>>

(* The loop yields a terminal. A cancel that lands after the last stream    *)
(* event is too late, so a tripped run may still finish. After ask_user the *)
(* final is muted to an empty one.                                          *)
Finish(t, terminal) ==
    /\ process[t].phase = "running" \/ (process[t].phase = "new" /\ terminal = "Failed")
    /\ process[t].ask = "asking" => process[t].tripped
    /\ terminal = "Cancelled" => process[t].tripped
    /\ terminal = "Finished" => process[t].ask = "none"
    /\ process' = [process EXCEPT
          ![t].phase = "ended", ![t].terminal = terminal,
          ![t].ask = IF @ = "asking" THEN "lost" ELSE @,
          ![t].heard = watching /\ task[t].ex # None /\ terminal # "Cancelled"]
    /\ reached' = IF watching /\ task[t].ex # None THEN reached \cup {t} ELSE reached
    /\ UNCHANGED <<rows, narrative, inbox, frame, spawnLock, cancelEpoch, outbox,
                   watching, served, used>>

(* ask_user marks the run as having asked, delivers the question, and then  *)
(* parks the exchange whatever its status has become. The tool may also     *)
(* fail in between (a store error, the tool timeout): the mark stays.       *)
AskUser(t) ==
    /\ CanAsk
    /\ process[t].phase = "running" /\ process[t].ask = "none" /\ task[t].ex # None
    /\ process' = [process EXCEPT ![t].ask = "asking"]
    /\ UNCHANGED <<rows, narrative, inbox, frame, spawnLock, cancelEpoch, delivery, served, used>>

ask_user(t) ==
    /\ process[t].ask = "asking"
    /\ set_status(task[t].ex, "AWAITING_USER")
    /\ process' = [process EXCEPT ![t].ask = "out"]
    /\ UNCHANGED <<task, message, recorded, narrative, inbox, frame, spawnLock,
                   cancelEpoch, delivery, served, used>>

AskFails(t) ==
    /\ process[t].ask = "asking"
    /\ Spend("faults", MaxFaults)
    /\ process' = [process EXCEPT ![t].ask = "lost"]
    /\ UNCHANGED <<rows, narrative, inbox, frame, spawnLock, cancelEpoch, delivery, served>>

(* Mutant: an answer run is taken to have streamed to someone. *)
StreamedAnyway(t) == process[t].terminal = "Silent" \/ task[t].ex # None

_delivery_is_certain(t) == process[t].terminal = "Silent" \/ process[t].heard

(* The usage record and the report to the listener that follow the commit   *)
(* of the row catch their own errors (LimitService.record, _report_outcome).*)
_finalize(t) ==
    /\ process[t].phase = "ended"
    /\ task' = [task EXCEPT
          ![t].status = CASE process[t].terminal \in {"Finished", "Silent"} -> "DONE"
                          [] process[t].terminal = "Failed" -> "FAILED"
                          [] OTHER -> "CANCELLED",
          ![t].delivered = @ \/ (process[t].terminal # "Cancelled" /\ _delivery_is_certain(t)),
          ![t].empty = process[t].terminal = "Silent"]
    /\ process' = [process EXCEPT ![t].phase = "finalized"]
    /\ UNCHANGED <<status, quiet, message, recorded, narrative, inbox, frame,
                   spawnLock, cancelEpoch, delivery, served, used>>

(* The store fails under _finalize: the row keeps saying RUNNING. *)
FinalizeFails(t) ==
    /\ process[t].phase = "ended"
    /\ Spend("faults", MaxFaults)
    /\ process' = [process EXCEPT ![t].phase = "unsaved"]
    /\ UNCHANGED <<rows, narrative, inbox, frame, spawnLock, cancelEpoch, delivery, served>>

(* Mutant: a cancellation is passed on as a terminal to deliver. *)
TerminatedWithCancel(t) ==
    [type |-> "terminated", m |-> None, epoch |-> None, ex |-> task[t].ex, t |-> t,
     outcome |-> Outcome(t), unseen |-> _unseen_kind(t),
     terminal |-> process[t].terminal, heard |-> process[t].heard]

_ProcessTerminated(t) ==
    [type |-> "terminated", m |-> None, epoch |-> None, ex |-> task[t].ex, t |-> t,
     outcome |-> Outcome(t), unseen |-> _unseen_kind(t),
     terminal |-> IF process[t].terminal = "Cancelled" THEN "none" ELSE process[t].terminal,
     heard |-> process[t].heard]

_terminate_process(t) ==
    /\ process[t].phase \in {"finalized", "unsaved"}
    /\ inbox' = Append(inbox, _ProcessTerminated(t))
    /\ process' = [process EXCEPT ![t] = NoProcess]
    /\ served' = IF process[t].terminal = "Cancelled" THEN served
                 ELSE served \cup {m \in process[t].seen : message[m].ex = task[t].ex}
    /\ UNCHANGED <<rows, narrative, frame, spawnLock, cancelEpoch, delivery, used>>

-----------------------------------------------------------------------------
(* The actor takes a submit *)

Taken(type) ==
    /\ frame["actor"].pc = "idle"
    /\ inbox # <<>> /\ Head(inbox).type = type
    /\ inbox' = Tail(inbox)

(* Mutant: the key is not looked up. *)
NeverDuplicate(m) == FALSE

_is_duplicate(m) == m \in recorded

(* A repeat of a stored key is skipped. *)
SkipDuplicate ==
    /\ Taken("submit")
    /\ _is_duplicate(Head(inbox).m)
    /\ UNCHANGED <<rows, narrative, process, frame, spawnLock, cancelEpoch, delivery, served, used>>

(* The insert fails: the user is told, nothing else happens. *)
PersistFails ==
    /\ Taken("submit")
    /\ Spend("faults", MaxFaults)
    /\ served' = served \cup {Head(inbox).m}
    /\ UNCHANGED <<rows, narrative, process, frame, spawnLock, cancelEpoch, delivery>>

_sole_fresh_collection(live) ==
    {e \in live : live = {e} /\ status[e] = "COLLECTING" /\ ~quiet[e]}

(* Store the message; material goes to its collection, the user's own words *)
(* to the router. Two of _route's shortcuts need no router; the third, an   *)
(* explicit reply, is one of the decisions the router may take anyway.      *)
_handle_submit ==
    /\ Taken("submit")
    /\ LET c == Head(inbox)
           f == [IdleFrame EXCEPT !.cmd = c, !.live = list_live]
           sole == _sole_fresh_collection(list_live)
       IN  /\ ~_is_duplicate(c.m)
           /\ recorded' = recorded \cup {c.m}
           /\ Goto("actor",
                 CASE message[c.m].kind = "MATERIAL" -> [f EXCEPT !.pc = "collect"]
                   [] list_live = {} -> [f EXCEPT !.pc = "apply"]
                   [] sole # {} -> [f EXCEPT !.pc = "apply", !.act = "CONTINUE",
                                             !.ex = First(sole)]
                   [] OTHER -> [f EXCEPT !.pc = "routing"])
    /\ UNCHANGED <<status, quiet, task, message, narrative, process, spawnLock,
                   cancelEpoch, delivery, served, used>>

(* MessageRouter.route: any decision over the exchanges it was shown. *)
_route ==
    LET f == frame["actor"]
    IN  /\ f.pc = "routing"
        /\ \E cancels \in SUBSET f.live :
              \/ \E e \in f.live :
                    Goto("actor", [f EXCEPT !.pc = "apply", !.act = "CONTINUE",
                                            !.ex = e, !.rest = cancels])
              \/ \E act \in {"NEW", "COMMAND"} :
                    Goto("actor", [f EXCEPT !.pc = "apply", !.act = act, !.rest = cancels])
        /\ UNCHANGED <<rows, narrative, process, inbox, spawnLock, cancelEpoch,
                       delivery, served, used>>

(* _material_home: a question being answered, else the collection (the      *)
(* oldest one there is), else a fresh one. Which of several answering       *)
(* exchanges was written last is left open.                                 *)
_material_home(e) ==
    LET answering == {x \in list_live : _live_process_for(x) # {}}
        collecting == {x \in list_live : status[x] = "COLLECTING"}
    IN  IF answering # {} THEN e \in answering
        ELSE IF collecting # {} THEN e = First(collecting)
        ELSE NextExchange(e)

_collect_material ==
    LET f == frame["actor"]
    IN  /\ f.pc = "collect"
        /\ \E e \in Exchanges :
              /\ _material_home(e)
              /\ status' = [status EXCEPT ![e] = IF @ = "absent" THEN "COLLECTING" ELSE @]
              /\ quiet' = [quiet EXCEPT ![e] = FALSE]
              /\ message' = [message EXCEPT ![f.cmd.m].ex = e]
              /\ Goto("actor", [f EXCEPT !.pc = "attach", !.ex = e])
        /\ narrative' = narrative \cup {f.cmd.m}
        /\ UNCHANGED <<task, recorded, process, inbox, spawnLock, cancelEpoch,
                       delivery, served, used>>

(* _apply_route, first the cancellations, one write at a time. *)
_cancel_exchanges ==
    LET f == frame["actor"]
        e == First(f.rest)
    IN  /\ f.pc = "apply" /\ f.rest # {}
        /\ process' = IF _live_process_for(e) = {} THEN process
                      ELSE [process EXCEPT ![First(_live_process_for(e))].tripped = TRUE]
        /\ set_status(e, "CANCELLED")
        /\ served' = served \cup {m \in Messages : message[m].ex = e}
                            \cup (IF f.ex = e THEN {f.cmd.m} ELSE {})
        /\ Goto("actor", [f EXCEPT !.rest = @ \ {e}, !.cancelled = @ \cup {e}])
        /\ UNCHANGED <<task, message, recorded, narrative, inbox, spawnLock,
                       cancelEpoch, delivery, used>>

(* _apply_route, then the message joins its exchange and the narrative. *)
_apply_route ==
    LET f == frame["actor"]
        joined(e) ==
            /\ message' = [message EXCEPT ![f.cmd.m].ex = e]
            /\ Goto("actor", [f EXCEPT !.pc = "attach", !.ex = e])
    IN  /\ f.pc = "apply" /\ f.rest = {}
        /\ narrative' = narrative \cup {f.cmd.m}
        /\ \/ /\ f.act = "CONTINUE" /\ joined(f.ex)
              /\ UNCHANGED <<status, quiet, served>>
           \/ /\ f.act = "NEW" /\ ~_exceeds_limit(f.cancelled)
              /\ \E e \in Exchanges : NextExchange(e) /\ set_status(e, "OPEN") /\ joined(e)
              /\ UNCHANGED served
           \/ /\ f.act = "COMMAND" \/ (f.act = "NEW" /\ _exceeds_limit(f.cancelled))
              /\ served' = served \cup {f.cmd.m}
              /\ Done("actor")
              /\ UNCHANGED <<status, quiet, message>>
        /\ UNCHANGED <<task, recorded, process, inbox, spawnLock, cancelEpoch,
                       delivery, used>>

(* The message's row is linked to the exchange in a write of its own; until *)
(* then only the narrative's copy knows. Material is done once it is linked *)
(* and its exchange touched.                                                *)
set_exchange ==
    LET f == frame["actor"]
    IN  /\ f.pc = "attach"
        /\ Goto("actor", IF message[f.cmd.m].kind = "MATERIAL" THEN IdleFrame
                         ELSE [f EXCEPT !.pc = "own"])
        /\ UNCHANGED <<rows, narrative, process, inbox, spawnLock, cancelEpoch,
                       delivery, served, used>>

-----------------------------------------------------------------------------
(* Giving an exchange a run *)

(* _start_answer up to its commit: the task and the IN_PROGRESS flip are one *)
(* transaction, written under the spawn lock.                                *)
_start_answer(th, e, f) ==
    /\ \E t \in Tasks :
          /\ NextTask(t)
          /\ task' = [task EXCEPT ![t] = [NoTask EXCEPT !.status = "RUNNING", !.ex = e]]
          /\ Goto(th, [f EXCEPT !.pc = "assemble", !.t = t])
    /\ set_status(e, "IN_PROGRESS")
    /\ spawnLock' = th

(* Mutant: the stop that came during routing is off by one. *)
LongBeforeStop(epoch) == epoch # None /\ epoch + 1 < cancelEpoch

PredatesStop(epoch) == epoch # None /\ epoch < cancelEpoch

(* _start_answer after the assemble: the process exists from here on. A     *)
(* submit older than the last stop gives it a tripped control.              *)
_create_process(th) ==
    LET f == frame[th]
    IN  /\ f.pc = "assemble"
        /\ process' = [process EXCEPT ![f.t] = [NoProcess EXCEPT
              !.phase = "new", !.seen = narrative, !.epoch = f.cmd.epoch,
              !.tripped = PredatesStop(f.cmd.epoch)]]
        /\ spawnLock' = Free
        /\ Goto(th, IF f.cmd.type = "submit" THEN IdleFrame
                    ELSE [f EXCEPT !.pc = "resume", !.t = None])
        /\ UNCHANGED <<rows, narrative, inbox, cancelEpoch, delivery, served, used>>

(* _ensure_owner, under the spawn lock. *)
_ensure_owner ==
    LET f == frame["actor"]
        over == _exceeds_limit(f.cancelled)
        owned == _live_process_for(f.ex) # {}
    IN  /\ f.pc = "own" /\ spawnLock = Free
        /\ \/ /\ owned \/ over \/ Budgeted
              /\ served' = IF ~owned /\ over THEN served \cup {f.cmd.m} ELSE served
              /\ Done("actor")
              /\ UNCHANGED <<status, quiet, task, spawnLock>>
           \/ /\ ~owned /\ ~over
              /\ _start_answer("actor", f.ex, f)
              /\ UNCHANGED served
        /\ UNCHANGED <<message, recorded, narrative, process, inbox, cancelEpoch,
                       delivery, used>>

(* _resume_open_exchange for the first of the exchanges to revive. *)
_resume_open_exchange(th) ==
    LET f == frame[th]
        e == First(f.todo)
        g == [f EXCEPT !.todo = @ \ {e}]
        startable == /\ status[e] = "OPEN" /\ _live_process_for(e) = {}
                     /\ ~_exceeds_limit({}) /\ MessagesOf(e) # {}
    IN  /\ f.pc = "resume" /\ f.todo # {} /\ spawnLock = Free
        /\ \/ /\ ~startable \/ Budgeted
              /\ Goto(th, g)
              /\ UNCHANGED <<status, quiet, task, spawnLock>>
           \/ /\ startable
              /\ _start_answer(th, e, g)
        /\ UNCHANGED <<message, recorded, narrative, process, inbox, cancelEpoch,
                       delivery, served, used>>

(* The handler goes on after the exchanges it had to revive. *)
Resumed(th) ==
    LET f == frame[th]
    IN  /\ f.pc = "resume" /\ f.todo = {}
        /\ Goto(th, IF f.then = "idle" THEN IdleFrame ELSE [f EXCEPT !.pc = f.then])
        /\ UNCHANGED <<rows, narrative, process, inbox, spawnLock, cancelEpoch,
                       delivery, served, used>>

-----------------------------------------------------------------------------
(* The actor takes a termination *)

(* Mutant: the owner is taken to be a task that still runs. *)
SettleByRunning(c, keepIfAwaiting) ==
    /\ task[c.t].ex = c.ex /\ task[c.t].status = "RUNNING"
    /\ status[c.ex] \in LiveStatuses
    /\ keepIfAwaiting => status[c.ex] # "AWAITING_USER"

(* Mutant: any run of the exchange may settle it. *)
SettleByAnyRun(c, keepIfAwaiting) ==
    /\ status[c.ex] \in LiveStatuses
    /\ keepIfAwaiting => status[c.ex] # "AWAITING_USER"

(* settle_owned: one guarded UPDATE. *)
SettleApplies(c, keepIfAwaiting) ==
    /\ _newest_task_of(c.ex, c.t)
    /\ status[c.ex] \in LiveStatuses
    /\ keepIfAwaiting => status[c.ex] # "AWAITING_USER"

settle_owned(c, s, keepIfAwaiting) ==
    IF SettleApplies(c, keepIfAwaiting)
    THEN set_status(c.ex, s) ELSE UNCHANGED <<status, quiet>>

_settle_exchange ==
    /\ Taken("terminated")
    /\ LET c == Head(inbox)
           f == [IdleFrame EXCEPT !.cmd = c, !.pc = "deliver"]
           cancelled == c.outcome = "CANCELLED"
           target == CASE ~cancelled /\ c.unseen = "SPOKEN" -> "OPEN"
                       [] ~cancelled /\ c.unseen = "MATERIAL_ONLY" -> "COLLECTING"
                       [] OTHER -> c.outcome
           keep == ~cancelled /\ c.unseen = "NONE"
       IN  IF c.outcome = "none" \/ c.ex = None
           THEN Goto("actor", f) /\ UNCHANGED <<status, quiet>>
           ELSE /\ settle_owned(c, target, keep)
                /\ Goto("actor", IF target = "OPEN" /\ SettleApplies(c, keep)
                                 THEN [f EXCEPT !.pc = "resume", !.todo = {c.ex},
                                                !.then = "deliver"]
                                 ELSE f)
    /\ UNCHANGED <<task, message, recorded, narrative, process, spawnLock,
                   cancelEpoch, delivery, served, used>>

_silent_done(t) == task[t].status = "DONE" /\ task[t].empty

(* Whether the end of a run is stamped as delivered at once: there is       *)
(* nothing to show, or its stream was heard.                                *)
StampedAtOnce(c) ==
    \/ _silent_done(c.t)
    \/ /\ c.terminal # "none" /\ c.ex # None /\ c.heard
       /\ task[c.t].status \in {"DONE", "FAILED"}

(* Whether it has to be queued for delivery. *)
ToQueue(c) ==
    /\ ~_silent_done(c.t)
    /\ IF c.terminal = "none"
       THEN task[c.t].status \in {"DONE", "FAILED"} /\ ~task[c.t].delivered
       ELSE ~(c.ex # None /\ c.heard)

(* _handle_terminated after the settle: stamp or queue the outcome, flush,  *)
(* and list what the freed slot may revive.                                 *)
_handle_terminated ==
    LET f == frame["actor"]
        c == f.cmd
    IN  /\ f.pc = "deliver"
        /\ _flush_deliveries(IF ToQueue(c) THEN {c.t} ELSE {},
                             IF StampedAtOnce(c) THEN [task EXCEPT ![c.t].delivered = TRUE]
                             ELSE task)
        /\ Goto("actor", [f EXCEPT !.pc = "resume", !.todo = list_unowned_open,
                                   !.then = "idle"])
        /\ UNCHANGED <<status, quiet, message, recorded, narrative, process, inbox,
                       spawnLock, cancelEpoch, watching, served, used>>

HandleFlush ==
    /\ Taken("flush")
    /\ _flush_deliveries({}, task)
    /\ UNCHANGED <<status, quiet, message, recorded, narrative, process, frame,
                   spawnLock, cancelEpoch, watching, served, used>>

-----------------------------------------------------------------------------
(* The collecting sweep and the promotion of a settled collection *)

QuietElapses(e) ==
    /\ status[e] = "COLLECTING" /\ ~quiet[e]
    /\ quiet' = [quiet EXCEPT ![e] = TRUE]
    /\ UNCHANGED <<status, task, message, recorded, narrative, process, inbox, frame,
                   spawnLock, cancelEpoch, delivery, served, used>>

(* CollectingSweeper.tick: one nomination of a collection waits at a time. *)
promote_collected(e) ==
    /\ status[e] = "COLLECTING" /\ quiet[e]
    /\ Adopted
    /\ \A i \in 1..Len(inbox) : inbox[i] # _PromoteCollected(e)
    /\ inbox' = Append(inbox, _PromoteCollected(e))
    /\ UNCHANGED <<rows, narrative, process, frame, spawnLock, cancelEpoch, delivery, served, used>>

Revive(e, f) == Goto("actor", [f EXCEPT !.pc = "resume", !.todo = {e}, !.then = "idle"])

(* _handle_promote up to the router, which is asked only when there is      *)
(* something the batch could belong to.                                     *)
_handle_promote ==
    /\ Taken("promote")
    /\ LET c == Head(inbox)
           others == {e \in list_live \ {c.ex} : status[e] # "COLLECTING"}
           f == [IdleFrame EXCEPT !.cmd = c, !.live = others]
       IN  IF status[c.ex] # "COLLECTING" \/ ~quiet[c.ex]
           THEN UNCHANGED <<status, quiet, frame>>
           ELSE IF others = {}
           THEN set_status(c.ex, "OPEN") /\ Revive(c.ex, f)
           ELSE Goto("actor", [f EXCEPT !.pc = "material"]) /\ UNCHANGED <<status, quiet>>
    /\ UNCHANGED <<task, message, recorded, narrative, process, spawnLock, cancelEpoch,
                   delivery, served, used>>

(* The router names no target: the collection becomes an obligation itself. *)
PromoteAlone ==
    LET f == frame["actor"]
    IN  /\ f.pc = "material"
        /\ set_status(f.cmd.ex, "OPEN")
        /\ Revive(f.cmd.ex, f)
        /\ UNCHANGED <<task, message, recorded, narrative, process, inbox, spawnLock,
                       cancelEpoch, delivery, served, used>>

(* The router names a target: the batch moves there, the shell is dropped. *)
_reparent_material ==
    LET f == frame["actor"]
        c == f.cmd.ex
    IN  /\ f.pc = "material"
        /\ \E target \in f.live :
              /\ message' = [m \in Messages |-> IF m \in MessagesOf(c)
                                THEN [message[m] EXCEPT !.ex = target] ELSE message[m]]
              /\ set_status(c, "CANCELLED")
              /\ Goto("actor", [f EXCEPT !.pc = "revive", !.ex = target])
        /\ UNCHANGED <<task, recorded, narrative, process, inbox, spawnLock,
                       cancelEpoch, delivery, served, used>>

ReviveTarget ==
    LET f == frame["actor"]
    IN  /\ f.pc = "revive"
        /\ IF _live_process_for(f.ex) # {}
           THEN Done("actor") /\ UNCHANGED <<status, quiet>>
           ELSE set_status(f.ex, "OPEN") /\ Revive(f.ex, f)
        /\ UNCHANGED <<task, message, recorded, narrative, process, inbox, spawnLock,
                       cancelEpoch, delivery, served, used>>

-----------------------------------------------------------------------------
(* Failures, and the recovery of a dialog by the next runner *)

(* The settle's write fails: the termination is gone with it. *)
SettleFails ==
    /\ Taken("terminated")
    /\ Spend("faults", MaxFaults)
    /\ UNCHANGED <<rows, narrative, process, frame, spawnLock, cancelEpoch, delivery, served>>

(* A store error escapes the handler: the actor goes on with the next       *)
(* command, and a submit is answered with Failed.                           *)
CommandFails ==
    LET f == frame["actor"]
    IN  /\ f.pc # "idle"
        /\ Spend("faults", MaxFaults)
        /\ Done("actor")
        /\ spawnLock' = IF spawnLock = "actor" THEN Free ELSE spawnLock
        /\ served' = IF f.cmd.type = "submit" THEN served \cup {f.cmd.m} ELSE served
        /\ UNCHANGED <<rows, narrative, process, inbox, cancelEpoch, delivery>>

(* The runner's process dies, or is stopped: only the rows remain, a link   *)
(* not yet written is gone, and the next runner loads its narrative from    *)
(* the rows.                                                                *)
Crash ==
    /\ Spend("crashes", MaxCrashes)
    /\ narrative' = recorded
    /\ process' = [t \in Tasks |-> NoProcess]
    /\ inbox' = <<>>
    /\ frame' = [[th \in Threads |-> IdleFrame] EXCEPT !["manager"].pc = "recover"]
    /\ spawnLock' = Free
    /\ outbox' = {}
    /\ watching' = FALSE
    /\ message' = IF frame["actor"].pc = "attach"
                  THEN [message EXCEPT ![frame["actor"].cmd.m].ex = None] ELSE message
    /\ UNCHANGED <<status, quiet, task, recorded, cancelEpoch, reached, served>>

(* _recover_dialog reads: the orphans, the undelivered outcomes, and        *)
(* whether anything is stranded once IN_PROGRESS has been reset.            *)
_recover_dialog ==
    /\ frame["manager"].pc = "recover"
    /\ status' = [e \in Exchanges |-> IF status[e] = "IN_PROGRESS" THEN "OPEN" ELSE status[e]]
    /\ quiet' = [e \in Exchanges |-> quiet[e] /\ status[e] # "IN_PROGRESS"]
    /\ LET stranded == {e \in Exchanges : status'[e] = "OPEN" /\ ~_has_live_task(e)}
       IN  Goto("manager", [IdleFrame EXCEPT !.pc = "restart",
              !.rest = list_orphaned, !.live = list_undelivered,
              !.act = IF stranded = {} THEN "SKIP" ELSE "SWEEP"])
    /\ UNCHANGED <<task, message, recorded, narrative, process, inbox, spawnLock,
                   cancelEpoch, delivery, served, used>>

(* restart_task refuses: the row is failed and the failure queued. For a    *)
(* budget refusal the exchange goes back to OPEN.                           *)
RefuseRestart ==
    LET f == frame["manager"]
        t == First(f.rest)
        over == Cardinality(Processes) >= MaxProcesses
        parked == task[t].ex # None /\ status[task[t].ex] = "AWAITING_USER"
    IN  /\ f.pc = "restart" /\ f.rest # {} /\ spawnLock = Free
        /\ over \/ (Budgeted /\ ~parked)
        /\ _flush_deliveries({t}, [task EXCEPT ![t].status = "FAILED"])
        /\ IF over \/ task[t].ex = None
           THEN UNCHANGED <<status, quiet>> ELSE set_status(task[t].ex, "OPEN")
        /\ Goto("manager", [f EXCEPT !.rest = @ \ {t}])
        /\ UNCHANGED <<message, recorded, narrative, process, inbox, spawnLock,
                       cancelEpoch, watching, served, used>>

(* restart_task of a RUN task, of an answer that already asked the user, or *)
(* the first half of that of an answer still owed.                          *)
restart_task ==
    LET f == frame["manager"]
        t == First(f.rest)
        e == task[t].ex
        g == [f EXCEPT !.rest = @ \ {t}]
    IN  /\ f.pc = "restart" /\ f.rest # {} /\ spawnLock = Free
        /\ Cardinality(Processes) < MaxProcesses
        /\ \/ /\ e = None
              /\ process' = [process EXCEPT ![t] = [NoProcess EXCEPT !.phase = "new"]]
              /\ Goto("manager", g)
              /\ UNCHANGED <<task, spawnLock>>
           \/ /\ e # None /\ status[e] = "AWAITING_USER"
              /\ task' = [task EXCEPT ![t].status = "DONE", ![t].empty = TRUE]
              /\ Goto("manager", g)
              /\ UNCHANGED <<process, spawnLock>>
           \/ /\ e # None /\ status[e] # "AWAITING_USER"
              /\ spawnLock' = "manager"
              /\ Goto("manager", [g EXCEPT !.pc = "reattach", !.t = t])
              /\ UNCHANGED <<task, process>>
        /\ UNCHANGED <<status, quiet, message, recorded, narrative, inbox,
                       cancelEpoch, delivery, served, used>>

(* _start_orphaned: the process first, its exchange's IN_PROGRESS after. *)
_start_orphaned ==
    LET f == frame["manager"]
    IN  /\ f.pc = "reattach"
        /\ process' = [process EXCEPT ![f.t] = [NoProcess EXCEPT
                          !.phase = "new", !.seen = narrative]]
        /\ Goto("manager", [f EXCEPT !.pc = "reown"])
        /\ UNCHANGED <<rows, narrative, inbox, spawnLock, cancelEpoch, delivery, served, used>>

Reown ==
    LET f == frame["manager"]
    IN  /\ f.pc = "reown"
        /\ set_status(task[f.t].ex, "IN_PROGRESS")
        /\ spawnLock' = Free
        /\ Goto("manager", [f EXCEPT !.pc = "restart", !.t = None])
        /\ UNCHANGED <<task, message, recorded, narrative, process, inbox,
                       cancelEpoch, delivery, served, used>>

(* resume_stranded: only when something was stranded before the restarts. *)
resume_stranded ==
    LET f == frame["manager"]
    IN  /\ f.pc = "restart" /\ f.rest = {}
        /\ Goto("manager", [f EXCEPT !.pc = "resume", !.then = "redeliver",
                                     !.todo = IF f.act = "SWEEP" THEN list_unowned_open ELSE {}])
        /\ UNCHANGED <<rows, narrative, process, inbox, spawnLock, cancelEpoch,
                       delivery, served, used>>

request_result_delivery ==
    LET f == frame["manager"]
        t == First(f.live)
    IN  /\ f.pc = "redeliver"
        /\ IF f.live = {}
           THEN Done("manager") /\ UNCHANGED inbox
           ELSE /\ inbox' = Append(inbox, Redelivery(t))
                /\ Goto("manager", [f EXCEPT !.live = @ \ {t}])
        /\ UNCHANGED <<rows, narrative, process, spawnLock, cancelEpoch, delivery, served, used>>

-----------------------------------------------------------------------------
(* Specification *)

Init ==
    /\ status = [e \in Exchanges |-> "absent"]
    /\ quiet = [e \in Exchanges |-> FALSE]
    /\ task = [t \in Tasks |-> NoTask]
    /\ message = [m \in Messages |-> [kind |-> "unsent", ex |-> None]]
    /\ recorded = {}
    /\ narrative = {}
    /\ process = [t \in Tasks |-> NoProcess]
    /\ inbox = <<>>
    /\ frame = [th \in Threads |-> IdleFrame]
    /\ spawnLock = Free
    /\ cancelEpoch = 1
    /\ outbox = {}
    /\ watching = Watched
    /\ reached = {}
    /\ served = {}
    /\ used = [what \in Events |-> 0]

UserNext ==
    \/ \E m \in Messages : submit(m) \/ Resend(m)
    \/ _handle_cancel
    \/ subscribe \/ unsubscribe
    \/ spawn_task
    \/ \E t \in Tasks : delete_task(t)

StopStep == ListParked \/ _cancel_parked_exchanges

Terminals == {"Finished", "Silent", "Failed", "Cancelled"}

PumpStep(t) ==
    \/ Iterate(t)
    \/ \E terminal \in Terminals : Finish(t, terminal)
    \/ AskUser(t) \/ ask_user(t)
    \/ _finalize(t)
    \/ _terminate_process(t)

ActorStep ==
    \/ SkipDuplicate \/ _handle_submit \/ _route \/ _collect_material
    \/ _cancel_exchanges \/ _apply_route \/ set_exchange \/ _ensure_owner
    \/ _create_process("actor") \/ _resume_open_exchange("actor") \/ Resumed("actor")
    \/ _settle_exchange \/ _handle_terminated \/ HandleFlush
    \/ _handle_promote \/ PromoteAlone \/ _reparent_material \/ ReviveTarget

ManagerStep ==
    \/ _recover_dialog \/ RefuseRestart \/ restart_task \/ _start_orphaned \/ Reown
    \/ resume_stranded
    \/ _create_process("manager") \/ _resume_open_exchange("manager") \/ Resumed("manager")
    \/ request_result_delivery

SweeperStep == \E e \in Exchanges : QuietElapses(e) \/ promote_collected(e)

FaultNext ==
    \/ PersistFails \/ SettleFails \/ CommandFails \/ Crash
    \/ \E t \in Tasks : FinalizeFails(t) \/ AskFails(t)

Next ==
    \/ UserNext \/ StopStep
    \/ \E t \in Tasks : PumpStep(t)
    \/ ActorStep \/ ManagerStep \/ SweeperStep \/ FaultNext

Spec == Init /\ [][Next]_vars

(* Every coroutine that can go on does go on; the user owes nothing. A run   *)
(* ends (the loop's iteration and stream limits), and time passes.           *)
FairSpec ==
    /\ Spec
    /\ WF_vars(ActorStep) /\ WF_vars(ManagerStep) /\ WF_vars(StopStep)
    /\ WF_vars(SweeperStep)
    /\ \A t \in Tasks : WF_vars(PumpStep(t))

-----------------------------------------------------------------------------
(* What the conversation actor promises. *)

Statuses == LiveStatuses \cup ClosedStatuses \cup {"absent"}

TaskType ==
    [status : {"absent", "RUNNING", "DONE", "FAILED", "CANCELLED"},
     ex : Exchanges \cup {None}, delivered : BOOLEAN, empty : BOOLEAN]

MessageType ==
    [kind : {"unsent", "OWN", "MATERIAL"}, ex : Exchanges \cup {None}]

ProcessType ==
    [phase : {"none", "new", "running", "ended", "finalized", "unsaved"},
     tripped : BOOLEAN, epoch : Nat, ask : {"none", "asking", "out", "lost"},
     seen : SUBSET Messages, terminal : Terminals \cup {"none"}, heard : BOOLEAN]

CommandShape ==
    [type : {"none", "submit", "flush", "promote", "terminated"},
     m : Messages \cup {None}, epoch : Nat, ex : Exchanges \cup {None},
     t : Tasks \cup {None}, outcome : ClosedStatuses \cup {"none"},
     unseen : {"NONE", "MATERIAL_ONLY", "SPOKEN"},
     terminal : {"none", "Finished", "Silent", "Failed"}, heard : BOOLEAN]

(* A command names the row it is about. *)
NamesItsRow(c) ==
    /\ c.type = "submit" => c.m # None
    /\ c.type = "promote" => c.ex # None
    /\ c.type = "terminated" => c.t # None

CommandType == {c \in CommandShape : NamesItsRow(c)}

(* A coroutine's locals; the rows it lists are exchanges or tasks. *)
FrameType(Listed) ==
    [pc : {"idle", "listing", "closing", "collect", "routing", "apply", "attach", "own",
           "assemble", "resume", "deliver", "material", "revive",
           "recover", "restart", "reattach", "reown", "redeliver"},
     cmd : CommandType, live : SUBSET Listed,
     act : {"NEW", "CONTINUE", "COMMAND", "SWEEP", "SKIP"},
     ex : Exchanges \cup {None}, rest : SUBSET Listed, cancelled : SUBSET Exchanges,
     todo : SUBSET Exchanges, t : Tasks \cup {None},
     then : {"idle", "deliver", "redeliver"}]

(* Where the actor is in a handler, it works on that handler's command. *)
AtCommand(f) ==
    /\ f.pc \in {"collect", "routing", "apply", "attach", "own"} => f.cmd.type = "submit"
    /\ f.pc \in {"material", "revive"} => f.cmd.type = "promote"
    /\ f.pc = "revive" => f.ex # None
    /\ f.pc = "deliver" \/ f.then = "deliver" => f.cmd.type = "terminated"

FramesOK ==
    /\ frame \in [Threads -> FrameType(Nat)]
    /\ frame["actor"] \in FrameType(Exchanges) /\ AtCommand(frame["actor"])
    /\ frame["user"] \in FrameType(Exchanges)
    /\ frame["manager"] \in FrameType(Tasks)

(* Every variable keeps its shape, and the actor's program counter agrees   *)
(* with the command it took from the inbox.                                 *)
TypeOK ==
    /\ status \in [Exchanges -> Statuses]
    /\ quiet \in [Exchanges -> BOOLEAN]
    /\ task \in [Tasks -> TaskType]
    /\ message \in [Messages -> MessageType]
    /\ recorded \subseteq Messages /\ narrative \subseteq Messages /\ served \subseteq Messages
    /\ process \in [Tasks -> ProcessType]
    /\ inbox \in Seq(CommandType)
    /\ FramesOK
    /\ spawnLock \in Threads \cup {Free}
    /\ cancelEpoch \in Nat
    /\ outbox \subseteq Tasks /\ watching \in BOOLEAN /\ reached \subseteq Tasks
    /\ used \in [Events -> Nat]

Queued(t) == \E i \in 1..Len(inbox) : inbox[i].type = "terminated" /\ inbox[i].t = t

(* One obligation, one run: _ensure_owner, _resume_open_exchange and        *)
(* _start_orphaned never leave two processes streaming into one exchange.   *)
OneRunPerExchange ==
    \A t, u \in Processes : t # u /\ task[t].ex # None => task[t].ex # task[u].ex

(* An IN_PROGRESS exchange is always owed by its newest task: it has a live *)
(* process, or is being given one, or its _ProcessTerminated is still to be *)
(* settled. Otherwise nobody would ever move it again: only a settle leaves *)
(* IN_PROGRESS, and no listing returns it before a restart.                 *)
InProgressIsOwed ==
    \A e \in Exchanges : status[e] = "IN_PROGRESS" =>
        \/ frame["manager"].pc = "recover"
        \/ \E t \in Tasks :
              /\ _newest_task_of(e, t)
              /\ \/ Live(t) \/ Queued(t)
                 \/ \E th \in Threads : frame[th].pc = "assemble" /\ frame[th].t = t

(* The runs that still work never outnumber the limit of _exceeds_limit:    *)
(* only runs already told to stop may exceed it while they unwind (a run    *)
(* just cancelled by the same routing decision does not count).             *)
ActiveRunsWithinLimit ==
    Cardinality({t \in Processes : ~process[t].tripped}) <= MaxProcesses

(* The stop button covers the message that was still being routed: a run    *)
(* started for a submit older than the last stop (cancel_epoch) has its     *)
(* control tripped, whichever of cancel and _start_answer came first.       *)
StopCoversRouting ==
    \A t \in Processes :
        process[t].epoch # None /\ process[t].epoch < cancelEpoch => process[t].tripped

(* A finished outcome nobody has received is still on its way: it waits in  *)
(* the outbox, or a _ProcessTerminated that is queued or being handled, or  *)
(* the recovery of undelivered tasks, will put it there.                    *)
OutcomeOnItsWay ==
    \A t \in Tasks :
        task[t].status \in {"DONE", "FAILED"} /\ ~task[t].delivered /\ ~task[t].empty =>
            \/ t \in outbox \/ Queued(t)
            \/ process[t].phase = "finalized"
            \/ /\ frame["actor"].cmd.type = "terminated" /\ frame["actor"].cmd.t = t
               /\ frame["actor"].pc = "deliver" \/ frame["actor"].then = "deliver"
            \/ frame["manager"].pc = "recover"
            \/ frame["manager"].pc # "idle" /\ t \in frame["manager"].live

(* Delivery is never assumed: an outcome with something to show is stamped  *)
(* delivered_at only after it entered a subscriber's queue, streamed        *)
(* (_delivery_is_certain) or flushed (_flush_deliveries).                   *)
OnlyReachedIsDelivered ==
    \A t \in Tasks : task[t].delivered /\ ~task[t].empty => t \in reached

(* No question is closed unanswered: when a settle or a cancel closes an    *)
(* exchange, each message the user wrote into it was seen by a run that     *)
(* ended (_unseen_kind), was refused with a notice, or was stopped by the   *)
(* user.                                                                    *)
NoQuestionLost ==
    \A m \in narrative :
        LET e == message[m].ex
        IN  e # None /\ message[m].kind = "OWN" /\ status[e] \in ClosedStatuses
            => \/ m \in served
               \/ _live_process_for(e) # {}
               \/ frame["actor"].ex = e /\ frame["actor"].pc \in {"attach", "own", "assemble"}

(* A late termination is inert: settle_owned neither reopens an exchange    *)
(* that is closed nor settles one that another live run owes.               *)
LateTerminationIsInert ==
    [][\A e \in Exchanges :
          Taken("terminated") /\ (status[e] \in ClosedStatuses \/ _live_process_for(e) # {})
              => status'[e] = status[e]]_vars

(* A message enters the dialog once: however often a transport resends it   *)
(* under its client_message_id, and whatever fails in its handler, the      *)
(* user's own words never move from one exchange to another, except with    *)
(* the collection they joined when _reparent_material moves it.             *)
MessageJoinsOnce ==
    [][\A m \in Messages :
          LET e == message[m].ex
          IN  message[m].kind = "OWN" /\ e # None /\ status[e] # "COLLECTING"
                  => message'[m].ex = e]_vars

(* A collection the user stopped does not fire later: _handle_promote       *)
(* leaves a CANCELLED exchange alone.                                       *)
StoppedCollectionStaysClosed ==
    [][\A e \in Exchanges :
          status[e] = "CANCELLED" /\ frame["actor"].cmd.type = "promote" =>
              status'[e] \in {"CANCELLED"}]_vars

(* A message that _handle_submit has stored gets its reaction, across a     *)
(* restart of the process too.                                              *)
RecordedIsServed == \A m \in Messages : m \in recorded ~> m \in served

(* Every obligation is picked up: an OPEN exchange does not stay OPEN, once *)
(* the row of a message is linked to it; the sweep after a termination and  *)
(* the recovery of stranded exchanges see to it.                            *)
OpenIsPickedUp ==
    \A e \in Exchanges :
        status[e] = "OPEN" /\ MessagesOf(e) # {} /\ frame["actor"].pc # "attach"
            ~> status[e] # "OPEN"

(* Every message gets a reaction: a run that saw it at a branch sync ends,  *)
(* or the user is told that it cannot be taken, or stops it.                *)
EveryMessageServed == \A m \in Messages : message[m].kind # "unsent" ~> m \in served

(* An outcome reaches the user while someone listens: streamed, flushed at  *)
(* the termination, or flushed by the subscribe.                            *)
OutcomeDelivered ==
    \A t \in Tasks :
        task[t].status \in {"DONE", "FAILED"} /\ ~task[t].empty
            ~> task[t].delivered \/ ~watching

=============================================================================
