------------------------- MODULE RunnerOutcomeProofs -------------------------
(***************************************************************************)
(* No outcome is dropped: as long as the store does not fail, a finished   *)
(* task that nobody was told about is in the outbox or on its way there,   *)
(* across stops, crashes and transports that come and go                   *)
(* (OutcomeOnItsWay, for every value of the other constants).              *)
(*                                                                         *)
(* The proof follows an outcome from one place to the next: the run that   *)
(* saved it, the inbox, the actor's hands, the recovery's list, the        *)
(* outbox.  Each lemma is about what a step does to one of these places.   *)
(*                                                                         *)
(* Then, between two restarts, what the end of a run does to its exchange: *)
(* it changes nothing when the exchange is closed or has another live run  *)
(* (LateTerminationIsInert), and an exchange in progress has a run, or one *)
(* about to start, or a termination to settle (InProgressIsOwed).          *)
(***************************************************************************)
EXTENDS RunnerDeliveryProofs

OwedRow(r) == r.status \in {"DONE", "FAILED"} /\ ~r.delivered /\ ~r.empty

QueuedIn(box, t) == \E i \in 1..Len(box) : box[i].type = "terminated" /\ box[i].t = t

Delivers(f, t) ==
    f.cmd.type = "terminated" /\ f.cmd.t = t /\ (f.pc = "deliver" \/ f.then = "deliver")

Recovers(f, t) == f.pc = "recover" \/ (f.pc # "idle" /\ t \in f.live)

(* An actor that rests has nothing to go back to, and the recovery works on *)
(* no command and goes on to redeliver.                                     *)
ActorRests(f) == f.pc = "idle" => f.then = "idle"

RecoveryGoesOn(f) == f.cmd = NoCommand /\ (f.pc \in {"resume", "assemble"} => f.then = "redeliver")

OutcomeInv ==
    /\ OutcomeOnItsWay
    /\ ActorRests(frame["actor"]) /\ RecoveryGoesOn(frame["manager"])

(* Without faults no handler is cut short. *)
LEMMA NoFault == ASSUME MaxFaults = 0, TypeOK PROVE ~Spend("faults", MaxFaults)
BY SMTT(60) DEF Spend, TypeOK, Events

-----------------------------------------------------------------------------
(* The rows and the outbox *)

(* A task is owed after a step only if it was owed before, has just been    *)
(* saved, or is in the outbox; and what is owed leaves the outbox only in a *)
(* crash.                                                                   *)
OwedAccounted(t) ==
    OwedRow(task'[t]) =>
        /\ OwedRow(task[t]) \/ process'[t].phase = "finalized" \/ t \in outbox'
        /\ t \in outbox => t \in outbox' \/ Crash

(* What a flush leaves owed was owed before it, and waits in the outbox if  *)
(* it was to be sent.                                                       *)
LEMMA FlushOwed ==
    ASSUME TypeOK, NEW T, NEW rowsNow \in [Tasks -> TaskType], _flush_deliveries(T, rowsNow),
           NEW t \in Tasks, OwedRow(task'[t])
    PROVE  OwedRow(rowsNow[t]) /\ (t \in outbox \cup T => t \in outbox')
<1>1. CASE watching
  <2> DEFINE now == rowsNow[t].delivered \/ t \in outbox \cup T
  <2>1. task'[t] = [rowsNow[t] EXCEPT !.delivered = now]
    BY <1>1 DEF _flush_deliveries
  <2>2. ~now => ~rowsNow[t].delivered /\ t \notin outbox \cup T
    OBVIOUS
  <2> HIDE DEF now
  <2>3. task'[t].delivered = now /\ task'[t].status = rowsNow[t].status
        /\ task'[t].empty = rowsNow[t].empty
    BY <2>1 DEF TaskType
  <2> QED
    BY <2>2, <2>3, SMTT(60) DEF OwedRow
<1>2. CASE ~watching
  BY <1>2, SMTT(60) DEF _flush_deliveries
<1> QED
  BY <1>1, <1>2, SMTT(60)

LEMMA OwedSteps == ASSUME TypeOK, [Next]_vars PROVE \A t \in Tasks : OwedAccounted(t)
<1> DEFINE Fine == \A t \in Tasks : OwedAccounted(t)
<1>0. ASSUME UNCHANGED task, UNCHANGED outbox PROVE Fine
  BY <1>0, SMTT(60) DEF OwedAccounted
<1>n. ASSUME NEW t \in Tasks, NEW r, task' = [task EXCEPT ![t] = r], UNCHANGED outbox,
             r.status = "RUNNING" \/ r.empty
      PROVE  Fine
  <2>1. \A u \in Tasks : u # t => task'[u] = task[u]
    BY <1>n, SMTT(60) DEF TypeOK
  <2>2. task'[t] = r
    BY <1>n, SMTT(60) DEF TypeOK
  <2>3. ~OwedRow(r)
    BY <1>n, SMTT(60) DEF OwedRow
  <2> QED
    BY <1>n, <2>1, <2>2, <2>3, SMTT(60) DEF OwedAccounted
<1>1. CASE UNCHANGED vars
  BY <1>0, <1>1, SMTT(60) DEF vars, rows, delivery
<1>2. CASE UserNext
  <2>1. CASE spawn_task
    <3>1. [NoTask EXCEPT !.status = "RUNNING"].status = "RUNNING"
      BY SMTT(60) DEF NoTask
    <3>2. UNCHANGED outbox
      BY <2>1, SMTT(60) DEF spawn_task, delivery
    <3> QED
      BY <1>n, <2>1, <3>1, <3>2, ZenonT(60) DEF spawn_task
  <2> QED
    BY <1>0, <1>2, <2>1, ZenonT(60)
       DEF UserNext, submit, Resend, _handle_cancel, subscribe, unsubscribe, delete_task, rows,
           delivery
<1>3. CASE StopStep
  BY <1>0, <1>3, SMTT(60) DEF StopStep, ListParked, _cancel_parked_exchanges, rows, delivery
<1>4. ASSUME NEW t \in Tasks, PumpStep(t) PROVE Fine
  <2>1. CASE _finalize(t)
    <3>1. \A u \in Tasks : u # t => task'[u] = task[u]
      BY <2>1, ZenonT(60) DEF _finalize, TypeOK
    <3>2. process'[t].phase = "finalized" /\ UNCHANGED outbox
      BY <2>1, ZenonT(60) DEF _finalize, TypeOK, ProcessType, delivery
    <3> QED
      BY <3>1, <3>2, SMTT(60) DEF OwedAccounted
  <2> QED
    BY <1>0, <1>4, <2>1, ZenonT(60)
       DEF PumpStep, Iterate, Finish, AskUser, ask_user, _terminate_process, rows, delivery
<1>f. ASSUME NEW th \in Threads, NEW e, NEW g, _start_answer(th, e, g), UNCHANGED outbox PROVE Fine
  <2>1. [NoTask EXCEPT !.status = "RUNNING", !.ex = e].status = "RUNNING"
    BY SMTT(60) DEF NoTask
  <2>2. PICK t \in Tasks : task' = [task EXCEPT ![t] = [NoTask EXCEPT !.status = "RUNNING", !.ex = e]]
    BY <1>f, ZenonT(60) DEF _start_answer
  <2> QED
    BY <1>f, <1>n, <2>1, <2>2, ZenonT(60)
<1>r. ASSUME NEW th \in Starters, _resume_open_exchange(th) PROVE Fine
  <2>1. UNCHANGED task \/ \E e, g : _start_answer(th, e, g)
    BY <1>r, ZenonT(60) DEF _resume_open_exchange
  <2>2. UNCHANGED outbox
    BY <1>r, SMTT(60) DEF _resume_open_exchange, delivery
  <2> QED
    BY <1>0, <1>f, <2>1, <2>2, ZenonT(60) DEF Starters, Threads
<1>5. CASE ActorStep
  <2>1. CASE _ensure_owner
    <3>1. UNCHANGED task \/ \E e, g : _start_answer("actor", e, g)
      BY <2>1, ZenonT(60) DEF _ensure_owner
    <3>2. UNCHANGED outbox
      BY <2>1, SMTT(60) DEF _ensure_owner, delivery
    <3> QED
      BY <1>0, <1>f, <3>1, <3>2, ZenonT(60) DEF Threads
  <2>2. CASE _resume_open_exchange("actor")
    BY <1>r, <2>2, SMTT(60) DEF Starters
  <2>3. CASE HandleFlush
    <3>1. _flush_deliveries({}, task) /\ task \in [Tasks -> TaskType]
      BY <2>3, SMTT(60) DEF HandleFlush, TypeOK
    <3> QED
      BY <3>1, FlushOwed, SMTT(60) DEF OwedAccounted
  <2>4. CASE _handle_terminated
    <3> DEFINE c == frame["actor"].cmd
               T == IF ToQueue(c) THEN {c.t} ELSE {}
               R == IF StampedAtOnce(c) THEN [task EXCEPT ![c.t].delivered = TRUE] ELSE task
    <3>1. _flush_deliveries(T, R)
      BY <2>4, SMTT(60) DEF _handle_terminated
    <3>2. c.t \in Tasks
      BY <2>4, ActorFrame, SMTT(60) DEF _handle_terminated, AtCommand
    <3>3. R \in [Tasks -> TaskType]
      BY <3>2, ZenonT(60) DEF TypeOK, TaskType
    <3>4. \A t \in Tasks : OwedRow(R[t]) => OwedRow(task[t])
      BY <3>2, ZenonT(60) DEF TypeOK, TaskType, OwedRow
    <3> HIDE DEF T, R, c
    <3> QED
      BY <3>1, <3>3, <3>4, FlushOwed, SMTT(60) DEF OwedAccounted
  <2> QED
    BY <1>0, <1>5, <2>1, <2>2, <2>3, <2>4, ZenonT(60)
       DEF ActorStep, SkipDuplicate, _handle_submit, _route,
         _collect_material, _cancel_exchanges, _apply_route, set_exchange, _create_process,
         Resumed, _settle_exchange, _handle_promote, PromoteAlone, _reparent_material, ReviveTarget,
         rows, delivery
<1>6. CASE ManagerStep
  <2>1. CASE _resume_open_exchange("manager")
    BY <1>r, <2>1, SMTT(60) DEF Starters
  <2>2. CASE RefuseRestart
    <3> DEFINE o == First(frame["manager"].rest)
               R == [task EXCEPT ![o].status = "FAILED"]
    <3>1. _flush_deliveries({o}, R)
      BY <2>2, SMTT(60) DEF RefuseRestart
    <3>2. o \in Tasks
      BY <2>2, NextOrphan, ZenonT(60) DEF RefuseRestart
    <3> HIDE DEF o
    <3>3. R \in [Tasks -> TaskType]
      BY <3>2, ZenonT(60) DEF TypeOK, TaskType
    <3>4. \A t \in Tasks : t # o => R[t] = task[t]
      BY <3>2, SMTT(60) DEF TypeOK
    <3> HIDE DEF R
    <3> QED
      BY <3>1, <3>3, <3>4, FlushOwed, SMTT(60) DEF OwedAccounted
  <2>3. CASE restart_task
    <3> DEFINE o == First(frame["manager"].rest)
    <3>1. UNCHANGED task \/ task' = [task EXCEPT ![o].status = "DONE", ![o].empty = TRUE]
      BY <2>3, ZenonT(60) DEF restart_task
    <3>2. UNCHANGED outbox
      BY <2>3, ZenonT(60) DEF restart_task, delivery
    <3> HIDE DEF o
    <3>3. CASE task' = [task EXCEPT ![o].status = "DONE", ![o].empty = TRUE]
      <4>1. \A t \in Tasks : t # o => task'[t] = task[t]
        BY <3>3, SMTT(60) DEF TypeOK
      <4>2. o \in Tasks => task'[o].empty
        BY <3>3, SMTT(60) DEF TypeOK, TaskType
      <4> QED
        BY <3>2, <4>1, <4>2, SMTT(60) DEF OwedAccounted, OwedRow
    <3> QED
      BY <1>0, <3>1, <3>2, <3>3, SMTT(60)
  <2> QED
    BY <1>0, <1>6, <2>1, <2>2, <2>3, ZenonT(60)
       DEF ManagerStep, _recover_dialog, _start_orphaned, Reown,
         resume_stranded, _create_process, Resumed, request_result_delivery, rows, delivery
<1>7. CASE SweeperStep
  BY <1>0, <1>7, SMTT(60) DEF SweeperStep, QuietElapses, promote_collected, rows, delivery
<1>8. CASE FaultNext
  <2>1. CASE Crash
    BY <2>1, SMTT(60) DEF Crash, OwedAccounted
  <2> QED
    BY <1>0, <1>8, <2>1, ZenonT(60)
       DEF FaultNext, PersistFails, SettleFails, CommandFails, FinalizeFails, AskFails, rows, delivery
<1> QED
  BY <1>1, <1>2, <1>3, <1>4, <1>5, <1>6, <1>7, <1>8, SMTT(60) DEF Next

-----------------------------------------------------------------------------
(* The inbox *)

(* A termination in the inbox stays there until the actor takes it.         *)
LEMMA QueuedSteps ==
    ASSUME MaxFaults = 0, TypeOK, [Next]_vars, NEW t \in Tasks, QueuedIn(inbox, t)
    PROVE  QueuedIn(inbox', t) \/ Crash \/ Delivers(frame'["actor"], t)
<1>1. PICK i \in 1..Len(inbox) : inbox[i].type = "terminated" /\ inbox[i].t = t
  BY DEF QueuedIn
<1>add. ASSUME NEW c, inbox' = Append(inbox, c) PROVE QueuedIn(inbox', t)
  <2>1. Len(inbox') = Len(inbox) + 1 /\ Len(inbox) \in Nat
    BY <1>add, SMTT(60) DEF TypeOK
  <2>2. inbox'[i] = inbox[i]
    BY <1>add, SMTT(60) DEF TypeOK
  <2> QED
    BY <1>1, <2>1, <2>2, SMTT(60) DEF QueuedIn
<1>cut. ASSUME inbox # <<>>, inbox' = Tail(inbox), i # 1 PROVE QueuedIn(inbox', t)
  <2>1. Len(inbox') = Len(inbox) - 1 /\ Len(inbox) \in Nat \ {0}
    BY <1>cut, SMTT(60) DEF TypeOK
  <2>2. inbox'[i - 1] = inbox[i] /\ i - 1 \in 1..Len(inbox')
    BY <1>cut, <2>1, SMTT(60) DEF TypeOK
  <2> QED
    BY <1>1, <2>2, SMTT(60) DEF QueuedIn
<1>2. CASE inbox' = inbox
  BY <1>2, SMTT(60) DEF QueuedIn
<1>3. CASE request_result_delivery \/ \E u \in Tasks : _terminate_process(u)
  <2>1. inbox' = inbox \/ \E c : inbox' = Append(inbox, c)
    BY <1>3, ZenonT(60) DEF request_result_delivery, _terminate_process
  <2> QED
    BY <1>add, <1>2, <2>1, ZenonT(60)
<1>4. ASSUME NEW type \in {"submit", "flush", "promote"}, Taken(type) PROVE QueuedIn(inbox', t)
  <2>1. inbox # <<>> /\ inbox' = Tail(inbox) /\ Head(inbox).type # "terminated"
    BY <1>4, SMTT(60) DEF Taken
  <2>2. i # 1
    BY <1>1, <2>1, SMTT(60) DEF TypeOK
  <2> QED
    BY <1>cut, <2>1, <2>2, SMTT(60)
<1>5. CASE _settle_exchange
  <2> DEFINE c == Head(inbox)
             g == [IdleFrame EXCEPT !.cmd = c, !.pc = "deliver"]
             h == [g EXCEPT !.pc = "resume", !.todo = {c.ex}, !.then = "deliver"]
  <2>1. Goto("actor", g) \/ Goto("actor", h)
    BY <1>5 DEF _settle_exchange
  <2>2. inbox # <<>> /\ inbox' = Tail(inbox) /\ c.type = "terminated"
    BY <1>5 DEF _settle_exchange, Taken
  <2>3. i = 1 => c = inbox[i]
    BY <2>2, SMTT(60) DEF TypeOK
  <2> HIDE DEF c
  <2>4. /\ g.cmd = c /\ g.pc = "deliver"
        /\ h.cmd = c /\ h.then = "deliver"
    BY DEF IdleFrame
  <2> HIDE DEF g, h
  <2>5. frame'["actor"] = g \/ frame'["actor"] = h
    BY <2>1, ZenonT(60) DEF Goto, TypeOK, FramesOK, Threads
  <2>6. i = 1 => Delivers(frame'["actor"], t)
    BY <1>1, <2>2, <2>3, <2>4, <2>5, SMTT(60) DEF Delivers
  <2> QED
    BY <1>cut, <2>2, <2>6, SMTT(60)
<1>6. ~SettleFails
  BY NoFault DEF SettleFails
<1> QED
  BY InboxSteps, <1>add, <1>2, <1>3, <1>4, <1>5, <1>6, ZenonT(60) DEF InboxAccounted
-----------------------------------------------------------------------------
(* The run that saved it *)

(* A run that has saved its outcome ends by putting it into the inbox. *)
LEMMA FinalizedSteps ==
    ASSUME TypeOK, OwnershipInv, StartInv, [Next]_vars,
           NEW t \in Tasks, process[t].phase = "finalized"
    PROVE  process'[t].phase = "finalized" \/ QueuedIn(inbox', t) \/ Crash
<1> DEFINE Stays == process'[t].phase = "finalized"
<1>a. process \in [Tasks -> ProcessType]
  BY SMTT(60) DEF TypeOK
<1>0. ASSUME process'[t] = process[t] PROVE Stays
  BY <1>0, SMTT(60)
<1>u. ASSUME UNCHANGED process PROVE Stays
  BY <1>u, SMTT(60)
<1>l. Live(t) /\ Stored(t)
  BY SMTT(60) DEF Live, OwnershipInv, RowsExist, Processes
<1>1. CASE UNCHANGED vars
  BY <1>u, <1>1, SMTT(60) DEF vars
<1>2. CASE UserNext
  <2>1. CASE spawn_task
    <3>1. PICK u \in Tasks :
             /\ NextTask(u)
             /\ process' = [process EXCEPT ![u] = [NoProcess EXCEPT !.phase = "new"]]
      BY <2>1, ZenonT(60) DEF spawn_task
    <3>2. ~Stored(u)
      BY <3>1, SMTT(60) DEF NextTask, Stored, Tasks
    <3> QED
      BY <1>0, <1>a, <1>l, <3>1, <3>2, SMTT(60)
  <2>2. CASE _handle_cancel
    <3>1. process'[t] = process[t] \/ process'[t] = [process[t] EXCEPT !.tripped = TRUE]
      BY <2>2, SMTT(60) DEF _handle_cancel
    <3> QED
      BY <1>a, <3>1, SMTT(60) DEF ProcessType
  <2>3. ASSUME NEW u \in Tasks, delete_task(u) PROVE Stays
    BY <1>a, <2>3, SMTT(60) DEF delete_task, ProcessType
  <2> QED
    BY <1>u, <1>2, <2>1, <2>2, <2>3, ZenonT(60) DEF UserNext, submit, Resend, subscribe, unsubscribe
<1>3. CASE StopStep
  BY <1>u, <1>3, SMTT(60) DEF StopStep, ListParked, _cancel_parked_exchanges
<1>4. ASSUME NEW u \in Tasks, PumpStep(u) PROVE Stays \/ QueuedIn(inbox', t)
  <2>1. CASE u # t
    <3>1. process'[t] = process[t]
      BY <1>4, <1>a, <2>1, ZenonT(60)
         DEF PumpStep, Iterate, Finish, AskUser, ask_user, _finalize, _terminate_process
    <3> QED
      BY <1>0, <3>1
  <2>2. CASE u = t /\ ask_user(u)
    BY <1>a, <2>2, SMTT(60) DEF ask_user, ProcessType
  <2>3. CASE u = t /\ _terminate_process(u)
    <3> DEFINE c == _ProcessTerminated(t)
    <3>1. inbox' = Append(inbox, c)
      BY <2>3, SMTT(60) DEF _terminate_process
    <3>2. c.type = "terminated" /\ c.t = t
      BY ZenonT(60) DEF _ProcessTerminated
    <3> HIDE DEF c
    <3>3. Len(inbox') = Len(inbox) + 1 /\ Len(inbox) \in Nat /\ inbox'[Len(inbox) + 1] = c
      BY <3>1, SMTT(60) DEF TypeOK
    <3>4. Len(inbox) + 1 \in 1..Len(inbox')
      BY <3>3, SMTT(60)
    <3> QED
      BY <3>2, <3>3, <3>4, SMTT(60) DEF QueuedIn
  <2>4. CASE u = t /\ (Iterate(u) \/ (\E x \in Terminals : Finish(u, x)) \/ AskUser(u) \/ _finalize(u))
    BY <2>4, ZenonT(60) DEF Iterate, Finish, AskUser, _finalize
  <2> QED
    BY <1>4, <2>1, <2>2, <2>3, <2>4, ZenonT(60) DEF PumpStep
<1>c. ASSUME NEW th \in Starters, Claiming(th), NEW p, process' = [process EXCEPT ![frame[th].t] = p]
      PROVE  Stays
  <2>1. frame[th].t # t
    BY <1>c, <1>l, SMTT(60) DEF StartInv, ClaimedRun
  <2> QED
    BY <1>0, <1>a, <1>c, <2>1, SMTT(60)
<1>5. ASSUME NEW th \in Starters, _create_process(th) PROVE Stays
  BY <1>5, <1>c, ZenonT(60) DEF _create_process, Claiming
<1>6. CASE ActorStep
  <2>1. CASE _cancel_exchanges
    BY <1>a, <2>1, ZenonT(60) DEF _cancel_exchanges, ProcessType
  <2>2. CASE SkipDuplicate \/ _handle_submit \/ _route \/ _collect_material
             \/ _apply_route \/ set_exchange \/ _ensure_owner
             \/ _resume_open_exchange("actor") \/ Resumed("actor")
    BY <1>u, <2>2, ZenonT(60)
       DEF SkipDuplicate, _handle_submit, _route, _collect_material, _apply_route,
         set_exchange, _ensure_owner, _resume_open_exchange, Resumed
  <2>3. CASE _settle_exchange \/ _handle_terminated \/ HandleFlush \/ _handle_promote
             \/ PromoteAlone \/ _reparent_material \/ ReviveTarget
    BY <1>u, <2>3, ZenonT(60)
       DEF _settle_exchange, _handle_terminated, HandleFlush, _handle_promote,
         PromoteAlone, _reparent_material, ReviveTarget
  <2> QED
    BY <1>5, <1>6, <2>1, <2>2, <2>3, SMTT(60) DEF ActorStep, Starters
<1>7. CASE ManagerStep
  <2>1. CASE restart_task
    <3> DEFINE o == First(frame["manager"].rest)
    <3>1. UNCHANGED process \/ \E p : process' = [process EXCEPT ![o] = p]
      BY <2>1, ZenonT(60) DEF restart_task
    <3>2. o # t
      <4>1. OrphansRun
        BY ZenonT(60) DEF StartInv
      <4> QED
        BY <2>1, <4>1, <1>l, NextOrphan, ZenonT(60) DEF restart_task, OrphansRun
    <3> HIDE DEF o
    <3> QED
      BY <1>0, <1>a, <1>u, <3>1, <3>2, SMTT(60)
  <2>2. CASE _start_orphaned
    BY <1>c, <2>2, ZenonT(60) DEF _start_orphaned, Claiming, Starters
  <2> QED
    BY <1>u, <1>5, <1>7, <2>1, <2>2, ZenonT(60)
       DEF Starters, ManagerStep, _recover_dialog, RefuseRestart, Reown, resume_stranded,
           _resume_open_exchange, Resumed, request_result_delivery
<1>8. CASE SweeperStep
  BY <1>u, <1>8, ZenonT(60) DEF SweeperStep, QuietElapses, promote_collected
<1>9. CASE FaultNext
  <2>1. ASSUME NEW u \in Tasks, FinalizeFails(u) PROVE Stays
    BY <1>a, <2>1, SMTT(60) DEF FinalizeFails, ProcessType
  <2>2. ASSUME NEW u \in Tasks, AskFails(u) PROVE Stays
    BY <1>a, <2>2, SMTT(60) DEF AskFails, ProcessType
  <2> QED
    BY <1>u, <1>9, <2>1, <2>2, ZenonT(60) DEF FaultNext, PersistFails, SettleFails, CommandFails
<1> QED
  BY <1>1, <1>2, <1>3, <1>4, <1>6, <1>7, <1>8, <1>9, SMTT(60) DEF Next

-----------------------------------------------------------------------------
(* The actor's hands *)

(* Only the actor moves the actor. *)
LEMMA ActorAlone ==
    ASSUME MaxFaults = 0, TypeOK, [Next]_vars
    PROVE  ActorStep \/ Crash \/ frame'["actor"] = frame["actor"]
<1>0. ASSUME UNCHANGED frame PROVE frame'["actor"] = frame["actor"]
  BY <1>0, SMTT(60)
<1>g. ASSUME NEW f, Goto("user", f) PROVE frame'["actor"] = frame["actor"]
  BY <1>g, ZenonT(60) DEF Goto, TypeOK, FramesOK, Threads
<1>1. CASE UNCHANGED vars
  BY <1>1, SMTT(60) DEF vars
<1>2. CASE UserNext
  BY <1>0, <1>g, <1>2, ZenonT(60)
     DEF UserNext, submit, Resend, _handle_cancel, subscribe, unsubscribe, spawn_task, delete_task
<1>3. CASE StopStep
  BY <1>g, <1>3, ZenonT(60) DEF StopStep, ListParked, _cancel_parked_exchanges
<1>4. ASSUME NEW t \in Tasks, PumpStep(t) PROVE frame'["actor"] = frame["actor"]
  BY <1>0, <1>4, ZenonT(60)
     DEF PumpStep, Iterate, Finish, AskUser, ask_user, _finalize, _terminate_process
<1>5. CASE ManagerStep
  BY <1>5, ManagerMoves, SMTT(60) DEF OthersStay, Threads
<1>6. CASE SweeperStep
  BY <1>0, <1>6, ZenonT(60) DEF SweeperStep, QuietElapses, promote_collected
<1>7. CASE FaultNext
  BY <1>7, NoFault, ZenonT(60)
     DEF FaultNext, PersistFails, SettleFails, CommandFails, FinalizeFails, AskFails
<1> QED
  BY <1>1, <1>2, <1>3, <1>4, <1>5, <1>6, <1>7, ZenonT(60) DEF Next

(* The end of a run that the actor holds is stamped or queued. *)
LEMMA DeliverQueues ==
    ASSUME TypeOK, _handle_terminated, NEW t \in Tasks, frame["actor"].cmd.t = t,
           OwedRow(task'[t])
    PROVE  t \in outbox'
<1> DEFINE c == frame["actor"].cmd
           T == IF ToQueue(c) THEN {c.t} ELSE {}
           R == IF StampedAtOnce(c) THEN [task EXCEPT ![c.t].delivered = TRUE] ELSE task
<1>1. _flush_deliveries(T, R)
  BY SMTT(60) DEF _handle_terminated
<1>3. R \in [Tasks -> TaskType]
  BY ZenonT(60) DEF TypeOK, TaskType
<1>4. StampedAtOnce(c) => R[t].delivered
  BY SMTT(60) DEF TypeOK, TaskType
<1>5. ~StampedAtOnce(c) => R[t] = task[t]
  BY SMTT(60)
<1>6. ToQueue(c) => t \in T
  BY SMTT(60)
<1>7. OwedRow(task[t]) => StampedAtOnce(c) \/ ToQueue(c)
  BY ZenonT(60) DEF OwedRow, StampedAtOnce, ToQueue, _silent_done
<1> HIDE DEF T, R, c
<1>8. OwedRow(R[t]) /\ (t \in T => t \in outbox')
  BY <1>1, <1>3, FlushOwed, SMTT(60)
<1>9. ~StampedAtOnce(c)
  BY <1>4, <1>8, SMTT(60) DEF OwedRow
<1> QED
  BY <1>5, <1>6, <1>7, <1>8, <1>9, SMTT(60)

(* A termination stays in the actor's hands until its outcome is queued, and *)
(* an actor that rests has nothing to go back to.                            *)
LEMMA DeliverSteps ==
    ASSUME TypeOK, ActorRests(frame["actor"]), ActorStep
    PROVE  /\ ActorRests(frame'["actor"])
           /\ \A t \in Tasks : Delivers(frame["actor"], t) /\ OwedRow(task'[t]) =>
                  Delivers(frame'["actor"], t) \/ t \in outbox'
<1> DEFINE f == frame["actor"]
           Keeps(g) == ActorRests(g) /\ \A t \in Tasks : Delivers(f, t) => Delivers(g, t)
           Fine == /\ ActorRests(frame'["actor"])
                   /\ \A t \in Tasks : Delivers(f, t) /\ OwedRow(task'[t]) =>
                          Delivers(frame'["actor"], t) \/ t \in outbox'
<1>f. f \in FrameType(Exchanges) /\ AtCommand(f)
  BY ActorFrame
<1>g. ASSUME NEW g, Goto("actor", g) PROVE frame'["actor"] = g
  BY <1>g, ZenonT(60) DEF Goto, TypeOK, FramesOK, Threads
<1>k. ASSUME NEW g, Goto("actor", g), Keeps(g) PROVE Fine
  BY <1>g, <1>k, ZenonT(60)
<1>u. ASSUME UNCHANGED frame PROVE Fine
  BY <1>u, SMTT(60)
<1>n. ASSUME \A t \in Tasks : ~Delivers(f, t), NEW g, Goto("actor", g), ActorRests(g) PROVE Fine
  BY <1>g, <1>n, ZenonT(60)
<1>i. ActorRests(IdleFrame)
  BY SMTT(60) DEF ActorRests, IdleFrame
<1>t. ASSUME NEW type, Taken(type) PROVE \A t \in Tasks : ~Delivers(f, t)
  BY <1>t, SMTT(60) DEF Taken, Delivers, ActorRests
<1>b. ASSUME f.pc \in {"collect", "routing", "apply", "attach", "own", "material", "revive"}
      PROVE  \A t \in Tasks : ~Delivers(f, t)
  BY <1>b, <1>f, ZenonT(60) DEF AtCommand, Delivers
<1>1. CASE SkipDuplicate \/ HandleFlush
  BY <1>u, <1>1, SMTT(60) DEF SkipDuplicate, HandleFlush
<1>2. CASE _handle_submit
  <2> DEFINE c == Head(inbox)
             L == list_live
             g == [IdleFrame EXCEPT !.cmd = c, !.live = L]
             x == First(_sole_fresh_collection(list_live))
  <2>1. \/ \E pc \in {"collect", "apply", "routing"} : Goto("actor", [g EXCEPT !.pc = pc])
        \/ Goto("actor", [g EXCEPT !.pc = "apply", !.act = "CONTINUE", !.ex = x])
    BY <1>2 DEF _handle_submit
  <2>2. \A t \in Tasks : ~Delivers(f, t)
    BY <1>2, <1>t, ZenonT(60) DEF _handle_submit
  <2> HIDE DEF c, L, x
  <2>3. \A pc \in {"collect", "apply", "routing"} : ActorRests([g EXCEPT !.pc = pc])
    BY SMTT(60) DEF IdleFrame, ActorRests
  <2>4. ActorRests([g EXCEPT !.pc = "apply", !.act = "CONTINUE", !.ex = x])
    BY SMTT(60) DEF IdleFrame, ActorRests
  <2> HIDE DEF g
  <2> QED
    BY <1>n, <2>1, <2>2, <2>3, <2>4, ZenonT(60)
<1>3. CASE _route
  <2>1. \A r, a, e : /\ ActorRests([f EXCEPT !.pc = "apply", !.act = a, !.ex = e, !.rest = r])
                     /\ ActorRests([f EXCEPT !.pc = "apply", !.act = a, !.rest = r])
    BY <1>f, ZenonT(60) DEF FrameType, ActorRests
  <2>2. f.pc = "routing"
    BY <1>3, ZenonT(60) DEF _route
  <2>3. \A t \in Tasks : ~Delivers(f, t)
    BY <1>b, <2>2, ZenonT(60)
  <2> QED
    BY <1>n, <1>3, <2>1, <2>3, ZenonT(60) DEF _route
<1>4. CASE _collect_material \/ _apply_route
  <2>1. \A e : ActorRests([f EXCEPT !.pc = "attach", !.ex = e])
    BY <1>f, ZenonT(60) DEF FrameType, ActorRests
  <2>2. f.pc \in {"collect", "apply"}
    BY <1>4, ZenonT(60) DEF _collect_material, _apply_route
  <2>3. \A t \in Tasks : ~Delivers(f, t)
    BY <1>b, <2>2, ZenonT(60)
  <2> QED
    BY <1>i, <1>n, <1>4, <2>1, <2>3, ZenonT(60) DEF _collect_material, _apply_route, Done
<1>5. CASE _cancel_exchanges
  <2> DEFINE e == First(f.rest)
             g == [f EXCEPT !.rest = @ \ {e}, !.cancelled = @ \cup {e}]
  <2>1. Goto("actor", g) /\ f.pc = "apply"
    BY <1>5, SMTT(60) DEF _cancel_exchanges
  <2>2. ActorRests(g)
    BY <1>f, <2>1, SMTT(60) DEF FrameType, ActorRests
  <2> HIDE DEF g
  <2> QED
    BY <1>n, <1>b, <2>1, <2>2, ZenonT(60)
<1>6. CASE set_exchange
  <2>1. ActorRests([f EXCEPT !.pc = "own"])
    BY <1>f, SMTT(60) DEF FrameType, ActorRests
  <2>2. \A t \in Tasks : ~Delivers(f, t)
    BY <1>6, <1>b, SMTT(60) DEF set_exchange
  <2> QED
    BY <1>i, <1>n, <1>6, <2>1, <2>2, ZenonT(60) DEF set_exchange
<1>7. CASE _ensure_owner
  <2>1. \A t : ActorRests([f EXCEPT !.pc = "assemble", !.t = t])
    BY <1>f, SMTT(60) DEF FrameType, ActorRests
  <2>2. \A t \in Tasks : ~Delivers(f, t)
    BY <1>7, <1>b, ZenonT(60) DEF _ensure_owner
  <2> QED
    BY <1>i, <1>n, <1>7, <2>1, <2>2, ZenonT(60) DEF _ensure_owner, _start_answer, Done
<1>8. CASE _create_process("actor")
  <2> DEFINE g == [f EXCEPT !.pc = "resume", !.t = None]
  <2>1. (Goto("actor", IdleFrame) /\ f.cmd.type = "submit") \/ Goto("actor", g)
    BY <1>8, SMTT(60) DEF _create_process
  <2>2. f.pc = "assemble"
    BY <1>8, SMTT(60) DEF _create_process
  <2>3. Keeps(g)
    BY <1>f, <2>2, SMTT(60) DEF FrameType, ActorRests, Delivers
  <2>4. f.cmd.type = "submit" => \A t \in Tasks : ~Delivers(f, t)
    BY SMTT(60) DEF Delivers
  <2> HIDE DEF g
  <2>5. CASE Goto("actor", g)
    BY <1>k, <2>3, <2>5, ZenonT(60)
  <2>6. CASE Goto("actor", IdleFrame) /\ f.cmd.type = "submit"
    BY <1>i, <1>n, <2>4, <2>6, ZenonT(60)
  <2> QED
    BY <2>1, <2>5, <2>6, ZenonT(60)
<1>9. CASE _resume_open_exchange("actor")
  <2> DEFINE e == First(f.todo)
             g == [f EXCEPT !.todo = @ \ {e}]
  <2>1. Goto("actor", g) \/ \E t \in Tasks : Goto("actor", [g EXCEPT !.pc = "assemble", !.t = t])
    BY <1>9, ZenonT(60) DEF _resume_open_exchange, _start_answer
  <2>2. f.pc = "resume"
    BY <1>9, SMTT(60) DEF _resume_open_exchange
  <2> HIDE DEF e
  <2>3. Keeps(g)
    BY <1>f, <2>2, SMTT(60) DEF FrameType, ActorRests, Delivers
  <2>4. \A u : Keeps([g EXCEPT !.pc = "assemble", !.t = u])
    BY <1>f, <2>2, SMTT(60) DEF FrameType, ActorRests, Delivers
  <2> HIDE DEF g
  <2> QED
    BY <1>k, <2>1, <2>3, <2>4, ZenonT(60)
<1>10. CASE Resumed("actor")
  <2> DEFINE g == [f EXCEPT !.pc = f.then]
  <2>1. (Goto("actor", IdleFrame) /\ f.then = "idle") \/ (Goto("actor", g) /\ f.then # "idle")
    BY <1>10, SMTT(60) DEF Resumed
  <2>2. f.pc = "resume"
    BY <1>10, SMTT(60) DEF Resumed
  <2>3. f.then # "idle" => Keeps(g)
    BY <1>f, <2>2, ZenonT(60) DEF FrameType, ActorRests, Delivers
  <2>4. f.then = "idle" => \A t \in Tasks : ~Delivers(f, t)
    BY <2>2, SMTT(60) DEF Delivers
  <2> HIDE DEF g
  <2>5. CASE Goto("actor", g) /\ f.then # "idle"
    BY <1>k, <2>3, <2>5, ZenonT(60)
  <2>6. CASE Goto("actor", IdleFrame) /\ f.then = "idle"
    BY <1>i, <1>n, <2>4, <2>6, ZenonT(60)
  <2> QED
    BY <2>1, <2>5, <2>6, ZenonT(60)
<1>11. CASE _settle_exchange
  <2> DEFINE c == Head(inbox)
             g == [IdleFrame EXCEPT !.cmd = c, !.pc = "deliver"]
             h == [g EXCEPT !.pc = "resume", !.todo = {c.ex}, !.then = "deliver"]
  <2>1. Goto("actor", g) \/ Goto("actor", h)
    BY <1>11 DEF _settle_exchange
  <2>2. \A t \in Tasks : ~Delivers(f, t)
    BY <1>11, <1>t, ZenonT(60) DEF _settle_exchange
  <2> HIDE DEF c
  <2>3. ActorRests(g) /\ ActorRests(h)
    BY SMTT(60) DEF IdleFrame, ActorRests
  <2> HIDE DEF g, h
  <2> QED
    BY <1>n, <2>1, <2>2, <2>3, ZenonT(60)
<1>r. \A S : ActorRests([f EXCEPT !.pc = "resume", !.todo = S, !.then = "idle"])
  BY <1>f, SMTT(60) DEF FrameType, ActorRests
<1>12. CASE PromoteAlone \/ ReviveTarget
  <2>1. \/ \E S : Goto("actor", [f EXCEPT !.pc = "resume", !.todo = S, !.then = "idle"])
        \/ Goto("actor", IdleFrame)
    BY <1>12, ZenonT(60) DEF PromoteAlone, ReviveTarget, Revive, Done
  <2>2. \A t \in Tasks : ~Delivers(f, t)
    BY <1>12, <1>b, ZenonT(60) DEF PromoteAlone, ReviveTarget
  <2> QED
    BY <1>i, <1>n, <1>r, <2>1, <2>2, ZenonT(60)
<1>13. CASE _reparent_material
  <2>1. \A e : ActorRests([f EXCEPT !.pc = "revive", !.ex = e])
    BY <1>f, SMTT(60) DEF FrameType, ActorRests
  <2>2. \A t \in Tasks : ~Delivers(f, t)
    BY <1>13, <1>b, SMTT(60) DEF _reparent_material
  <2> QED
    BY <1>n, <1>13, <2>1, <2>2, ZenonT(60) DEF _reparent_material
<1>14. CASE _handle_promote
  <2> DEFINE c == Head(inbox)
             L == {e \in list_live \ {c.ex} : status[e] # "COLLECTING"}
             g == [IdleFrame EXCEPT !.cmd = c, !.live = L]
             h == [g EXCEPT !.pc = "resume", !.todo = {c.ex}, !.then = "idle"]
  <2>1. UNCHANGED frame \/ Goto("actor", h) \/ Goto("actor", [g EXCEPT !.pc = "material"])
    BY <1>14 DEF _handle_promote, Revive
  <2>2. \A t \in Tasks : ~Delivers(f, t)
    BY <1>14, <1>t, ZenonT(60) DEF _handle_promote
  <2> HIDE DEF c, L
  <2>3. ActorRests(h) /\ ActorRests([g EXCEPT !.pc = "material"])
    BY SMTT(60) DEF IdleFrame, ActorRests
  <2> HIDE DEF g, h
  <2> QED
    BY <1>n, <1>u, <2>1, <2>2, <2>3, ZenonT(60)
<1>15. CASE _handle_terminated
  <2>1. \E S : Goto("actor", [f EXCEPT !.pc = "resume", !.todo = S, !.then = "idle"])
    BY <1>15, ZenonT(60) DEF _handle_terminated
  <2>2. ActorRests(frame'["actor"])
    BY <1>g, <1>r, <2>1, ZenonT(60)
  <2>3. \A t \in Tasks : Delivers(f, t) /\ OwedRow(task'[t]) => t \in outbox'
    BY <1>15, DeliverQueues, ZenonT(60) DEF Delivers
  <2> QED
    BY <2>2, <2>3, ZenonT(60)
<1> QED
  BY <1>1, <1>2, <1>3, <1>4, <1>5, <1>6, <1>7, <1>8, <1>9, <1>10, <1>11, <1>12, <1>13,
     <1>14, <1>15, ZenonT(60) DEF ActorStep

-----------------------------------------------------------------------------
(* The recovery's list *)

(* An outcome that recovery has to redeliver stays with it until it is in   *)
(* the inbox.                                                               *)
LEMMA RecoverSteps ==
    ASSUME TypeOK, RecoveryGoesOn(frame["manager"]), ManagerStep
    PROVE  /\ RecoveryGoesOn(frame'["manager"])
           /\ \A t \in Tasks : Recovers(frame["manager"], t) /\ OwedRow(task[t]) =>
                  Recovers(frame'["manager"], t) \/ QueuedIn(inbox', t)
<1> DEFINE f == frame["manager"]
           Keeps(g) == RecoveryGoesOn(g) /\ \A t \in Tasks : Recovers(f, t) => Recovers(g, t)
           Fine == /\ RecoveryGoesOn(frame'["manager"])
                   /\ \A t \in Tasks : Recovers(f, t) /\ OwedRow(task[t]) =>
                          Recovers(frame'["manager"], t) \/ QueuedIn(inbox', t)
<1>f. f \in FrameType(Tasks)
  BY ManagerFrame
<1>g. ASSUME NEW g, Goto("manager", g) PROVE frame'["manager"] = g
  BY <1>g, ZenonT(60) DEF Goto, TypeOK, FramesOK, Threads
<1>k. ASSUME NEW g, Goto("manager", g), Keeps(g) PROVE Fine
  BY <1>g, <1>k, ZenonT(60)
<1>1. CASE _recover_dialog
  <2>1. PICK a : Goto("manager", [IdleFrame EXCEPT !.pc = "restart",
              !.rest = list_orphaned, !.live = list_undelivered, !.act = a])
    BY <1>1, ZenonT(60) DEF _recover_dialog
  <2> DEFINE orphans == list_orphaned
             undelivered == list_undelivered
             g == [IdleFrame EXCEPT !.pc = "restart", !.rest = orphans, !.live = undelivered,
                                    !.act = a]
  <2>2. \A t \in Tasks : OwedRow(task[t]) => t \in undelivered
    BY SMTT(60) DEF OwedRow, list_undelivered
  <2> HIDE DEF orphans, undelivered
  <2>3. g.pc = "restart" /\ g.live = undelivered /\ g.cmd = NoCommand
    BY SMTT(60) DEF IdleFrame
  <2>4. frame'["manager"] = g
    BY <1>g, <2>1, ZenonT(60) DEF orphans, undelivered
  <2> HIDE DEF g
  <2> QED
    BY <2>2, <2>3, <2>4, ZenonT(60) DEF RecoveryGoesOn, Recovers
<1>2. CASE RefuseRestart
  <2> DEFINE t == First(f.rest)
             g == [f EXCEPT !.rest = @ \ {t}]
  <2>1. Goto("manager", g) /\ f.pc = "restart"
    BY <1>2, ZenonT(60) DEF RefuseRestart
  <2> HIDE DEF t
  <2>2. Keeps(g)
    BY <1>f, <2>1, SMTT(60) DEF FrameType, RecoveryGoesOn, Recovers
  <2> HIDE DEF g
  <2> QED
    BY <1>k, <2>1, <2>2, ZenonT(60)
<1>3. CASE restart_task
  <2> DEFINE t == First(f.rest)
             g == [f EXCEPT !.rest = @ \ {t}]
             h == [g EXCEPT !.pc = "reattach", !.t = t]
  <2>1. f.pc = "restart" /\ (Goto("manager", g) \/ Goto("manager", h))
    BY <1>3, ZenonT(60) DEF restart_task
  <2> HIDE DEF t
  <2>2. Keeps(g) /\ Keeps(h)
    BY <1>f, <2>1, ZenonT(60) DEF FrameType, RecoveryGoesOn, Recovers
  <2> HIDE DEF g, h
  <2> QED
    BY <1>k, <2>1, <2>2, ZenonT(60)
<1>4. CASE _start_orphaned
  <2> DEFINE g == [f EXCEPT !.pc = "reown"]
  <2>1. Goto("manager", g) /\ f.pc = "reattach"
    BY <1>4 DEF _start_orphaned
  <2>2. Keeps(g)
    BY <1>f, <2>1, SMTT(60) DEF FrameType, RecoveryGoesOn, Recovers
  <2> HIDE DEF g
  <2> QED
    BY <1>k, <2>1, <2>2, ZenonT(60)
<1>5. CASE Reown
  <2> DEFINE g == [f EXCEPT !.pc = "restart", !.t = None]
  <2>1. Goto("manager", g) /\ f.pc = "reown"
    BY <1>5 DEF Reown
  <2>2. Keeps(g)
    BY <1>f, <2>1, SMTT(60) DEF FrameType, RecoveryGoesOn, Recovers
  <2> HIDE DEF g
  <2> QED
    BY <1>k, <2>1, <2>2, ZenonT(60)
<1>6. CASE resume_stranded
  <2>1. PICK S : Goto("manager", [f EXCEPT !.pc = "resume", !.then = "redeliver", !.todo = S])
    BY <1>6, ZenonT(60) DEF resume_stranded
  <2> DEFINE g == [f EXCEPT !.pc = "resume", !.then = "redeliver", !.todo = S]
  <2>2. f.pc = "restart"
    BY <1>6 DEF resume_stranded
  <2>3. Keeps(g)
    BY <1>f, <2>2, SMTT(60) DEF FrameType, RecoveryGoesOn, Recovers
  <2> QED
    BY <1>k, <2>1, <2>3, ZenonT(60)
<1>7. CASE _create_process("manager")
  <2> DEFINE g == [f EXCEPT !.pc = "resume", !.t = None]
  <2>1. f.pc = "assemble" /\ (f.cmd.type # "submit" => Goto("manager", g))
    BY <1>7 DEF _create_process
  <2>2. f.cmd.type # "submit"
    BY SMTT(60) DEF RecoveryGoesOn, NoCommand
  <2>3. Keeps(g)
    BY <1>f, <2>1, SMTT(60) DEF FrameType, RecoveryGoesOn, Recovers
  <2> HIDE DEF g
  <2> QED
    BY <1>k, <2>1, <2>2, <2>3, ZenonT(60)
<1>8. CASE _resume_open_exchange("manager")
  <2> DEFINE e == First(f.todo)
             g == [f EXCEPT !.todo = @ \ {e}]
  <2>1. Goto("manager", g) \/ \E u \in Tasks : Goto("manager", [g EXCEPT !.pc = "assemble", !.t = u])
    BY <1>8, ZenonT(60) DEF _resume_open_exchange, _start_answer
  <2>2. f.pc = "resume"
    BY <1>8, SMTT(60) DEF _resume_open_exchange
  <2> HIDE DEF e
  <2>3. Keeps(g)
    BY <1>f, <2>2, SMTT(60) DEF FrameType, RecoveryGoesOn, Recovers
  <2>4. \A u : Keeps([g EXCEPT !.pc = "assemble", !.t = u])
    BY <1>f, <2>2, SMTT(60) DEF FrameType, RecoveryGoesOn, Recovers
  <2> HIDE DEF g
  <2> QED
    BY <1>k, <2>1, <2>3, <2>4, ZenonT(60)
<1>9. CASE Resumed("manager")
  <2> DEFINE g == [f EXCEPT !.pc = f.then]
  <2>1. f.pc = "resume" /\ (f.then # "idle" => Goto("manager", g))
    BY <1>9, SMTT(60) DEF Resumed
  <2>2. f.then = "redeliver"
    BY <2>1, SMTT(60) DEF RecoveryGoesOn
  <2>3. Keeps(g)
    BY <1>f, <2>1, <2>2, ZenonT(60) DEF FrameType, RecoveryGoesOn, Recovers
  <2>4. Goto("manager", g)
    BY <2>1, <2>2, SMTT(60)
  <2> HIDE DEF g
  <2> QED
    BY <1>k, <2>3, <2>4, ZenonT(60)
<1>10. CASE request_result_delivery
  <2> DEFINE u == First(f.live)
             g == [f EXCEPT !.live = @ \ {u}]
  <2>1. f.pc = "redeliver"
    BY <1>10 DEF request_result_delivery
  <2>2. CASE f.live = {}
    <3>1. frame'["manager"] = IdleFrame
      BY <1>10, <1>g, <2>2, ZenonT(60) DEF request_result_delivery, Done
    <3>2. \A t \in Tasks : ~Recovers(f, t)
      BY <2>1, <2>2, ZenonT(60) DEF Recovers
    <3>3. RecoveryGoesOn(IdleFrame)
      BY ZenonT(60) DEF RecoveryGoesOn, IdleFrame
    <3> QED
      BY <3>1, <3>2, <3>3, ZenonT(60)
  <2>3. CASE f.live # {}
    <3> DEFINE c == Redelivery(u)
    <3>1. Goto("manager", g) /\ inbox' = Append(inbox, c)
      BY <1>10, <2>3, SMTT(60) DEF request_result_delivery
    <3>2. u \in Tasks
      BY <2>3, ManagerFrame, ZenonT(60)
    <3>3. c.type = "terminated" /\ c.t = u
      BY <3>2, PlainCommands, ZenonT(60)
    <3> HIDE DEF c, u
    <3>4. frame'["manager"] = g
      BY <1>g, <3>1, ZenonT(60)
    <3>5. g.pc = "redeliver" /\ g.live = f.live \ {u} /\ g.cmd = f.cmd
      BY <1>f, <2>1, SMTT(60) DEF FrameType
    <3> HIDE DEF g
    <3>6. Len(inbox') = Len(inbox) + 1 /\ Len(inbox) \in Nat /\ inbox'[Len(inbox) + 1] = c
      BY <3>1, SMTT(60) DEF TypeOK
    <3>7. QueuedIn(inbox', u)
      <4>1. Len(inbox) + 1 \in 1..Len(inbox')
        BY <3>6, SMTT(60)
      <4> QED
        BY <3>3, <3>6, <4>1, SMTT(60) DEF QueuedIn
    <3>8. RecoveryGoesOn(g)
      BY <3>5, SMTT(60) DEF RecoveryGoesOn
    <3>9. \A t \in Tasks : Recovers(f, t) /\ t # u => Recovers(g, t)
      BY <2>1, <3>5, ZenonT(60) DEF Recovers
    <3> QED
      BY <3>4, <3>7, <3>8, <3>9, ZenonT(60)
  <2> QED
    BY <2>2, <2>3, ZenonT(60)
<1> QED
  BY <1>1, <1>2, <1>3, <1>4, <1>5, <1>6, <1>7, <1>8, <1>9, <1>10, ZenonT(60) DEF ManagerStep

-----------------------------------------------------------------------------
(* The theorem *)

(* Where an outcome that is owed can be. *)
Somewhere(t, box, out, phase, actor, manager) ==
    t \in out \/ QueuedIn(box, t) \/ phase = "finalized" \/ Delivers(actor, t) \/ Recovers(manager, t)

LEMMA OnItsWayIs ==
    OutcomeOnItsWay <=>
        \A t \in Tasks : OwedRow(task[t]) =>
            Somewhere(t, inbox, outbox, process[t].phase, frame["actor"], frame["manager"])
BY ZenonT(60) DEF OutcomeOnItsWay, OwedRow, Somewhere, Queued, QueuedIn, Delivers, Recovers

LEMMA OnItsWayNext ==
    ASSUME \A t \in Tasks : OwedRow(task'[t]) =>
               Somewhere(t, inbox', outbox', process'[t].phase, frame'["actor"], frame'["manager"])
    PROVE  OutcomeOnItsWay'
BY ZenonT(60) DEF OutcomeOnItsWay, OwedRow, Somewhere, Queued, QueuedIn, Delivers, Recovers

LEMMA CrashRecovers ==
    ASSUME Crash
    PROVE  /\ ActorRests(frame'["actor"]) /\ RecoveryGoesOn(frame'["manager"])
           /\ \A t \in Tasks : Recovers(frame'["manager"], t)
<1>1. frame'["actor"] = IdleFrame /\ frame'["manager"] = [IdleFrame EXCEPT !.pc = "recover"]
  BY SMTT(60) DEF Crash, Threads
<1>2. /\ IdleFrame.then = "idle"
      /\ [IdleFrame EXCEPT !.pc = "recover"].pc = "recover"
      /\ [IdleFrame EXCEPT !.pc = "recover"].cmd = NoCommand
  BY SMTT(60) DEF IdleFrame
<1> QED
  BY <1>1, <1>2, SMTT(60) DEF ActorRests, RecoveryGoesOn, Recovers

LEMMA OutcomeStep ==
    ASSUME MaxFaults = 0, TypeOK, OwnershipInv, StartInv, OutcomeInv, [Next]_vars
    PROVE  OutcomeInv'
<1> DEFINE a == frame["actor"]
           b == frame'["actor"]
           m == frame["manager"]
           n == frame'["manager"]
<1>1. CASE Crash
  <2>1. OutcomeOnItsWay'
    BY <1>1, CrashRecovers, OnItsWayNext, ZenonT(60) DEF Somewhere
  <2> QED
    BY <1>1, <2>1, CrashRecovers DEF OutcomeInv
<1>2. CASE ~Crash
  <2>1. ActorRests(b)
    BY <1>2, ActorAlone, DeliverSteps, ZenonT(60) DEF OutcomeInv
  <2>2. RecoveryGoesOn(n)
    BY <1>2, ManagerAlone, RecoverSteps, ZenonT(60) DEF OutcomeInv
  <2>3. ASSUME NEW t \in Tasks, OwedRow(task'[t])
        PROVE  Somewhere(t, inbox', outbox', process'[t].phase, b, n)
    <3>1. /\ OwedRow(task[t]) \/ process'[t].phase = "finalized" \/ t \in outbox'
          /\ t \in outbox => t \in outbox'
      BY <1>2, <2>3, OwedSteps, ZenonT(60) DEF OwedAccounted
    <3>2. QueuedIn(inbox, t) => QueuedIn(inbox', t) \/ Delivers(b, t)
      BY <1>2, QueuedSteps, ZenonT(60)
    <3>3. process[t].phase = "finalized" => process'[t].phase = "finalized" \/ QueuedIn(inbox', t)
      BY <1>2, FinalizedSteps, ZenonT(60)
    <3>4. Delivers(a, t) => Delivers(b, t) \/ t \in outbox'
      BY <1>2, <2>3, ActorAlone, DeliverSteps, ZenonT(60) DEF OutcomeInv
    <3>5. Recovers(m, t) /\ OwedRow(task[t]) => Recovers(n, t) \/ QueuedIn(inbox', t)
      BY <1>2, ManagerAlone, RecoverSteps, ZenonT(60) DEF OutcomeInv
    <3>6. OwedRow(task[t]) => Somewhere(t, inbox, outbox, process[t].phase, a, m)
      BY OnItsWayIs, ZenonT(60) DEF OutcomeInv
    <3> QED
      BY <3>1, <3>2, <3>3, <3>4, <3>5, <3>6, ZenonT(60) DEF Somewhere
  <2>4. OutcomeOnItsWay'
    BY <2>3, OnItsWayNext, ZenonT(60)
  <2> QED
    BY <2>1, <2>2, <2>4 DEF OutcomeInv
<1> QED
  BY <1>1, <1>2

(* Nothing that ended is forgotten: while the store does not fail, an       *)
(* outcome that nobody has received waits in the outbox or is on its way    *)
(* there, through stops, restarts and transports that come and go           *)
(* (_terminate_process, _handle_terminated, _flush_deliveries,              *)
(* request_result_delivery).                                                *)
THEOREM OutcomeIsNotDropped == ASSUME MaxFaults = 0 PROVE Spec => []OutcomeOnItsWay
<1> DEFINE I == OwnershipInv /\ StartInv /\ OutcomeInv
<1>1. Init => I
  <2> SUFFICES ASSUME Init PROVE OutcomeInv
    BY StartInit, OwnershipInit, SMTT(60)
  <2>1. OutcomeOnItsWay
    BY ZenonT(60) DEF Init, OutcomeOnItsWay, NoTask
  <2>2. frame["actor"] = IdleFrame /\ frame["manager"] = IdleFrame
    BY SMTT(60) DEF Init, Threads
  <2>3. ActorRests(IdleFrame) /\ RecoveryGoesOn(IdleFrame)
    BY ZenonT(60) DEF ActorRests, RecoveryGoesOn, IdleFrame
  <2> QED
    BY <2>1, <2>2, <2>3, SMTT(60) DEF OutcomeInv
<1>2. TypeOK /\ I /\ [Next]_vars => I'
  <2> SUFFICES ASSUME TypeOK, I, [Next]_vars PROVE I'
    OBVIOUS
  <2>1. OwnershipInv'
    BY OwnershipStep
  <2>2. StartInv'
    BY StartStep
  <2>3. OutcomeInv'
    BY OutcomeStep
  <2> QED
    BY <2>1, <2>2, <2>3
<1>3. I => OutcomeOnItsWay
  BY DEF OutcomeInv
<1> HIDE DEF I
<1> QED
  BY <1>1, <1>2, <1>3, TypeCorrect, PTL DEF Spec

-----------------------------------------------------------------------------
(* A late termination finds nothing to settle *)

(* A termination that waits is about an older task than any run, started or *)
(* about to start, of its exchange.                                         *)
InOrder(c, T, P, f) ==
    c.type = "terminated" /\ c.ex # None =>
        /\ T[c.t].status # "absent" /\ T[c.t].ex = c.ex
        /\ \A u \in Tasks : P[u].phase # "none" /\ T[u].ex = c.ex => c.t < u
        /\ f.pc = "assemble" /\ T[f.t].ex = c.ex => c.t < f.t

TerminationsInOrder ==
    \A i \in 1..Len(inbox) : InOrder(inbox[i], task, process, frame["actor"])

LastRow(t) == ~Stored(t) /\ StoredNext(t) => \A u \in Tasks : Stored(u) => u < t

(* Ids are handed out in creation order. *)
LEMMA RowsAreAdded ==
    ASSUME TypeOK, OwnershipInv, OnlyActorStarts, [Next]_vars
    PROVE  \A t \in Tasks : LastRow(t)
<1> DEFINE Fine == \A t \in Tasks : LastRow(t)
<1>0. ASSUME \A t \in Tasks : task'[t].status = task[t].status \/ Stored(t) PROVE Fine
  BY <1>0, SMTT(60) DEF LastRow, Stored, StoredNext
<1>u. ASSUME UNCHANGED task PROVE Fine
  BY <1>0, <1>u, SMTT(60)
<1>n. ASSUME NEW t \in Tasks, NextTask(t), NEW r, task' = [task EXCEPT ![t] = r] PROVE Fine
  <2>1. \A u \in Tasks : u # t => task'[u] = task[u]
    BY <1>n, ZenonT(60) DEF TypeOK
  <2>2. \A u \in Tasks : Stored(u) => u < t
    BY <1>n, BoundsAssumption, SMTT(60) DEF NextTask, Stored, Tasks
  <2> QED
    BY <2>1, <2>2, SMTT(60) DEF LastRow, Stored, StoredNext
<1>s. ASSUME NEW th, NEW e, NEW g, _start_answer(th, e, g) PROVE Fine
  <2>1. PICK t \in Tasks :
          /\ NextTask(t)
          /\ task' = [task EXCEPT ![t] = [NoTask EXCEPT !.status = "RUNNING", !.ex = e]]
    BY <1>s, ZenonT(60) DEF _start_answer
  <2> QED
    BY <1>n, <2>1, ZenonT(60)
<1>1. CASE UNCHANGED vars
  BY <1>u, <1>1, ZenonT(60) DEF vars, rows
<1>2. CASE UserNext
  <2>1. CASE spawn_task
    BY <1>n, <2>1, ZenonT(60) DEF spawn_task
  <2> QED
    BY <1>u, <1>2, <2>1, ZenonT(60)
       DEF UserNext, submit, Resend, _handle_cancel, subscribe, unsubscribe, delete_task, rows
<1>3. CASE StopStep
  BY <1>u, <1>3, ZenonT(60) DEF StopStep, ListParked, _cancel_parked_exchanges, rows
<1>4. ASSUME NEW t \in Tasks, PumpStep(t) PROVE Fine
  <2>1. CASE _finalize(t)
    <3>1. \A u \in Tasks : u # t => task'[u] = task[u]
      BY <2>1, ZenonT(60) DEF _finalize, TypeOK
    <3>2. Stored(t)
      BY <2>1, ZenonT(60) DEF _finalize, OwnershipInv, RowsExist, Processes, Live
    <3> QED
      BY <1>0, <3>1, <3>2, ZenonT(60)
  <2> QED
    BY <1>u, <1>4, <2>1, ZenonT(60)
       DEF PumpStep, Iterate, Finish, AskUser, ask_user, _terminate_process, rows
<1>5. CASE ActorStep
  <2>1. CASE _ensure_owner \/ _resume_open_exchange("actor")
    BY <1>s, <1>u, <2>1, ZenonT(60) DEF _ensure_owner, _resume_open_exchange
  <2>2. CASE _handle_terminated
    <3> DEFINE c == frame["actor"].cmd
               T == IF ToQueue(c) THEN {c.t} ELSE {}
               R == IF StampedAtOnce(c) THEN [task EXCEPT ![c.t].delivered = TRUE] ELSE task
    <3>1. c.t \in Tasks
      BY <2>2, ActorFrame, ZenonT(60) DEF _handle_terminated, AtCommand
    <3>2. _flush_deliveries(T, R)
      BY <2>2 DEF _handle_terminated
    <3>3. R \in [Tasks -> TaskType]
      BY <3>1, TaskUpdates, ZenonT(60) DEF TypeOK
    <3>4. \A t \in Tasks : R[t].status = task[t].status
      BY <3>1, ZenonT(60) DEF TypeOK, TaskType
    <3> HIDE DEF T, R
    <3> QED
      BY <1>0, <3>2, <3>3, <3>4, FlushKeepsRows, ZenonT(60)
  <2>3. CASE HandleFlush
    <3>1. _flush_deliveries({}, task) /\ task \in [Tasks -> TaskType]
      BY <2>3, ZenonT(60) DEF HandleFlush, TypeOK
    <3> QED
      BY <1>0, <3>1, FlushKeepsRows, ZenonT(60)
  <2>4. CASE SkipDuplicate \/ _handle_submit \/ _route \/ _collect_material
             \/ _cancel_exchanges \/ _apply_route \/ set_exchange
    BY <1>u, <2>4, ZenonT(60) DEF SkipDuplicate, _handle_submit, _route, _collect_material,
         _cancel_exchanges, _apply_route, set_exchange, rows
  <2>5. CASE _settle_exchange \/ _handle_promote \/ PromoteAlone \/ _reparent_material
             \/ ReviveTarget \/ _create_process("actor") \/ Resumed("actor")
    BY <1>u, <2>5, ZenonT(60) DEF _settle_exchange, _handle_promote, PromoteAlone,
         _reparent_material, ReviveTarget, _create_process, Resumed, rows
  <2> QED
    BY <1>5, <2>1, <2>2, <2>3, <2>4, <2>5, ZenonT(60) DEF ActorStep
<1>6. CASE SweeperStep
  BY <1>u, <1>6, ZenonT(60) DEF SweeperStep, QuietElapses, promote_collected, rows
<1>7. CASE FaultNext
  BY <1>u, <1>7, ZenonT(60) DEF FaultNext, PersistFails, SettleFails, CommandFails, Crash,
       FinalizeFails, AskFails, rows
<1> QED
  BY <1>1, <1>2, <1>3, <1>4, <1>5, <1>6, <1>7, ManagerRests, SMTT(60) DEF Next

(* A termination stays in order while it waits: what the exchange gets next *)
(* is a newer task.                                                         *)
LEMMA OrderKept ==
    ASSUME TypeOK, OwnershipInv, OnlyActorStarts, [Next]_vars,
           NEW c \in CommandType, InOrder(c, task, process, frame["actor"])
    PROVE  InOrder(c, task', process', frame'["actor"])
<1> SUFFICES ASSUME c.type = "terminated", c.ex # None
             PROVE  /\ task'[c.t].status # "absent" /\ task'[c.t].ex = c.ex
                    /\ \A u \in Tasks : process'[u].phase # "none" /\ task'[u].ex = c.ex => c.t < u
                    /\ frame'["actor"].pc = "assemble" /\ task'[frame'["actor"].t].ex = c.ex
                           => c.t < frame'["actor"].t
  BY ZenonT(60) DEF InOrder
<1>0. /\ \A t \in Tasks : RowKept(t)
      /\ ProcessesAccounted /\ FramesAccounted
  BY RowsKept, ProcessSteps, FrameSteps, SMTT(60) DEF OwnershipInv
<1>1. c.t \in Tasks
  BY CommandFields, ZenonT(60)
<1>2. /\ Stored(c.t) /\ task[c.t].ex = c.ex
      /\ \A u \in Tasks : Live(u) /\ task[u].ex = c.ex => c.t < u
      /\ frame["actor"].pc = "assemble" /\ task[frame["actor"].t].ex = c.ex => c.t < frame["actor"].t
  BY ZenonT(60) DEF InOrder, Stored, Live
<1>3. task'[c.t].status # "absent" /\ task'[c.t].ex = c.ex
  BY <1>0, <1>1, <1>2, ZenonT(60) DEF RowKept, StoredNext
<1>4. ASSUME NEW u \in Tasks, LiveNext(u), task'[u].ex = c.ex PROVE c.t < u
  <2>1. CASE GoesOn(u)
    <3>1. Live(u) /\ Stored(u)
      BY <2>1, ZenonT(60) DEF GoesOn, OwnershipInv, RowsExist, Processes
    <3> QED
      BY <1>0, <1>2, <1>4, <3>1, ZenonT(60) DEF RowKept
  <2>2. CASE Background(u)
    BY <1>4, <2>2, ZenonT(60) DEF Background, OnlyActorStarts
  <2>3. CASE Created(u)
    BY <1>2, <1>4, <2>3, ZenonT(60) DEF Created, OnlyActorStarts, Threads
  <2> QED
    BY <1>0, <1>4, <2>1, <2>2, <2>3, ZenonT(60) DEF ProcessesAccounted
<1>5. ASSUME frame'["actor"].pc = "assemble", task'[frame'["actor"].t].ex = c.ex
      PROVE  c.t < frame'["actor"].t
  <2>1. CASE frame'["actor"] = frame["actor"]
    <3>1. frame["actor"].t \in Tasks /\ Stored(frame["actor"].t)
      BY <1>5, <2>1, ActorFrame, ZenonT(60)
         DEF OwnershipInv, AssemblesAnswer, RowsExist, Threads, FrameType
    <3> QED
      BY <1>0, <1>2, <1>5, <2>1, <3>1, ZenonT(60) DEF RowKept
  <2>2. CASE Starting("actor")
    BY <1>1, <1>2, <2>2, RowsAreAdded, ZenonT(60) DEF Starting, LastRow
  <2> QED
    BY <1>0, <1>5, <2>1, <2>2, ZenonT(60) DEF FramesAccounted, Threads
<1> QED
  BY <1>3, <1>4, <1>5, ZenonT(60) DEF LiveNext

(* A run that ends was the only one of its exchange. *)
LEMMA OrderEntered ==
    ASSUME TypeOK, OwnershipInv, OnlyActorStarts, OneRunPerExchange, NEW t \in Tasks,
           _terminate_process(t)
    PROVE  InOrder(_ProcessTerminated(t), task', process', frame'["actor"])
<1>1. _ProcessTerminated(t).t = t /\ _ProcessTerminated(t).ex = task[t].ex
  BY ZenonT(60) DEF _ProcessTerminated
<1>2. task' = task /\ frame' = frame
  BY ZenonT(60) DEF _terminate_process, rows
<1>3. Live(t) /\ Stored(t)
  BY ZenonT(60) DEF _terminate_process, Live, OwnershipInv, RowsExist, Processes
<1>4. ASSUME NEW u \in Tasks, process'[u].phase # "none" PROVE Live(u) /\ u # t
  BY <1>4, ZenonT(60) DEF _terminate_process, TypeOK, NoProcess, Live
<1>5. ASSUME NEW u \in Tasks, process'[u].phase # "none", task[u].ex = task[t].ex, task[t].ex # None
      PROVE  FALSE
  BY <1>3, <1>4, <1>5, ZenonT(60) DEF OneRunPerExchange, Processes
<1>6. ~(frame["actor"].pc = "assemble" /\ task[frame["actor"].t].ex = task[t].ex)
  BY <1>3, ZenonT(60) DEF OnlyActorStarts, _live_process_for, Processes
<1> QED
  BY <1>1, <1>2, <1>3, <1>5, <1>6, ZenonT(60) DEF InOrder, Stored

LEMMA OrderStep ==
    ASSUME TypeOK, OwnershipInv, OnlyActorStarts, OneRunPerExchange, TerminationsInOrder, [Next]_vars
    PROVE  TerminationsInOrder'
<1> DEFINE Fine == \A i \in 1..Len(inbox') : InOrder(inbox'[i], task', process', frame'["actor"])
<1> SUFFICES Fine
  BY DEF TerminationsInOrder
<1>old. \A i \in 1..Len(inbox) : InOrder(inbox[i], task', process', frame'["actor"])
  <2> SUFFICES ASSUME NEW i \in 1..Len(inbox) PROVE InOrder(inbox[i], task', process', frame'["actor"])
    OBVIOUS
  <2>1. inbox[i] \in CommandType
    BY SMTT(60) DEF TypeOK
  <2>2. InOrder(inbox[i], task, process, frame["actor"])
    BY ZenonT(60) DEF TerminationsInOrder
  <2> QED
    BY <2>1, <2>2, OrderKept, ZenonT(60)
<1>p. ASSUME NEW c, c.type # "terminated" \/ c.ex = None PROVE InOrder(c, task', process', frame'["actor"])
  BY <1>p, ZenonT(60) DEF InOrder
<1>add. ASSUME NEW c, InOrder(c, task', process', frame'["actor"]), inbox' = Append(inbox, c) PROVE Fine
  <2>1. Len(inbox') = Len(inbox) + 1 /\ Len(inbox) \in Nat
    BY <1>add, SMTT(60) DEF TypeOK
  <2>2. \A i \in 1..Len(inbox') : inbox'[i] = IF i = Len(inbox) + 1 THEN c ELSE inbox[i]
    BY <1>add, SMTT(60) DEF TypeOK
  <2> QED
    BY <1>add, <1>old, <2>1, <2>2, SMTT(60)
<1>cut. ASSUME inbox # <<>>, inbox' = Tail(inbox) PROVE Fine
  <2>1. Len(inbox') = Len(inbox) - 1 /\ Len(inbox) \in Nat \ {0}
    BY <1>cut, SMTT(60) DEF TypeOK
  <2>2. \A i \in 1..Len(inbox') : inbox'[i] = inbox[i + 1]
    BY <1>cut, <2>1, SMTT(60) DEF TypeOK
  <2> QED
    BY <1>old, <2>1, <2>2, SMTT(60)
<1>1. CASE inbox' = inbox
  BY <1>old, <1>1, ZenonT(60)
<1>2. ASSUME NEW c, PlainCommand(c), inbox' = Append(inbox, c) PROVE Fine
  BY <1>add, <1>p, <1>2, ZenonT(60) DEF PlainCommand
<1>3. CASE request_result_delivery
  <2> DEFINE c == Redelivery(First(frame["manager"].live))
  <2>1. inbox' = inbox \/ inbox' = Append(inbox, c)
    BY <1>3, SMTT(60) DEF request_result_delivery
  <2>2. c.ex = None
    BY SMTT(60) DEF Redelivery, NoCommand
  <2> HIDE DEF c
  <2>3. PICK d : d = c
    BY SMTT(60)
  <2>4. InOrder(d, task', process', frame'["actor"])
    BY <1>p, <2>2, <2>3, ZenonT(60)
  <2> QED
    BY <1>add, <1>1, <2>1, <2>3, <2>4, ZenonT(60)
<1>4. ASSUME NEW t \in Tasks, _terminate_process(t) PROVE Fine
  <2>1. inbox' = Append(inbox, _ProcessTerminated(t))
    BY <1>4, ZenonT(60) DEF _terminate_process
  <2>2. InOrder(_ProcessTerminated(t), task', process', frame'["actor"])
    BY <1>4, OrderEntered, ZenonT(60)
  <2>3. PICK d : d = _ProcessTerminated(t)
    BY SMTT(60)
  <2> QED
    BY <1>add, <2>1, <2>2, <2>3, ZenonT(60)
<1>5. CASE (\E type \in {"submit", "flush", "promote"} : Taken(type)) \/ _settle_exchange \/ SettleFails
  <2>1. inbox # <<>> /\ inbox' = Tail(inbox)
    BY <1>5, ZenonT(60) DEF _settle_exchange, SettleFails, Taken
  <2> QED
    BY <1>cut, <2>1, ZenonT(60)
<1>6. CASE Crash
  <2>1. 1..Len(inbox') = {}
    BY <1>6, SMTT(60) DEF Crash
  <2> QED
    BY <2>1, ZenonT(60)
<1> QED
  BY InboxSteps, <1>1, <1>2, <1>3, <1>4, <1>5, <1>6, ZenonT(60) DEF InboxAccounted

(* When the actor takes a termination, only the settle writes a status. *)
LEMMA OnlySettleWrites ==
    ASSUME TypeOK, OnlyActorStarts, Taken("terminated"), [Next]_vars
    PROVE  UNCHANGED status \/ _settle_exchange
<1> DEFINE Fine == UNCHANGED status \/ _settle_exchange
<1>0. frame["actor"].pc = "idle" /\ Head(inbox).type = "terminated"
  BY ZenonT(60) DEF Taken
<1>1. inbox' # inbox
  <2>1. Len(inbox') = Len(inbox) - 1 /\ Len(inbox) \in Nat
    BY SMTT(60) DEF TypeOK, Taken
  <2> QED
    BY <2>1, SMTT(60)
<1>2. CASE UNCHANGED vars
  BY <1>2, SMTT(60) DEF vars, rows
<1>3. CASE UserNext
  BY <1>3, ZenonT(60)
     DEF UserNext, submit, Resend, _handle_cancel, subscribe, unsubscribe, spawn_task,
         delete_task, rows
<1>4. CASE StopStep
  BY <1>1, <1>4, SMTT(60) DEF StopStep, ListParked, _cancel_parked_exchanges, rows
<1>5. ASSUME NEW t \in Tasks, PumpStep(t) PROVE Fine
  BY <1>1, <1>5, ZenonT(60)
     DEF PumpStep, Iterate, Finish, AskUser, ask_user, _finalize, _terminate_process, rows
<1>6. CASE ActorStep
  <2>1. CASE SkipDuplicate \/ _handle_submit \/ HandleFlush \/ _handle_promote
    BY <1>0, <2>1, ZenonT(60)
       DEF SkipDuplicate, _handle_submit, HandleFlush, _handle_promote, Taken
  <2>2. CASE _route \/ _collect_material \/ _cancel_exchanges \/ _apply_route \/ set_exchange
             \/ _ensure_owner \/ _create_process("actor") \/ _resume_open_exchange("actor")
             \/ Resumed("actor") \/ _handle_terminated
    BY <1>0, <2>2, ZenonT(60)
       DEF _route, _collect_material, _cancel_exchanges, _apply_route, set_exchange, _ensure_owner,
           _create_process, _resume_open_exchange, Resumed, _handle_terminated
  <2>3. CASE PromoteAlone \/ _reparent_material \/ ReviveTarget
    BY <1>0, <2>3, SMTT(60) DEF PromoteAlone, _reparent_material, ReviveTarget
  <2> QED
    BY <1>6, <2>1, <2>2, <2>3, SMTT(60) DEF ActorStep
<1>7. CASE SweeperStep
  BY <1>7, ZenonT(60) DEF SweeperStep, QuietElapses, promote_collected, rows
<1>8. CASE FaultNext
  BY <1>8, ZenonT(60) DEF FaultNext, PersistFails, SettleFails, CommandFails, Crash,
       FinalizeFails, AskFails, rows
<1> QED
  BY <1>2, <1>3, <1>4, <1>5, <1>6, <1>7, <1>8, ManagerRests, SMTT(60) DEF Next

(* A settle that applies is about the newest task of a live exchange, and   *)
(* the tasks of live runs are newer than the terminations that wait.        *)
LEMMA SettleIsInert ==
    ASSUME TypeOK, TerminationsInOrder, _settle_exchange, NEW e \in Exchanges,
           status[e] \in ClosedStatuses \/ _live_process_for(e) # {}
    PROVE  status'[e] = status[e]
<1> DEFINE c == Head(inbox)
<1>1. c \in CommandType /\ c.type = "terminated" /\ InOrder(c, task, process, frame["actor"])
  <2>1. inbox # <<>> /\ c.type = "terminated"
    BY SMTT(60) DEF _settle_exchange, Taken
  <2>2. 1 \in 1..Len(inbox) /\ Head(inbox) = inbox[1] /\ Head(inbox) \in CommandType
    BY <2>1, SMTT(60) DEF TypeOK
  <2> QED
    BY <2>1, <2>2, SMTT(60) DEF TerminationsInOrder
<1>2. UNCHANGED status \/ (c.ex # None /\ \E s, keep : settle_owned(c, s, keep))
  BY ZenonT(60) DEF _settle_exchange
<1> HIDE DEF c
<1>3. ASSUME NEW s, NEW keep, settle_owned(c, s, keep), c.ex # None PROVE status'[e] = status[e]
  <2>1. CASE c.ex # e
    BY <1>3, <2>1, ZenonT(60) DEF settle_owned, set_status, TypeOK
  <2>2. CASE c.ex = e
    <3>1. CASE status[e] \in ClosedStatuses
      BY <1>3, <2>2, <3>1, ZenonT(60)
         DEF settle_owned, SettleApplies, LiveStatuses, ClosedStatuses
    <3>2. ASSUME NEW u \in _live_process_for(e) PROVE ~_newest_task_of(e, c.t)
      <4>1. u \in Tasks /\ process[u].phase # "none" /\ task[u].ex = e
        BY <3>2, ZenonT(60) DEF _live_process_for, Processes, Live
      <4>2. c.t < u /\ c.t \in Tasks
        BY <1>1, <1>3, <2>2, <4>1, CommandFields, ZenonT(60) DEF InOrder
      <4> QED
        BY <4>1, <4>2, BoundsAssumption, SMTT(60) DEF _newest_task_of, Tasks
    <3>3. CASE _live_process_for(e) # {}
      BY <1>3, <2>2, <3>2, <3>3, ZenonT(60) DEF settle_owned, SettleApplies
    <3> QED
      BY <3>1, <3>3
  <2> QED
    BY <2>1, <2>2
<1> QED
  BY <1>2, <1>3, SMTT(60)

(* A termination that comes late changes nothing: between two restarts, a   *)
(* _ProcessTerminated taken by the actor neither reopens an exchange that   *)
(* is closed nor settles one that has a run (settle_owned's guard).         *)
THEOREM LateTermination == ASSUME MaxCrashes = 0 PROVE Spec => LateTerminationIsInert
<1> DEFINE I == OwnershipInv /\ OnlyActorStarts /\ OneRunPerExchange /\ TerminationsInOrder
<1>1. Init => I
  <2>1. Init => TerminationsInOrder
    BY SMTT(60) DEF Init, TerminationsInOrder
  <2> QED
    BY <2>1, OneRunInit, OwnershipInit, ZenonT(60)
<1>2. TypeOK /\ I /\ [Next]_vars => I'
  BY OwnershipStep, OnlyActorStartsStep, OneRunStep, OrderStep, SMTT(60)
<1> DEFINE A == \A e \in Exchanges :
                  Taken("terminated") /\ (status[e] \in ClosedStatuses \/ _live_process_for(e) # {})
                      => status'[e] = status[e]
<1>3. TypeOK /\ I /\ [Next]_vars => A
  BY OnlySettleWrites, SettleIsInert, SMTT(60)
<1>4. LateTerminationIsInert <=> [][A]_vars
  BY DEF LateTerminationIsInert
<1> HIDE DEF I, A
<1> QED
  BY <1>1, <1>2, <1>3, <1>4, TypeCorrect, PTL DEF Spec

-----------------------------------------------------------------------------
(* An exchange in progress is owed *)

(* What the argument needs besides: a termination that waits tells the      *)
(* truth about the row of its task, and a row that is not there answers no  *)
(* exchange.                                                                *)
Faithful(c, T) ==
    c.type = "terminated" => T[c.t].status # "absent" /\ T[c.t].ex = c.ex /\ c.outcome # "none"

OwedInv ==
    /\ InProgressIsOwed
    /\ \A i \in 1..Len(inbox) : Faithful(inbox[i], task)
    /\ \A t \in Tasks : ~Stored(t) => task[t].ex = None

LEMMA NoFaultStep == ASSUME MaxCrashes = 0, MaxFaults = 0, TypeOK PROVE ~FaultNext
<1>1. ~Crash
  BY SMTT(60) DEF Crash, Spend, TypeOK, Events
<1> QED
  BY <1>1, NoFault, ZenonT(60)
     DEF FaultNext, PersistFails, SettleFails, CommandFails, FinalizeFails, AskFails

(* The actor starts an answer, or no exchange enters IN_PROGRESS and no new *)
(* row answers one.                                                         *)
Begins(e, t) ==
    /\ NextTask(t)
    /\ task' = [task EXCEPT ![t] = [NoTask EXCEPT !.status = "RUNNING", !.ex = e]]
    /\ set_status(e, "IN_PROGRESS")
    /\ frame["actor"].pc # "assemble" /\ frame'["actor"].pc = "assemble" /\ frame'["actor"].t = t
    /\ UNCHANGED <<process, inbox>>

NoneEnters == \A e \in Exchanges : status'[e] = "IN_PROGRESS" => status[e] = "IN_PROGRESS"

NoneAnswers == \A t \in Tasks : ~Stored(t) => task'[t].ex = task[t].ex \/ task'[t].ex = None

(* A settle moves its exchange, and never into IN_PROGRESS. *)
LEMMA SettleTarget ==
    ASSUME TypeOK, _settle_exchange
    PROVE  \/ (Head(inbox).outcome = "none" \/ Head(inbox).ex = None) /\ UNCHANGED status
           \/ \E s, keep : s # "IN_PROGRESS" /\ settle_owned(Head(inbox), s, keep)
<1> DEFINE c == Head(inbox)
           cancelled == c.outcome = "CANCELLED"
           target == CASE ~cancelled /\ c.unseen = "SPOKEN" -> "OPEN"
                       [] ~cancelled /\ c.unseen = "MATERIAL_ONLY" -> "COLLECTING"
                       [] OTHER -> c.outcome
           keep == ~cancelled /\ c.unseen = "NONE"
<1>1. IF c.outcome = "none" \/ c.ex = None THEN UNCHANGED status ELSE settle_owned(c, target, keep)
  BY ZenonT(60) DEF _settle_exchange
<1>2. c \in CommandType
  BY TakenTyped, ZenonT(60) DEF _settle_exchange
<1> HIDE DEF c
<1>3. c.outcome # "IN_PROGRESS"
  BY <1>2, CommandFields, SMTT(60) DEF ClosedStatuses
<1>4. target # "IN_PROGRESS"
  BY <1>3, SMTT(60)
<1> HIDE DEF target, keep
<1> QED
  BY <1>1, <1>4, ZenonT(60) DEF c

LEMMA AnswersStart ==
    ASSUME MaxCrashes = 0, MaxFaults = 0, TypeOK, OnlyActorStarts, [Next]_vars
    PROVE  (\E e, t : t \in Tasks /\ Begins(e, t)) \/ (NoneEnters /\ NoneAnswers)
<1> DEFINE Fine == (\E e, t : t \in Tasks /\ Begins(e, t)) \/ (NoneEnters /\ NoneAnswers)
           f == frame["actor"]
<1>s. ASSUME UNCHANGED status PROVE NoneEnters
  BY <1>s, ZenonT(60) DEF NoneEnters
<1>w. ASSUME NEW e, NEW s, s # "IN_PROGRESS", set_status(e, s) PROVE NoneEnters
  BY <1>w, ZenonT(60) DEF NoneEnters, set_status, TypeOK
<1>t. ASSUME UNCHANGED task PROVE NoneAnswers
  BY <1>t, ZenonT(60) DEF NoneAnswers
<1>x. ASSUME \A t \in Tasks : task'[t].ex = task[t].ex PROVE NoneAnswers
  BY <1>x, ZenonT(60) DEF NoneAnswers
<1>r. ASSUME UNCHANGED rows PROVE Fine
  BY <1>r, <1>s, <1>t, ZenonT(60) DEF rows
<1>b. ASSUME NEW e, NEW g \in FrameType(Exchanges), _start_answer("actor", e, g), f.pc # "assemble",
             UNCHANGED <<process, inbox>>
      PROVE  Fine
  <2>1. PICK t \in Tasks :
          /\ NextTask(t)
          /\ task' = [task EXCEPT ![t] = [NoTask EXCEPT !.status = "RUNNING", !.ex = e]]
          /\ Goto("actor", [g EXCEPT !.pc = "assemble", !.t = t])
    BY <1>b, ZenonT(60) DEF _start_answer
  <2>2. set_status(e, "IN_PROGRESS")
    BY <1>b, ZenonT(60) DEF _start_answer
  <2>3. frame'["actor"] = [g EXCEPT !.pc = "assemble", !.t = t]
    BY <2>1, ZenonT(60) DEF Goto, TypeOK, FramesOK, Threads
  <2>4. frame'["actor"].pc = "assemble" /\ frame'["actor"].t = t
    BY <1>b, <2>3 DEF FrameType
  <2> QED
    BY <1>b, <2>1, <2>2, <2>4, ZenonT(60) DEF Begins
<1>1. CASE UNCHANGED vars
  BY <1>r, <1>1, ZenonT(60) DEF vars
<1>2. CASE UserNext
  <2>1. CASE spawn_task
    <3>1. UNCHANGED status
      BY <2>1, ZenonT(60) DEF spawn_task
    <3>2. PICK t \in Tasks : task' = [task EXCEPT ![t] = [NoTask EXCEPT !.status = "RUNNING"]]
      BY <2>1, ZenonT(60) DEF spawn_task
    <3>3. [NoTask EXCEPT !.status = "RUNNING"].ex = None
      BY DEF NoTask
    <3>4. NoneAnswers
      BY <3>2, <3>3, ZenonT(60) DEF NoneAnswers, TypeOK
    <3> QED
      BY <1>s, <3>1, <3>4, ZenonT(60)
  <2> QED
    BY <1>r, <1>s, <1>t, <1>2, <2>1, ZenonT(60)
       DEF UserNext, submit, Resend, _handle_cancel, subscribe, unsubscribe, delete_task
<1>3. CASE StopStep
  BY <1>r, <1>s, <1>w, <1>t, <1>3, ZenonT(60) DEF StopStep, ListParked, _cancel_parked_exchanges
<1>4. ASSUME NEW t \in Tasks, PumpStep(t) PROVE Fine
  <2>1. CASE _finalize(t)
    <3>1. \A u \in Tasks : task'[u].ex = task[u].ex
      <4>1. PICK s, d, m : task' = [task EXCEPT ![t].status = s, ![t].delivered = d, ![t].empty = m]
        BY <2>1, ZenonT(60) DEF _finalize
      <4> QED
        BY <4>1, SMTT(60) DEF TypeOK, TaskType
    <3>2. UNCHANGED status
      BY <2>1, ZenonT(60) DEF _finalize
    <3> QED
      BY <1>s, <1>x, <3>1, <3>2, ZenonT(60)
  <2>2. CASE ask_user(t)
    BY <1>w, <1>t, <2>2, ZenonT(60) DEF ask_user
  <2> QED
    BY <1>r, <1>4, <2>1, <2>2, ZenonT(60)
       DEF PumpStep, Iterate, Finish, AskUser, _terminate_process
<1>5. CASE ActorStep
  <2>f. f \in FrameType(Exchanges)
    BY ActorFrame
  <2>1. CASE _ensure_owner
    BY <1>b, <1>s, <1>t, <2>f, <2>1, ZenonT(60) DEF _ensure_owner
  <2>2. CASE _resume_open_exchange("actor")
    <3> DEFINE e == First(f.todo)
               g == [f EXCEPT !.todo = @ \ {e}]
    <3>1. f.pc = "resume" /\ UNCHANGED <<process, inbox>>
          /\ (UNCHANGED <<status, task>> \/ _start_answer("actor", e, g))
      BY <2>2, ZenonT(60) DEF _resume_open_exchange
    <3> HIDE DEF e
    <3>2. g \in FrameType(Exchanges)
      BY <2>f DEF FrameType
    <3> HIDE DEF g
    <3> QED
      BY <1>b, <1>s, <1>t, <3>1, <3>2, ZenonT(60)
  <2>3. CASE _settle_exchange
    <3>1. UNCHANGED task
      BY <2>3, ZenonT(60) DEF _settle_exchange
    <3>2. NoneEnters
      BY <1>s, <1>w, <2>3, SettleTarget, ZenonT(60) DEF settle_owned
    <3> QED
      BY <1>t, <3>1, <3>2, ZenonT(60)
  <2>4. CASE _handle_terminated
    <3> DEFINE c == f.cmd
               T == IF ToQueue(c) THEN {c.t} ELSE {}
               R == IF StampedAtOnce(c) THEN [task EXCEPT ![c.t].delivered = TRUE] ELSE task
    <3>1. c.t \in Tasks
      BY <2>4, ActorFrame, ZenonT(60) DEF _handle_terminated, AtCommand
    <3>2. _flush_deliveries(T, R) /\ UNCHANGED status
      BY <2>4 DEF _handle_terminated
    <3>3. R \in [Tasks -> TaskType]
      BY <3>1, TaskUpdates, ZenonT(60) DEF TypeOK
    <3>4. \A t \in Tasks : R[t].ex = task[t].ex
      BY <3>1, ZenonT(60) DEF TypeOK, TaskType
    <3> HIDE DEF T, R
    <3> QED
      BY <1>s, <1>x, <3>2, <3>3, <3>4, FlushKeepsRows, ZenonT(60)
  <2>5. CASE HandleFlush
    <3>1. _flush_deliveries({}, task) /\ task \in [Tasks -> TaskType] /\ UNCHANGED status
      BY <2>5, ZenonT(60) DEF HandleFlush, TypeOK
    <3> QED
      BY <1>s, <1>x, <3>1, FlushKeepsRows, ZenonT(60)
  <2>6. CASE _collect_material
    <3>1. UNCHANGED task
      BY <2>6, ZenonT(60) DEF _collect_material
    <3>2. NoneEnters
      BY <2>6, SMTT(60) DEF _collect_material, NoneEnters, TypeOK
    <3> QED
      BY <1>t, <3>1, <3>2, ZenonT(60)
  <2>7. CASE SkipDuplicate \/ _handle_submit \/ _route \/ _cancel_exchanges \/ _apply_route
             \/ set_exchange \/ _create_process("actor") \/ Resumed("actor")
    BY <1>r, <1>s, <1>w, <1>t, <2>7, ZenonT(60)
       DEF SkipDuplicate, _handle_submit, _route, _cancel_exchanges, _apply_route, set_exchange,
           _create_process, Resumed
  <2>8. CASE _handle_promote \/ PromoteAlone \/ _reparent_material \/ ReviveTarget
    BY <1>s, <1>w, <1>t, <2>8, ZenonT(60)
       DEF _handle_promote, PromoteAlone, _reparent_material, ReviveTarget
  <2> QED
    BY <1>5, <2>1, <2>2, <2>3, <2>4, <2>5, <2>6, <2>7, <2>8, ZenonT(60) DEF ActorStep
<1>6. CASE SweeperStep
  BY <1>r, <1>s, <1>t, <1>6, ZenonT(60) DEF SweeperStep, QuietElapses, promote_collected
<1> QED
  BY <1>1, <1>2, <1>3, <1>4, <1>5, <1>6, ManagerRests, NoFaultStep, ZenonT(60) DEF Next

(* A run goes on until its process ends, which leaves a termination. *)
LEMMA RunsEnd ==
    ASSUME MaxCrashes = 0, MaxFaults = 0, TypeOK, OnlyActorStarts, [Next]_vars,
           NEW t \in Tasks, Live(t)
    PROVE  LiveNext(t) \/ _terminate_process(t)
<1>a. process \in [Tasks -> ProcessType] /\ process[t].phase # "none"
  BY ZenonT(60) DEF TypeOK, Live
<1>0. ASSUME process'[t].phase = process[t].phase PROVE LiveNext(t)
  BY <1>0, <1>a, ZenonT(60) DEF LiveNext
<1>u. ASSUME UNCHANGED process PROVE LiveNext(t)
  BY <1>0, <1>u, ZenonT(60)
<1>n. ASSUME NEW u, NEW p, process' = [process EXCEPT ![u] = p], p.phase # "none" PROVE LiveNext(t)
  <2>1. process'[t] = process[t] \/ process'[t] = p
    BY <1>a, <1>n, SMTT(60)
  <2> QED
    BY <1>a, <1>n, <2>1, ZenonT(60) DEF LiveNext
<1>c. ASSUME NEW u, process' = [process EXCEPT ![u].tripped = TRUE] PROVE LiveNext(t)
  BY <1>0, <1>a, <1>c, SMTT(60) DEF ProcessType
<1>1. CASE UNCHANGED vars
  BY <1>u, <1>1, ZenonT(60) DEF vars
<1>2. CASE UserNext
  <2>1. CASE spawn_task
    <3>1. [NoProcess EXCEPT !.phase = "new"].phase # "none"
      BY DEF NoProcess
    <3> QED
      BY <1>n, <2>1, <3>1, ZenonT(60) DEF spawn_task
  <2>2. CASE _handle_cancel
    <3>1. process'[t] = process[t] \/ process'[t] = [process[t] EXCEPT !.tripped = TRUE]
      BY <2>2, SMTT(60) DEF _handle_cancel
    <3> QED
      BY <1>0, <1>a, <3>1, SMTT(60) DEF ProcessType
  <2> QED
    BY <1>u, <1>c, <1>2, <2>1, <2>2, ZenonT(60)
       DEF UserNext, submit, Resend, subscribe, unsubscribe, delete_task
<1>3. CASE StopStep
  BY <1>u, <1>3, ZenonT(60) DEF StopStep, ListParked, _cancel_parked_exchanges
<1>4. ASSUME NEW u \in Tasks, PumpStep(u) PROVE LiveNext(t) \/ _terminate_process(t)
  <2>1. CASE u # t
    <3>1. process'[t] = process[t]
      BY <1>4, <1>a, <2>1, ZenonT(60)
         DEF PumpStep, Iterate, Finish, AskUser, ask_user, _finalize, _terminate_process
    <3> QED
      BY <1>0, <3>1, ZenonT(60)
  <2>2. CASE u = t /\ Iterate(t)
    <3>1. process'[t].phase = IF process[t].tripped THEN "ended" ELSE "running"
      BY <1>a, <2>2, SMTT(60) DEF Iterate, ProcessType
    <3> QED
      BY <3>1, SMTT(60) DEF LiveNext
  <2>3. ASSUME NEW x \in Terminals, Finish(t, x) PROVE LiveNext(t)
    <3>1. process'[t].phase = "ended"
      BY <1>a, <2>3, SMTT(60) DEF Finish, ProcessType
    <3> QED
      BY <3>1, ZenonT(60) DEF LiveNext
  <2>4. CASE AskUser(t) \/ ask_user(t)
    <3>1. PICK x : process' = [process EXCEPT ![t].ask = x]
      BY <2>4, ZenonT(60) DEF AskUser, ask_user
    <3> QED
      BY <1>0, <1>a, <3>1, SMTT(60) DEF ProcessType
  <2>5. CASE _finalize(t)
    <3>1. process' = [process EXCEPT ![t].phase = "finalized"]
      BY <2>5, ZenonT(60) DEF _finalize
    <3>2. process'[t].phase = "finalized"
      BY <1>a, <3>1, SMTT(60) DEF ProcessType
    <3> QED
      BY <3>2, ZenonT(60) DEF LiveNext
  <2> QED
    BY <1>4, <2>1, <2>2, <2>3, <2>4, <2>5, ZenonT(60) DEF PumpStep
<1>5. CASE ActorStep
  <2>1. CASE _cancel_exchanges
    BY <1>u, <1>c, <2>1, ZenonT(60) DEF _cancel_exchanges
  <2>2. CASE _create_process("actor")
    <3>1. PICK S, n, b : process' = [process EXCEPT ![frame["actor"].t] =
             [NoProcess EXCEPT !.phase = "new", !.seen = S, !.epoch = n, !.tripped = b]]
      BY <2>2, ZenonT(60) DEF _create_process
    <3>2. [NoProcess EXCEPT !.phase = "new", !.seen = S, !.epoch = n, !.tripped = b].phase # "none"
      BY DEF NoProcess
    <3> QED
      BY <1>n, <3>1, <3>2, ZenonT(60)
  <2>3. CASE SkipDuplicate \/ _handle_submit \/ _route \/ _collect_material
             \/ _apply_route \/ set_exchange \/ _ensure_owner
             \/ _resume_open_exchange("actor") \/ Resumed("actor")
    BY <1>u, <2>3, ZenonT(60)
       DEF SkipDuplicate, _handle_submit, _route, _collect_material, _apply_route,
           set_exchange, _ensure_owner, _resume_open_exchange, Resumed
  <2>4. CASE _settle_exchange \/ _handle_terminated \/ HandleFlush \/ _handle_promote
             \/ PromoteAlone \/ _reparent_material \/ ReviveTarget
    BY <1>u, <2>4, ZenonT(60)
       DEF _settle_exchange, _handle_terminated, HandleFlush, _handle_promote,
           PromoteAlone, _reparent_material, ReviveTarget
  <2> QED
    BY <1>5, <2>1, <2>2, <2>3, <2>4, ZenonT(60) DEF ActorStep
<1>6. CASE SweeperStep
  BY <1>u, <1>6, ZenonT(60) DEF SweeperStep, QuietElapses, promote_collected
<1> QED
  BY <1>1, <1>2, <1>3, <1>4, <1>5, <1>6, ManagerRests, NoFaultStep, ZenonT(60) DEF Next

(* The actor leaves "assemble" by creating the process. *)
LEMMA AssembledRuns ==
    ASSUME MaxCrashes = 0, MaxFaults = 0, TypeOK, [Next]_vars,
           NEW t \in Tasks, frame["actor"].pc = "assemble", frame["actor"].t = t
    PROVE  LiveNext(t) \/ frame'["actor"] = frame["actor"]
<1>1. CASE ActorStep
  <2>1. _create_process("actor")
    <3>1. ~(SkipDuplicate \/ _handle_submit \/ _settle_exchange \/ HandleFlush \/ _handle_promote)
      BY ZenonT(60)
         DEF SkipDuplicate, _handle_submit, _settle_exchange, HandleFlush, _handle_promote, Taken
    <3>2. ~(_route \/ _collect_material \/ _cancel_exchanges \/ _apply_route \/ set_exchange
            \/ _ensure_owner \/ _resume_open_exchange("actor") \/ Resumed("actor"))
      BY ZenonT(60) DEF _route, _collect_material, _cancel_exchanges, _apply_route, set_exchange,
           _ensure_owner, _resume_open_exchange, Resumed
    <3>3. ~(_handle_terminated \/ PromoteAlone \/ _reparent_material \/ ReviveTarget)
      BY ZenonT(60) DEF _handle_terminated, PromoteAlone, _reparent_material, ReviveTarget
    <3> QED
      BY <1>1, <3>1, <3>2, <3>3, ZenonT(60) DEF ActorStep
  <2>2. PICK S, n, b : process' = [process EXCEPT ![t] =
           [NoProcess EXCEPT !.phase = "new", !.seen = S, !.epoch = n, !.tripped = b]]
    BY <2>1, ZenonT(60) DEF _create_process
  <2>3. [NoProcess EXCEPT !.phase = "new", !.seen = S, !.epoch = n, !.tripped = b].phase # "none"
    BY DEF NoProcess
  <2>4. process'[t] = [NoProcess EXCEPT !.phase = "new", !.seen = S, !.epoch = n, !.tripped = b]
    BY <2>2, ZenonT(60) DEF TypeOK
  <2> QED
    BY <2>3, <2>4, ZenonT(60) DEF LiveNext
<1>2. ~Crash
  BY NoFaultStep, ZenonT(60) DEF FaultNext
<1> QED
  BY <1>1, <1>2, ActorAlone, ZenonT(60)

(* What waits in the inbox after a step. *)
LEMMA InboxAfter ==
    ASSUME MaxCrashes = 0, MaxFaults = 0, TypeOK, OnlyActorStarts, [Next]_vars, NEW i \in 1..Len(inbox')
    PROVE  \/ \E j \in 1..Len(inbox) : inbox'[i] = inbox[j]
           \/ inbox'[i].type # "terminated"
           \/ \E t \in Tasks : _terminate_process(t) /\ inbox'[i] = _ProcessTerminated(t)
<1> DEFINE Old == \E j \in 1..Len(inbox) : inbox'[i] = inbox[j]
<1>1. CASE inbox' = inbox
  BY <1>1, ZenonT(60)
<1>2. ASSUME NEW c, inbox' = Append(inbox, c) PROVE Old \/ inbox'[i] = c
  <2>1. Len(inbox') = Len(inbox) + 1 /\ Len(inbox) \in Nat
    BY <1>2, SMTT(60) DEF TypeOK
  <2>2. inbox'[i] = IF i = Len(inbox) + 1 THEN c ELSE inbox[i]
    BY <1>2, SMTT(60) DEF TypeOK
  <2> QED
    BY <2>1, <2>2, SMTT(60)
<1>3. ASSUME inbox # <<>>, inbox' = Tail(inbox) PROVE Old
  <2>1. Len(inbox') = Len(inbox) - 1 /\ Len(inbox) \in Nat \ {0}
    BY <1>3, SMTT(60) DEF TypeOK
  <2>2. inbox'[i] = inbox[i + 1]
    BY <1>3, <2>1, SMTT(60) DEF TypeOK
  <2>3. i + 1 \in 1..Len(inbox)
    BY <2>1, SMTT(60)
  <2> QED
    BY <2>2, <2>3, ZenonT(60)
<1>4. CASE \E c : PlainCommand(c) /\ inbox' = Append(inbox, c)
  BY <1>2, <1>4, ZenonT(60) DEF PlainCommand
<1>5. ASSUME NEW t \in Tasks, _terminate_process(t) PROVE Old \/ inbox'[i] = _ProcessTerminated(t)
  <2>1. PICK d : d = _ProcessTerminated(t)
    OBVIOUS
  <2>2. inbox' = Append(inbox, d)
    BY <1>5, <2>1, ZenonT(60) DEF _terminate_process
  <2> QED
    BY <1>2, <2>1, <2>2, ZenonT(60)
<1>6. CASE (\E type \in {"submit", "flush", "promote"} : Taken(type)) \/ _settle_exchange \/ SettleFails
  <2>1. inbox # <<>> /\ inbox' = Tail(inbox)
    BY <1>6, ZenonT(60) DEF _settle_exchange, SettleFails, Taken
  <2> QED
    BY <1>3, <2>1, ZenonT(60)
<1>7. ~Crash /\ ~request_result_delivery
  BY NoFaultStep, ManagerRests, ZenonT(60) DEF FaultNext, ManagerStep
<1> QED
  BY InboxSteps, <1>1, <1>4, <1>5, <1>6, <1>7, ZenonT(60) DEF InboxAccounted

(* A termination leaves the inbox when the actor settles it. *)
LEMMA QueuedSettles ==
    ASSUME MaxCrashes = 0, MaxFaults = 0, TypeOK, [Next]_vars, NEW t \in Tasks, QueuedIn(inbox, t)
    PROVE  \/ QueuedIn(inbox', t)
           \/ _settle_exchange /\ Head(inbox).type = "terminated" /\ Head(inbox).t = t
<1>1. PICK i \in 1..Len(inbox) : inbox[i].type = "terminated" /\ inbox[i].t = t
  BY ZenonT(60) DEF QueuedIn
<1>2. CASE inbox' = inbox
  BY <1>2, ZenonT(60) DEF QueuedIn
<1>3. ASSUME NEW c, inbox' = Append(inbox, c) PROVE QueuedIn(inbox', t)
  <2>1. i \in 1..Len(inbox') /\ inbox'[i] = inbox[i]
    BY <1>3, SMTT(60) DEF TypeOK
  <2> QED
    BY <1>1, <2>1, ZenonT(60) DEF QueuedIn
<1>4. ASSUME inbox # <<>>, inbox' = Tail(inbox), ~(Head(inbox).type = "terminated" /\ Head(inbox).t = t)
      PROVE  QueuedIn(inbox', t)
  <2>1. Len(inbox') = Len(inbox) - 1 /\ Len(inbox) \in Nat \ {0} /\ Head(inbox) = inbox[1]
    BY <1>4, SMTT(60) DEF TypeOK
  <2>2. i # 1
    BY <1>1, <1>4, <2>1, ZenonT(60)
  <2>3. i - 1 \in 1..Len(inbox') /\ inbox'[i - 1] = inbox[i]
    BY <1>4, <2>1, <2>2, SMTT(60) DEF TypeOK
  <2> QED
    BY <1>1, <2>3, ZenonT(60) DEF QueuedIn
<1>5. CASE request_result_delivery \/ \E u \in Tasks : _terminate_process(u)
  <2>1. inbox' = inbox \/ \E c : inbox' = Append(inbox, c)
    BY <1>5, ZenonT(60) DEF request_result_delivery, _terminate_process
  <2> QED
    BY <1>2, <1>3, <2>1, ZenonT(60)
<1>6. ASSUME NEW type \in {"submit", "flush", "promote"}, Taken(type) PROVE QueuedIn(inbox', t)
  <2>1. inbox # <<>> /\ inbox' = Tail(inbox) /\ Head(inbox).type # "terminated"
    BY <1>6, SMTT(60) DEF Taken
  <2> QED
    BY <1>4, <2>1, ZenonT(60)
<1>7. CASE _settle_exchange
  <2>1. inbox # <<>> /\ inbox' = Tail(inbox)
    BY <1>7, ZenonT(60) DEF _settle_exchange, Taken
  <2> QED
    BY <1>4, <1>7, <2>1, ZenonT(60)
<1>8. ~Crash /\ ~SettleFails
  BY NoFaultStep, ZenonT(60) DEF FaultNext
<1> QED
  BY InboxSteps, <1>2, <1>3, <1>5, <1>6, <1>7, <1>8, ZenonT(60) DEF InboxAccounted

(* InProgressIsOwed while only the actor starts runs, before and after a    *)
(* step.                                                                    *)
NewestNext(e, t) == task'[t].ex = e /\ \A u \in Tasks : task'[u].ex = e => u <= t

Assembles(f, t) == f.pc = "assemble" /\ f.t = t

LEMMA OwedIs ==
    ASSUME OnlyActorStarts, InProgressIsOwed, NEW e \in Exchanges, status[e] = "IN_PROGRESS"
    PROVE  \E t \in Tasks :
              /\ _newest_task_of(e, t)
              /\ Live(t) \/ QueuedIn(inbox, t) \/ Assembles(frame["actor"], t)
<1>1. PICK t \in Tasks :
        /\ _newest_task_of(e, t)
        /\ Live(t) \/ Queued(t) \/ \E th \in Threads : frame[th].pc = "assemble" /\ frame[th].t = t
  BY SMTT(60) DEF InProgressIsOwed, OnlyActorStarts
<1>2. \A th \in Threads : frame[th].pc = "assemble" => th = "actor"
  BY SMTT(60) DEF OnlyActorStarts, Threads
<1> QED
  BY <1>1, <1>2, ZenonT(60) DEF Queued, QueuedIn, Assembles

LEMMA OwedNext ==
    ASSUME \A e \in Exchanges : status'[e] = "IN_PROGRESS" =>
              \E t \in Tasks :
                 /\ NewestNext(e, t)
                 /\ LiveNext(t) \/ QueuedIn(inbox', t) \/ Assembles(frame'["actor"], t)
    PROVE  InProgressIsOwed'
<1>1. "actor" \in Threads
  BY DEF Threads
<1>2. ASSUME NEW t \in Tasks, Assembles(frame'["actor"], t)
      PROVE  \E th \in Threads : frame'[th].pc = "assemble" /\ frame'[th].t = t
  BY <1>1, <1>2, ZenonT(60) DEF Assembles
<1>3. ASSUME NEW e \in Exchanges, NEW t \in Tasks, NewestNext(e, t) PROVE _newest_task_of(e, t)'
  BY <1>3, ZenonT(60) DEF NewestNext, _newest_task_of
<1>4. ASSUME NEW t \in Tasks, LiveNext(t) PROVE Live(t)'
  BY <1>4, ZenonT(60) DEF Live, LiveNext
<1>5. ASSUME NEW t \in Tasks, QueuedIn(inbox', t) PROVE Queued(t)'
  BY <1>5, ZenonT(60) DEF Queued, QueuedIn
<1>6. ASSUME NEW e \in Exchanges, status'[e] = "IN_PROGRESS"
      PROVE  \E t \in Tasks :
                /\ _newest_task_of(e, t)'
                /\ Live(t)' \/ Queued(t)'
                   \/ \E th \in Threads : frame'[th].pc = "assemble" /\ frame'[th].t = t
  <2>1. PICK t \in Tasks : /\ NewestNext(e, t)
                           /\ LiveNext(t) \/ QueuedIn(inbox', t) \/ Assembles(frame'["actor"], t)
    BY <1>6, ZenonT(60)
  <2> QED
    BY <1>2, <1>3, <1>4, <1>5, <2>1, ZenonT(60)
<1> QED
  BY <1>6, ZenonT(60) DEF InProgressIsOwed

(* The task of an answer that starts is the newest of its exchange, and the *)
(* other exchanges keep theirs.                                             *)
LEMMA BeginsNewest ==
    ASSUME TypeOK, \A t \in Tasks : ~Stored(t) => task[t].ex = None,
           NEW e, NEW t \in Tasks, Begins(e, t), NEW d \in Exchanges
    PROVE  /\ d = e => NewestNext(d, t)
           /\ \A u \in Tasks : d # e /\ _newest_task_of(d, u) => NewestNext(d, u)
<1>0. d # None
  BY BoundsAssumption, SMTT(60) DEF Exchanges, None
<1>1. [NoTask EXCEPT !.status = "RUNNING", !.ex = e].ex = e
  BY DEF NoTask
<1>2. task'[t].ex = e /\ \A u \in Tasks : u # t => task'[u] = task[u]
  BY <1>1, ZenonT(60) DEF Begins, TypeOK
<1>3. \A u \in Tasks : task[u].ex = d => u < t
  <2>1. \A u \in Tasks : Stored(u) => ~(u >= t)
    BY ZenonT(60) DEF Begins, NextTask, Stored
  <2>2. \A u \in Tasks : task[u].ex = d => ~(u >= t)
    BY <1>0, <2>1, ZenonT(60)
  <2> QED
    BY <2>2, BoundsAssumption, SMTT(60) DEF Tasks
<1>4. d = e => NewestNext(d, t)
  <2>1. \A u \in Tasks : task'[u].ex = d => u = t \/ u < t
    BY <1>2, <1>3, ZenonT(60)
  <2>2. \A u \in Tasks : task'[u].ex = d => u <= t
    BY <2>1, BoundsAssumption, SMTT(60) DEF Tasks
  <2> QED
    BY <1>2, <2>2, ZenonT(60) DEF NewestNext
<1>5. ASSUME NEW u \in Tasks, d # e, _newest_task_of(d, u) PROVE NewestNext(d, u)
  <2>1. u # t
    BY <1>3, <1>5, BoundsAssumption, SMTT(60) DEF _newest_task_of, Tasks
  <2> QED
    BY <1>2, <1>5, <2>1, ZenonT(60) DEF _newest_task_of, NewestNext
<1> QED
  BY <1>4, <1>5, ZenonT(60)

(* The settle of an exchange's newest task moves it out of IN_PROGRESS. *)
LEMMA SettleMoves ==
    ASSUME TypeOK, _settle_exchange, NEW e \in Exchanges, Head(inbox).ex = e,
           Head(inbox).outcome # "none", _newest_task_of(e, Head(inbox).t), status[e] = "IN_PROGRESS"
    PROVE  status'[e] # "IN_PROGRESS"
<1> DEFINE c == Head(inbox)
<1>0. e # None
  BY BoundsAssumption, SMTT(60) DEF Exchanges, None
<1>1. PICK s, keep : s # "IN_PROGRESS" /\ settle_owned(c, s, keep)
  BY <1>0, SettleTarget, ZenonT(60)
<1>2. SettleApplies(c, keep)
  BY ZenonT(60) DEF SettleApplies, LiveStatuses
<1>3. set_status(e, s)
  BY <1>1, <1>2, ZenonT(60) DEF settle_owned
<1> QED
  BY <1>1, <1>3, ZenonT(60) DEF set_status, TypeOK

LEMMA OwedStep ==
    ASSUME MaxCrashes = 0, MaxFaults = 0, TypeOK, OwnershipInv, OnlyActorStarts, OwedInv, [Next]_vars
    PROVE  OwedInv'
<1> DEFINE a == frame["actor"]
           b == frame'["actor"]
<1>0. \A t \in Tasks : RowKept(t)
  BY RowsKept, ZenonT(60)
<1>d. \A t \in Tasks : ~Stored(t) => task[t].ex = None
  BY ZenonT(60) DEF OwedInv
<1>1. CASE \E e, t : t \in Tasks /\ Begins(e, t)
  <2>1. PICK e, t : t \in Tasks /\ Begins(e, t)
    BY <1>1, ZenonT(60)
  <2>2. UNCHANGED <<process, inbox>> /\ a.pc # "assemble" /\ Assembles(b, t)
    BY <2>1, ZenonT(60) DEF Begins, Assembles
  <2>3. ASSUME NEW d \in Exchanges, status'[d] = "IN_PROGRESS"
        PROVE  \E u \in Tasks : /\ NewestNext(d, u)
                                /\ LiveNext(u) \/ QueuedIn(inbox', u) \/ Assembles(b, u)
    <3>1. CASE d = e
      BY <1>d, <2>1, <2>2, <3>1, BeginsNewest, ZenonT(60)
    <3>2. CASE d # e
      <4>1. status[d] = "IN_PROGRESS"
        BY <2>1, <2>3, <3>2, ZenonT(60) DEF Begins, set_status, TypeOK
      <4>2. PICK u \in Tasks :
              _newest_task_of(d, u) /\ (Live(u) \/ QueuedIn(inbox, u) \/ Assembles(a, u))
        BY <4>1, OwedIs, ZenonT(60) DEF OwedInv
      <4>3. NewestNext(d, u)
        BY <1>d, <2>1, <3>2, <4>2, BeginsNewest, ZenonT(60)
      <4>4. LiveNext(u) \/ QueuedIn(inbox', u)
        BY <2>2, <4>2, ZenonT(60) DEF Live, LiveNext, Assembles
      <4> QED
        BY <4>3, <4>4, ZenonT(60)
    <3> QED
      BY <3>1, <3>2, ZenonT(60)
  <2>4. \A u \in Tasks : ~StoredNext(u) => task'[u].ex = None
    <3>1. [NoTask EXCEPT !.status = "RUNNING", !.ex = e].status = "RUNNING"
      BY DEF NoTask
    <3>2. StoredNext(t) /\ \A u \in Tasks : u # t => task'[u] = task[u]
      BY <2>1, <3>1, ZenonT(60) DEF Begins, TypeOK, StoredNext
    <3> QED
      BY <1>d, <3>2, ZenonT(60) DEF Stored, StoredNext
  <2>5. \A i \in 1..Len(inbox') : Faithful(inbox'[i], task')
    <3> SUFFICES ASSUME NEW i \in 1..Len(inbox) PROVE Faithful(inbox[i], task')
      BY <2>2, ZenonT(60)
    <3>1. inbox[i] \in CommandType /\ Faithful(inbox[i], task)
      BY SMTT(60) DEF TypeOK, OwedInv
    <3> QED
      BY <1>0, <3>1, CommandFields, ZenonT(60) DEF Faithful, RowKept, Stored, StoredNext
  <2>6. InProgressIsOwed'
    BY <2>3, OwedNext, ZenonT(60)
  <2> QED
    BY <2>4, <2>5, <2>6, ZenonT(60) DEF OwedInv, Stored, StoredNext
<1>2. CASE NoneEnters /\ NoneAnswers
  <2>1. ASSUME NEW d \in Exchanges, status'[d] = "IN_PROGRESS"
        PROVE  \E u \in Tasks : /\ NewestNext(d, u)
                                /\ LiveNext(u) \/ QueuedIn(inbox', u) \/ Assembles(b, u)
    <3>0. d # None
      BY BoundsAssumption, SMTT(60) DEF Exchanges, None
    <3>1. status[d] = "IN_PROGRESS"
      BY <1>2, <2>1, ZenonT(60) DEF NoneEnters
    <3>2. PICK u \in Tasks :
            _newest_task_of(d, u) /\ (Live(u) \/ QueuedIn(inbox, u) \/ Assembles(a, u))
      BY <3>1, OwedIs, ZenonT(60) DEF OwedInv
    <3>3. NewestNext(d, u)
      <4>1. Stored(u) /\ task[u].ex = d
        BY <1>d, <3>0, <3>2, ZenonT(60) DEF _newest_task_of
      <4>2. \A v \in Tasks : task'[v].ex = d => task[v].ex = d
        BY <1>0, <1>2, <1>d, <3>0, ZenonT(60) DEF RowKept, NoneAnswers
      <4> QED
        BY <1>0, <3>2, <4>1, <4>2, ZenonT(60) DEF RowKept, _newest_task_of, NewestNext
    <3>4. CASE Live(u)
      <4>1. CASE _terminate_process(u)
        <5> DEFINE c == _ProcessTerminated(u)
        <5>1. inbox' = Append(inbox, c)
          BY <4>1, ZenonT(60) DEF _terminate_process
        <5>2. c.type = "terminated" /\ c.t = u
          BY ZenonT(60) DEF _ProcessTerminated
        <5> HIDE DEF c
        <5>3. Len(inbox) + 1 \in 1..Len(inbox') /\ inbox'[Len(inbox) + 1] = c
          BY <5>1, SMTT(60) DEF TypeOK
        <5> QED
          BY <3>3, <5>2, <5>3, ZenonT(60) DEF QueuedIn
      <4> QED
        BY <3>3, <3>4, <4>1, RunsEnd, ZenonT(60)
    <3>5. CASE QueuedIn(inbox, u)
      <4>1. ~(_settle_exchange /\ Head(inbox).type = "terminated" /\ Head(inbox).t = u)
        <5> SUFFICES ASSUME _settle_exchange, Head(inbox).type = "terminated", Head(inbox).t = u
                     PROVE  FALSE
          OBVIOUS
        <5>1. 1 \in 1..Len(inbox) /\ Head(inbox) = inbox[1]
          <6>1. inbox # <<>>
            BY ZenonT(60) DEF _settle_exchange, Taken
          <6> QED
            BY <6>1, SMTT(60) DEF TypeOK
        <5>2. Head(inbox).ex = d /\ Head(inbox).outcome # "none"
          BY <3>2, <5>1, ZenonT(60) DEF OwedInv, Faithful, _newest_task_of
        <5> QED
          BY <2>1, <3>1, <3>2, <5>2, SettleMoves, ZenonT(60)
      <4> QED
        BY <3>3, <3>5, <4>1, QueuedSettles, ZenonT(60)
    <3>6. CASE Assembles(a, u)
      BY <3>3, <3>6, AssembledRuns, ZenonT(60) DEF Assembles
    <3> QED
      BY <3>2, <3>4, <3>5, <3>6, ZenonT(60)
  <2>2. \A u \in Tasks : ~StoredNext(u) => task'[u].ex = None
    BY <1>0, <1>2, <1>d, ZenonT(60) DEF RowKept, NoneAnswers
  <2>3. ASSUME NEW i \in 1..Len(inbox') PROVE Faithful(inbox'[i], task')
    <3>1. CASE \E j \in 1..Len(inbox) : inbox'[i] = inbox[j]
      <4>1. PICK j \in 1..Len(inbox) : inbox'[i] = inbox[j]
        BY <3>1, ZenonT(60)
      <4>2. inbox[j] \in CommandType /\ Faithful(inbox[j], task)
        BY SMTT(60) DEF TypeOK, OwedInv
      <4> QED
        BY <1>0, <4>1, <4>2, CommandFields, ZenonT(60) DEF Faithful, RowKept, Stored, StoredNext
    <3>2. CASE inbox'[i].type # "terminated"
      BY <3>2, ZenonT(60) DEF Faithful
    <3>3. ASSUME NEW t \in Tasks, _terminate_process(t), inbox'[i] = _ProcessTerminated(t)
          PROVE  Faithful(inbox'[i], task')
      <4>1. task' = task /\ Stored(t)
        BY <3>3, ZenonT(60) DEF _terminate_process, rows, OwnershipInv, RowsExist, Processes, Live
      <4>2. _ProcessTerminated(t).t = t /\ _ProcessTerminated(t).ex = task[t].ex
            /\ _ProcessTerminated(t).outcome = Outcome(t)
        BY ZenonT(60) DEF _ProcessTerminated
      <4>3. Outcome(t) # "none"
        BY SMTT(60) DEF Outcome
      <4> QED
        BY <3>3, <4>1, <4>2, <4>3, ZenonT(60) DEF Faithful, Stored
    <3> QED
      BY <3>1, <3>2, <3>3, InboxAfter, ZenonT(60)
  <2>4. InProgressIsOwed'
    BY <2>1, OwedNext, ZenonT(60)
  <2> QED
    BY <2>2, <2>3, <2>4, ZenonT(60) DEF OwedInv, Stored, StoredNext
<1> QED
  BY <1>1, <1>2, AnswersStart, ZenonT(60)

(* Nobody waits for an exchange that nobody works on: between two restarts, *)
(* while the store does not fail, an IN_PROGRESS exchange's newest task has *)
(* a process, or is about to get it, or its _ProcessTerminated waits for    *)
(* _settle_exchange (_start_answer, _terminate_process, settle_owned).      *)
THEOREM InProgressOwed == ASSUME MaxCrashes = 0, MaxFaults = 0 PROVE Spec => []InProgressIsOwed
<1> DEFINE I == OwnershipInv /\ OnlyActorStarts /\ OwedInv
<1>1. Init => I
  <2>1. ASSUME Init PROVE OwedInv
    <3>1. \A e \in Exchanges : status[e] = "absent"
      BY <2>1, ZenonT(60) DEF Init
    <3>2. 1..Len(inbox) = {}
      BY <2>1, SMTT(60) DEF Init
    <3>3. \A t \in Tasks : task[t] = NoTask
      BY <2>1, ZenonT(60) DEF Init
    <3>4. NoTask.ex = None
      BY DEF NoTask
    <3> QED
      BY <3>1, <3>2, <3>3, <3>4, ZenonT(60) DEF OwedInv, InProgressIsOwed
  <2> QED
    BY <2>1, OneRunInit, OwnershipInit, ZenonT(60)
<1>2. TypeOK /\ I /\ [Next]_vars => I'
  BY OwnershipStep, OnlyActorStartsStep, OwedStep, ZenonT(60)
<1>3. I => InProgressIsOwed
  BY ZenonT(60) DEF OwedInv
<1> HIDE DEF I
<1> QED
  BY <1>1, <1>2, <1>3, TypeCorrect, PTL DEF Spec

=============================================================================
