------------------------ MODULE RunnerDeliveryProofs ------------------------
(***************************************************************************)
(* What the conversation actor promises about delivery, proved for every   *)
(* value of the constants: an outcome is stamped as delivered only after   *)
(* it entered a subscriber's queue (OnlyReachedIsDelivered).               *)
(*                                                                         *)
(* It rests on StartInv: the row of a run that works, that a coroutine is  *)
(* about to start or that recovery is about to restart says RUNNING, and   *)
(* no two of them are one task. So no run is finalized twice. And it rests *)
(* on HeardReached: whatever says that a stream was heard is right.        *)
(***************************************************************************)
EXTENDS RunnerSafetyProofs

Working == {"new", "running", "ended", "unsaved"}

(* The coroutines that start runs. *)
Starters == {"actor", "manager"}

(* The coroutine is about to create the process of a committed task. *)
Claiming(th) == frame[th].pc = "assemble" \/ (th = "manager" /\ frame[th].pc = "reattach")

WorkersRun == \A t \in Tasks : process[t].phase \in Working => task[t].status = "RUNNING"

OrphansRun == \A t \in frame["manager"].rest : task[t].status = "RUNNING" /\ ~Live(t)

ClaimedRun ==
    \A th \in Starters : Claiming(th) =>
        /\ frame[th].t \in Tasks /\ task[frame[th].t].status = "RUNNING" /\ ~Live(frame[th].t)
        /\ frame[th].t \notin frame["manager"].rest
        /\ \A o \in Starters : Claiming(o) /\ o # th => frame[o].t # frame[th].t

EmptyIsDone == \A t \in Tasks : task[t].empty => task[t].status = "DONE"

(* Until recovery has read its rows, nothing else of the runner moves. *)
RecoverQuiet ==
    frame["manager"].pc = "recover" =>
        /\ inbox = <<>> /\ frame["actor"].pc = "idle" /\ frame["user"].pc = "idle"
        /\ \A t \in Tasks : process[t] = NoProcess

StartInv == WorkersRun /\ OrphansRun /\ ClaimedRun /\ EmptyIsDone /\ RecoverQuiet

-----------------------------------------------------------------------------
(* What a step does to the status of a task *)

Same(t) == task'[t].status = task[t].status /\ task'[t].empty = task[t].empty
Entered(t) == ~Stored(t) /\ task'[t].status = "RUNNING" /\ ~task'[t].empty
Ended(t) ==
    /\ process[t].phase = "ended" /\ process'[t].phase = "finalized"
    /\ task'[t].empty => task'[t].status = "DONE"
GivenUp(t) ==
    /\ t \in frame["manager"].rest /\ t \notin frame'["manager"].rest
    /\ frame'["manager"].pc = "restart"
    /\ task'[t].empty => task'[t].status = "DONE" \/ task[t].empty
    /\ task'[t].status \in {"DONE", "FAILED"}

StatusAccounted(t) == Same(t) \/ Entered(t) \/ Ended(t) \/ GivenUp(t)

(* Flushing deliveries does not touch the results. *)
LEMMA FlushKeepsResults ==
    ASSUME TypeOK, NEW T, NEW rowsNow \in [Tasks -> TaskType], _flush_deliveries(T, rowsNow)
    PROVE  \A t \in Tasks : task'[t].status = rowsNow[t].status /\ task'[t].empty = rowsNow[t].empty
<1> SUFFICES ASSUME NEW t \in Tasks
             PROVE  task'[t].status = rowsNow[t].status /\ task'[t].empty = rowsNow[t].empty
  OBVIOUS
<1>1. CASE watching
  <2> DEFINE now == rowsNow[t].delivered \/ t \in outbox \cup T
  <2>1. task'[t] = [rowsNow[t] EXCEPT !.delivered = now]
    BY <1>1 DEF _flush_deliveries
  <2> HIDE DEF now
  <2> QED
    BY <2>1 DEF TaskType
<1>2. CASE ~watching
  BY <1>2 DEF _flush_deliveries
<1> QED
  BY <1>1, <1>2

(* Starting an answer enters one row. *)
LEMMA StartEnters ==
    ASSUME TypeOK, NEW th \in Threads, NEW e, NEW f, _start_answer(th, e, f)
    PROVE  \A t \in Tasks : Same(t) \/ Entered(t)
<1>1. PICK t \in Tasks :
        /\ NextTask(t)
        /\ task' = [task EXCEPT ![t] = [NoTask EXCEPT !.status = "RUNNING", !.ex = e]]
  BY ZenonT(60) DEF _start_answer
<1>2. ~Stored(t)
  BY <1>1 DEF NextTask, Stored, Tasks
<1>3. task'[t].status = "RUNNING" /\ ~task'[t].empty
  BY <1>1 DEF TypeOK, NoTask
<1>4. \A u \in Tasks : u # t => task'[u] = task[u]
  BY <1>1 DEF TypeOK
<1> QED
  BY <1>2, <1>3, <1>4 DEF Same, Entered

(* The orphan that recovery takes next. *)
LEMMA NextOrphan ==
    ASSUME TypeOK, frame["manager"].rest # {}
    PROVE  First(frame["manager"].rest) \in Tasks /\ First(frame["manager"].rest) \in frame["manager"].rest
<1>1. frame["manager"].rest \in SUBSET Tasks
  BY ManagerFrame DEF FrameType
<1>2. frame["manager"].rest \in SUBSET Nat
  BY <1>1 DEF Tasks
<1> QED
  BY <1>1, <1>2, FirstInSet, SMTT(60)

LEMMA StatusSteps == ASSUME TypeOK, [Next]_vars PROVE \A t \in Tasks : StatusAccounted(t)
<1>0. ASSUME UNCHANGED task PROVE \A t \in Tasks : StatusAccounted(t)
  BY <1>0 DEF StatusAccounted, Same
<1>1. CASE UNCHANGED vars
  BY <1>0, <1>1, SMTT(60) DEF vars, rows
<1>2. CASE UserNext
  <2>1. CASE spawn_task
    <3>1. PICK t \in Tasks : /\ NextTask(t)
                             /\ task' = [task EXCEPT ![t] = [NoTask EXCEPT !.status = "RUNNING"]]
      BY <2>1, ZenonT(60) DEF spawn_task
    <3>2. ~Stored(t)
      BY <3>1, SMTT(60) DEF NextTask, Stored, Tasks
    <3>3. task'[t].status = "RUNNING" /\ ~task'[t].empty
      BY <3>1, SMTT(60) DEF TypeOK, NoTask
    <3>4. \A u \in Tasks : u # t => task'[u] = task[u]
      BY <3>1, SMTT(60) DEF TypeOK
    <3> QED
      BY <3>2, <3>3, <3>4 DEF StatusAccounted, Same, Entered
  <2> QED
    BY <1>0, <1>2, <2>1, ZenonT(60)
       DEF UserNext, submit, Resend, _handle_cancel, subscribe, unsubscribe,
                            delete_task, rows
<1>3. CASE StopStep
  BY <1>0, <1>3 DEF StopStep, ListParked, _cancel_parked_exchanges, rows
<1>4. ASSUME NEW t \in Tasks, PumpStep(t) PROVE \A u \in Tasks : StatusAccounted(u)
  <2>1. CASE _finalize(t)
    <3> DEFINE s == CASE process[t].terminal \in {"Finished", "Silent"} -> "DONE"
                      [] process[t].terminal = "Failed" -> "FAILED"
                      [] OTHER -> "CANCELLED"
               d == task[t].delivered \/ (process[t].terminal # "Cancelled" /\ _delivery_is_certain(t))
               e == process[t].terminal = "Silent"
    <3>1. task' = [task EXCEPT ![t].status = s, ![t].delivered = d, ![t].empty = e]
      BY <2>1 DEF _finalize
    <3>2. e => s = "DONE"
      OBVIOUS
    <3>3. process[t].phase = "ended" /\ process'[t].phase = "finalized"
      BY <2>1, ZenonT(60) DEF _finalize, TypeOK, ProcessType
    <3> HIDE DEF s, d, e
    <3>4. task'[t].status = s /\ task'[t].empty = e
      BY <3>1, ZenonT(60) DEF TypeOK, TaskType
    <3>5. \A u \in Tasks : u # t => task'[u] = task[u]
      BY <3>1, ZenonT(60) DEF TypeOK
    <3> QED
      BY <3>2, <3>3, <3>4, <3>5, SMTT(60) DEF StatusAccounted, Same, Ended
  <2> QED
    BY <1>0, <1>4, <2>1, ZenonT(60)
       DEF PumpStep, Iterate, Finish, AskUser, ask_user, _terminate_process, rows
<1>5. CASE ActorStep
  <2>1. CASE _ensure_owner \/ _resume_open_exchange("actor")
    <3>1. CASE UNCHANGED task
      BY <1>0, <3>1
    <3>2. ASSUME NEW e, NEW f, _start_answer("actor", e, f)
          PROVE  \A t \in Tasks : StatusAccounted(t)
      BY <3>2, StartEnters, ZenonT(60) DEF Threads, StatusAccounted
    <3> QED
      BY <2>1, <3>1, <3>2, ZenonT(60) DEF _ensure_owner, _resume_open_exchange
  <2>2. CASE _handle_terminated
    <3> DEFINE c == frame["actor"].cmd
               T == IF ToQueue(c) THEN {c.t} ELSE {}
               R == IF StampedAtOnce(c) THEN [task EXCEPT ![c.t].delivered = TRUE] ELSE task
    <3>1. c.t \in Tasks
      BY <2>2, ActorFrame, ZenonT(60) DEF _handle_terminated, AtCommand
    <3>2. _flush_deliveries(T, R)
      BY <2>2 DEF _handle_terminated
    <3>3. R \in [Tasks -> TaskType]
      BY <3>1, TaskUpdates, ZenonT(60) DEF TypeOK
    <3>4. \A t \in Tasks : R[t].status = task[t].status /\ R[t].empty = task[t].empty
      BY <3>1, SMTT(60) DEF TypeOK, TaskType
    <3> HIDE DEF T, R
    <3> QED
      BY <3>2, <3>3, <3>4, FlushKeepsResults, SMTT(60) DEF StatusAccounted, Same
  <2>3. CASE HandleFlush
    BY <2>3, FlushKeepsResults, ZenonT(60) DEF HandleFlush, StatusAccounted, Same, TypeOK
  <2>4. CASE _create_process("actor") \/ Resumed("actor")
    BY <1>0, <2>4, SMTT(60) DEF _create_process, Resumed, rows
  <2>5. CASE SkipDuplicate \/ _handle_submit \/ _route \/ _collect_material
             \/ _cancel_exchanges \/ _apply_route \/ set_exchange
    BY <1>0, <2>5, ZenonT(60) DEF SkipDuplicate, _handle_submit, _route, _collect_material,
         _cancel_exchanges, _apply_route, set_exchange, rows
  <2>6. CASE _settle_exchange \/ _handle_promote \/ PromoteAlone
             \/ _reparent_material \/ ReviveTarget
    BY <1>0, <2>6, ZenonT(60) DEF _settle_exchange, _handle_promote, PromoteAlone,
         _reparent_material, ReviveTarget
  <2> QED
    BY <1>5, <2>1, <2>2, <2>3, <2>4, <2>5, <2>6, SMTT(60) DEF ActorStep
<1>6. CASE ManagerStep
  <2> DEFINE f == frame["manager"]
             t == First(f.rest)
  <2>0. f \in FrameType(Tasks) /\ "manager" \in Threads
    BY ManagerFrame DEF Threads
  <2>1. CASE _resume_open_exchange("manager")
    <3>1. CASE UNCHANGED task
      BY <1>0, <3>1
    <3>2. ASSUME NEW e, NEW g, _start_answer("manager", e, g)
          PROVE  \A u \in Tasks : StatusAccounted(u)
      BY <2>0, <3>2, StartEnters, ZenonT(60) DEF StatusAccounted
    <3> QED
      BY <2>1, <3>1, <3>2, ZenonT(60) DEF _resume_open_exchange
  <2>2. CASE RefuseRestart
    <3> DEFINE R == [task EXCEPT ![t].status = "FAILED"]
    <3>1. t \in Tasks /\ t \in f.rest
      BY <2>2, NextOrphan, ZenonT(60) DEF RefuseRestart
    <3>2. _flush_deliveries({t}, R) /\ Goto("manager", [f EXCEPT !.rest = @ \ {t}]) /\ f.pc = "restart"
      BY <2>2, ZenonT(60) DEF RefuseRestart
    <3>3. R \in [Tasks -> TaskType]
      BY <3>1, TaskUpdates, ZenonT(60)
    <3>4. /\ R[t].status = "FAILED" /\ R[t].empty = task[t].empty
          /\ \A u \in Tasks : u # t => R[u] = task[u]
      BY <3>1, SMTT(60) DEF TypeOK, TaskType
    <3> HIDE DEF R, t
    <3>5. frame'["manager"].pc = "restart" /\ t \notin frame'["manager"].rest
      BY <2>0, <3>2, ZenonT(60) DEF Goto, TypeOK, FramesOK, FrameType
    <3>6. GivenUp(t)
      BY <3>1, <3>2, <3>3, <3>4, <3>5, FlushKeepsResults, SMTT(60) DEF GivenUp
    <3>7. \A u \in Tasks : u # t => Same(u)
      BY <3>2, <3>3, <3>4, FlushKeepsResults, SMTT(60) DEF Same
    <3> QED
      BY <3>6, <3>7, SMTT(60) DEF StatusAccounted
  <2>3. CASE restart_task
    <3>1. CASE /\ task' = [task EXCEPT ![t].status = "DONE", ![t].empty = TRUE]
               /\ Goto("manager", [f EXCEPT !.rest = @ \ {t}])
      <4>1. task \in [Tasks -> TaskType] /\ f.pc = "restart"
        BY <2>3, ZenonT(60) DEF TypeOK, restart_task
      <4>2. t \in Tasks /\ t \in f.rest
        BY <2>3, NextOrphan, ZenonT(60) DEF restart_task
      <4> HIDE DEF t
      <4>3. task'[t].status = "DONE" /\ \A u \in Tasks : u # t => task'[u] = task[u]
        BY <3>1, <4>1, <4>2, SMTT(60) DEF TaskType
      <4>4. frame'["manager"].pc = "restart" /\ t \notin frame'["manager"].rest
        BY <2>0, <3>1, <4>1, ZenonT(60) DEF Goto, TypeOK, FramesOK, FrameType
      <4> QED
        BY <4>2, <4>3, <4>4, SMTT(60) DEF StatusAccounted, Same, GivenUp
    <3> QED
      BY <1>0, <2>3, <3>1, ZenonT(60) DEF restart_task
  <2> QED
    BY <1>0, <1>6, <2>1, <2>2, <2>3, ZenonT(60)
       DEF ManagerStep, _recover_dialog, _start_orphaned, Reown, resume_stranded,
           _create_process, Resumed, request_result_delivery, rows
<1>7. CASE SweeperStep
  BY <1>0, <1>7, SMTT(60) DEF SweeperStep, QuietElapses, promote_collected, rows
<1>8. CASE FaultNext
  BY <1>0, <1>8, ZenonT(60)
     DEF FaultNext, PersistFails, SettleFails, CommandFails, Crash, FinalizeFails,
                    AskFails, rows
<1> QED
  BY <1>1, <1>2, <1>3, <1>4, <1>5, <1>6, <1>7, <1>8, SMTT(60) DEF Next

-----------------------------------------------------------------------------
(* What a step does to the runs that work *)

Continues(t) ==
    /\ process'[t].phase \in Working => process[t].phase \in Working
    /\ LiveNext(t) => Live(t)

(* spawn_task: the row and the process are new. *)
Spawned(t) == ~Stored(t) /\ task'[t].status = "RUNNING" /\ UNCHANGED frame

OthersStay(th) == \A o \in Threads : o # th => frame'[o] = frame[o]

(* A coroutine creates the process it was about to create. *)
Begun(t) ==
    \E th \in Starters :
        /\ Claiming(th) /\ frame[th].t = t /\ frame'[th].pc \notin {"assemble", "reattach"}
        /\ frame'[th].rest \subseteq frame[th].rest
        /\ OthersStay(th) /\ UNCHANGED task

(* Recovery restarts a background run. *)
Restarted(t) ==
    /\ t \in frame["manager"].rest /\ t \notin frame'["manager"].rest
    /\ frame'["manager"].rest \subseteq frame["manager"].rest
    /\ frame'["manager"].pc = "restart" /\ OthersStay("manager") /\ UNCHANGED task

WorkAccounted == \A t \in Tasks : Continues(t) \/ Spawned(t) \/ Begun(t) \/ Restarted(t)

LEMMA WorkSteps == ASSUME TypeOK, [Next]_vars PROVE WorkAccounted
<1>0. ASSUME UNCHANGED process PROVE WorkAccounted
  BY <1>0, SMTT(60) DEF WorkAccounted, Continues, Live, LiveNext
<1>a. process \in [Tasks -> ProcessType] /\ NoProcess.phase = "none"
  BY ZenonT(60) DEF TypeOK, NoProcess
<1>b. "none" \notin Working
  BY DEF Working
<1>1. CASE UNCHANGED vars
  BY <1>0, <1>1, SMTT(60) DEF vars
<1>2. CASE UserNext
  <2>1. CASE spawn_task
    <3>1. PICK t \in Tasks :
             /\ NextTask(t)
             /\ task' = [task EXCEPT ![t] = [NoTask EXCEPT !.status = "RUNNING"]]
             /\ process' = [process EXCEPT ![t] = [NoProcess EXCEPT !.phase = "new"]]
      BY <2>1, ZenonT(60) DEF spawn_task
    <3>2. ~Stored(t)
      BY <3>1, SMTT(60) DEF NextTask, Stored, Tasks
    <3>3. task'[t].status = "RUNNING" /\ UNCHANGED frame
      BY <2>1, <3>1, SMTT(60) DEF TypeOK, NoTask, spawn_task
    <3>4. \A u \in Tasks : u # t => process'[u] = process[u]
      BY <1>a, <3>1
    <3> QED
      BY <3>2, <3>3, <3>4, SMTT(60) DEF WorkAccounted, Continues, Spawned, Live, LiveNext
  <2>2. CASE _handle_cancel
    <3>1. \A t \in Tasks : process'[t] = process[t] \/ process'[t] = [process[t] EXCEPT !.tripped = TRUE]
      BY <2>2 DEF _handle_cancel
    <3>2. \A t \in Tasks : process'[t].phase = process[t].phase
      BY <1>a, <3>1, ZenonT(60) DEF ProcessType
    <3> QED
      BY <3>2 DEF WorkAccounted, Continues, Live, LiveNext
  <2>3. ASSUME NEW t \in Tasks, delete_task(t) PROVE WorkAccounted
    BY <1>a, <2>3 DEF delete_task, WorkAccounted, Continues, Live, LiveNext, ProcessType
  <2> QED
    BY <1>0, <1>2, <2>1, <2>2, <2>3, SMTT(60) DEF UserNext, submit, Resend, subscribe, unsubscribe
<1>3. CASE StopStep
  BY <1>0, <1>3 DEF StopStep, ListParked, _cancel_parked_exchanges
<1>4. ASSUME NEW t \in Tasks, PumpStep(t) PROVE WorkAccounted
  <2>0. process[t] \in ProcessType
    BY <1>a
  <2>1. \A u \in Tasks : u # t => process'[u] = process[u]
    BY <1>4, <1>a, ZenonT(60)
       DEF PumpStep, Iterate, Finish, AskUser, ask_user, _finalize, _terminate_process
  <2>2. SUFFICES Continues(t)
    BY <2>1 DEF WorkAccounted, Continues, Live, LiveNext
  <2>3. CASE Iterate(t)
    BY <1>a, <2>0, <2>3, SMTT(60) DEF Iterate, Continues, Working, Live, LiveNext, ProcessType
  <2>4. ASSUME NEW terminal \in Terminals, Finish(t, terminal) PROVE Continues(t)
    BY <1>a, <2>0, <2>4, SMTT(60) DEF Finish, Continues, Working, Live, LiveNext, ProcessType
  <2>5. CASE AskUser(t)
    BY <1>a, <2>0, <2>5, SMTT(60) DEF AskUser, Continues, Live, LiveNext, ProcessType
  <2>6. CASE ask_user(t)
    BY <1>a, <2>0, <2>6, SMTT(60) DEF ask_user, Continues, Live, LiveNext, ProcessType
  <2>7. CASE _finalize(t)
    BY <1>a, <2>0, <2>7, SMTT(60) DEF _finalize, Continues, Working, Live, LiveNext, ProcessType
  <2>8. CASE _terminate_process(t)
    BY <1>a, <1>b, <2>8, SMTT(60) DEF _terminate_process, Continues, Live, LiveNext
  <2> QED
    BY <1>4, <2>3, <2>4, <2>5, <2>6, <2>7, <2>8, SMTT(60) DEF PumpStep
<1>5. ASSUME NEW th \in Starters, _create_process(th) PROVE WorkAccounted
  <2> DEFINE f == frame[th]
  <2>0. th \in Threads
    BY DEF Starters, Threads
  <2>1. \A u \in Tasks : u # f.t => process'[u] = process[u]
    BY <1>5, <1>a, SMTT(60) DEF _create_process
  <2>2. Begun(f.t)
    <3>1. frame'[th].pc \notin {"assemble", "reattach"} /\ frame'[th].rest \subseteq f.rest
      BY <1>5, <2>0, ZenonT(60) DEF _create_process, Goto, IdleFrame, TypeOK, FramesOK, FrameType
    <3>2. f.pc = "assemble" /\ UNCHANGED task
      BY <1>5, SMTT(60) DEF _create_process, rows
    <3>3. OthersStay(th)
      BY <1>5, ZenonT(60) DEF _create_process, Goto, OthersStay, TypeOK, FramesOK
    <3> QED
      BY <3>1, <3>2, <3>3, SMTT(60) DEF Begun, Claiming
  <2> QED
    BY <2>1, <2>2 DEF WorkAccounted, Continues, Live, LiveNext
<1>6. CASE ActorStep
  <2>1. CASE _cancel_exchanges
    BY <1>a, <2>1, ZenonT(60)
       DEF _cancel_exchanges, WorkAccounted, Continues, Live, LiveNext, ProcessType
  <2>2. CASE SkipDuplicate \/ _handle_submit \/ _route \/ _collect_material
             \/ _apply_route \/ set_exchange \/ _ensure_owner
             \/ _resume_open_exchange("actor") \/ Resumed("actor")
    BY <1>0, <2>2, ZenonT(60)
       DEF SkipDuplicate, _handle_submit, _route, _collect_material, _apply_route,
         set_exchange, _ensure_owner, _resume_open_exchange, Resumed
  <2>3. CASE _settle_exchange \/ _handle_terminated \/ HandleFlush \/ _handle_promote
             \/ PromoteAlone \/ _reparent_material \/ ReviveTarget
    BY <1>0, <2>3, ZenonT(60)
       DEF _settle_exchange, _handle_terminated, HandleFlush, _handle_promote,
         PromoteAlone, _reparent_material, ReviveTarget
  <2> QED
    BY <1>5, <1>6, <2>1, <2>2, <2>3, SMTT(60) DEF ActorStep, Starters
<1>7. CASE ManagerStep
  <2> DEFINE f == frame["manager"]
             t == First(f.rest)
  <2>0. f \in FrameType(Tasks) /\ "manager" \in Threads
    BY ManagerFrame DEF Threads
  <2>1. CASE restart_task
    <3>1. CASE /\ UNCHANGED task /\ Goto("manager", [f EXCEPT !.rest = @ \ {t}])
               /\ process' = [process EXCEPT ![t] = [NoProcess EXCEPT !.phase = "new"]]
      <4>1. t \in Tasks /\ t \in f.rest
        BY <2>1, NextOrphan DEF restart_task
      <4>2. f.pc = "restart"
        BY <2>1, ZenonT(60) DEF restart_task
      <4> HIDE DEF t
      <4>3. /\ frame'["manager"].pc = "restart" /\ t \notin frame'["manager"].rest
            /\ frame'["manager"].rest \subseteq f.rest
        BY <2>0, <3>1, <4>2, ZenonT(60) DEF Goto, TypeOK, FramesOK, FrameType
      <4>4. OthersStay("manager")
        BY <3>1, SMTT(60) DEF Goto, OthersStay, TypeOK, FramesOK
      <4>5. \A u \in Tasks : u # t => process'[u] = process[u]
        BY <1>a, <3>1
      <4>6. Restarted(t)
        BY <3>1, <4>1, <4>3, <4>4, SMTT(60) DEF Restarted
      <4> QED
        BY <4>5, <4>6, SMTT(60) DEF WorkAccounted, Continues, Live, LiveNext
    <3> QED
      BY <1>0, <2>1, <3>1, ZenonT(60) DEF restart_task
  <2>2. CASE _start_orphaned
    <3>1. \A u \in Tasks : u # f.t => process'[u] = process[u]
      BY <1>a, <2>2 DEF _start_orphaned
    <3>2. Begun(f.t)
      <4>1. Goto("manager", [f EXCEPT !.pc = "reown"]) /\ f.pc = "reattach" /\ UNCHANGED task
        BY <2>2, SMTT(60) DEF _start_orphaned, rows
      <4>2. frame'["manager"].pc = "reown" /\ frame'["manager"].rest = f.rest
        BY <2>0, <4>1, ZenonT(60) DEF Goto, TypeOK, FramesOK, FrameType
      <4>3. OthersStay("manager")
        BY <4>1, ZenonT(60) DEF Goto, OthersStay, TypeOK, FramesOK
      <4> QED
        BY <4>1, <4>2, <4>3, SMTT(60) DEF Begun, Claiming, Starters
    <3> QED
      BY <3>1, <3>2 DEF WorkAccounted, Continues, Live, LiveNext
  <2> QED
    BY <1>0, <1>5, <1>7, <2>1, <2>2, ZenonT(60)
       DEF Starters, ManagerStep, _recover_dialog, RefuseRestart, Reown, resume_stranded,
           _resume_open_exchange, Resumed, request_result_delivery
<1>8. CASE SweeperStep
  BY <1>0, <1>8, SMTT(60) DEF SweeperStep, QuietElapses, promote_collected
<1>9. CASE FaultNext
  <2>1. CASE Crash
    BY <1>a, <1>b, <2>1, ZenonT(60) DEF Crash, WorkAccounted, Continues, Live, LiveNext
  <2>2. ASSUME NEW t \in Tasks, FinalizeFails(t) PROVE WorkAccounted
    BY <1>a, <2>2, SMTT(60)
       DEF FinalizeFails, WorkAccounted, Continues, Working, Live, LiveNext, ProcessType
  <2>3. ASSUME NEW t \in Tasks, AskFails(t) PROVE WorkAccounted
    BY <1>a, <2>3, SMTT(60) DEF AskFails, WorkAccounted, Continues, Live, LiveNext, ProcessType
  <2> QED
    BY <1>0, <1>9, <2>1, <2>2, <2>3, SMTT(60) DEF FaultNext, PersistFails, SettleFails, CommandFails
<1> QED
  BY <1>1, <1>2, <1>3, <1>4, <1>6, <1>7, <1>8, <1>9, SMTT(60) DEF Next

(* Only the manager moves the manager. *)
LEMMA ManagerAlone ==
    ASSUME TypeOK, [Next]_vars
    PROVE  ManagerStep \/ Crash \/ frame'["manager"] = frame["manager"]
<1>0. ASSUME UNCHANGED frame PROVE frame'["manager"] = frame["manager"]
  BY <1>0, SMTT(60)
<1>g. ASSUME NEW th \in {"actor", "user"}, NEW f, Goto(th, f) PROVE frame'["manager"] = frame["manager"]
  BY <1>g, ZenonT(60) DEF Goto, TypeOK, FramesOK, Threads
<1>1. CASE UNCHANGED vars
  BY <1>1 DEF vars
<1>2. CASE UserNext
  BY <1>0, <1>g, <1>2, ZenonT(60)
     DEF UserNext, submit, Resend, _handle_cancel, subscribe, unsubscribe, spawn_task,
                          delete_task
<1>3. CASE StopStep
  BY <1>g, <1>3, ZenonT(60) DEF StopStep, ListParked, _cancel_parked_exchanges
<1>4. ASSUME NEW t \in Tasks, PumpStep(t) PROVE frame'["manager"] = frame["manager"]
  BY <1>0, <1>4, ZenonT(60)
     DEF PumpStep, Iterate, Finish, AskUser, ask_user, _finalize, _terminate_process
<1>5. CASE ActorStep
  <2>1. CASE SkipDuplicate \/ _handle_submit \/ _route \/ _collect_material
             \/ _cancel_exchanges \/ _apply_route \/ set_exchange
    BY <1>0, <1>g, <2>1, ZenonT(60) DEF SkipDuplicate, _handle_submit, _route, _collect_material,
         _cancel_exchanges, _apply_route, set_exchange, Done
  <2>2. CASE _ensure_owner \/ _create_process("actor") \/ _resume_open_exchange("actor")
             \/ Resumed("actor")
    BY <1>0, <1>g, <2>2, ZenonT(60) DEF _ensure_owner, _create_process, _resume_open_exchange,
         Resumed, _start_answer, Done
  <2>3. CASE _settle_exchange \/ _handle_terminated \/ HandleFlush
    BY <1>0, <1>g, <2>3, ZenonT(60) DEF _settle_exchange, _handle_terminated, HandleFlush
  <2>4. CASE _handle_promote \/ PromoteAlone \/ _reparent_material \/ ReviveTarget
    BY <1>0, <1>g, <2>4, ZenonT(60) DEF _handle_promote, PromoteAlone, _reparent_material,
         ReviveTarget, Revive, Done
  <2> QED
    BY <1>5, <2>1, <2>2, <2>3, <2>4, SMTT(60) DEF ActorStep
<1>6. CASE SweeperStep
  BY <1>0, <1>6, ZenonT(60) DEF SweeperStep, QuietElapses, promote_collected
<1>7. CASE FaultNext
  BY <1>0, <1>g, <1>7, ZenonT(60)
     DEF FaultNext, PersistFails, SettleFails, CommandFails, Done, FinalizeFails,
                          AskFails
<1> QED
  BY <1>1, <1>2, <1>3, <1>4, <1>5, <1>6, <1>7, SMTT(60) DEF Next

(* How the manager moves: it lists the orphans once, and then hands them    *)
(* over one by one.                                                         *)
HandsOver ==
    /\ frame'["manager"].rest \subseteq frame["manager"].rest
    /\ frame'["manager"].pc # "recover"
    /\ frame'["manager"].pc = "reattach" =>
          /\ frame'["manager"].t \in frame["manager"].rest
          /\ frame'["manager"].t \notin frame'["manager"].rest
          /\ UNCHANGED <<task, process>>

ListsOrphans ==
    /\ frame["manager"].pc = "recover" /\ frame'["manager"].pc = "restart"
    /\ frame'["manager"].rest = list_orphaned
    /\ UNCHANGED <<task, process>>

LEMMA ManagerMoves ==
    ASSUME TypeOK, ManagerStep
    PROVE  OthersStay("manager") /\ (HandsOver \/ ListsOrphans)
<1> DEFINE f == frame["manager"]
           t == First(f.rest)
<1>0. f \in FrameType(Tasks) /\ "manager" \in Threads
  BY ManagerFrame, SMTT(60) DEF Threads
<1>g. ASSUME NEW g, Goto("manager", g) PROVE OthersStay("manager") /\ frame'["manager"] = g
  BY <1>0, <1>g, SMTT(60) DEF Goto, OthersStay, TypeOK, FramesOK
<1>h. ASSUME NEW g, Goto("manager", g), g.rest \subseteq f.rest, g.pc \notin {"recover", "reattach"}
      PROVE  OthersStay("manager") /\ HandsOver
  BY <1>g, <1>h DEF HandsOver
<1>i. ASSUME Goto("manager", IdleFrame) PROVE OthersStay("manager") /\ HandsOver
  <2>1. IdleFrame.rest = {} /\ IdleFrame.pc = "idle"
    BY DEF IdleFrame
  <2> QED
    BY <1>i, <1>h, <2>1, SMTT(60)
<1>1. CASE _recover_dialog
  <2>1. PICK a : Goto("manager", [IdleFrame EXCEPT !.pc = "restart",
              !.rest = list_orphaned, !.live = list_undelivered, !.act = a])
    BY <1>1, ZenonT(60) DEF _recover_dialog
  <2> DEFINE orphans == list_orphaned
             undelivered == list_undelivered
             g == [IdleFrame EXCEPT !.pc = "restart", !.rest = orphans, !.live = undelivered,
                                    !.act = a]
  <2>a. OthersStay("manager") /\ frame'["manager"] = g
    BY <1>g, <2>1
  <2>b. g.pc = "restart" /\ g.rest = orphans
    <3> HIDE DEF orphans, undelivered
    <3> QED
      BY DEF IdleFrame
  <2>2. /\ OthersStay("manager") /\ frame'["manager"].pc = "restart"
        /\ frame'["manager"].rest = list_orphaned
    BY <2>a, <2>b, SMTT(60)
  <2> QED
    BY <1>1, <2>2 DEF ListsOrphans, _recover_dialog
<1>2. CASE RefuseRestart
  <2>1. Goto("manager", [f EXCEPT !.rest = @ \ {t}]) /\ f.pc = "restart"
    BY <1>2, ZenonT(60) DEF RefuseRestart
  <2> HIDE DEF t
  <2> QED
    BY <1>0, <1>h, <2>1, SMTT(60) DEF FrameType
<1>3. CASE restart_task
  <2> DEFINE g == [f EXCEPT !.rest = @ \ {t}]
             h == [g EXCEPT !.pc = "reattach", !.t = t]
  <2>0. t \in f.rest /\ f.pc = "restart"
    BY <1>3, NextOrphan, ZenonT(60) DEF restart_task
  <2>1. Goto("manager", g) \/ (Goto("manager", h) /\ UNCHANGED <<task, process>>)
    BY <1>3, ZenonT(60) DEF restart_task
  <2> HIDE DEF t
  <2>2. g.rest \subseteq f.rest /\ g.pc = "restart" /\ g.rest = f.rest \ {t}
    BY <1>0, <2>0, SMTT(60) DEF FrameType
  <2>3. h.rest = f.rest \ {t} /\ h.pc = "reattach" /\ h.t = t
    BY <1>0, <2>0, SMTT(60) DEF FrameType
  <2> HIDE DEF g, h
  <2>4. CASE Goto("manager", g)
    BY <1>h, <2>2, <2>4, SMTT(60)
  <2>5. CASE Goto("manager", h) /\ UNCHANGED <<task, process>>
    <3>1. OthersStay("manager") /\ frame'["manager"] = h
      BY <1>g, <2>5, SMTT(60)
    <3> QED
      BY <2>0, <2>3, <2>5, <3>1, SMTT(60) DEF HandsOver
  <2> QED
    BY <2>1, <2>4, <2>5, SMTT(60)
<1>4. CASE _start_orphaned
  <2>1. Goto("manager", [f EXCEPT !.pc = "reown"])
    BY <1>4 DEF _start_orphaned
  <2> QED
    BY <1>0, <1>h, <2>1, SMTT(60) DEF FrameType
<1>5. CASE Reown
  <2>1. Goto("manager", [f EXCEPT !.pc = "restart", !.t = None])
    BY <1>5 DEF Reown
  <2> QED
    BY <1>0, <1>h, <2>1, ZenonT(60) DEF FrameType
<1>6. CASE resume_stranded
  <2>1. PICK S : Goto("manager", [f EXCEPT !.pc = "resume", !.then = "redeliver", !.todo = S])
    BY <1>6, ZenonT(60) DEF resume_stranded
  <2> QED
    BY <1>0, <1>h, <2>1, ZenonT(60) DEF FrameType
<1>7. CASE _create_process("manager")
  <2>1. Goto("manager", IdleFrame) \/ Goto("manager", [f EXCEPT !.pc = "resume", !.t = None])
    BY <1>7 DEF _create_process
  <2>2. CASE Goto("manager", [f EXCEPT !.pc = "resume", !.t = None])
    BY <1>0, <1>h, <2>2, ZenonT(60) DEF FrameType
  <2> QED
    BY <1>i, <2>1, <2>2
<1>8. CASE _resume_open_exchange("manager")
  <2> DEFINE e == First(f.todo)
             g == [f EXCEPT !.todo = @ \ {e}]
  <2>1. Goto("manager", g) \/ \E u \in Tasks : Goto("manager", [g EXCEPT !.pc = "assemble", !.t = u])
    BY <1>8, ZenonT(60) DEF _resume_open_exchange, _start_answer
  <2>2. f.pc = "resume"
    BY <1>8, SMTT(60) DEF _resume_open_exchange
  <2> HIDE DEF e
  <2>3. g.rest \subseteq f.rest /\ g.pc = "resume"
    BY <1>0, <2>2, SMTT(60) DEF FrameType
  <2>4. ASSUME NEW u \in Tasks
        PROVE  LET h == [g EXCEPT !.pc = "assemble", !.t = u]
               IN  h.rest \subseteq f.rest /\ h.pc = "assemble"
    BY <1>0, SMTT(60) DEF FrameType
  <2> HIDE DEF g
  <2>5. CASE Goto("manager", g)
    BY <1>h, <2>3, <2>5, SMTT(60)
  <2>6. ASSUME NEW u \in Tasks, Goto("manager", [g EXCEPT !.pc = "assemble", !.t = u])
        PROVE  OthersStay("manager") /\ HandsOver
    BY <1>h, <2>4, <2>6, ZenonT(60)
  <2> QED
    BY <2>1, <2>5, <2>6, ZenonT(60)
<1>9. CASE Resumed("manager")
  <2>1. Goto("manager", IdleFrame) \/ Goto("manager", [f EXCEPT !.pc = f.then])
    BY <1>9 DEF Resumed
  <2>2. CASE Goto("manager", [f EXCEPT !.pc = f.then])
    BY <1>0, <1>h, <2>2 DEF FrameType
  <2> QED
    BY <1>i, <2>1, <2>2
<1>10. CASE request_result_delivery
  <2>1. \/ Goto("manager", IdleFrame)
        \/ \E u : Goto("manager", [f EXCEPT !.live = @ \ {u}])
    BY <1>10, ZenonT(60) DEF request_result_delivery, Done
  <2>2. f.pc = "redeliver"
    BY <1>10 DEF request_result_delivery
  <2>3. ASSUME NEW u, Goto("manager", [f EXCEPT !.live = @ \ {u}])
        PROVE  OthersStay("manager") /\ HandsOver
    BY <1>0, <1>h, <2>2, <2>3 DEF FrameType
  <2> QED
    BY <1>i, <2>1, <2>3, ZenonT(60)
<1> QED
  BY <1>1, <1>2, <1>3, <1>4, <1>5, <1>6, <1>7, <1>8, <1>9, <1>10, SMTT(60) DEF ManagerStep

(* Before recovery has read its rows, only a transport that detaches, the   *)
(* clock of a collection, recovery itself and another restart move.         *)
LEMMA QuietStep == ASSUME TypeOK, RecoverQuiet, [Next]_vars PROVE RecoverQuiet'
<1> SUFFICES ASSUME frame'["manager"].pc = "recover"
             PROVE  /\ inbox' = <<>> /\ frame'["actor"].pc = "idle" /\ frame'["user"].pc = "idle"
                    /\ \A t \in Tasks : process'[t] = NoProcess
  BY DEF RecoverQuiet
<1>1. CASE Crash
  BY <1>1, ZenonT(60) DEF Crash, IdleFrame, Threads
<1>2. CASE ~Crash
  <2>1. frame["manager"].pc = "recover" /\ ~ManagerStep
    BY <1>2, ManagerAlone, ManagerMoves, SMTT(60) DEF HandsOver, ListsOrphans
  <2>2. /\ inbox = <<>> /\ frame["actor"].pc = "idle" /\ frame["user"].pc = "idle"
        /\ \A t \in Tasks : process[t] = NoProcess
    BY <2>1, SMTT(60) DEF RecoverQuiet
  <2>3. /\ ~Built /\ ~Adopted /\ \A type : ~Taken(type)
        /\ \A t \in Tasks : process[t].phase = "none" /\ process[t].ask = "none"
    BY <2>1, <2>2, SMTT(60) DEF Built, Adopted, Taken, NoProcess
  <2>4. ~ActorStep
    <3>1. ~(SkipDuplicate \/ _handle_submit \/ _settle_exchange \/ HandleFlush \/ _handle_promote)
      BY <2>3, ZenonT(60)
         DEF SkipDuplicate, _handle_submit, _settle_exchange, HandleFlush, _handle_promote
    <3>2. ~(\/ _route \/ _collect_material \/ _cancel_exchanges \/ _apply_route \/ set_exchange
            \/ _ensure_owner \/ _create_process("actor") \/ _resume_open_exchange("actor")
            \/ Resumed("actor"))
      BY <2>2 DEF _route, _collect_material, _cancel_exchanges, _apply_route, set_exchange,
           _ensure_owner, _create_process, _resume_open_exchange, Resumed
    <3>3. ~(_handle_terminated \/ PromoteAlone \/ _reparent_material \/ ReviveTarget)
      BY <2>2 DEF _handle_terminated, PromoteAlone, _reparent_material, ReviveTarget
    <3> QED
      BY <3>1, <3>2, <3>3, SMTT(60) DEF ActorStep
  <2>5. ~StopStep
    BY <2>2, SMTT(60) DEF StopStep, ListParked, _cancel_parked_exchanges
  <2>6. \A t \in Tasks : ~PumpStep(t)
    BY <2>3, ZenonT(60)
       DEF PumpStep, Iterate, Finish, AskUser, ask_user, _finalize, _terminate_process
  <2>7. UserNext => unsubscribe
    BY <2>3, ZenonT(60) DEF UserNext, submit, Resend, _handle_cancel, subscribe, spawn_task, delete_task, Live
  <2>8. FaultNext => FALSE
    BY <1>2, <2>2, <2>3
       DEF FaultNext, PersistFails, SettleFails, CommandFails, FinalizeFails, AskFails
  <2>9. UNCHANGED <<inbox, frame, process>>
    <3>1. ASSUME NEW e \in Exchanges, promote_collected(e) PROVE FALSE
      BY <2>3, <3>1, ZenonT(60) DEF promote_collected
    <3> QED
      BY <2>1, <2>4, <2>5, <2>6, <2>7, <2>8, <3>1, ZenonT(60)
         DEF Next, unsubscribe, SweeperStep, QuietElapses, vars
  <2> QED
    BY <2>2, <2>9, SMTT(60)
<1> QED
  BY <1>1, <1>2, SMTT(60)

LEMMA StartInit == Init => StartInv
<1> SUFFICES ASSUME Init PROVE StartInv
  BY SMTT(60)
<1>1. /\ \A t \in Tasks : process[t].phase = "none" /\ ~task[t].empty
      /\ \A th \in Threads : frame[th].pc = "idle" /\ frame[th].rest = {}
  BY ZenonT(60) DEF Init, NoProcess, NoTask, IdleFrame
<1> QED
  BY <1>1, ZenonT(60) DEF StartInv, WorkersRun, OrphansRun, ClaimedRun, EmptyIsDone, RecoverQuiet, Claiming,
              Working, Threads, Starters

LEMMA StartStep == ASSUME TypeOK, OwnershipInv, StartInv, [Next]_vars PROVE StartInv'
<1>s. /\ \A t \in Tasks : StatusAccounted(t)
      /\ WorkAccounted /\ FramesAccounted /\ RecoverQuiet'
  BY StatusSteps, WorkSteps, FrameSteps, QuietStep, SMTT(60) DEF OwnershipInv, StartInv
<1>t. Tasks \subseteq Nat \ {None} /\ frame["manager"].rest \subseteq Tasks
  BY ManagerFrame, SMTT(60) DEF Tasks, None, FrameType
<1>l. \A t \in Tasks : ~Stored(t) => ~Live(t) /\ t \notin frame["manager"].rest
  BY DEF OwnershipInv, RowsExist, Processes
<1>w. \A t \in Tasks : process[t].phase \in Working => Live(t)
  BY DEF Working, Live
<1>m. \/ frame'["manager"] = frame["manager"]
      \/ OthersStay("manager") /\ (HandsOver \/ ListsOrphans)
      \/ Crash
  BY ManagerAlone, ManagerMoves, SMTT(60)
<1>1. WorkersRun'
  <2> SUFFICES ASSUME NEW t \in Tasks, process'[t].phase \in Working
               PROVE  task'[t].status = "RUNNING"
    BY ZenonT(60) DEF WorkersRun
  <2>1. CASE process[t].phase \in Working
    <3>1. task[t].status = "RUNNING"
      BY <2>1, SMTT(60) DEF StartInv, WorkersRun
    <3>2. Stored(t) /\ ~Ended(t) /\ ~GivenUp(t)
      BY <2>1, <3>1, <1>w, ZenonT(60) DEF Stored, Ended, GivenUp, Working, StartInv, OrphansRun
    <3> QED
      BY <1>s, <3>1, <3>2, ZenonT(60) DEF StatusAccounted, Same, Entered
  <2>2. CASE Spawned(t)
    BY <2>2, SMTT(60) DEF Spawned
  <2>3. CASE Begun(t)
    BY <2>3, ZenonT(60) DEF Begun, StartInv, ClaimedRun
  <2>4. CASE Restarted(t)
    BY <2>4, ZenonT(60) DEF Restarted, StartInv, OrphansRun
  <2> QED
    BY <1>s, <2>1, <2>2, <2>3, <2>4, ZenonT(60) DEF WorkAccounted, Continues
<1>2. ASSUME NEW t \in frame["manager"].rest, t \in frame'["manager"].rest
      PROVE  task'[t].status = "RUNNING" /\ ~LiveNext(t)
  <2>1. t \in Tasks /\ task[t].status = "RUNNING" /\ ~Live(t)
    BY <1>t, ZenonT(60) DEF StartInv, OrphansRun
  <2>2. Stored(t) /\ ~Ended(t) /\ ~GivenUp(t)
    BY <1>2, <2>1, ZenonT(60) DEF Stored, Ended, GivenUp, Live
  <2>3. ~Spawned(t) /\ ~Begun(t) /\ ~Restarted(t)
    BY <1>2, <2>2, ZenonT(60) DEF Spawned, Begun, Restarted, StartInv, ClaimedRun
  <2> QED
    BY <1>s, <2>1, <2>2, <2>3, ZenonT(60) DEF StatusAccounted, Same, Entered, WorkAccounted, Continues
<1>3. OrphansRun'
  <2> SUFFICES ASSUME NEW t \in frame'["manager"].rest
               PROVE  task'[t].status = "RUNNING" /\ ~LiveNext(t)
    BY SMTT(60) DEF OrphansRun, LiveNext, Live
  <2>1. CASE frame'["manager"] = frame["manager"] \/ HandsOver
    BY <1>2, <2>1, ZenonT(60) DEF HandsOver
  <2>2. CASE ListsOrphans
    <3>1. t \in Tasks /\ task[t].status = "RUNNING" /\ UNCHANGED <<task, process>>
      BY <2>2, SMTT(60) DEF ListsOrphans, list_orphaned
    <3>2. process[t].phase = "none"
      BY <2>2, <3>1, SMTT(60) DEF ListsOrphans, StartInv, RecoverQuiet, NoProcess
    <3> QED
      BY <3>1, <3>2, SMTT(60) DEF LiveNext
  <2>3. CASE Crash
    BY <2>3, ZenonT(60) DEF Crash, IdleFrame, Threads
  <2> QED
    BY <1>m, <2>1, <2>2, <2>3, SMTT(60)
<1>4. ASSUME NEW th \in Starters, Claiming(th), frame'[th] = frame[th]
      PROVE  /\ frame[th].t \in Tasks /\ task'[frame[th].t].status = "RUNNING"
             /\ ~LiveNext(frame[th].t) /\ Stored(frame[th].t)
             /\ frame[th].t \notin frame["manager"].rest
  <2> DEFINE t == frame[th].t
  <2>1. t \in Tasks /\ task[t].status = "RUNNING" /\ ~Live(t) /\ t \notin frame["manager"].rest
    BY <1>4, ZenonT(60) DEF StartInv, ClaimedRun
  <2>2. Stored(t) /\ ~Ended(t) /\ ~GivenUp(t)
    BY <2>1, ZenonT(60) DEF Stored, Ended, GivenUp, Live
  <2>3. ~Spawned(t) /\ ~Restarted(t)
    BY <2>1, <2>2, ZenonT(60) DEF Spawned, Restarted
  <2>4. ~Begun(t)
    <3> SUFFICES ASSUME NEW o \in Starters, Claiming(o), frame[o].t = t,
                        frame'[o].pc \notin {"assemble", "reattach"}
                 PROVE  FALSE
      BY ZenonT(60) DEF Begun
    <3>1. o # th
      BY <1>4, ZenonT(60) DEF Claiming
    <3> QED
      BY <1>4, <3>1, ZenonT(60) DEF StartInv, ClaimedRun
  <2> HIDE DEF t
  <2>5. task'[t].status = "RUNNING" /\ ~LiveNext(t)
    BY <1>s, <2>1, <2>2, <2>3, <2>4, ZenonT(60)
       DEF StatusAccounted, Same, Entered, WorkAccounted, Continues
  <2> QED
    BY <2>1, <2>2, <2>5, ZenonT(60) DEF t
<1>5. ASSUME NEW th \in Starters, Starting(th)
      PROVE  LET u == frame'[th].t
             IN  /\ u \in Tasks /\ task'[u].status = "RUNNING" /\ ~LiveNext(u) /\ ~Stored(u)
                 /\ u \notin frame["manager"].rest
  <2> DEFINE u == frame'[th].t
  <2>1. u \in Tasks /\ ~Stored(u) /\ StoredNext(u) /\ UNCHANGED process
    BY <1>5, ZenonT(60) DEF Starting
  <2> HIDE DEF u
  <2>2. ~Live(u) /\ u \notin frame["manager"].rest
    BY <1>l, <2>1, ZenonT(60)
  <2>3. ~Ended(u) /\ ~GivenUp(u) /\ ~Same(u)
    BY <2>1, <2>2, ZenonT(60) DEF Ended, GivenUp, Same, Live, Stored, StoredNext
  <2>4. task'[u].status = "RUNNING"
    BY <1>s, <2>1, <2>3, ZenonT(60) DEF StatusAccounted, Entered
  <2>5. ~LiveNext(u)
    BY <2>1, <2>2, SMTT(60) DEF LiveNext, Live
  <2> QED
    BY <2>1, <2>2, <2>4, <2>5, ZenonT(60) DEF u
<1>r. frame["manager"].pc # "recover" \/ \A th \in Starters : ~Claiming(th)
  BY DEF StartInv, RecoverQuiet, Claiming, Starters
<1>n. frame'["manager"].rest \subseteq frame["manager"].rest \/ frame'["manager"].rest = {}
      \/ ListsOrphans
  BY <1>m, ZenonT(60) DEF HandsOver, Crash, IdleFrame, Threads
<1>o. \A t \in Tasks : ~Stored(t) => t \notin frame'["manager"].rest
  BY <1>n, <1>l, ZenonT(60) DEF ListsOrphans, list_orphaned, Stored
<1>c. \A th \in Starters : Claiming(th)' =>
         \/ Claiming(th) /\ frame'[th] = frame[th]
         \/ Starting(th)
         \/ /\ th = "manager" /\ HandsOver /\ OthersStay("manager")
            /\ frame'["manager"].pc = "reattach"
  <2> SUFFICES ASSUME NEW th \in Starters, Claiming(th)',
                      ~(Claiming(th) /\ frame'[th] = frame[th]), ~Starting(th)
               PROVE  /\ th = "manager" /\ HandsOver /\ OthersStay("manager")
                      /\ frame'["manager"].pc = "reattach"
    OBVIOUS
  <2>1. th \in Threads /\ frame'[th] # frame[th]
    BY SMTT(60) DEF Claiming, Starters, Threads
  <2>2. frame'[th].pc # "assemble"
    BY <1>s, <2>1, ZenonT(60) DEF FramesAccounted
  <2>3. th = "manager" /\ frame'["manager"].pc = "reattach"
    BY <2>2, SMTT(60) DEF Claiming
  <2>4. ~Crash /\ ~ListsOrphans
    BY <2>3, SMTT(60) DEF Crash, ListsOrphans, IdleFrame, Threads
  <2> QED
    BY <1>m, <2>1, <2>3, <2>4, SMTT(60)
<1>6. ClaimedRun'
  <2> SUFFICES ASSUME NEW th \in Starters, Claiming(th)'
               PROVE  /\ frame'[th].t \in Tasks /\ task'[frame'[th].t].status = "RUNNING"
                      /\ ~LiveNext(frame'[th].t)
                      /\ frame'[th].t \notin frame'["manager"].rest
                      /\ \A o \in Starters : Claiming(o)' /\ o # th => frame'[o].t # frame'[th].t
    BY ZenonT(60) DEF ClaimedRun, LiveNext, Live
  <2>o. ASSUME NEW o \in Starters, NEW p \in Starters, o # p
        PROVE  (o = "actor" /\ p = "manager") \/ (o = "manager" /\ p = "actor")
    BY <2>o, SMTT(60) DEF Starters
  <2>s. ~(Starting("actor") /\ Starting("manager") /\ frame'["actor"] # frame["actor"]
             /\ frame'["manager"] # frame["manager"] /\ Claiming("manager")')
    <3> SUFFICES ASSUME frame'["actor"] # frame["actor"], frame'["manager"] # frame["manager"],
                        Claiming("manager")'
                 PROVE  FALSE
      OBVIOUS
    <3>1. ~OthersStay("manager")
      BY DEF OthersStay, Threads
    <3>2. Crash
      BY <1>m, <3>1, SMTT(60)
    <3> QED
      BY <3>2, ZenonT(60) DEF Crash, IdleFrame, Threads, Claiming
  <2>1. CASE Claiming(th) /\ frame'[th] = frame[th]
    <3>1. frame'[th].t \notin frame'["manager"].rest
      BY <1>4, <1>n, <1>r, <2>1, ZenonT(60) DEF ListsOrphans
    <3>2. ASSUME NEW o \in Starters, Claiming(o)', o # th PROVE frame'[o].t # frame[th].t
      <4>1. CASE Claiming(o) /\ frame'[o] = frame[o]
        BY <2>1, <3>2, <4>1, ZenonT(60) DEF StartInv, ClaimedRun
      <4>2. CASE Starting(o)
        BY <1>4, <1>5, <2>1, <4>2, ZenonT(60)
      <4>3. CASE o = "manager" /\ HandsOver /\ frame'["manager"].pc = "reattach"
        BY <1>4, <2>1, <4>3, ZenonT(60) DEF HandsOver
      <4> QED
        BY <1>c, <3>2, <4>1, <4>2, <4>3, ZenonT(60)
    <3> QED
      BY <1>4, <2>1, <3>1, <3>2, ZenonT(60)
  <2>2. CASE Starting(th) /\ ~(Claiming(th) /\ frame'[th] = frame[th])
    <3>1. /\ frame'[th].t \in Tasks /\ task'[frame'[th].t].status = "RUNNING"
          /\ ~LiveNext(frame'[th].t) /\ ~Stored(frame'[th].t)
      BY <1>5, <2>2, ZenonT(60)
    <3>2. frame'[th].t \notin frame'["manager"].rest
      BY <1>o, <3>1, ZenonT(60)
    <3>3. ASSUME NEW o \in Starters, Claiming(o)', o # th PROVE frame'[o].t # frame'[th].t
      <4>1. CASE Claiming(o) /\ frame'[o] = frame[o]
        BY <1>4, <3>1, <4>1, ZenonT(60)
      <4>2. CASE Starting(o) /\ ~(Claiming(o) /\ frame'[o] = frame[o])
        <5>1. frame'[o] # frame[o] /\ frame'[th] # frame[th]
          BY <2>2, <3>3, <4>2, ZenonT(60) DEF Claiming
        <5> QED
          BY <2>o, <2>s, <2>2, <3>3, <4>2, <5>1, ZenonT(60)
      <4>3. CASE o = "manager" /\ HandsOver /\ frame'["manager"].pc = "reattach"
        <5>1. frame'[o].t \in frame["manager"].rest
          BY <4>3, ZenonT(60) DEF HandsOver
        <5> QED
          BY <5>1, <3>1, <1>l, ZenonT(60)
      <4> QED
        BY <1>c, <3>3, <4>1, <4>2, <4>3, ZenonT(60)
    <3> QED
      BY <3>1, <3>2, <3>3, ZenonT(60)
  <2>3. CASE /\ th = "manager" /\ HandsOver /\ OthersStay("manager")
             /\ frame'["manager"].pc = "reattach"
    <3>1. /\ frame'["manager"].t \in frame["manager"].rest
          /\ frame'["manager"].t \notin frame'["manager"].rest /\ UNCHANGED <<task, process>>
      BY <2>3, ZenonT(60) DEF HandsOver
    <3>2. /\ frame'["manager"].t \in Tasks /\ task[frame'["manager"].t].status = "RUNNING"
          /\ ~Live(frame'["manager"].t)
      BY <1>t, <3>1, ZenonT(60) DEF StartInv, OrphansRun
    <3>3. ASSUME NEW o \in Starters, Claiming(o)', o # th PROVE frame'[o].t # frame'[th].t
      <4>1. frame'[o] = frame[o] /\ Claiming(o)
        BY <2>3, <3>3, ZenonT(60) DEF OthersStay, Claiming, Starters, Threads
      <4> QED
        BY <1>4, <2>3, <3>1, <4>1, ZenonT(60)
    <3> QED
      BY <2>3, <3>1, <3>2, <3>3, ZenonT(60) DEF LiveNext, Live
  <2> QED
    BY <1>c, <2>1, <2>2, <2>3, ZenonT(60)
<1>7. EmptyIsDone'
  <2> SUFFICES ASSUME NEW t \in Tasks, task'[t].empty PROVE task'[t].status = "DONE"
    BY ZenonT(60) DEF EmptyIsDone
  <2>1. CASE Same(t)
    BY <2>1, ZenonT(60) DEF Same, StartInv, EmptyIsDone
  <2>2. CASE GivenUp(t)
    <3>1. ~task[t].empty
      BY <2>2, ZenonT(60) DEF GivenUp, StartInv, OrphansRun, EmptyIsDone
    <3> QED
      BY <2>2, <3>1, ZenonT(60) DEF GivenUp
  <2> QED
    BY <1>s, <2>1, <2>2, ZenonT(60) DEF StatusAccounted, Entered, Ended
<1> QED
  BY <1>s, <1>1, <1>3, <1>6, <1>7, SMTT(60) DEF StartInv

-----------------------------------------------------------------------------
(* Delivery is never assumed *)

Heard(c, R) == c.heard => c.t \in R

(* Whatever says that a stream was heard is right. *)
HeardReached ==
    /\ \A t \in Tasks : process[t].heard => t \in reached
    /\ \A i \in 1..Len(inbox) : Heard(inbox[i], reached)
    /\ Heard(frame["actor"].cmd, reached)

(* What a step does to the inbox and to the command the actor works on. *)
PlainCommand(c) == c.type # "terminated" /\ ~c.heard

InboxAccounted ==
    \/ inbox' = inbox
    \/ \E c : PlainCommand(c) /\ inbox' = Append(inbox, c)
    \/ request_result_delivery
    \/ \E t \in Tasks : _terminate_process(t)
    \/ \E type \in {"submit", "flush", "promote"} : Taken(type)
    \/ _settle_exchange \/ SettleFails
    \/ Crash

LEMMA PlainCommands ==
    ASSUME TypeOK
    PROVE  /\ \A m \in Messages : PlainCommand(_Submit(m))
           /\ PlainCommand(_Flush) /\ \A e \in Exchanges : PlainCommand(_PromoteCollected(e))
           /\ \A t \in Tasks : Redelivery(t).t = t /\ ~Redelivery(t).heard
                               /\ Redelivery(t).type = "terminated"
BY SMTT(60) DEF PlainCommand, _Submit, _Flush, _PromoteCollected, Redelivery, NoCommand

LEMMA InboxSteps == ASSUME TypeOK, [Next]_vars PROVE InboxAccounted
<1>0. ASSUME UNCHANGED inbox PROVE InboxAccounted
  BY <1>0, SMTT(60) DEF InboxAccounted
<1>a. ASSUME NEW c, PlainCommand(c), inbox' = Append(inbox, c) PROVE InboxAccounted
  BY <1>a DEF InboxAccounted
<1>1. CASE UNCHANGED vars
  BY <1>0, <1>1, SMTT(60) DEF vars
<1>2. CASE UserNext
  BY <1>0, <1>a, <1>2, PlainCommands, ZenonT(60)
     DEF UserNext, submit, Resend, _handle_cancel, subscribe,
       unsubscribe, spawn_task, delete_task
<1>3. CASE StopStep
  BY <1>0, <1>3, SMTT(60) DEF StopStep, ListParked, _cancel_parked_exchanges
<1>4. ASSUME NEW t \in Tasks, PumpStep(t) PROVE InboxAccounted
  <2>1. CASE _terminate_process(t)
    BY <2>1, SMTT(60) DEF InboxAccounted
  <2> QED
    BY <1>0, <1>4, <2>1, ZenonT(60) DEF PumpStep, Iterate, Finish, AskUser, ask_user, _finalize
<1>5. CASE ActorStep
  <2>1. CASE SkipDuplicate \/ _handle_submit \/ HandleFlush \/ _handle_promote \/ _settle_exchange
    BY <2>1, ZenonT(60)
       DEF SkipDuplicate, _handle_submit, HandleFlush, _handle_promote, InboxAccounted
  <2>2. CASE _route \/ _collect_material \/ _cancel_exchanges \/ _apply_route \/ set_exchange
    BY <1>0, <2>2, ZenonT(60)
       DEF _route, _collect_material, _cancel_exchanges, _apply_route, set_exchange
  <2>3. CASE _ensure_owner \/ _create_process("actor") \/ _resume_open_exchange("actor")
             \/ Resumed("actor") \/ _handle_terminated
    BY <1>0, <2>3, ZenonT(60) DEF _ensure_owner, _create_process, _resume_open_exchange, Resumed,
         _handle_terminated
  <2>4. CASE PromoteAlone \/ _reparent_material \/ ReviveTarget
    BY <1>0, <2>4, ZenonT(60) DEF PromoteAlone, _reparent_material, ReviveTarget
  <2> QED
    BY <1>5, <2>1, <2>2, <2>3, <2>4, ZenonT(60) DEF ActorStep
<1>6. CASE ManagerStep
  <2>1. CASE request_result_delivery
    BY <2>1 DEF InboxAccounted
  <2> QED
    BY <1>0, <1>6, <2>1, ZenonT(60) DEF ManagerStep, _recover_dialog, RefuseRestart, restart_task,
         _start_orphaned, Reown, resume_stranded, _create_process, _resume_open_exchange, Resumed
<1>7. CASE SweeperStep
  BY <1>0, <1>a, <1>7, PlainCommands, ZenonT(60) DEF SweeperStep, QuietElapses, promote_collected
<1>8. CASE FaultNext
  <2>1. CASE Crash \/ SettleFails
    BY <2>1, SMTT(60) DEF InboxAccounted
  <2>2. CASE PersistFails
    BY <2>2, SMTT(60) DEF PersistFails, InboxAccounted
  <2> QED
    BY <1>0, <1>8, <2>1, <2>2, ZenonT(60) DEF FaultNext, CommandFails, FinalizeFails, AskFails
<1> QED
  BY <1>1, <1>2, <1>3, <1>4, <1>5, <1>6, <1>7, <1>8, SMTT(60) DEF Next

(* The command in the actor's hands is the one it had, or comes from the    *)
(* inbox, or is none.                                                       *)
ActorCommand ==
    \/ frame'["actor"].cmd = frame["actor"].cmd
    \/ frame'["actor"].cmd = NoCommand
    \/ inbox # <<>> /\ frame'["actor"].cmd = Head(inbox)

LEMMA ActorCommandSteps == ASSUME TypeOK, [Next]_vars PROVE ActorCommand
<1> DEFINE f == frame["actor"]
<1>f. f \in FrameType(Exchanges) /\ "actor" \in Threads
  BY ActorFrame, ZenonT(60) DEF Threads
<1>0. ASSUME frame'["actor"] = frame["actor"] PROVE ActorCommand
  BY <1>0, SMTT(60) DEF ActorCommand
<1>g. ASSUME NEW g, Goto("actor", g), \/ g.cmd = f.cmd \/ g.cmd = NoCommand
                                      \/ inbox # <<>> /\ g.cmd = Head(inbox)
      PROVE ActorCommand
  BY <1>f, <1>g, ZenonT(60) DEF Goto, TypeOK, FramesOK, ActorCommand
<1>i. ASSUME Goto("actor", IdleFrame) PROVE ActorCommand
  BY <1>g, <1>i, ZenonT(60) DEF IdleFrame
<1>o. ASSUME NEW th \in {"user", "manager"}, NEW g, Goto(th, g) PROVE ActorCommand
  BY <1>0, <1>o, ZenonT(60) DEF Goto, TypeOK, FramesOK, Threads
<1>1. CASE UNCHANGED vars
  BY <1>0, <1>1, SMTT(60) DEF vars
<1>2. CASE UserNext
  BY <1>0, <1>o, <1>2, ZenonT(60)
     DEF UserNext, submit, Resend, _handle_cancel, subscribe, unsubscribe, spawn_task,
                          delete_task
<1>3. CASE StopStep
  BY <1>o, <1>3, ZenonT(60) DEF StopStep, ListParked, _cancel_parked_exchanges
<1>4. ASSUME NEW t \in Tasks, PumpStep(t) PROVE ActorCommand
  BY <1>0, <1>4, ZenonT(60)
     DEF PumpStep, Iterate, Finish, AskUser, ask_user, _finalize, _terminate_process
<1>5. CASE ActorStep
  <2>h. ASSUME NEW c, NEW L PROVE [IdleFrame EXCEPT !.cmd = c, !.live = L].cmd = c
    BY DEF IdleFrame
  <2>1. CASE _handle_submit
    <3> DEFINE c == Head(inbox)
               L == list_live
               g == [IdleFrame EXCEPT !.cmd = c, !.live = L]
               x == First(_sole_fresh_collection(list_live))
    <3>1. \/ \E pc \in {"collect", "apply", "routing"} : Goto("actor", [g EXCEPT !.pc = pc])
          \/ Goto("actor", [g EXCEPT !.pc = "apply", !.act = "CONTINUE", !.ex = x])
      BY <2>1 DEF _handle_submit
    <3>2. inbox # <<>>
      BY <2>1 DEF _handle_submit, Taken
    <3> HIDE DEF c, L, x
    <3>3. \A pc : [g EXCEPT !.pc = pc].cmd = c
      BY DEF IdleFrame
    <3>4. [g EXCEPT !.pc = "apply", !.act = "CONTINUE", !.ex = x].cmd = c
      BY DEF IdleFrame
    <3> HIDE DEF g
    <3> QED
      BY <1>g, <3>1, <3>2, <3>3, <3>4, ZenonT(60) DEF c
  <2>2. CASE _route
    <3>1. \A r, a, e : /\ [f EXCEPT !.pc = "apply", !.act = a, !.ex = e, !.rest = r].cmd = f.cmd
                       /\ [f EXCEPT !.pc = "apply", !.act = a, !.rest = r].cmd = f.cmd
      BY <1>f DEF FrameType
    <3> QED
      BY <1>g, <2>2, <3>1, ZenonT(60) DEF _route
  <2>a. \A e : [f EXCEPT !.pc = "attach", !.ex = e].cmd = f.cmd
    BY <1>f DEF FrameType
  <2>3. CASE _collect_material \/ _apply_route
    BY <1>g, <1>i, <2>3, <2>a, ZenonT(60) DEF _collect_material, _apply_route, Done
  <2>4. CASE _cancel_exchanges
    <3> DEFINE e == First(f.rest)
    <3>1. Goto("actor", [f EXCEPT !.rest = @ \ {e}, !.cancelled = @ \cup {e}])
      BY <2>4, ZenonT(60) DEF _cancel_exchanges
    <3>2. [f EXCEPT !.rest = @ \ {e}, !.cancelled = @ \cup {e}].cmd = f.cmd
      BY <1>f, SMTT(60) DEF FrameType
    <3> QED
      BY <1>g, <3>1, <3>2, ZenonT(60)
  <2>5. CASE set_exchange
    <3>1. [f EXCEPT !.pc = "own"].cmd = f.cmd
      BY <1>f DEF FrameType
    <3> QED
      BY <1>g, <1>i, <2>5, <3>1, ZenonT(60) DEF set_exchange
  <2>6. CASE _ensure_owner
    <3>1. \A t : [f EXCEPT !.pc = "assemble", !.t = t].cmd = f.cmd
      BY <1>f DEF FrameType
    <3> QED
      BY <1>g, <1>i, <2>6, <3>1, ZenonT(60) DEF _ensure_owner, _start_answer, Done
  <2>7. CASE _create_process("actor") \/ Resumed("actor")
    <3>1. /\ [f EXCEPT !.pc = "resume", !.t = None].cmd = f.cmd
          /\ [f EXCEPT !.pc = f.then].cmd = f.cmd
      BY <1>f DEF FrameType
    <3> QED
      BY <1>g, <1>i, <2>7, <3>1, ZenonT(60) DEF _create_process, Resumed
  <2>8. CASE _resume_open_exchange("actor")
    <3> DEFINE e == First(f.todo)
               g == [f EXCEPT !.todo = @ \ {e}]
    <3>1. Goto("actor", g) \/ \E t \in Tasks : Goto("actor", [g EXCEPT !.pc = "assemble", !.t = t])
      BY <2>8, ZenonT(60) DEF _resume_open_exchange, _start_answer
    <3> HIDE DEF e
    <3>2. g.cmd = f.cmd /\ \A t : [g EXCEPT !.pc = "assemble", !.t = t].cmd = f.cmd
      BY <1>f DEF FrameType
    <3> QED
      BY <1>g, <3>1, <3>2, ZenonT(60)
  <2>9. CASE _settle_exchange
    <3> DEFINE c == Head(inbox)
               g == [IdleFrame EXCEPT !.cmd = c, !.pc = "deliver"]
    <3>1. \/ Goto("actor", g)
          \/ Goto("actor", [g EXCEPT !.pc = "resume", !.todo = {c.ex}, !.then = "deliver"])
      BY <2>9 DEF _settle_exchange
    <3>2. inbox # <<>>
      BY <2>9 DEF _settle_exchange, Taken
    <3> HIDE DEF c
    <3>3. g.cmd = c /\ [g EXCEPT !.pc = "resume", !.todo = {c.ex}, !.then = "deliver"].cmd = c
      BY DEF IdleFrame
    <3> HIDE DEF g
    <3> QED
      BY <1>g, <3>1, <3>2, <3>3, ZenonT(60) DEF c
  <2>r. \A g \in FrameType(Exchanges) :
           \A S, n : [g EXCEPT !.pc = "resume", !.todo = S, !.then = n].cmd = g.cmd
    BY DEF FrameType
  <2>10. CASE _handle_terminated \/ PromoteAlone \/ ReviveTarget
    <3>1. \/ \E S : Goto("actor", [f EXCEPT !.pc = "resume", !.todo = S, !.then = "idle"])
          \/ Goto("actor", IdleFrame)
      BY <2>10, ZenonT(60) DEF _handle_terminated, PromoteAlone, ReviveTarget, Revive, Done
    <3> QED
      BY <1>f, <1>g, <1>i, <2>r, <3>1, ZenonT(60)
  <2>11. CASE _reparent_material
    <3>1. \A e : [f EXCEPT !.pc = "revive", !.ex = e].cmd = f.cmd
      BY <1>f DEF FrameType
    <3> QED
      BY <1>g, <2>11, <3>1, ZenonT(60) DEF _reparent_material
  <2>12. CASE _handle_promote
    <3> DEFINE c == Head(inbox)
               L == {e \in list_live \ {c.ex} : status[e] # "COLLECTING"}
               g == [IdleFrame EXCEPT !.cmd = c, !.live = L]
               h == [g EXCEPT !.pc = "resume", !.todo = {c.ex}, !.then = "idle"]
    <3>1. UNCHANGED frame \/ Goto("actor", h) \/ Goto("actor", [g EXCEPT !.pc = "material"])
      BY <2>12 DEF _handle_promote, Revive
    <3>2. inbox # <<>>
      BY <2>12 DEF _handle_promote, Taken
    <3> HIDE DEF c, L
    <3>3. h.cmd = c /\ [g EXCEPT !.pc = "material"].cmd = c
      BY DEF IdleFrame
    <3> HIDE DEF h, g
    <3> QED
      BY <1>0, <1>g, <3>1, <3>2, <3>3, ZenonT(60) DEF c
  <2>13. CASE SkipDuplicate \/ HandleFlush
    BY <1>0, <2>13, ZenonT(60) DEF SkipDuplicate, HandleFlush
  <2> QED
    BY <1>5, <2>1, <2>2, <2>3, <2>4, <2>5, <2>6, <2>7, <2>8, <2>9, <2>10, <2>11, <2>12, <2>13, SMTT(60)
       DEF ActorStep
<1>6. CASE ManagerStep
  <2>1. OthersStay("manager")
    BY <1>6, ManagerMoves
  <2> QED
    BY <1>0, <2>1, SMTT(60) DEF OthersStay, Threads
<1>7. CASE SweeperStep
  BY <1>0, <1>7, ZenonT(60) DEF SweeperStep, QuietElapses, promote_collected
<1>8. CASE FaultNext
  <2>1. CASE Crash
    BY <2>1, ZenonT(60) DEF Crash, IdleFrame, Threads, ActorCommand
  <2> QED
    BY <1>0, <1>i, <1>8, <2>1, ZenonT(60)
       DEF FaultNext, PersistFails, SettleFails, CommandFails, Done,
         FinalizeFails, AskFails
<1> QED
  BY <1>1, <1>2, <1>3, <1>4, <1>5, <1>6, <1>7, <1>8, SMTT(60) DEF Next
(* What is heard was heard before, or reaches the queue in this step. *)
HeardAccounted ==
    /\ reached \subseteq reached'
    /\ \A t \in Tasks : process'[t].heard => process[t].heard \/ t \in reached'

LEMMA HeardSteps == ASSUME TypeOK, [Next]_vars PROVE HeardAccounted
<1> DEFINE Kept == \A t \in Tasks : process'[t].heard => process[t].heard
<1>0. ASSUME UNCHANGED reached, UNCHANGED process PROVE HeardAccounted
  BY <1>0, SMTT(60) DEF HeardAccounted
<1>k. ASSUME UNCHANGED reached, Kept PROVE HeardAccounted
  BY <1>k, ZenonT(60) DEF HeardAccounted
<1>n. ASSUME NEW t \in Tasks, NEW p, process' = [process EXCEPT ![t] = p], p.heard => process[t].heard
      PROVE  Kept
  BY <1>n, ZenonT(60) DEF TypeOK
<1>p. \A x \in {"new", "finalized", "unsaved"} : \A s, e, r :
         /\ ~[NoProcess EXCEPT !.phase = x].heard
         /\ ~[NoProcess EXCEPT !.phase = x, !.seen = s].heard
         /\ ~[NoProcess EXCEPT !.phase = x, !.seen = s, !.epoch = e, !.tripped = r].heard
         /\ ~NoProcess.heard
  BY SMTT(60) DEF NoProcess
<1>q. \A t \in Tasks : \A x, s, z :
         /\ [process[t] EXCEPT !.phase = x].heard = process[t].heard
         /\ [process[t] EXCEPT !.ask = x].heard = process[t].heard
         /\ [process[t] EXCEPT !.tripped = x].heard = process[t].heard
         /\ [process[t] EXCEPT !.seen = s, !.phase = x, !.terminal = z].heard = process[t].heard
  BY ZenonT(60) DEF TypeOK, ProcessType
<1>1. CASE UNCHANGED vars
  BY <1>0, <1>1, SMTT(60) DEF vars, delivery
<1>2. CASE UserNext
  <2>1. CASE _handle_cancel
    <3>1. Kept
      BY <2>1, <1>q, SMTT(60) DEF _handle_cancel
    <3> QED
      BY <1>k, <2>1, <3>1, SMTT(60) DEF _handle_cancel, delivery
  <2>2. CASE spawn_task
    <3>1. Kept
      BY <2>2, <1>n, <1>p, ZenonT(60) DEF spawn_task
    <3> QED
      BY <1>k, <2>2, <3>1, SMTT(60) DEF spawn_task, delivery
  <2>3. ASSUME NEW t \in Tasks, delete_task(t) PROVE HeardAccounted
    <3>1. process' = [process EXCEPT ![t] = [process[t] EXCEPT !.tripped = TRUE]]
      BY <2>3, ZenonT(60) DEF delete_task, TypeOK
    <3>2. Kept
      BY <3>1, <1>n, <1>q, SMTT(60)
    <3> QED
      BY <1>k, <2>3, <3>2, SMTT(60) DEF delete_task, delivery
  <2> QED
    BY <1>0, <1>2, <2>1, <2>2, <2>3, ZenonT(60)
       DEF UserNext, submit, Resend, subscribe, unsubscribe, delivery
<1>3. CASE StopStep
  BY <1>0, <1>3, ZenonT(60) DEF StopStep, ListParked, _cancel_parked_exchanges, delivery
<1>4. ASSUME NEW t \in Tasks, PumpStep(t) PROVE HeardAccounted
  <2>1. CASE Iterate(t)
    <3> DEFINE s == IF task[t].ex = None THEN {} ELSE narrative
               x == IF process[t].tripped THEN "ended" ELSE "running"
               z == IF process[t].tripped THEN "Cancelled" ELSE "none"
    <3>1. process' = [process EXCEPT ![t].seen = s, ![t].phase = x, ![t].terminal = z]
      BY <2>1 DEF Iterate
    <3> HIDE DEF s, x, z
    <3>2. process' = [process EXCEPT ![t] = [process[t] EXCEPT !.seen = s, !.phase = x, !.terminal = z]]
      BY <3>1, ZenonT(60) DEF TypeOK
    <3>3. Kept
      BY <3>2, <1>n, <1>q
    <3> QED
      BY <1>k, <2>1, <3>3, ZenonT(60) DEF Iterate, delivery
  <2>2. ASSUME NEW terminal \in Terminals, Finish(t, terminal) PROVE HeardAccounted
    <3> DEFINE a == IF process[t].ask = "asking" THEN "lost" ELSE process[t].ask
               h == watching /\ task[t].ex # None /\ terminal # "Cancelled"
    <3>1. process' = [process EXCEPT ![t].phase = "ended", ![t].terminal = terminal,
                                     ![t].ask = a, ![t].heard = h]
      BY <2>2, ZenonT(60) DEF Finish, TypeOK
    <3>2. h => t \in reached'
      BY <2>2, SMTT(60) DEF Finish
    <3>3. reached \subseteq reached'
      BY <2>2, SMTT(60) DEF Finish
    <3> HIDE DEF a, h
    <3>4. \A u \in Tasks : u # t => process'[u] = process[u]
      BY <3>1, ZenonT(60) DEF TypeOK
    <3>5. process'[t].heard = h
      BY <3>1, ZenonT(60) DEF TypeOK, ProcessType
    <3> QED
      BY <3>2, <3>3, <3>4, <3>5, ZenonT(60) DEF HeardAccounted
  <2>3. CASE AskUser(t) \/ ask_user(t)
    <3>1. PICK x : process' = [process EXCEPT ![t].ask = x]
      BY <2>3, SMTT(60) DEF AskUser, ask_user
    <3>2. process' = [process EXCEPT ![t] = [process[t] EXCEPT !.ask = x]]
      BY <3>1, SMTT(60) DEF TypeOK
    <3>3. Kept
      BY <3>2, <1>n, <1>q, SMTT(60)
    <3> QED
      BY <1>k, <2>3, <3>3, SMTT(60) DEF AskUser, ask_user, delivery
  <2>4. CASE _finalize(t)
    <3>1. process' = [process EXCEPT ![t] = [process[t] EXCEPT !.phase = "finalized"]]
      BY <2>4, ZenonT(60) DEF _finalize, TypeOK
    <3>2. Kept
      BY <3>1, <1>n, <1>q, SMTT(60)
    <3> QED
      BY <1>k, <2>4, <3>2, SMTT(60) DEF _finalize, delivery
  <2>5. CASE _terminate_process(t)
    <3>1. Kept
      BY <2>5, <1>n, <1>p, SMTT(60) DEF _terminate_process
    <3> QED
      BY <1>k, <2>5, <3>1, ZenonT(60) DEF _terminate_process, delivery
  <2> QED
    BY <1>4, <2>1, <2>2, <2>3, <2>4, <2>5, ZenonT(60) DEF PumpStep
<1>c. ASSUME NEW th \in Starters, _create_process(th) PROVE HeardAccounted
  <2> DEFINE e == frame[th].cmd.epoch
             r == PredatesStop(e)
             t == frame[th].t
  <2>1. process' = [process EXCEPT ![t] = [NoProcess EXCEPT
                      !.phase = "new", !.seen = narrative, !.epoch = e, !.tripped = r]]
    BY <1>c, SMTT(60) DEF _create_process
  <2>2. ~[NoProcess EXCEPT !.phase = "new", !.seen = narrative, !.epoch = e, !.tripped = r].heard
    BY <1>p, SMTT(60)
  <2> HIDE DEF e, r, t
  <2>3. Kept
    BY <2>1, <2>2, ZenonT(60) DEF TypeOK
  <2> QED
    BY <1>k, <1>c, <2>3, SMTT(60) DEF _create_process, delivery
<1>5. CASE ActorStep
  <2>1. CASE _create_process("actor")
    BY <1>c, <2>1, SMTT(60) DEF Starters
  <2>2. CASE _cancel_exchanges
    <3> DEFINE e == First(frame["actor"].rest)
               t == First(_live_process_for(e))
    <3>1. \/ process' = process \/ process' = [process EXCEPT ![t].tripped = TRUE]
      BY <2>2, ZenonT(60) DEF _cancel_exchanges
    <3> HIDE DEF t
    <3>2. \A u \in Tasks : process'[u].heard = process[u].heard
      <4> SUFFICES ASSUME NEW u \in Tasks PROVE process'[u].heard = process[u].heard
        OBVIOUS
      <4>1. process'[u] = process[u] \/ process'[u] = [process[u] EXCEPT !.tripped = TRUE]
        BY <3>1, ZenonT(60) DEF TypeOK
      <4> QED
        BY <4>1, <1>q, ZenonT(60)
    <3> QED
      BY <1>k, <2>2, <3>2, ZenonT(60) DEF _cancel_exchanges, delivery
  <2>3. CASE _handle_terminated \/ HandleFlush
    <3>1. reached \subseteq reached' /\ UNCHANGED process
      BY <2>3, ZenonT(60) DEF _handle_terminated, HandleFlush, _flush_deliveries
    <3> QED
      BY <3>1, SMTT(60) DEF HeardAccounted
  <2> QED
    BY <1>0, <1>5, <2>1, <2>2, <2>3, ZenonT(60)
       DEF ActorStep, SkipDuplicate, _handle_submit, _route,
         _collect_material, _apply_route, set_exchange, _ensure_owner, _resume_open_exchange,
         Resumed, _settle_exchange, _handle_promote, PromoteAlone, _reparent_material, ReviveTarget,
         delivery
<1>6. CASE ManagerStep
  <2>1. CASE _create_process("manager")
    BY <1>c, <2>1, SMTT(60) DEF Starters
  <2>2. CASE RefuseRestart
    <3>1. reached \subseteq reached' /\ UNCHANGED process
      BY <2>2, ZenonT(60) DEF RefuseRestart, _flush_deliveries
    <3> QED
      BY <3>1 DEF HeardAccounted
  <2>3. CASE restart_task
    <3> DEFINE t == First(frame["manager"].rest)
    <3>1. process' = process \/ process' = [process EXCEPT ![t] = [NoProcess EXCEPT !.phase = "new"]]
      BY <2>3, ZenonT(60) DEF restart_task
    <3> HIDE DEF t
    <3>2. Kept
      BY <3>1, <1>p, ZenonT(60) DEF TypeOK
    <3> QED
      BY <1>k, <2>3, <3>2, ZenonT(60) DEF restart_task, delivery
  <2>4. CASE _start_orphaned
    <3> DEFINE t == frame["manager"].t
    <3>1. process' = [process EXCEPT ![t] = [NoProcess EXCEPT !.phase = "new", !.seen = narrative]]
      BY <2>4 DEF _start_orphaned
    <3> HIDE DEF t
    <3>2. Kept
      BY <3>1, <1>p, ZenonT(60) DEF TypeOK
    <3> QED
      BY <1>k, <2>4, <3>2 DEF _start_orphaned, delivery
  <2> QED
    BY <1>0, <1>6, <2>1, <2>2, <2>3, <2>4, ZenonT(60)
       DEF ManagerStep, _recover_dialog, Reown, resume_stranded,
         _resume_open_exchange, Resumed, request_result_delivery, delivery
<1>7. CASE SweeperStep
  BY <1>0, <1>7, ZenonT(60) DEF SweeperStep, QuietElapses, promote_collected, delivery
<1>8. CASE FaultNext
  <2>1. CASE Crash
    <3>1. Kept
      BY <2>1, ZenonT(60) DEF Crash, NoProcess
    <3> QED
      BY <1>k, <2>1, <3>1, SMTT(60) DEF Crash
  <2>2. ASSUME NEW t \in Tasks, FinalizeFails(t) \/ AskFails(t) PROVE HeardAccounted
    <3>1. \/ process' = [process EXCEPT ![t] = [process[t] EXCEPT !.phase = "unsaved"]]
          \/ process' = [process EXCEPT ![t] = [process[t] EXCEPT !.ask = "lost"]]
      BY <2>2, ZenonT(60) DEF FinalizeFails, AskFails, TypeOK
    <3>2. Kept
      BY <3>1, <1>n, <1>q, ZenonT(60)
    <3> QED
      BY <1>k, <2>2, <3>2, SMTT(60) DEF FinalizeFails, AskFails, delivery
  <2> QED
    BY <1>0, <1>8, <2>1, <2>2, ZenonT(60)
       DEF FaultNext, PersistFails, SettleFails, CommandFails, delivery
<1> QED
  BY <1>1, <1>2, <1>3, <1>4, <1>5, <1>6, <1>7, <1>8 DEF Next

(* So HeardReached is kept. *)
LEMMA HeardStep == ASSUME TypeOK, HeardReached, [Next]_vars PROVE HeardReached'
<1>1. HeardAccounted
  BY HeardSteps
<1>2. \A t \in Tasks : process'[t].heard => t \in reached'
  BY <1>1, ZenonT(60) DEF HeardAccounted, HeardReached
<1>h. ASSUME NEW c, Heard(c, reached) PROVE Heard(c, reached')
  BY <1>1, <1>h, SMTT(60) DEF HeardAccounted, Heard
<1>p. ASSUME NEW c, ~c.heard PROVE Heard(c, reached')
  BY <1>p, SMTT(60) DEF Heard
<1>old. \A i \in 1..Len(inbox) : inbox[i] \in CommandType /\ Heard(inbox[i], reached')
  BY <1>h, SMTT(60) DEF HeardReached, TypeOK
<1>add. ASSUME NEW c, Heard(c, reached'), inbox' = Append(inbox, c)
        PROVE  \A i \in 1..Len(inbox') : Heard(inbox'[i], reached')
  <2>1. Len(inbox') = Len(inbox) + 1 /\ Len(inbox) \in Nat
    BY <1>add, SMTT(60) DEF TypeOK
  <2>2. \A i \in 1..Len(inbox') : inbox'[i] = IF i = Len(inbox) + 1 THEN c ELSE inbox[i]
    BY <1>add, SMTT(60) DEF TypeOK
  <2> QED
    BY <1>add, <1>old, <2>1, <2>2, SMTT(60)
<1>cut. ASSUME inbox # <<>>, inbox' = Tail(inbox) PROVE \A i \in 1..Len(inbox') : Heard(inbox'[i], reached')
  <2>1. Len(inbox') = Len(inbox) - 1 /\ Len(inbox) \in Nat \ {0}
    BY <1>cut, SMTT(60) DEF TypeOK
  <2>2. \A i \in 1..Len(inbox') : inbox'[i] = inbox[i + 1]
    BY <1>cut, <2>1, SMTT(60) DEF TypeOK
  <2> QED
    BY <1>old, <2>1, <2>2, SMTT(60)
<1>3. \A i \in 1..Len(inbox') : Heard(inbox'[i], reached')
  <2>1. CASE inbox' = inbox
    BY <1>old, <2>1, SMTT(60)
  <2>2. ASSUME NEW c, PlainCommand(c), inbox' = Append(inbox, c)
        PROVE  \A i \in 1..Len(inbox') : Heard(inbox'[i], reached')
    BY <1>add, <1>p, <2>2, SMTT(60) DEF PlainCommand
  <2>3. CASE request_result_delivery
    <3> DEFINE c == Redelivery(First(frame["manager"].live))
    <3>1. inbox' = inbox \/ inbox' = Append(inbox, c)
      BY <2>3 DEF request_result_delivery
    <3>2. ~c.heard
      BY DEF Redelivery, NoCommand
    <3>3. Heard(c, reached')
      BY <3>2, SMTT(60) DEF Heard, Redelivery, NoCommand
    <3> HIDE DEF c
    <3> QED
      BY <1>add, <2>1, <3>1, <3>3, SMTT(60)
  <2>4. ASSUME NEW t \in Tasks, _terminate_process(t)
        PROVE  \A i \in 1..Len(inbox') : Heard(inbox'[i], reached')
    <3> DEFINE c == _ProcessTerminated(t)
    <3>1. inbox' = Append(inbox, c)
      BY <2>4, ZenonT(60) DEF _terminate_process
    <3>2. c.heard = process[t].heard /\ c.t = t
      BY ZenonT(60) DEF _ProcessTerminated
    <3>3. PICK d : d = c
      BY SMTT(60)
    <3> HIDE DEF c
    <3>4. Heard(d, reached)
      BY <3>2, <3>3, ZenonT(60) DEF Heard, HeardReached
    <3> QED
      BY <1>add, <1>h, <3>1, <3>3, <3>4, SMTT(60)
  <2>5. CASE (\E type \in {"submit", "flush", "promote"} : Taken(type)) \/ _settle_exchange \/ SettleFails
    <3>1. inbox # <<>> /\ inbox' = Tail(inbox)
      BY <2>5, ZenonT(60) DEF _settle_exchange, SettleFails, Taken
    <3> QED
      BY <1>cut, <3>1
  <2>6. CASE Crash
    BY <2>6 DEF Crash
  <2> QED
    BY InboxSteps, <2>1, <2>2, <2>3, <2>4, <2>5, <2>6, ZenonT(60) DEF InboxAccounted
<1>4. Heard(frame'["actor"].cmd, reached')
  <2>1. CASE frame'["actor"].cmd = frame["actor"].cmd
    BY <1>h, <2>1, ZenonT(60) DEF HeardReached, Heard
  <2>2. CASE frame'["actor"].cmd = NoCommand
    BY <2>2, SMTT(60) DEF NoCommand, Heard
  <2>3. CASE inbox # <<>> /\ frame'["actor"].cmd = Head(inbox)
    <3>1. 1 \in 1..Len(inbox) /\ Head(inbox) = inbox[1]
      BY <2>3, SMTT(60) DEF TypeOK
    <3> QED
      BY <1>old, <2>3, <3>1, ZenonT(60) DEF Heard
  <2> QED
    BY ActorCommandSteps, <2>1, <2>2, <2>3, ZenonT(60) DEF ActorCommand
<1> QED
  BY <1>2, <1>3, <1>4, ZenonT(60) DEF HeardReached, Heard

(* A flush stamps what it sends. *)
LEMMA FlushReaches ==
    ASSUME TypeOK, NEW T, NEW rowsNow \in [Tasks -> TaskType], _flush_deliveries(T, rowsNow)
    PROVE  \A t \in Tasks : task'[t].delivered => rowsNow[t].delivered \/ t \in reached'
<1> SUFFICES ASSUME NEW t \in Tasks PROVE task'[t].delivered => rowsNow[t].delivered \/ t \in reached'
  OBVIOUS
<1>1. CASE watching
  <2> DEFINE now == rowsNow[t].delivered \/ t \in outbox \cup T
  <2>1. task'[t] = [rowsNow[t] EXCEPT !.delivered = now]
    BY <1>1 DEF _flush_deliveries
  <2>2. now => rowsNow[t].delivered \/ t \in reached'
    BY <1>1 DEF _flush_deliveries
  <2> HIDE DEF now
  <2>3. task'[t].delivered = now
    BY <2>1 DEF TaskType
  <2> QED
    BY <2>2, <2>3, SMTT(60)
<1>2. CASE ~watching
  BY <1>2, SMTT(60) DEF _flush_deliveries
<1> QED
  BY <1>1, <1>2, ZenonT(60)

(* Only what reached a queue is newly stamped. *)
LEMMA StampStep ==
    ASSUME TypeOK, StartInv, HeardReached, OnlyReachedIsDelivered, [Next]_vars
    PROVE  OnlyReachedIsDelivered'
<1>m. reached \subseteq reached'
  BY HeardSteps, ZenonT(60) DEF HeardAccounted
<1> DEFINE Fine(t) == task'[t].delivered /\ ~task'[t].empty => t \in reached'
<1>k. ASSUME NEW t \in Tasks, task'[t].delivered = task[t].delivered, task'[t].empty = task[t].empty
      PROVE  Fine(t)
  BY <1>k, <1>m, ZenonT(60) DEF OnlyReachedIsDelivered
<1>s. ASSUME NEW t \in Tasks, task'[t] = task[t] PROVE Fine(t)
  BY <1>k, <1>s, ZenonT(60)
<1>0. ASSUME UNCHANGED task PROVE OnlyReachedIsDelivered'
  BY <1>0, <1>m DEF OnlyReachedIsDelivered
<1>all. ASSUME \A t \in Tasks : Fine(t) PROVE OnlyReachedIsDelivered'
  BY <1>all, ZenonT(60) DEF OnlyReachedIsDelivered
<1>n. ASSUME NEW t \in Tasks, NEW r, task' = [task EXCEPT ![t] = r], ~r.delivered
      PROVE  OnlyReachedIsDelivered'
  <2>1. \A u \in Tasks : u # t => task'[u] = task[u]
    BY <1>n, ZenonT(60) DEF TypeOK
  <2>2. task'[t] = r
    BY <1>n, ZenonT(60) DEF TypeOK
  <2> QED
    BY <1>all, <1>n, <1>s, <2>1, <2>2, ZenonT(60)
<1>1. CASE UNCHANGED vars
  BY <1>0, <1>1, ZenonT(60) DEF vars, rows
<1>2. CASE UserNext
  <2>1. CASE spawn_task
    <3>1. ~[NoTask EXCEPT !.status = "RUNNING"].delivered
      BY DEF NoTask
    <3> QED
      BY <1>n, <2>1, <3>1, ZenonT(60) DEF spawn_task
  <2> QED
    BY <1>0, <1>2, <2>1, ZenonT(60)
       DEF UserNext, submit, Resend, _handle_cancel, subscribe, unsubscribe,
                            delete_task, rows
<1>3. CASE StopStep
  BY <1>0, <1>3, SMTT(60) DEF StopStep, ListParked, _cancel_parked_exchanges, rows
<1>4. ASSUME NEW t \in Tasks, PumpStep(t) PROVE OnlyReachedIsDelivered'
  <2>1. CASE _finalize(t)
    <3> DEFINE s == CASE process[t].terminal \in {"Finished", "Silent"} -> "DONE"
                      [] process[t].terminal = "Failed" -> "FAILED"
                      [] OTHER -> "CANCELLED"
               d == task[t].delivered \/ (process[t].terminal # "Cancelled" /\ _delivery_is_certain(t))
               e == process[t].terminal = "Silent"
    <3>1. task' = [task EXCEPT ![t].status = s, ![t].delivered = d, ![t].empty = e]
      BY <2>1, SMTT(60) DEF _finalize
    <3>2. process[t].phase = "ended"
      BY <2>1, ZenonT(60) DEF _finalize
    <3>3. ~task[t].empty
      BY <3>2, ZenonT(60) DEF StartInv, WorkersRun, EmptyIsDone, Working
    <3>4. d /\ ~e => t \in reached'
      BY <3>3, <1>m, ZenonT(60) DEF OnlyReachedIsDelivered, HeardReached, _delivery_is_certain
    <3> HIDE DEF s, d, e
    <3>5. task'[t].delivered = d /\ task'[t].empty = e
      BY <3>1, ZenonT(60) DEF TypeOK, TaskType
    <3>6. \A u \in Tasks : u # t => task'[u] = task[u]
      BY <3>1, ZenonT(60) DEF TypeOK
    <3> QED
      BY <1>all, <1>s, <3>4, <3>5, <3>6, ZenonT(60)
  <2> QED
    BY <1>0, <1>4, <2>1, ZenonT(60)
       DEF PumpStep, Iterate, Finish, AskUser, ask_user, _terminate_process, rows
<1>f. ASSUME NEW th \in Threads, NEW e, NEW g, _start_answer(th, e, g) PROVE OnlyReachedIsDelivered'
  <2>1. ~[NoTask EXCEPT !.status = "RUNNING", !.ex = e].delivered
    BY DEF NoTask
  <2>2. PICK t \in Tasks : task' = [task EXCEPT ![t] = [NoTask EXCEPT !.status = "RUNNING", !.ex = e]]
    BY <1>f, ZenonT(60) DEF _start_answer
  <2> QED
    BY <1>n, <2>1, <2>2, ZenonT(60)
<1>r. ASSUME NEW th \in Starters, _resume_open_exchange(th) PROVE OnlyReachedIsDelivered'
  <2>1. UNCHANGED task \/ \E e, g : _start_answer(th, e, g)
    BY <1>r, ZenonT(60) DEF _resume_open_exchange
  <2> QED
    BY <1>0, <1>f, <2>1, ZenonT(60) DEF Starters, Threads
<1>5. CASE ActorStep
  <2>1. CASE _ensure_owner
    <3>1. UNCHANGED task \/ \E e, g : _start_answer("actor", e, g)
      BY <2>1, ZenonT(60) DEF _ensure_owner
    <3> QED
      BY <1>0, <1>f, <3>1, ZenonT(60) DEF Threads
  <2>2. CASE _resume_open_exchange("actor")
    BY <1>r, <2>2, SMTT(60) DEF Starters
  <2>3. CASE HandleFlush
    <3>1. _flush_deliveries({}, task) /\ task \in [Tasks -> TaskType]
      BY <2>3, ZenonT(60) DEF HandleFlush, TypeOK
    <3>2. \A t \in Tasks : task'[t].delivered => task[t].delivered \/ t \in reached'
      BY <3>1, FlushReaches, ZenonT(60)
    <3>3. \A t \in Tasks : task'[t].empty = task[t].empty
      BY <3>1, FlushKeepsResults, ZenonT(60)
    <3> QED
      BY <1>all, <1>m, <3>2, <3>3, ZenonT(60) DEF OnlyReachedIsDelivered
  <2>4. CASE _handle_terminated
    <3> DEFINE c == frame["actor"].cmd
               T == IF ToQueue(c) THEN {c.t} ELSE {}
               R == IF StampedAtOnce(c) THEN [task EXCEPT ![c.t].delivered = TRUE] ELSE task
    <3>1. _flush_deliveries(T, R)
      BY <2>4, ZenonT(60) DEF _handle_terminated
    <3>2. c.t \in Tasks
      BY <2>4, ActorFrame, ZenonT(60)
         DEF _handle_terminated, AtCommand, FrameType, CommandType, CommandShape,
                               NamesItsRow
    <3>3. R \in [Tasks -> TaskType]
      BY <3>2, ZenonT(60) DEF TypeOK, TaskType
    <3>4. \A t \in Tasks : R[t].empty = task[t].empty
      BY <3>2, ZenonT(60) DEF TypeOK, TaskType
    <3>5. \A t \in Tasks : R[t].delivered => task[t].delivered \/ (t = c.t /\ StampedAtOnce(c))
      BY <3>2, ZenonT(60) DEF TypeOK, TaskType
    <3>6. StampedAtOnce(c) => task[c.t].empty \/ c.t \in reached
      BY ZenonT(60) DEF StampedAtOnce, _silent_done, HeardReached, Heard
    <3> HIDE DEF T, R, c
    <3>7. \A t \in Tasks : task'[t].delivered => R[t].delivered \/ t \in reached'
      BY <3>1, <3>3, FlushReaches, ZenonT(60)
    <3>8. \A t \in Tasks : task'[t].empty = R[t].empty
      BY <3>1, <3>3, FlushKeepsResults, ZenonT(60)
    <3>9. ASSUME NEW t \in Tasks PROVE Fine(t)
      BY <1>m, <3>4, <3>5, <3>6, <3>7, <3>8, <3>9, ZenonT(60) DEF OnlyReachedIsDelivered
    <3> QED
      BY <1>all, <3>9, ZenonT(60)
  <2> QED
    BY <1>0, <1>5, <2>1, <2>2, <2>3, <2>4, ZenonT(60)
       DEF ActorStep, SkipDuplicate, _handle_submit, _route,
         _collect_material, _cancel_exchanges, _apply_route, set_exchange, _create_process,
         Resumed, _settle_exchange, _handle_promote, PromoteAlone, _reparent_material, ReviveTarget,
         rows
<1>6. CASE ManagerStep
  <2>1. CASE _resume_open_exchange("manager")
    BY <1>r, <2>1, SMTT(60) DEF Starters
  <2>2. CASE RefuseRestart
    <3> DEFINE o == First(frame["manager"].rest)
               R == [task EXCEPT ![o].status = "FAILED"]
    <3>1. _flush_deliveries({o}, R)
      BY <2>2, ZenonT(60) DEF RefuseRestart
    <3>2. o \in Tasks
      BY <2>2, NextOrphan, ZenonT(60) DEF RefuseRestart
    <3> HIDE DEF o
    <3>3. R \in [Tasks -> TaskType]
      BY <3>2, ZenonT(60) DEF TypeOK, TaskType
    <3>4. \A t \in Tasks : R[t].empty = task[t].empty /\ R[t].delivered = task[t].delivered
      BY <3>2, ZenonT(60) DEF TypeOK, TaskType
    <3> HIDE DEF R
    <3>5. \A t \in Tasks : task'[t].delivered => R[t].delivered \/ t \in reached'
      BY <3>1, <3>3, FlushReaches, ZenonT(60)
    <3>6. \A t \in Tasks : task'[t].empty = R[t].empty
      BY <3>1, <3>3, FlushKeepsResults, ZenonT(60)
    <3> QED
      BY <1>all, <1>m, <3>4, <3>5, <3>6, ZenonT(60) DEF OnlyReachedIsDelivered
  <2>3. CASE restart_task
    <3> DEFINE o == First(frame["manager"].rest)
    <3>1. UNCHANGED task \/ task' = [task EXCEPT ![o].status = "DONE", ![o].empty = TRUE]
      BY <2>3, ZenonT(60) DEF restart_task
    <3> HIDE DEF o
    <3>2. CASE task' = [task EXCEPT ![o].status = "DONE", ![o].empty = TRUE]
      <4>1. \A t \in Tasks : t # o => task'[t] = task[t]
        BY <3>2, ZenonT(60) DEF TypeOK
      <4>2. o \in Tasks => task'[o].empty
        BY <3>2, ZenonT(60) DEF TypeOK, TaskType
      <4> QED
        BY <1>all, <1>s, <4>1, <4>2, ZenonT(60)
    <3> QED
      BY <1>0, <3>1, <3>2, SMTT(60)
  <2> QED
    BY <1>0, <1>6, <2>1, <2>2, <2>3, ZenonT(60)
       DEF ManagerStep, _recover_dialog, _start_orphaned, Reown,
         resume_stranded, _create_process, Resumed, request_result_delivery, rows
<1>7. CASE SweeperStep
  BY <1>0, <1>7, ZenonT(60) DEF SweeperStep, QuietElapses, promote_collected, rows
<1>8. CASE FaultNext
  BY <1>0, <1>8, ZenonT(60)
     DEF FaultNext, PersistFails, SettleFails, CommandFails, Crash, FinalizeFails,
       AskFails, rows
<1> QED
  BY <1>1, <1>2, <1>3, <1>4, <1>5, <1>6, <1>7, <1>8, SMTT(60) DEF Next

(* Delivery is never assumed, whatever is lost, refused, restarted or       *)
(* crashes: an outcome with something to show carries delivered_at only     *)
(* after it entered a subscriber's queue (_delivery_is_certain,             *)
(* _handle_terminated, _flush_deliveries).                                  *)
THEOREM DeliveredWasReached == Spec => []OnlyReachedIsDelivered
<1> DEFINE I == OwnershipInv /\ StartInv /\ HeardReached /\ OnlyReachedIsDelivered
<1>1. Init => I
  <2>1. ASSUME Init PROVE OnlyReachedIsDelivered
    BY <2>1, ZenonT(60) DEF Init, OnlyReachedIsDelivered, NoTask
  <2>2. ASSUME Init PROVE HeardReached
    <3>1. \A t \in Tasks : ~process[t].heard
      BY <2>2, ZenonT(60) DEF Init, NoProcess
    <3>2. Len(inbox) = 0
      BY <2>2, ZenonT(60) DEF Init
    <3>3. ~frame["actor"].cmd.heard
      <4>1. frame["actor"] = IdleFrame
        BY <2>2, ZenonT(60) DEF Init, Threads
      <4>2. IdleFrame.cmd = NoCommand
        BY DEF IdleFrame
      <4>3. ~NoCommand.heard
        BY DEF NoCommand
      <4> QED
        BY <4>1, <4>2, <4>3, ZenonT(60)
    <3> QED
      BY <3>1, <3>2, <3>3, SMTT(60) DEF HeardReached, Heard
  <2> QED
    BY <2>1, <2>2, StartInit, OwnershipInit, SMTT(60)
<1>2. TypeOK /\ I /\ [Next]_vars => I'
  <2> SUFFICES ASSUME TypeOK, I, [Next]_vars PROVE I'
    OBVIOUS
  <2>1. OwnershipInv'
    BY OwnershipStep, ZenonT(60)
  <2>2. StartInv'
    BY StartStep
  <2>3. HeardReached'
    BY HeardStep
  <2>4. OnlyReachedIsDelivered'
    BY StampStep
  <2> QED
    BY <2>1, <2>2, <2>3, <2>4, ZenonT(60)
<1>3. I => OnlyReachedIsDelivered
  OBVIOUS
<1> HIDE DEF I
<1> QED
  BY <1>1, <1>2, <1>3, TypeCorrect, PTL DEF Spec
=============================================================================
