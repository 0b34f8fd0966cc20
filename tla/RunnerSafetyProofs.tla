------------------------- MODULE RunnerSafetyProofs -------------------------
(***************************************************************************)
(* Three promises of the conversation actor, proved for every value of the *)
(* constants: the stop button covers the message that is still being       *)
(* routed (StopCoversRouting), and, as long as the runner is not           *)
(* restarted, no exchange has two runs (OneRunPerExchange) and no more     *)
(* runs work than the limit allows (ActiveRunsWithinLimit).                *)
(*                                                                         *)
(* None is inductive: all depend on what a coroutine holds across the      *)
(* await between the commit of a task's row and the creation of its        *)
(* process (pc "assemble"). OwnershipInv says what that is, and SlotInv    *)
(* adds what is reserved meanwhile.                                        *)
(***************************************************************************)
EXTENDS RunnerProofs, FiniteSetTheorems

Stored(t) == task[t].status # "absent"

(* A process and a coroutine's task have a row; a task that waits for its   *)
(* process answers an exchange.                                             *)
RowsExist ==
    /\ \A t \in Processes : Stored(t)
    /\ \A th \in Threads : frame[th].t # None => Stored(frame[th].t)
    /\ \A t \in frame["manager"].rest : Stored(t)

AssemblesAnswer ==
    \A th \in Threads :
        frame[th].pc = "assemble" => frame[th].t # None /\ task[frame[th].t].ex # None

(* Past the routing decision the actor knows the message's exchange. *)
ExchangeKnown ==
    LET f == frame["actor"]
    IN  f.pc \in {"attach", "own"} \/ (f.pc = "apply" /\ f.act = "CONTINUE") => f.ex # None

(* A run that was started for a submit answers an exchange, so the stop's   *)
(* sweep over the answer runs finds it.                                     *)
EpochsAreAnswers == \A t \in Processes : process[t].epoch # None => task[t].ex # None

OwnershipInv == RowsExist /\ AssemblesAnswer /\ ExchangeKnown /\ EpochsAreAnswers

(* Without a restart only the actor starts runs, and while it assembles one *)
(* its exchange has no other.                                               *)
OnlyActorStarts ==
    /\ frame["manager"].pc = "idle" /\ frame["user"].pc # "assemble"
    /\ frame["actor"].pc = "assemble" => _live_process_for(task[frame["actor"].t].ex) = {}

-----------------------------------------------------------------------------
(* What a step does to the rows of the tasks *)

(* Flushing deliveries stamps rows and changes nothing else in them. *)
LEMMA FlushKeepsRows ==
    ASSUME TypeOK, NEW T, NEW rowsNow \in [Tasks -> TaskType], _flush_deliveries(T, rowsNow)
    PROVE  \A t \in Tasks : task'[t].status = rowsNow[t].status /\ task'[t].ex = rowsNow[t].ex
<1> SUFFICES ASSUME NEW t \in Tasks
             PROVE  task'[t].status = rowsNow[t].status /\ task'[t].ex = rowsNow[t].ex
  OBVIOUS
<1>1. CASE watching
  <2> DEFINE now == rowsNow[t].delivered \/ t \in outbox \cup T
  <2>1. task'[t] = [rowsNow[t] EXCEPT !.delivered = now]
    BY <1>1 DEF _flush_deliveries
  <2> HIDE DEF now
  <2> QED
    BY <2>1 DEF TaskType
<1>2. CASE ~watching
  BY <1>2 DEF _flush_deliveries
<1> QED
  BY <1>1, <1>2

StoredNext(t) == task'[t].status # "absent"
LiveNext(t) == process'[t].phase # "none"

RowKept(t) == Stored(t) => StoredNext(t) /\ task'[t].ex = task[t].ex

(* Starting an answer adds the row of a new task, for the exchange it was   *)
(* asked for, and touches no other.                                         *)
LEMMA StartKeepsRows ==
    ASSUME TypeOK, NEW th \in Threads, NEW e, NEW f \in FrameType(Listed(th)), _start_answer(th, e, f)
    PROVE  /\ \A t \in Tasks : RowKept(t)
           /\ \E t \in Tasks :
                /\ ~Stored(t) /\ StoredNext(t) /\ task'[t].ex = e
                /\ frame'[th].pc = "assemble" /\ frame'[th].t = t /\ frame'[th].rest = f.rest
           /\ \A t \in Tasks : Stored(t) => task'[t] = task[t]
<1>1. PICK t \in Tasks :
        /\ NextTask(t)
        /\ task' = [task EXCEPT ![t] = [NoTask EXCEPT !.status = "RUNNING", !.ex = e]]
        /\ Goto(th, [f EXCEPT !.pc = "assemble", !.t = t])
  BY ZenonT(60) DEF _start_answer
<1>2. ~Stored(t)
  BY <1>1 DEF NextTask, Stored, StoredNext, Tasks
<1>3. StoredNext(t) /\ task'[t].ex = e
  BY <1>1 DEF Stored, StoredNext, TypeOK, NoTask
<1>4. ASSUME NEW u \in Tasks, Stored(u) PROVE task'[u] = task[u]
  BY <1>1, <1>2, <1>4, SMTT(60) DEF TypeOK
<1>5. frame'[th] = [f EXCEPT !.pc = "assemble", !.t = t]
  BY <1>1 DEF Goto, TypeOK, FramesOK
<1>6. frame'[th].pc = "assemble" /\ frame'[th].t = t /\ frame'[th].rest = f.rest
  BY <1>5 DEF FrameType
<1> QED
  BY <1>2, <1>3, <1>4, <1>6, ZenonT(60) DEF RowKept, Stored, StoredNext

(* A task's row, once there, stays and keeps its exchange. *)
LEMMA RowsKept == ASSUME TypeOK, [Next]_vars PROVE \A t \in Tasks : RowKept(t)
<1>0. ASSUME UNCHANGED task PROVE \A t \in Tasks : RowKept(t)
  BY <1>0 DEF RowKept, Stored, StoredNext
<1>1. CASE UNCHANGED vars
  BY <1>0, <1>1, SMTT(60) DEF vars, rows
<1>2. CASE UserNext
  <2>1. CASE spawn_task
    <3>1. PICK t \in Tasks : /\ NextTask(t)
                             /\ task' = [task EXCEPT ![t] = [NoTask EXCEPT !.status = "RUNNING"]]
      BY <2>1, ZenonT(60) DEF spawn_task
    <3>2. ~Stored(t)
      BY <3>1 DEF NextTask, Stored, StoredNext, Tasks
    <3> QED
      BY <3>1, <3>2 DEF RowKept, Stored, StoredNext, TypeOK
  <2> QED
    BY <1>0, <1>2, <2>1, SMTT(60)
       DEF UserNext, submit, Resend, _handle_cancel, subscribe, unsubscribe,
                            delete_task, rows
<1>3. CASE StopStep
  BY <1>0, <1>3 DEF StopStep, ListParked, _cancel_parked_exchanges, rows
<1>4. ASSUME NEW t \in Tasks, PumpStep(t) PROVE \A u \in Tasks : RowKept(u)
  <2>1. CASE _finalize(t)
    BY <2>1 DEF _finalize, RowKept, Stored, StoredNext, TypeOK, TaskType
  <2> QED
    BY <1>0, <1>4, <2>1, ZenonT(60)
       DEF PumpStep, Iterate, Finish, AskUser, ask_user, _terminate_process, rows
<1>5. CASE ActorStep
  <2>1. CASE _ensure_owner \/ _resume_open_exchange("actor")
    <3>1. CASE UNCHANGED task
      BY <1>0, <3>1
    <3>2. ASSUME NEW e, NEW f \in FrameType(Exchanges), _start_answer("actor", e, f)
          PROVE  \A t \in Tasks : RowKept(t)
      BY <3>2, StartKeepsRows, ZenonT(60) DEF Threads, Listed
    <3>3. frame["actor"] \in FrameType(Exchanges)
      BY ActorFrame
    <3>4. [frame["actor"] EXCEPT !.todo = @ \ {First(frame["actor"].todo)}] \in FrameType(Exchanges)
      BY <3>3 DEF FrameType
    <3> QED
      BY <2>1, <3>1, <3>2, <3>3, <3>4, SMTT(60) DEF _ensure_owner, _resume_open_exchange
  <2>2. CASE _handle_terminated
    <3> DEFINE c == frame["actor"].cmd
               T == IF ToQueue(c) THEN {c.t} ELSE {}
               R == IF StampedAtOnce(c) THEN [task EXCEPT ![c.t].delivered = TRUE] ELSE task
    <3>1. c.t \in Tasks
      BY <2>2, ActorFrame, SMTT(60) DEF _handle_terminated, AtCommand
    <3>2. _flush_deliveries(T, R)
      BY <2>2 DEF _handle_terminated
    <3>3. R \in [Tasks -> TaskType]
      BY <3>1, TaskUpdates, ZenonT(60) DEF TypeOK
    <3>4. \A t \in Tasks : R[t].status = task[t].status /\ R[t].ex = task[t].ex
      BY <3>1, SMTT(60) DEF TypeOK, TaskType
    <3> HIDE DEF T, R
    <3> QED
      BY <3>2, <3>3, <3>4, FlushKeepsRows, SMTT(60) DEF RowKept, Stored, StoredNext
  <2>3. CASE HandleFlush
    BY <2>3, FlushKeepsRows, SMTT(60) DEF HandleFlush, RowKept, Stored, StoredNext, TypeOK
  <2>4. ASSUME UNCHANGED task \/ _create_process("actor") \/ Resumed("actor")
        PROVE  \A t \in Tasks : RowKept(t)
    BY <1>0, <2>4 DEF _create_process, Resumed, rows
  <2>5. CASE SkipDuplicate \/ _handle_submit \/ _route \/ _collect_material
             \/ _cancel_exchanges \/ _apply_route \/ set_exchange
    BY <1>0, <2>5, ZenonT(60) DEF SkipDuplicate, _handle_submit, _route, _collect_material,
         _cancel_exchanges, _apply_route, set_exchange, rows
  <2>6. CASE _settle_exchange \/ _handle_promote \/ PromoteAlone
             \/ _reparent_material \/ ReviveTarget
    BY <1>0, <2>6, ZenonT(60) DEF _settle_exchange, _handle_promote, PromoteAlone,
         _reparent_material, ReviveTarget
  <2> QED
    BY <1>5, <2>1, <2>2, <2>3, <2>4, <2>5, <2>6, SMTT(60) DEF ActorStep
<1>6. CASE ManagerStep
  <2> DEFINE f == frame["manager"]
  <2>0. f \in FrameType(Tasks)
    BY ManagerFrame
  <2>1. CASE _resume_open_exchange("manager")
    <3>1. CASE UNCHANGED task
      BY <1>0, <3>1
    <3>2. [f EXCEPT !.todo = @ \ {First(f.todo)}] \in FrameType(Tasks)
      BY <2>0 DEF FrameType
    <3>3. ASSUME NEW e, _start_answer("manager", e, [f EXCEPT !.todo = @ \ {First(f.todo)}])
          PROVE  \A t \in Tasks : RowKept(t)
      BY <3>2, <3>3, StartKeepsRows, ZenonT(60) DEF Threads, Listed
    <3> QED
      BY <2>1, <3>1, <3>3, SMTT(60) DEF _resume_open_exchange
  <2>2. CASE RefuseRestart
    <3> DEFINE t == First(f.rest)
               R == [task EXCEPT ![t].status = "FAILED"]
    <3>1. t \in Tasks
      BY <2>2, ManagerFrame, SMTT(60) DEF RefuseRestart
    <3>2. _flush_deliveries({t}, R)
      BY <2>2 DEF RefuseRestart
    <3>3. R \in [Tasks -> TaskType]
      BY <3>1, TaskUpdates, ZenonT(60)
    <3>4. \A u \in Tasks : R[u].ex = task[u].ex /\ (R[u].status = task[u].status \/ R[u].status = "FAILED")
      BY <3>1, SMTT(60) DEF TypeOK, TaskType
    <3> HIDE DEF R, t
    <3> QED
      BY <3>2, <3>3, <3>4, FlushKeepsRows, SMTT(60) DEF RowKept, Stored, StoredNext
  <2>3. CASE restart_task
    <3> DEFINE t == First(f.rest)
    <3>1. CASE task' = [task EXCEPT ![t].status = "DONE", ![t].empty = TRUE]
      <4>1. task \in [Tasks -> TaskType]
        BY DEF TypeOK
      <4> HIDE DEF t
      <4> QED
        BY <3>1, <4>1, SMTT(60) DEF RowKept, Stored, StoredNext, TaskType
    <3> QED
      BY <1>0, <2>3, <3>1, ZenonT(60) DEF restart_task
  <2> QED
    BY <1>0, <1>6, <2>1, <2>2, <2>3, ZenonT(60)
       DEF ManagerStep, _recover_dialog, _start_orphaned, Reown, resume_stranded,
           _create_process, Resumed, request_result_delivery, rows
<1>7. CASE SweeperStep
  BY <1>0, <1>7, SMTT(60) DEF SweeperStep, QuietElapses, promote_collected, rows
<1>8. CASE FaultNext
  BY <1>0, <1>8 DEF FaultNext, PersistFails, SettleFails, CommandFails, Crash, FinalizeFails,
                    AskFails, rows
<1> QED
  BY <1>1, <1>2, <1>3, <1>4, <1>5, <1>6, <1>7, <1>8, SMTT(60) DEF Next

-----------------------------------------------------------------------------
(* What a step does to the processes *)

(* The process goes on as the run it was. *)
GoesOn(t) ==
    /\ Live(t) /\ process'[t].epoch = process[t].epoch
    /\ process[t].tripped => process'[t].tripped

(* It is a background run, or an orphan that recovery restarts. *)
Background(t) ==
    /\ process'[t].epoch = None /\ StoredNext(t)
    /\ task'[t].ex = None \/ frame["manager"].pc = "reattach"

(* It is created for the task a coroutine has just committed. *)
Created(t) ==
    \E th \in Threads :
        /\ frame[th].pc = "assemble" /\ frame[th].t = t /\ frame'[th].pc # "assemble"
        /\ process'[t].epoch = frame[th].cmd.epoch
        /\ PredatesStop(process'[t].epoch) => process'[t].tripped
        /\ UNCHANGED <<task, cancelEpoch>>

(* Every process after a step is one of the three. *)
ProcessesAccounted == \A t \in Tasks : LiveNext(t) => GoesOn(t) \/ Background(t) \/ Created(t)

(* No step leaves a process unaccounted for. *)
LEMMA ProcessSteps == ASSUME TypeOK, RowsExist, [Next]_vars PROVE ProcessesAccounted
<1>0. ASSUME UNCHANGED process PROVE ProcessesAccounted
  BY <1>0 DEF ProcessesAccounted, GoesOn, Live, LiveNext
<1>a. process \in [Tasks -> ProcessType] /\ NoProcess.phase = "none"
  BY DEF TypeOK, NoProcess
<1>1. CASE UNCHANGED vars
  BY <1>0, <1>1, SMTT(60) DEF vars
<1>2. CASE UserNext
  <2>1. CASE spawn_task
    <3>1. PICK t \in Tasks :
             /\ task' = [task EXCEPT ![t] = [NoTask EXCEPT !.status = "RUNNING"]]
             /\ process' = [process EXCEPT ![t] = [NoProcess EXCEPT !.phase = "new"]]
      BY <2>1, ZenonT(60) DEF spawn_task
    <3>2. Background(t)
      BY <3>1 DEF Background, Stored, StoredNext, TypeOK, NoTask, NoProcess
    <3>3. \A u \in Tasks : u # t => process'[u] = process[u]
      BY <1>a, <3>1
    <3> QED
      BY <3>2, <3>3 DEF ProcessesAccounted, GoesOn, Live, LiveNext
  <2>2. CASE _handle_cancel
    <3>1. \A t \in Tasks : process'[t] = process[t] \/ process'[t] = [process[t] EXCEPT !.tripped = TRUE]
      BY <2>2 DEF _handle_cancel
    <3>2. ASSUME NEW t \in Tasks, process'[t] = [process[t] EXCEPT !.tripped = TRUE]
          PROVE  LiveNext(t) => GoesOn(t)
      <4>1. process[t] \in ProcessType
        BY <1>a
      <4> QED
        BY <3>2, <4>1, SMTT(60) DEF GoesOn, Live, LiveNext, ProcessType
    <3>3. ASSUME NEW t \in Tasks, process'[t] = process[t]
          PROVE  LiveNext(t) => GoesOn(t)
      BY <3>3 DEF GoesOn, Live, LiveNext
    <3> QED
      BY <3>1, <3>2, <3>3, ZenonT(60) DEF ProcessesAccounted
  <2>3. ASSUME NEW t \in Tasks, delete_task(t) PROVE ProcessesAccounted
    BY <1>a, <2>3 DEF delete_task, ProcessesAccounted, GoesOn, Live, LiveNext, ProcessType
  <2> QED
    BY <1>0, <1>2, <2>1, <2>2, <2>3, SMTT(60) DEF UserNext, submit, Resend, subscribe, unsubscribe
<1>3. CASE StopStep
  BY <1>0, <1>3, SMTT(60) DEF StopStep, ListParked, _cancel_parked_exchanges
<1>4. ASSUME NEW t \in Tasks, PumpStep(t) PROVE ProcessesAccounted
  <2>0. process[t] \in ProcessType
    BY <1>a
  <2>1. \A u \in Tasks : u # t => process'[u] = process[u]
    BY <1>4, <1>a, ZenonT(60)
       DEF PumpStep, Iterate, Finish, AskUser, ask_user, _finalize, _terminate_process
  <2>2. SUFFICES ASSUME LiveNext(t) PROVE GoesOn(t)
    BY <2>1 DEF ProcessesAccounted, GoesOn, Live, LiveNext
  <2>3. CASE Iterate(t)
    BY <1>a, <2>0, <2>3, SMTT(60) DEF Iterate, GoesOn, Live, LiveNext, ProcessType
  <2>4. ASSUME NEW terminal \in Terminals, Finish(t, terminal) PROVE GoesOn(t)
    BY <1>a, <2>0, <2>4, SMTT(60) DEF Finish, GoesOn, Live, LiveNext, ProcessType
  <2>5. CASE AskUser(t)
    BY <1>a, <2>0, <2>5, SMTT(60) DEF AskUser, GoesOn, Live, LiveNext, ProcessType
  <2>6. CASE ask_user(t)
    BY <1>a, <2>0, <2>2, <2>6, SMTT(60) DEF ask_user, GoesOn, Live, LiveNext, ProcessType
  <2>7. CASE _finalize(t)
    BY <1>a, <2>0, <2>7, SMTT(60) DEF _finalize, GoesOn, Live, LiveNext, ProcessType
  <2>8. CASE _terminate_process(t)
    BY <1>a, <2>2, <2>8, SMTT(60) DEF _terminate_process, Live, LiveNext
  <2> QED
    BY <1>4, <2>3, <2>4, <2>5, <2>6, <2>7, <2>8, SMTT(60) DEF PumpStep
<1>5. ASSUME NEW th \in Threads, _create_process(th) PROVE ProcessesAccounted
  <2> DEFINE f == frame[th]
  <2>1. \A u \in Tasks : u # f.t => process'[u] = process[u]
    BY <1>5, <1>a, SMTT(60) DEF _create_process
  <2>2. ASSUME f.t \in Tasks PROVE Created(f.t)
    <3>1. process'[f.t].epoch = f.cmd.epoch /\ process'[f.t].tripped = PredatesStop(f.cmd.epoch)
      BY <1>5, <1>a, <2>2, SMTT(60) DEF _create_process, NoProcess
    <3>2. frame'[th].pc # "assemble"
      BY <1>5, ZenonT(60) DEF _create_process, Goto, IdleFrame, TypeOK, FramesOK, FrameType
    <3>3. f.pc = "assemble" /\ UNCHANGED <<task, cancelEpoch>>
      BY <1>5 DEF _create_process, rows
    <3> QED
      BY <3>1, <3>2, <3>3, SMTT(60) DEF Created
  <2> QED
    BY <2>1, <2>2 DEF ProcessesAccounted, GoesOn, Live, LiveNext
<1>6. CASE ActorStep
  <2>1. CASE _cancel_exchanges
    BY <1>a, <2>1 DEF _cancel_exchanges, ProcessesAccounted, GoesOn, Live, LiveNext, ProcessType
  <2>2. CASE SkipDuplicate \/ _handle_submit \/ _route \/ _collect_material
             \/ _apply_route \/ set_exchange \/ _ensure_owner
             \/ _resume_open_exchange("actor") \/ Resumed("actor")
    BY <1>0, <2>2, ZenonT(60)
       DEF SkipDuplicate, _handle_submit, _route, _collect_material, _apply_route,
         set_exchange, _ensure_owner, _resume_open_exchange, Resumed
  <2>3. CASE _settle_exchange \/ _handle_terminated \/ HandleFlush \/ _handle_promote
             \/ PromoteAlone \/ _reparent_material \/ ReviveTarget
    BY <1>0, <2>3, ZenonT(60)
       DEF _settle_exchange, _handle_terminated, HandleFlush, _handle_promote,
         PromoteAlone, _reparent_material, ReviveTarget
  <2> QED
    BY <1>5, <1>6, <2>1, <2>2, <2>3, SMTT(60) DEF ActorStep, Threads
<1>7. CASE ManagerStep
  <2> DEFINE f == frame["manager"]
             t == First(f.rest)
  <2>1. CASE restart_task
    <3>1. CASE /\ task[t].ex = None /\ UNCHANGED task
               /\ process' = [process EXCEPT ![t] = [NoProcess EXCEPT !.phase = "new"]]
      <4>1. t \in Tasks /\ Stored(t)
        <5>0. f.rest # {}
          BY <2>1, ZenonT(60) DEF restart_task
        <5>1. f.rest \in SUBSET Nat /\ f.rest # {}
          BY <5>0, ManagerFrame DEF FrameType, Tasks
        <5> QED
          BY <2>1, <5>1, ManagerFrame, FirstInSet, ZenonT(60) DEF restart_task, RowsExist
      <4> HIDE DEF t
      <4>2. Background(t)
        <5>1. process'[t].epoch = None
          BY <1>a, <3>1, <4>1 DEF NoProcess
        <5> QED
          BY <3>1, <4>1, <5>1, SMTT(60) DEF Background, Stored, StoredNext
      <4>3. \A u \in Tasks : u # t => process'[u] = process[u]
        BY <1>a, <3>1
      <4> QED
        BY <4>2, <4>3, SMTT(60) DEF ProcessesAccounted, GoesOn, Live, LiveNext
    <3> QED
      BY <1>0, <2>1, <3>1, ZenonT(60) DEF restart_task
  <2>2. CASE _start_orphaned
    <3>1. \A u \in Tasks : u # f.t => process'[u] = process[u]
      BY <1>a, <2>2 DEF _start_orphaned
    <3>2. ASSUME f.t \in Tasks PROVE Background(f.t)
      <4>1. Stored(f.t) /\ UNCHANGED task
        BY <2>2, <3>2, BoundsAssumption DEF RowsExist, Threads, Tasks, None, _start_orphaned, rows
      <4>2. process'[f.t].epoch = None
        BY <1>a, <2>2, <3>2, SMTT(60) DEF NoProcess, _start_orphaned
      <4>3. f.pc = "reattach"
        BY <2>2 DEF _start_orphaned
      <4> QED
        BY <4>1, <4>2, <4>3, SMTT(60) DEF Background, Stored, StoredNext
    <3> QED
      BY <3>1, <3>2 DEF ProcessesAccounted, GoesOn, Live, LiveNext
  <2> QED
    BY <1>0, <1>5, <1>7, <2>1, <2>2, ZenonT(60)
       DEF ManagerStep, _recover_dialog, RefuseRestart, Reown, resume_stranded,
           _resume_open_exchange, Resumed, request_result_delivery, Threads
<1>8. CASE SweeperStep
  BY <1>0, <1>8, SMTT(60) DEF SweeperStep, QuietElapses, promote_collected
<1>9. CASE FaultNext
  <2>1. CASE Crash
    BY <1>a, <2>1 DEF Crash, ProcessesAccounted, Live, LiveNext
  <2>2. ASSUME NEW t \in Tasks, FinalizeFails(t) PROVE ProcessesAccounted
    BY <1>a, <2>2 DEF FinalizeFails, ProcessesAccounted, GoesOn, Live, LiveNext, ProcessType
  <2>3. ASSUME NEW t \in Tasks, AskFails(t) PROVE ProcessesAccounted
    BY <1>a, <2>3, SMTT(60) DEF AskFails, ProcessesAccounted, GoesOn, Live, LiveNext, ProcessType
  <2> QED
    BY <1>0, <1>9, <2>1, <2>2, <2>3, SMTT(60) DEF FaultNext, PersistFails, SettleFails, CommandFails
<1> QED
  BY <1>1, <1>2, <1>3, <1>4, <1>6, <1>7, <1>8, <1>9, SMTT(60) DEF Next

-----------------------------------------------------------------------------
(* What a step does to the locals of the coroutines *)

(* The coroutine has just committed a task for an exchange nobody works on. *)
Starting(th) ==
    LET u == frame'[th].t
    IN  /\ u \in Tasks /\ ~Stored(u) /\ StoredNext(u)
        /\ task'[u].ex # None /\ _live_process_for(task'[u].ex) = {}
        /\ UNCHANGED process
        /\ \A v \in Tasks : Stored(v) => task'[v] = task[v]

FramesAccounted ==
    /\ \A th \in Threads :
          /\ frame'[th].t # None => \/ frame'[th].t = frame[th].t
                                 \/ StoredNext(frame'[th].t)
          /\ frame'[th].pc = "assemble" => frame'[th] = frame[th] \/ Starting(th)
    /\ \A t \in frame'["manager"].rest : t \in frame["manager"].rest \/ Stored(t)
    /\ ExchangeKnown'

(* A frame that starts nothing. *)
Harmless(th, f) ==
    /\ f.t \in {None, frame[th].t} /\ f.pc # "assemble"
    /\ th = "manager" => f.rest \subseteq frame["manager"].rest
    /\ th = "actor" => (f.pc \in {"attach", "own"} \/ (f.pc = "apply" /\ f.act = "CONTINUE")
                            => f.ex # None)

(* Moving to such a frame keeps the account of the coroutines. *)
LEMMA HarmlessGoto ==
    ASSUME TypeOK, ExchangeKnown, NEW th \in Threads, NEW f, Harmless(th, f), Goto(th, f)
    PROVE  FramesAccounted
<1>1. frame'[th] = f /\ \A o \in Threads : o # th => frame'[o] = frame[o]
  BY DEF Goto, TypeOK, FramesOK
<1>2. th = "actor" \/ frame'["actor"] = frame["actor"]
  BY <1>1 DEF Threads
<1>3. th = "manager" \/ frame'["manager"] = frame["manager"]
  BY <1>1 DEF Threads
<1>4. ExchangeKnown'
  BY <1>1, <1>2 DEF ExchangeKnown, Harmless
<1>5. \A t \in frame'["manager"].rest : t \in frame["manager"].rest \/ Stored(t)
  BY <1>1, <1>3, SMTT(60) DEF Harmless
<1> QED
  BY <1>1, <1>4, <1>5, SMTT(60) DEF FramesAccounted, Harmless

(* The idle frame starts nothing, and so does one that only moves on. *)
LEMMA HarmlessFrames ==
    ASSUME TypeOK, NEW th \in Threads
    PROVE  /\ Harmless(th, IdleFrame)
           /\ \A pc \in {"resume", "revive", "material", "deliver", "restart", "reown", "redeliver",
                         "routing", "collect", "closing", "listing"} :
                 \A f \in FrameType(Listed(th)) :
                    f.pc = pc /\ f.t \in {None, frame[th].t} /\ f.rest \subseteq frame[th].rest
                        => Harmless(th, f)
<1>1. Harmless(th, IdleFrame)
  BY ZenonT(60) DEF Harmless, IdleFrame
<1>2. ASSUME NEW pc \in {"resume", "revive", "material", "deliver", "restart", "reown", "redeliver",
                         "routing", "collect", "closing", "listing"},
             NEW f \in FrameType(Listed(th)),
             f.pc = pc, f.t \in {None, frame[th].t}, f.rest \subseteq frame[th].rest
      PROVE  Harmless(th, f)
  BY <1>2 DEF Harmless
<1> QED
  BY <1>1, <1>2, SMTT(60)

(* Starting an answer for an exchange without a run is the only way into    *)
(* "assemble".                                                              *)
LEMMA StartAccounted ==
    ASSUME TypeOK, ExchangeKnown, NEW th \in Threads, NEW e, e # None,
           NEW f \in FrameType(Listed(th)), f.rest = frame[th].rest,
           _start_answer(th, e, f), _live_process_for(e) = {}, UNCHANGED process
    PROVE  FramesAccounted
<1>1. PICK t \in Tasks : /\ ~Stored(t) /\ StoredNext(t) /\ task'[t].ex = e
                         /\ frame'[th].pc = "assemble" /\ frame'[th].t = t
                         /\ frame'[th].rest = frame[th].rest
  BY StartKeepsRows, SMTT(60)
<1>2. \A o \in Threads : o # th => frame'[o] = frame[o]
  BY SMTT(60) DEF _start_answer, Goto, TypeOK, FramesOK
<1>3. frame'[th].pc = "assemble" /\ frame'[th].t = t /\ frame'[th].rest = frame[th].rest
  BY <1>1, ZenonT(60) DEF FrameType
<1>4. Starting(th)
  BY <1>1, <1>3, StartKeepsRows, ZenonT(60) DEF Starting
<1>5. th = "actor" \/ frame'["actor"] = frame["actor"]
  BY <1>2, SMTT(60) DEF Threads
<1>6. ExchangeKnown'
  BY <1>1, <1>5, SMTT(60) DEF ExchangeKnown
<1>7. frame'["manager"].rest = frame["manager"].rest
  BY <1>1, <1>2 DEF Threads
<1> QED
  BY <1>1, <1>2, <1>4, <1>6, <1>7, ZenonT(60) DEF FramesAccounted

(* The actor's handlers that start nothing. *)
LEMMA ActorFramesA ==
    ASSUME TypeOK, ExchangeKnown,
           \/ _handle_submit \/ _route \/ _collect_material
           \/ _cancel_exchanges \/ _apply_route \/ set_exchange
    PROVE  FramesAccounted
<1> DEFINE f == frame["actor"]
<1>0. f \in FrameType(Exchanges) /\ "actor" \in Threads /\ Harmless("actor", IdleFrame)
  BY ActorFrame, HarmlessFrames, ZenonT(60) DEF Threads
<1>1. CASE _handle_submit
  <2> DEFINE g == [IdleFrame EXCEPT !.cmd = Head(inbox), !.live = list_live]
             sole == _sole_fresh_collection(list_live)
             first == First(sole)
  <2>1. g.t = None /\ g.act = "NEW" /\ g \in FrameType(Exchanges)
    <3>1. Head(inbox) \in CommandType
      BY <1>1, TakenTyped, SMTT(60) DEF _handle_submit
    <3>2. list_live \in SUBSET Exchanges
      BY DEF list_live
    <3>3. g \in FrameType(Exchanges)
      BY <3>1, <3>2, FreshFrame, ZenonT(60)
    <3> QED
      BY <3>3 DEF IdleFrame
  <2>2. sole # {} => first # None
    <3>1. sole \in SUBSET Nat /\ sole \subseteq Exchanges
      BY DEF _sole_fresh_collection, list_live, Exchanges
    <3> QED
      BY <3>1, FirstInSet, BoundsAssumption, SMTT(60) DEF Exchanges, None
  <2>3. \/ \E pc \in {"collect", "apply", "routing"} : Goto("actor", [g EXCEPT !.pc = pc])
        \/ /\ sole # {}
           /\ Goto("actor", [g EXCEPT !.pc = "apply", !.act = "CONTINUE", !.ex = first])
    BY <1>1 DEF _handle_submit
  <2> HIDE DEF g, sole, first
  <2>4. ASSUME NEW pc \in {"collect", "apply", "routing"} PROVE Harmless("actor", [g EXCEPT !.pc = pc])
    BY <2>1 DEF Harmless, FrameType
  <2>5. ASSUME sole # {}
        PROVE  Harmless("actor", [g EXCEPT !.pc = "apply", !.act = "CONTINUE", !.ex = first])
    BY <2>1, <2>2, <2>5, SMTT(60) DEF Harmless, FrameType
  <2> QED
    BY <1>0, <2>3, <2>4, <2>5, HarmlessGoto, SMTT(60)
<1>2. CASE _route
  <2>1. ASSUME NEW cancels \in SUBSET f.live, NEW e \in f.live
        PROVE  Harmless("actor", [f EXCEPT !.pc = "apply", !.act = "CONTINUE",
                                           !.ex = e, !.rest = cancels])
    <3>1. e # None
      BY <1>0, BoundsAssumption, SMTT(60) DEF FrameType, Exchanges, None
    <3> QED
      BY <1>0, <3>1, SMTT(60) DEF Harmless, FrameType
  <2>2. ASSUME NEW cancels \in SUBSET f.live, NEW act \in {"NEW", "COMMAND"}
        PROVE  Harmless("actor", [f EXCEPT !.pc = "apply", !.act = act, !.rest = cancels])
    BY <1>0 DEF Harmless, FrameType
  <2> QED
    BY <1>0, <1>2, <2>1, <2>2, HarmlessGoto, ZenonT(60) DEF _route
<1>3. ASSUME NEW e, e # None PROVE Harmless("actor", [f EXCEPT !.pc = "attach", !.ex = e])
  BY <1>0, <1>3 DEF Harmless, FrameType
<1>4. CASE _collect_material
  <2>1. PICK e \in Exchanges : Goto("actor", [f EXCEPT !.pc = "attach", !.ex = e])
    BY <1>4, ZenonT(60) DEF _collect_material
  <2>2. e # None
    BY BoundsAssumption DEF Exchanges, None
  <2> QED
    BY <1>0, <1>3, <2>1, <2>2, HarmlessGoto, ZenonT(60)
<1>5. CASE _cancel_exchanges
  <2> DEFINE e == First(f.rest)
             g == [f EXCEPT !.rest = @ \ {e}, !.cancelled = @ \cup {e}]
  <2>1. Goto("actor", g)
    BY <1>5, SMTT(60) DEF _cancel_exchanges
  <2>2. g.pc = f.pc /\ g.t = f.t /\ g.act = f.act /\ g.ex = f.ex /\ f.pc = "apply"
    BY <1>0, <1>5, SMTT(60) DEF FrameType, _cancel_exchanges
  <2> HIDE DEF g
  <2>3. Harmless("actor", g)
    BY <2>2 DEF Harmless, ExchangeKnown
  <2> QED
    BY <1>0, <2>1, <2>3, HarmlessGoto, SMTT(60)
<1>6. CASE _apply_route
  <2>1. ASSUME NEW e, e # None, Goto("actor", [f EXCEPT !.pc = "attach", !.ex = e])
        PROVE  FramesAccounted
    BY <1>0, <1>3, <2>1, HarmlessGoto, ZenonT(60)
  <2>2. f.act = "CONTINUE" => f.ex # None
    BY <1>6 DEF _apply_route, ExchangeKnown
  <2>3. \A e \in Exchanges : e # None
    BY BoundsAssumption DEF Exchanges, None
  <2>4. CASE Done("actor")
    BY <1>0, <2>4, HarmlessGoto, SMTT(60) DEF Done
  <2> QED
    BY <1>6, <2>1, <2>2, <2>3, <2>4, ZenonT(60) DEF _apply_route
<1>7. CASE set_exchange
  <2>1. Harmless("actor", [f EXCEPT !.pc = "own"])
    BY <1>0, <1>7, SMTT(60) DEF Harmless, FrameType, ExchangeKnown, set_exchange
  <2> QED
    BY <1>0, <1>7, <2>1, HarmlessGoto, SMTT(60) DEF set_exchange
<1> QED
  BY <1>1, <1>2, <1>4, <1>5, <1>6, <1>7, SMTT(60)

(* The handlers of terminations and promotions start nothing themselves. *)
LEMMA ActorFramesB ==
    ASSUME TypeOK, ExchangeKnown,
           \/ _settle_exchange \/ _handle_terminated
           \/ _handle_promote \/ PromoteAlone \/ _reparent_material \/ ReviveTarget
    PROVE  FramesAccounted \/ UNCHANGED frame
<1> DEFINE f == frame["actor"]
<1>0. f \in FrameType(Exchanges) /\ "actor" \in Threads /\ Harmless("actor", IdleFrame)
  BY ActorFrame, HarmlessFrames, ZenonT(60) DEF Threads
<1>1. ASSUME NEW g \in FrameType(Exchanges), g.t \in {None, f.t},
             NEW S, NEW n, Goto("actor", [g EXCEPT !.pc = "resume", !.todo = S, !.then = n])
      PROVE  FramesAccounted
  <2>1. Harmless("actor", [g EXCEPT !.pc = "resume", !.todo = S, !.then = n])
    BY <1>1 DEF Harmless, FrameType
  <2> QED
    BY <1>0, <1>1, <2>1, HarmlessGoto, SMTT(60)
<1>2. CASE _settle_exchange
  <2> DEFINE c == Head(inbox)
             g == [IdleFrame EXCEPT !.cmd = c, !.pc = "deliver"]
  <2>1. g \in FrameType(Exchanges) /\ g.t = None /\ g.pc = "deliver"
    <3>1. c \in CommandType
      BY <1>2, TakenTyped DEF _settle_exchange
    <3>2. g \in FrameType(Exchanges)
      BY <3>1, IdleTyped, StartFrame, ZenonT(60)
    <3> QED
      BY <3>2, SMTT(60) DEF IdleFrame
  <2>2. \/ Goto("actor", g)
        \/ Goto("actor", [g EXCEPT !.pc = "resume", !.todo = {c.ex}, !.then = "deliver"])
    BY <1>2 DEF _settle_exchange
  <2> HIDE DEF g
  <2>3. Harmless("actor", g)
    BY <2>1 DEF Harmless
  <2> QED
    BY <1>0, <1>1, <2>1, <2>2, <2>3, HarmlessGoto, ZenonT(60)
<1>3. CASE _handle_terminated
  <2>1. Goto("actor", [f EXCEPT !.pc = "resume", !.todo = list_unowned_open, !.then = "idle"])
    BY <1>3 DEF _handle_terminated
  <2> QED
    BY <1>0, <1>1, <2>1, ZenonT(60)
<1>4. ASSUME NEW g \in FrameType(Exchanges), g.t \in {None, f.t}, NEW e, Revive(e, g)
      PROVE  FramesAccounted
  BY <1>1, <1>4, ZenonT(60) DEF Revive
<1>5. CASE _handle_promote
  <2> DEFINE c == Head(inbox)
             others == {e \in list_live \ {c.ex} : status[e] # "COLLECTING"}
             g == [IdleFrame EXCEPT !.cmd = c, !.live = others]
  <2>1. g \in FrameType(Exchanges) /\ g.t = None
    <3>1. c \in CommandType
      BY <1>5, TakenTyped DEF _handle_promote
    <3>2. others \in SUBSET Exchanges
      BY DEF list_live
    <3>3. g \in FrameType(Exchanges)
      BY <3>1, <3>2, FreshFrame, ZenonT(60)
    <3> QED
      BY <3>3 DEF IdleFrame
  <2>2. \/ UNCHANGED frame \/ Revive(c.ex, g) \/ Goto("actor", [g EXCEPT !.pc = "material"])
    BY <1>5 DEF _handle_promote
  <2> HIDE DEF g
  <2>3. Harmless("actor", [g EXCEPT !.pc = "material"])
    BY <2>1, SMTT(60) DEF Harmless, FrameType
  <2> QED
    BY <1>0, <1>4, <2>1, <2>2, <2>3, HarmlessGoto, SMTT(60)
<1>6. CASE PromoteAlone
  BY <1>0, <1>4, <1>6, SMTT(60) DEF PromoteAlone
<1>7. CASE _reparent_material
  <2>1. PICK target \in f.live : Goto("actor", [f EXCEPT !.pc = "revive", !.ex = target])
    BY <1>7, ZenonT(60) DEF _reparent_material
  <2>2. Harmless("actor", [f EXCEPT !.pc = "revive", !.ex = target])
    BY <1>0, SMTT(60) DEF Harmless, FrameType
  <2> QED
    BY <1>0, <2>1, <2>2, HarmlessGoto, SMTT(60)
<1>8. CASE ReviveTarget
  BY <1>0, <1>4, <1>8, HarmlessGoto, SMTT(60) DEF ReviveTarget, Done
<1> QED
  BY <1>2, <1>3, <1>5, <1>6, <1>7, <1>8, SMTT(60)

(* Giving an exchange a run, and going on after it. *)
LEMMA RunFrames ==
    ASSUME TypeOK, ExchangeKnown, NEW th \in Threads,
           \/ _create_process(th) \/ _resume_open_exchange(th) \/ Resumed(th)
           \/ th = "actor" /\ _ensure_owner
    PROVE  FramesAccounted
<1> DEFINE f == frame[th]
<1>0. f \in FrameType(Listed(th)) /\ Harmless(th, IdleFrame)
  BY GotoFits, HarmlessFrames, ZenonT(60) DEF Fits
<1>1. CASE _create_process(th)
  <2>1. Harmless(th, [f EXCEPT !.pc = "resume", !.t = None])
    BY <1>0 DEF Harmless, FrameType
  <2> QED
    BY <1>0, <1>1, <2>1, HarmlessGoto, SMTT(60) DEF _create_process
<1>2. CASE _resume_open_exchange(th)
  <2> DEFINE e == First(f.todo)
             g == [f EXCEPT !.todo = @ \ {e}]
  <2>1. e # None
    <3>1. f.todo \in SUBSET Nat /\ f.todo \subseteq Exchanges /\ f.todo # {}
      BY <1>0, <1>2, SMTT(60) DEF FrameType, _resume_open_exchange, Exchanges
    <3> QED
      BY <3>1, FirstInSet, BoundsAssumption, SMTT(60) DEF Exchanges, None
  <2>2. g \in FrameType(Listed(th)) /\ g.rest = f.rest /\ g.t = f.t /\ g.pc = "resume"
    <3>1. Fits(th, g)
      BY GotoFits, ResumeFits, ZenonT(60)
    <3> QED
      BY <1>0, <1>2, <3>1, ZenonT(60) DEF Fits, FrameType, _resume_open_exchange
  <2>3. \/ Goto(th, g)
        \/ _live_process_for(e) = {} /\ _start_answer(th, e, g) /\ UNCHANGED process
    BY <1>2 DEF _resume_open_exchange
  <2> HIDE DEF e, g
  <2>4. CASE Goto(th, g)
    <3>1. Harmless(th, g)
      BY <2>2, SMTT(60) DEF Harmless
    <3> QED
      BY <2>4, <3>1, HarmlessGoto, SMTT(60)
  <2>5. CASE _live_process_for(e) = {} /\ _start_answer(th, e, g) /\ UNCHANGED process
    BY <2>1, <2>2, <2>5, StartAccounted, SMTT(60)
  <2> QED
    BY <2>3, <2>4, <2>5, SMTT(60)
<1>3. CASE Resumed(th)
  <2>1. Harmless(th, [f EXCEPT !.pc = f.then])
    BY <1>0, SMTT(60) DEF Harmless, FrameType
  <2> QED
    BY <1>0, <1>3, <2>1, HarmlessGoto, SMTT(60) DEF Resumed
<1>4. CASE th = "actor" /\ _ensure_owner
  <2>1. f.ex # None
    BY <1>4, ZenonT(60) DEF _ensure_owner, ExchangeKnown
  <2>2. CASE Done("actor")
    BY <1>0, <1>4, <2>2, HarmlessGoto, SMTT(60) DEF Done
  <2>3. CASE _live_process_for(f.ex) = {} /\ _start_answer(th, f.ex, f) /\ UNCHANGED process
    BY <1>0, <2>1, <2>3, StartAccounted, SMTT(60)
  <2> QED
    BY <1>4, <2>2, <2>3, ZenonT(60) DEF _ensure_owner
<1> QED
  BY <1>1, <1>2, <1>3, <1>4, SMTT(60)

(* The recovery hands over only rows that exist. *)
LEMMA ManagerFrames ==
    ASSUME TypeOK, ExchangeKnown, RowsExist,
           \/ _recover_dialog \/ RefuseRestart \/ restart_task \/ _start_orphaned \/ Reown
           \/ resume_stranded \/ request_result_delivery
    PROVE  FramesAccounted
<1> DEFINE f == frame["manager"]
<1>0. f \in FrameType(Tasks) /\ "manager" \in Threads /\ Harmless("manager", IdleFrame)
  BY ManagerFrame, HarmlessFrames, ZenonT(60) DEF Threads
<1>1. CASE _recover_dialog
  <2> DEFINE g == frame'["manager"]
  <2>1. g.t = None /\ g.pc = "restart" /\ g.rest = list_orphaned
    BY <1>1, SMTT(60) DEF _recover_dialog, Goto, TypeOK, FramesOK, IdleFrame, Threads
  <2>2. \A t \in list_orphaned : Stored(t)
    BY SMTT(60) DEF list_orphaned, Stored
  <2>3. \A o \in Threads : o # "manager" => frame'[o] = frame[o]
    BY <1>1, SMTT(60) DEF _recover_dialog, Goto, TypeOK, FramesOK
  <2>4. frame'["actor"] = frame["actor"]
    BY <2>3 DEF Threads
  <2>5. ExchangeKnown'
    BY <2>4 DEF ExchangeKnown
  <2> QED
    BY <2>1, <2>2, <2>3, <2>5, SMTT(60) DEF FramesAccounted
<1>2. ASSUME NEW t PROVE Harmless("manager", [f EXCEPT !.rest = @ \ {t}]) \/ f.pc = "assemble"
  BY <1>0, SMTT(60) DEF Harmless, FrameType
<1>3. CASE RefuseRestart
  BY <1>0, <1>2, <1>3, HarmlessGoto, ZenonT(60) DEF RefuseRestart
<1>4. CASE restart_task
  <2> DEFINE t == First(f.rest)
             g == [f EXCEPT !.rest = @ \ {t}]
             h == [g EXCEPT !.pc = "reattach", !.t = t]
  <2>1. t \in f.rest /\ t \in Tasks /\ Stored(t)
    <3>1. f.rest \subseteq Tasks
      BY <1>0 DEF FrameType
    <3>2. f.rest # {}
      BY <1>4, ZenonT(60) DEF restart_task
    <3>3. f.rest \in SUBSET Nat
      BY <3>1, SMTT(60) DEF Tasks
    <3> QED
      BY <3>1, <3>2, <3>3, FirstInSet, SMTT(60) DEF RowsExist
  <2>2. Goto("manager", g) \/ Goto("manager", h)
    BY <1>4, ZenonT(60) DEF restart_task
  <2>3. CASE Goto("manager", g)
    BY <1>0, <1>2, <1>4, <2>3, HarmlessGoto, ZenonT(60) DEF restart_task
  <2>4. CASE Goto("manager", h)
    <3> HIDE DEF t
    <3>1. frame'["manager"] = h
      BY <2>4, <1>0, SMTT(60) DEF Goto, TypeOK, FramesOK
    <3>2. h.t = t /\ h.pc = "reattach" /\ h.rest \subseteq f.rest
      BY <1>0, SMTT(60) DEF FrameType
    <3>3. StoredNext(t)
      BY <1>4, <2>1, RowsKept, SMTT(60) DEF RowKept, Next, ManagerStep
    <3>4. \A o \in Threads : o # "manager" => frame'[o] = frame[o]
      BY <2>4, SMTT(60) DEF Goto, TypeOK, FramesOK
    <3>5. frame'["actor"] = frame["actor"]
      BY <3>4 DEF Threads
    <3>6. ExchangeKnown'
      BY <3>5 DEF ExchangeKnown
    <3> HIDE DEF h
    <3> QED
      BY <3>1, <3>2, <3>3, <3>4, <3>6, SMTT(60) DEF FramesAccounted
  <2> QED
    BY <2>2, <2>3, <2>4, SMTT(60)
<1>5. CASE _start_orphaned
  <2>1. Harmless("manager", [f EXCEPT !.pc = "reown"])
    BY <1>0 DEF Harmless, FrameType
  <2> QED
    BY <1>0, <1>5, <2>1, HarmlessGoto, SMTT(60) DEF _start_orphaned
<1>6. CASE Reown
  <2>1. Harmless("manager", [f EXCEPT !.pc = "restart", !.t = None])
    BY <1>0 DEF Harmless, FrameType
  <2> QED
    BY <1>0, <1>6, <2>1, HarmlessGoto, SMTT(60) DEF Reown
<1>7. CASE resume_stranded
  <2>1. PICK S : Goto("manager", [f EXCEPT !.pc = "resume", !.then = "redeliver", !.todo = S])
    BY <1>7, ZenonT(60) DEF resume_stranded
  <2>2. Harmless("manager", [f EXCEPT !.pc = "resume", !.then = "redeliver", !.todo = S])
    BY <1>0 DEF Harmless, FrameType
  <2> QED
    BY <1>0, <2>1, <2>2, HarmlessGoto, SMTT(60)
<1>8. CASE request_result_delivery
  <2>1. f.pc = "redeliver" =>
            Harmless("manager", [f EXCEPT !.live = @ \ {First(f.live)}])
    BY <1>0 DEF Harmless, FrameType
  <2> QED
    BY <1>0, <1>8, <2>1, HarmlessGoto, SMTT(60) DEF request_result_delivery, Done
<1> QED
  BY <1>1, <1>3, <1>4, <1>5, <1>6, <1>7, <1>8, SMTT(60)

(* Every step. *)
LEMMA FrameSteps == ASSUME TypeOK, RowsExist, ExchangeKnown, [Next]_vars PROVE FramesAccounted
<1>0. ASSUME UNCHANGED frame PROVE FramesAccounted
  BY <1>0 DEF FramesAccounted, ExchangeKnown
<1>t. "actor" \in Threads /\ "user" \in Threads /\ "manager" \in Threads
  BY DEF Threads
<1>1. CASE UNCHANGED vars
  BY <1>0, <1>1, SMTT(60) DEF vars
<1>2. CASE UserNext
  <2>1. CASE _handle_cancel
    <3>1. Harmless("user", [IdleFrame EXCEPT !.pc = "listing"])
      BY DEF Harmless, IdleFrame
    <3> QED
      BY <1>t, <2>1, <3>1, HarmlessGoto, SMTT(60) DEF _handle_cancel
  <2> QED
    BY <1>0, <1>2, <2>1, SMTT(60) DEF UserNext, submit, Resend, subscribe, unsubscribe, spawn_task,
                            delete_task
<1>3. CASE StopStep
  <2> DEFINE f == frame["user"]
  <2>0. f \in FrameType(Exchanges) /\ Harmless("user", IdleFrame)
    BY <1>t, HarmlessFrames, ZenonT(60) DEF TypeOK, FramesOK
  <2>1. CASE ListParked
    <3>1. PICK L, R : \/ Goto("user", IdleFrame)
                      \/ Goto("user", [IdleFrame EXCEPT !.pc = "closing", !.live = L, !.rest = R])
      BY <2>1, ZenonT(60) DEF ListParked
    <3>2. Harmless("user", [IdleFrame EXCEPT !.pc = "closing", !.live = L, !.rest = R])
      BY DEF Harmless, IdleFrame
    <3> QED
      BY <1>t, <2>0, <3>1, <3>2, HarmlessGoto, SMTT(60)
  <2>2. CASE _cancel_parked_exchanges
    <3>1. f.pc = "closing" => Harmless("user", [f EXCEPT !.rest = @ \ {First(f.rest)}])
      BY <2>0 DEF Harmless, FrameType
    <3> QED
      BY <1>t, <2>0, <2>2, <3>1, HarmlessGoto, SMTT(60) DEF _cancel_parked_exchanges
  <2> QED
    BY <1>3, <2>1, <2>2, SMTT(60) DEF StopStep
<1>4. ASSUME NEW t \in Tasks, PumpStep(t) PROVE FramesAccounted
  BY <1>0, <1>4, ZenonT(60)
     DEF PumpStep, Iterate, Finish, AskUser, ask_user, _finalize, _terminate_process
<1>5. CASE ActorStep
  <2>1. CASE SkipDuplicate \/ HandleFlush
    BY <1>0, <2>1 DEF SkipDuplicate, HandleFlush
  <2> QED
    BY <1>0, <1>5, <1>t, <2>1, ActorFramesA, ActorFramesB, RunFrames, SMTT(60) DEF ActorStep
<1>6. CASE ManagerStep
  BY <1>6, <1>t, ManagerFrames, RunFrames, SMTT(60) DEF ManagerStep
<1>7. CASE SweeperStep
  BY <1>0, <1>7, SMTT(60) DEF SweeperStep, QuietElapses, promote_collected
<1>8. CASE FaultNext
  <2>1. CASE CommandFails
    BY <1>t, <2>1, HarmlessFrames, HarmlessGoto, ZenonT(60) DEF CommandFails, Done
  <2>2. CASE Crash
    <3>1. \A th \in Threads : frame'[th].t = None /\ frame'[th].pc # "assemble"
      BY <2>2, SMTT(60) DEF Crash, IdleFrame, Threads
    <3>2. frame'["manager"].rest = {}
      BY <2>2, SMTT(60) DEF Crash, IdleFrame, Threads
    <3>3. frame'["actor"].pc = "idle"
      BY <2>2 DEF Crash, IdleFrame, Threads
    <3> QED
      BY <3>1, <3>2, <3>3, SMTT(60) DEF FramesAccounted, ExchangeKnown
  <2> QED
    BY <1>0, <1>8, <2>1, <2>2, SMTT(60)
       DEF FaultNext, PersistFails, SettleFails, FinalizeFails, AskFails
<1> QED
  BY <1>1, <1>2, <1>3, <1>4, <1>5, <1>6, <1>7, <1>8, SMTT(60) DEF Next

-----------------------------------------------------------------------------
(* The stop button *)

(* The epoch moves only with the stop's synchronous part. *)
LEMMA EpochSteps == ASSUME [Next]_vars PROVE UNCHANGED cancelEpoch \/ _handle_cancel
<1>1. CASE UNCHANGED vars
  BY <1>1, SMTT(60) DEF vars
<1>2. CASE UserNext
  BY <1>2 DEF UserNext, submit, Resend, subscribe, unsubscribe, spawn_task, delete_task
<1>3. CASE StopStep
  BY <1>3 DEF StopStep, ListParked, _cancel_parked_exchanges
<1>4. ASSUME NEW t \in Tasks, PumpStep(t) PROVE UNCHANGED cancelEpoch
  BY <1>4, ZenonT(60)
     DEF PumpStep, Iterate, Finish, AskUser, ask_user, _finalize, _terminate_process
<1>5. CASE ActorStep
  <2>1. ASSUME \/ SkipDuplicate \/ _handle_submit \/ _route \/ _collect_material
               \/ _cancel_exchanges \/ _apply_route \/ set_exchange \/ _ensure_owner
               \/ _create_process("actor") \/ _resume_open_exchange("actor")
               \/ Resumed("actor")
        PROVE  UNCHANGED cancelEpoch
    BY <2>1, ZenonT(60)
       DEF SkipDuplicate, _handle_submit, _route, _collect_material, _cancel_exchanges,
         _apply_route, set_exchange, _ensure_owner, _create_process, _resume_open_exchange, Resumed
  <2>2. ASSUME \/ _settle_exchange \/ _handle_terminated \/ HandleFlush
               \/ _handle_promote \/ PromoteAlone \/ _reparent_material \/ ReviveTarget
        PROVE  UNCHANGED cancelEpoch
    BY <2>2, ZenonT(60)
       DEF _settle_exchange, _handle_terminated, HandleFlush, _handle_promote, PromoteAlone,
         _reparent_material, ReviveTarget
  <2> QED
    BY <1>5, <2>1, <2>2, SMTT(60) DEF ActorStep
<1>6. CASE ManagerStep
  BY <1>6, ZenonT(60)
     DEF ManagerStep, _recover_dialog, RefuseRestart, restart_task, _start_orphaned, Reown,
       resume_stranded, _create_process, _resume_open_exchange, Resumed, request_result_delivery
<1>7. CASE SweeperStep
  BY <1>7, SMTT(60) DEF SweeperStep, QuietElapses, promote_collected
<1>8. CASE FaultNext
  BY <1>8, SMTT(60)
     DEF FaultNext, PersistFails, SettleFails, CommandFails, Crash, FinalizeFails, AskFails
<1> QED
  BY <1>1, <1>2, <1>3, <1>4, <1>5, <1>6, <1>7, <1>8, SMTT(60) DEF Next

(* Rows, processes and locals keep agreeing on who owes which exchange. *)
LEMMA OwnershipStep == ASSUME TypeOK, OwnershipInv, [Next]_vars PROVE OwnershipInv'
<1>0. /\ \A t \in Tasks : RowKept(t)
      /\ ProcessesAccounted /\ FramesAccounted /\ TypeOK'
  BY RowsKept, ProcessSteps, FrameSteps, NextTyped, SMTT(60) DEF OwnershipInv
<1>1. \A t \in Tasks : t # None
  BY BoundsAssumption, SMTT(60) DEF Tasks, None
<1>2. ASSUME NEW th \in Threads PROVE frame[th].t \in Tasks \cup {None}
  BY ZenonT(60) DEF TypeOK, FramesOK, FrameType
<1>3. ASSUME NEW t \in Tasks, LiveNext(t) PROVE StoredNext(t)
  <2>1. CASE GoesOn(t)
    BY <1>0, <2>1, ZenonT(60) DEF GoesOn, OwnershipInv, RowsExist, Processes, RowKept
  <2>2. CASE Background(t)
    BY <2>2 DEF Background
  <2>3. CASE Created(t)
    <3>1. Stored(t)
      BY <1>1, <2>3, SMTT(60) DEF Created, OwnershipInv, RowsExist
    <3> QED
      BY <1>0, <3>1, SMTT(60) DEF RowKept
  <2> QED
    BY <1>0, <1>3, <2>1, <2>2, <2>3, SMTT(60) DEF ProcessesAccounted
<1>4. ASSUME NEW th \in Threads, frame'[th].t # None PROVE StoredNext(frame'[th].t)
  BY <1>0, <1>2, <1>4, ZenonT(60) DEF FramesAccounted, OwnershipInv, RowsExist, RowKept
<1>5. ASSUME NEW t \in frame'["manager"].rest PROVE StoredNext(t)
  <2>1. t \in Tasks
    BY <1>0, ZenonT(60) DEF TypeOK, FramesOK, FrameType
  <2> QED
    BY <1>0, <2>1, ZenonT(60) DEF FramesAccounted, OwnershipInv, RowsExist, RowKept
<1>6. RowsExist'
  BY <1>3, <1>4, <1>5, ZenonT(60) DEF RowsExist, Processes, Live, LiveNext, Stored, StoredNext
<1>7. AssemblesAnswer'
  <2> SUFFICES ASSUME NEW th \in Threads, frame'[th].pc = "assemble"
               PROVE  frame'[th].t # None /\ task'[frame'[th].t].ex # None
    BY SMTT(60) DEF AssemblesAnswer
  <2>1. CASE frame'[th] = frame[th]
    BY <1>0, <1>2, <2>1, ZenonT(60) DEF OwnershipInv, AssemblesAnswer, RowsExist, RowKept
  <2>2. CASE Starting(th)
    BY <1>1, <2>2, ZenonT(60) DEF Starting
  <2> QED
    BY <1>0, <2>1, <2>2, ZenonT(60) DEF FramesAccounted
<1>8. EpochsAreAnswers'
  <2> SUFFICES ASSUME NEW t \in Tasks, LiveNext(t), process'[t].epoch # None
               PROVE  task'[t].ex # None
    BY SMTT(60) DEF EpochsAreAnswers, Processes, Live, LiveNext
  <2>1. CASE GoesOn(t)
    BY <1>0, <2>1, ZenonT(60)
       DEF GoesOn, OwnershipInv, EpochsAreAnswers, RowsExist, Processes, RowKept
  <2>2. CASE Created(t)
    BY <2>2, ZenonT(60) DEF Created, OwnershipInv, AssemblesAnswer
  <2> QED
    BY <1>0, <2>1, <2>2, SMTT(60) DEF ProcessesAccounted, Background
<1> QED
  BY <1>0, <1>6, <1>7, <1>8, SMTT(60) DEF OwnershipInv, FramesAccounted

(* A fresh dialog has no process and no task. *)
LEMMA OwnershipInit == Init => OwnershipInv
BY SMTT(60) DEF Init, OwnershipInv, RowsExist, AssemblesAnswer, ExchangeKnown, EpochsAreAnswers,
       Processes, Live, NoProcess, IdleFrame, Threads, None

(* A stop trips every run that was started for a submit; a run created      *)
(* after it looks at the submit's epoch.                                    *)
LEMMA StopStepInv ==
    ASSUME TypeOK, OwnershipInv, StopCoversRouting, [Next]_vars
    PROVE  StopCoversRouting'
<1> SUFFICES ASSUME NEW t \in Tasks, LiveNext(t),
                    process'[t].epoch # None, process'[t].epoch < cancelEpoch'
             PROVE  process'[t].tripped
  BY ZenonT(60) DEF StopCoversRouting, Processes, Live, LiveNext
<1>0. ProcessesAccounted
  BY ProcessSteps, ZenonT(60) DEF OwnershipInv
<1>1. CASE _handle_cancel
  <2>1. process'[t] = IF Live(t) /\ task[t].ex # None
                      THEN [process[t] EXCEPT !.tripped = TRUE] ELSE process[t]
    BY <1>1, SMTT(60) DEF _handle_cancel
  <2>2. process[t] \in ProcessType
    BY ZenonT(60) DEF TypeOK
  <2>3. Live(t) /\ process[t].epoch # None
    BY <2>1, <2>2, SMTT(60) DEF Live, LiveNext, ProcessType
  <2>4. task[t].ex # None
    BY <2>3, ZenonT(60) DEF OwnershipInv, EpochsAreAnswers, Processes
  <2> QED
    BY <2>1, <2>2, <2>3, <2>4, SMTT(60) DEF ProcessType
<1>2. CASE UNCHANGED cancelEpoch
  <2>1. CASE GoesOn(t)
    BY <1>2, <2>1, ZenonT(60) DEF GoesOn, StopCoversRouting, Processes
  <2>2. CASE Background(t)
    BY <2>2, ZenonT(60) DEF Background
  <2>3. CASE Created(t)
    BY <1>2, <2>3, ZenonT(60) DEF Created, PredatesStop
  <2> QED
    BY <1>0, <2>1, <2>2, <2>3, ZenonT(60) DEF ProcessesAccounted
<1> QED
  BY <1>1, <1>2, EpochSteps, ZenonT(60)

(* The stop button covers the message that is still being routed, whatever  *)
(* the coroutines, the store and the machine do in between.                 *)
THEOREM StopIsHonoured == Spec => []StopCoversRouting
<1>1. Init => TypeOK /\ OwnershipInv /\ StopCoversRouting
  <2>1. Init => StopCoversRouting
    BY DEF Init, StopCoversRouting, Processes, Live, NoProcess
  <2> QED
    BY <2>1, InitTyped, OwnershipInit, SMTT(60)
<1>2. TypeOK /\ OwnershipInv /\ StopCoversRouting /\ [Next]_vars
          => TypeOK' /\ OwnershipInv' /\ StopCoversRouting'
  BY NextTyped, OwnershipStep, StopStepInv, SMTT(60)
<1> QED
  BY <1>1, <1>2, PTL DEF Spec

-----------------------------------------------------------------------------
(* One run per exchange *)

(* Only a restart of the process sets recovery going, and the stop never    *)
(* starts a run.                                                            *)
LEMMA OthersStayIdle ==
    ASSUME MaxCrashes = 0, TypeOK, [Next]_vars,
           frame["manager"].pc = "idle", frame["user"].pc # "assemble"
    PROVE  frame'["manager"].pc = "idle" /\ frame'["user"].pc # "assemble"
<1>0. frame["user"] \in FrameType(Exchanges) /\ DOMAIN frame = Threads
  BY ZenonT(60) DEF TypeOK, FramesOK
<1>1. CASE UNCHANGED vars
  BY <1>1, ZenonT(60) DEF vars
<1>2. CASE UserNext
  <2>1. CASE _handle_cancel
    BY <1>0, <2>1, SMTT(60) DEF _handle_cancel, Goto, Threads
  <2> QED
    BY <1>2, <2>1 DEF UserNext, submit, Resend, subscribe, unsubscribe, spawn_task, delete_task
<1>3. CASE StopStep
  <2>1. CASE ListParked
    <3>1. \E S, R : \/ Goto("user", IdleFrame)
                    \/ Goto("user", [IdleFrame EXCEPT !.pc = "closing", !.live = S, !.rest = R])
      BY <2>1, ZenonT(60) DEF ListParked
    <3>2. PICK g : Goto("user", g) /\ g.pc # "assemble"
      <4>1. \A S, R : [IdleFrame EXCEPT !.pc = "closing", !.live = S, !.rest = R].pc = "closing"
        BY SMTT(60) DEF IdleFrame
      <4> QED
        BY <3>1, <4>1, ZenonT(60) DEF IdleFrame
    <3> QED
      BY <1>0, <3>2 DEF Goto, Threads
  <2>2. CASE _cancel_parked_exchanges
    <3>1. \/ \E f : f.pc = "closing" /\ Goto("user", f)
          \/ Goto("user", IdleFrame)
      BY <1>0, <2>2 DEF _cancel_parked_exchanges, Done, FrameType
    <3> QED
      BY <1>0, <3>1, SMTT(60) DEF Goto, IdleFrame, Threads
  <2> QED
    BY <1>3, <2>1, <2>2, SMTT(60) DEF StopStep
<1>4. ASSUME NEW t \in Tasks, PumpStep(t) PROVE UNCHANGED frame
  BY <1>4, ZenonT(60)
     DEF PumpStep, Iterate, Finish, AskUser, ask_user, _finalize, _terminate_process
<1>5. CASE ActorStep
  <2> DEFINE Same == frame'["manager"] = frame["manager"] /\ frame'["user"] = frame["user"]
  <2>a. \A f : Goto("actor", f) => Same
    BY <1>0 DEF Goto, Threads
  <2>b. Done("actor") \/ UNCHANGED frame => Same
    BY <2>a DEF Done
  <2> HIDE DEF Same
  <2>1. SkipDuplicate => Same
    BY <2>a, <2>b, ZenonT(60) DEF SkipDuplicate
  <2>2. _handle_submit => Same
    BY <2>a, <2>b, ZenonT(60) DEF _handle_submit
  <2>3. _route => Same
    BY <2>a, <2>b, ZenonT(60) DEF _route
  <2>4. _collect_material => Same
    BY <2>a, <2>b, ZenonT(60) DEF _collect_material
  <2>5. _cancel_exchanges => Same
    BY <2>a, <2>b, ZenonT(60) DEF _cancel_exchanges
  <2>6. _apply_route => Same
    BY <2>a, <2>b, ZenonT(60) DEF _apply_route
  <2>7. set_exchange => Same
    BY <2>a, <2>b, ZenonT(60) DEF set_exchange
  <2>8. _ensure_owner => Same
    BY <2>a, <2>b, ZenonT(60) DEF _ensure_owner, _start_answer
  <2>9. _create_process("actor") => Same
    BY <2>a, <2>b, ZenonT(60) DEF _create_process
  <2>10. _resume_open_exchange("actor") => Same
    BY <2>a, <2>b, ZenonT(60) DEF _resume_open_exchange, _start_answer
  <2>11. Resumed("actor") => Same
    BY <2>a, <2>b, ZenonT(60) DEF Resumed
  <2>12. _settle_exchange => Same
    BY <2>a, <2>b, ZenonT(60) DEF _settle_exchange
  <2>13. _handle_terminated => Same
    BY <2>a, <2>b, ZenonT(60) DEF _handle_terminated
  <2>14. HandleFlush => Same
    BY <2>a, <2>b, ZenonT(60) DEF HandleFlush
  <2>15. _handle_promote => Same
    BY <2>a, <2>b, ZenonT(60) DEF _handle_promote, Revive
  <2>16. PromoteAlone => Same
    BY <2>a, <2>b, ZenonT(60) DEF PromoteAlone, Revive
  <2>17. _reparent_material => Same
    BY <2>a, <2>b, ZenonT(60) DEF _reparent_material
  <2>18. ReviveTarget => Same
    BY <2>a, <2>b, ZenonT(60) DEF ReviveTarget, Revive
  <2> QED
    BY <1>5, <2>1, <2>2, <2>3, <2>4, <2>5, <2>6, <2>7, <2>8, <2>9, ZenonT(60),
       <2>10, <2>11, <2>12, <2>13, <2>14, <2>15, <2>16, <2>17, <2>18 DEF ActorStep, Same
<1>6. CASE ManagerStep
  BY <1>6, ZenonT(60)
     DEF ManagerStep, _recover_dialog, RefuseRestart, restart_task, _start_orphaned, Reown,
       resume_stranded, _create_process, _resume_open_exchange, Resumed, request_result_delivery
<1>7. CASE SweeperStep
  BY <1>7, ZenonT(60) DEF SweeperStep, QuietElapses, promote_collected
<1>8. CASE FaultNext
  <2>1. ~Crash
    BY SMTT(60) DEF Crash, Spend, TypeOK, Events
  <2> QED
    BY <1>0, <1>8, <2>1, SMTT(60)
       DEF FaultNext, PersistFails, SettleFails, CommandFails, FinalizeFails,
         AskFails, Goto, Done, Threads
<1> QED
  BY <1>1, <1>2, <1>3, <1>4, <1>5, <1>6, <1>7, <1>8, ZenonT(60) DEF Next

(* While the actor assembles a run, its exchange gets no other. *)
LEMMA OnlyActorStartsStep ==
    ASSUME MaxCrashes = 0, TypeOK, OwnershipInv, OnlyActorStarts, [Next]_vars
    PROVE  OnlyActorStarts'
<1>0. /\ \A t \in Tasks : RowKept(t)
      /\ ProcessesAccounted /\ FramesAccounted /\ TypeOK'
  BY RowsKept, ProcessSteps, FrameSteps, NextTyped, SMTT(60) DEF OwnershipInv
<1>1. frame'["manager"].pc = "idle" /\ frame'["user"].pc # "assemble"
  BY OthersStayIdle, ZenonT(60) DEF OnlyActorStarts
<1>2. ASSUME frame'["actor"].pc = "assemble", NEW v \in Tasks, LiveNext(v),
             task'[v].ex = task'[frame'["actor"].t].ex
      PROVE  FALSE
  <2>1. frame["actor"].t \in Tasks \cup {None}
    BY ZenonT(60) DEF TypeOK, FramesOK, FrameType, Threads
  <2>2. CASE frame'["actor"] = frame["actor"]
    <3> DEFINE u == frame["actor"].t
    <3>1. u # None /\ u \in Tasks /\ Stored(u) /\ task[u].ex # None
      BY <1>2, <2>1, <2>2, ZenonT(60) DEF OwnershipInv, AssemblesAnswer, RowsExist, Threads
    <3>2. task'[v].ex = task[u].ex
      BY <1>0, <1>2, <2>2, <3>1, ZenonT(60) DEF RowKept
    <3>3. CASE GoesOn(v)
      <4>1. Live(v) /\ Stored(v)
        BY <3>3, ZenonT(60) DEF GoesOn, OwnershipInv, RowsExist, Processes
      <4> QED
        BY <1>0, <1>2, <2>2, <3>2, <4>1, ZenonT(60)
           DEF RowKept, OnlyActorStarts, _live_process_for, Processes
    <3>4. CASE Background(v)
      BY <3>1, <3>2, <3>4, ZenonT(60) DEF Background, OnlyActorStarts
    <3>5. CASE Created(v)
      BY <1>2, <2>2, <3>5, ZenonT(60) DEF Created, OnlyActorStarts, Threads
    <3> QED
      BY <1>0, <1>2, <3>3, <3>4, <3>5, ZenonT(60) DEF ProcessesAccounted
  <2>3. CASE Starting("actor")
    <3>1. Live(v) /\ Stored(v)
      BY <1>2, <2>3, ZenonT(60) DEF Starting, Live, LiveNext, OwnershipInv, RowsExist, Processes
    <3> QED
      BY <1>2, <2>3, <3>1, ZenonT(60) DEF Starting, _live_process_for, Processes
  <2> QED
    BY <1>0, <1>2, <2>2, <2>3, ZenonT(60) DEF FramesAccounted, Threads
<1> QED
  BY <1>1, <1>2, ZenonT(60) DEF OnlyActorStarts, _live_process_for, Processes, Live, LiveNext

(* A step that creates a run creates it for an exchange without one. *)
LEMMA OneRunStep ==
    ASSUME TypeOK, OwnershipInv, OnlyActorStarts, OneRunPerExchange, [Next]_vars
    PROVE  OneRunPerExchange'
<1>0. (\A t \in Tasks : RowKept(t)) /\ ProcessesAccounted
  BY RowsKept, ProcessSteps, SMTT(60) DEF OwnershipInv
<1> DEFINE Fresh(t) == /\ frame["actor"].pc = "assemble" /\ frame["actor"].t = t
                       /\ UNCHANGED task
           Old(t) == Live(t) /\ task'[t].ex = task[t].ex
<1>1. ASSUME NEW t \in Tasks, LiveNext(t), task'[t].ex # None PROVE Old(t) \/ Fresh(t)
  <2>1. CASE GoesOn(t)
    BY <1>0, <2>1, ZenonT(60) DEF GoesOn, OwnershipInv, RowsExist, Processes, RowKept
  <2>2. CASE Created(t)
    BY <2>2, ZenonT(60) DEF Created, OnlyActorStarts, Threads
  <2> QED
    BY <1>0, <1>1, <2>1, <2>2, ZenonT(60) DEF ProcessesAccounted, Background, OnlyActorStarts
<1>2. ASSUME NEW t \in Tasks, NEW u \in Tasks, Fresh(t), Old(u), task'[t].ex = task'[u].ex
      PROVE  FALSE
  BY <1>2, ZenonT(60) DEF OnlyActorStarts, _live_process_for, Processes
<1>3. ASSUME NEW t \in Tasks, NEW u \in Tasks, t # u, LiveNext(t), LiveNext(u),
             task'[t].ex # None, task'[t].ex = task'[u].ex
      PROVE  FALSE
  <2>1. (Old(t) \/ Fresh(t)) /\ (Old(u) \/ Fresh(u))
    BY <1>1, <1>3, ZenonT(60)
  <2>2. ~(Old(t) /\ Old(u))
    BY <1>3, ZenonT(60) DEF OneRunPerExchange, Processes
  <2>3. ~(Fresh(t) /\ Fresh(u))
    BY <1>3
  <2> HIDE DEF Old, Fresh
  <2> QED
    BY <1>2, <1>3, <2>1, <2>2, <2>3, ZenonT(60)
<1> QED
  BY <1>3, ZenonT(60) DEF OneRunPerExchange, Processes, Live, LiveNext

LEMMA OneRunInit == Init => OnlyActorStarts /\ OneRunPerExchange
<1> SUFFICES ASSUME Init PROVE OnlyActorStarts /\ OneRunPerExchange
  OBVIOUS
<1>1. \A t \in Tasks : process[t].phase = "none"
  BY DEF Init, NoProcess
<1>2. \A th \in Threads : frame[th].pc = "idle"
  BY DEF Init, IdleFrame
<1> QED
  BY <1>1, <1>2, SMTT(60) DEF OnlyActorStarts, OneRunPerExchange, Processes, Live, Threads

(* Between two restarts no exchange has two live processes: create_process's *)
(* only callers check for one under the spawn lock or inside the actor.      *)
THEOREM OneRun == ASSUME MaxCrashes = 0 PROVE Spec => []OneRunPerExchange
<1> DEFINE Inv == TypeOK /\ OwnershipInv /\ OnlyActorStarts /\ OneRunPerExchange
<1>1. Init => Inv
  BY OneRunInit, InitTyped, OwnershipInit, ZenonT(60)
<1>2. Inv /\ [Next]_vars => Inv'
  BY NextTyped, OwnershipStep, OnlyActorStartsStep, OneRunStep, SMTT(60)
<1>3. Inv => OneRunPerExchange
  OBVIOUS
<1> HIDE DEF Inv
<1> QED
  BY <1>1, <1>2, <1>3, PTL DEF Spec

-----------------------------------------------------------------------------
(* The limit on the runs *)

(* Between two restarts the manager does nothing. *)
LEMMA ManagerRests == ASSUME OnlyActorStarts PROVE ~ManagerStep
BY SMTT(60)
   DEF OnlyActorStarts, ManagerStep, _recover_dialog, RefuseRestart, restart_task,
       _start_orphaned, Reown, resume_stranded, _create_process, _resume_open_exchange, Resumed,
       request_result_delivery

ActiveIn(P) == {t \in Tasks : P[t].phase # "none" /\ ~P[t].tripped}

(* What the actor holds across its awaits: the exchanges it has cancelled   *)
(* have no working run, only a submit cancels, and the slot for the run it  *)
(* assembles is reserved by the spawn lock.                                 *)
SlotInv ==
    LET f == frame["actor"]
    IN  /\ \A t \in Tasks : Live(t) /\ task[t].ex \in f.cancelled => process[t].tripped
        /\ f.cancelled # {} => f.cmd.type = "submit"
        /\ f.pc = "assemble" => spawnLock = "actor"
        /\ Cardinality(ActiveIn(process)) + (IF f.pc = "assemble" THEN 1 ELSE 0) <= MaxProcesses

LEMMA RunsFinite ==
    ASSUME NEW S \in SUBSET Tasks PROVE IsFiniteSet(S) /\ Cardinality(S) \in Nat
<1>1. IsFiniteSet(Tasks)
  BY FS_Interval, BoundsAssumption, SMTT(60) DEF Tasks
<1> QED
  BY <1>1, FS_Subset, FS_CardinalityType, ZenonT(60)

LEMMA OneMore ==
    ASSUME NEW S \in SUBSET Tasks, NEW T \in SUBSET Tasks, NEW x, T \subseteq S \cup {x}
    PROVE  Cardinality(T) <= Cardinality(S) + 1
<1>1. IsFiniteSet(S) /\ Cardinality(S) \in Nat /\ Cardinality(T) \in Nat
  BY RunsFinite, ZenonT(60)
<1>2. IsFiniteSet(S \cup {x})
  BY <1>1, FS_AddElement, ZenonT(60)
<1>3. Cardinality(S \cup {x}) = IF x \in S THEN Cardinality(S) ELSE Cardinality(S) + 1
  BY <1>1, FS_AddElement, ZenonT(60)
<1>4. Cardinality(T) <= Cardinality(S \cup {x})
  <2>1. T \in SUBSET (S \cup {x})
    OBVIOUS
  <2> QED
    BY <1>2, <2>1, FS_Subset, ZenonT(60)
<1> QED
  BY <1>1, <1>3, <1>4, SMTT(60)

(* Each cancelled exchange that _exceeds_limit takes off the count stands   *)
(* for a run that was told to stop.                                         *)
LEMMA SlotFree ==
    ASSUME TypeOK, NEW C \in SUBSET Exchanges, ~_exceeds_limit(C),
           \A t \in Tasks : Live(t) /\ task[t].ex \in C => process[t].tripped
    PROVE  Cardinality(ActiveIn(process)) + 1 <= MaxProcesses
<1> DEFINE A == ActiveIn(process)
           K == _cancelled_tasks(C)
           D == Processes \ A
           run == [e \in K |-> CHOOSE t \in Processes : task[t].ex = e]
<1>1. /\ A \in SUBSET Tasks /\ Processes \in SUBSET Tasks /\ D \in SUBSET Tasks
      /\ Processes \cap A = A
  BY ZenonT(60) DEF ActiveIn, Processes, Live
<1>2. \A e \in K : run[e] \in Processes /\ task[run[e]].ex = e
  <2> SUFFICES ASSUME NEW e \in K PROVE run[e] \in Processes /\ task[run[e]].ex = e
    OBVIOUS
  <2>1. \E t \in Processes : task[t].ex = e
    BY ZenonT(60) DEF _cancelled_tasks, _live_process_for
  <2> QED
    BY <2>1, ZenonT(60)
<1>3. \A e \in K : run[e] \in D
  <2>1. \A e \in K : e \in C
    BY ZenonT(60) DEF _cancelled_tasks
  <2>2. \A t \in Processes : Live(t) /\ t \in Tasks
    BY ZenonT(60) DEF Processes
  <2>3. \A e \in K : process[run[e]].tripped
    BY <1>2, <2>1, <2>2, ZenonT(60)
  <2>4. \A t \in Processes : process[t].tripped => t \in D
    BY ZenonT(60) DEF ActiveIn
  <2> HIDE DEF run, D, K
  <2> QED
    BY <1>2, <2>3, <2>4, ZenonT(60)
<1>4. run \in Injection(K, D)
  <2>1. run \in [K -> D]
    BY <1>3, ZenonT(60)
  <2> HIDE DEF run
  <2>2. \A e, d \in K : run[e] = run[d] => e = d
    BY <1>2, ZenonT(60)
  <2> QED
    BY <2>1, <2>2, ZenonT(60) DEF Injection, IsInjective
<1> HIDE DEF run
<1>5. IsFiniteSet(D) /\ IsFiniteSet(Processes)
      /\ Cardinality(A) \in Nat /\ Cardinality(Processes) \in Nat /\ Cardinality(D) \in Nat
  BY <1>1, RunsFinite, ZenonT(60)
<1>6. IsFiniteSet(K) /\ Cardinality(K) <= Cardinality(D)
  BY <1>4, <1>5, FS_Injection, ZenonT(60)
<1>7. Cardinality(K) \in Nat
  BY <1>6, FS_CardinalityType, ZenonT(60)
<1>8. Cardinality(D) = Cardinality(Processes) - Cardinality(A)
  <2>1. Cardinality(Processes \ A) = Cardinality(Processes) - Cardinality(Processes \cap A)
    BY <1>5, FS_Difference, ZenonT(60)
  <2> QED
    BY <1>1, <2>1, ZenonT(60)
<1>9. ~(Cardinality(Processes) + 1 > MaxProcesses + Cardinality(K))
  BY ZenonT(60) DEF _exceeds_limit
<1> HIDE DEF A, K, D
<1>10. Cardinality(A) + 1 <= MaxProcesses
  BY <1>5, <1>6, <1>7, <1>8, <1>9, BoundsAssumption, SMTT(60)
<1> QED
  BY <1>10, ZenonT(60) DEF A

(* A run after a step was there before and is tripped if it was, or is the  *)
(* one the actor assembled, or a background run that has just been spawned. *)
RunsOn(t) == Live(t) /\ (process[t].tripped => process'[t].tripped)

Assembled(t) ==
    frame["actor"].pc = "assemble" /\ frame["actor"].t = t /\ frame'["actor"].pc # "assemble"

LEMMA RunsStart ==
    ASSUME TypeOK, OnlyActorStarts, [Next]_vars
    PROVE  spawn_task \/ \A t \in Tasks : LiveNext(t) => RunsOn(t) \/ Assembled(t)
<1> DEFINE Goes(t) == LiveNext(t) => RunsOn(t) \/ Assembled(t)
           Fine == spawn_task \/ \A t \in Tasks : Goes(t)
<1>0. ASSUME UNCHANGED process PROVE Fine
  BY <1>0, SMTT(60) DEF RunsOn, Live, LiveNext
<1>a. process \in [Tasks -> ProcessType] /\ NoProcess.phase = "none"
  BY DEF TypeOK, NoProcess
<1>o. ASSUME NEW t \in Tasks, \A u \in Tasks : u # t => process'[u] = process[u], Goes(t)
      PROVE  Fine
  BY <1>o, ZenonT(60) DEF RunsOn, Live, LiveNext
<1>1. CASE UNCHANGED vars
  BY <1>0, <1>1, SMTT(60) DEF vars
<1>2. CASE UserNext
  <2>1. CASE _handle_cancel
    <3>1. \A t \in Tasks : process'[t] = process[t] \/ process'[t] = [process[t] EXCEPT !.tripped = TRUE]
      BY <2>1 DEF _handle_cancel
    <3>2. \A t \in Tasks : [process[t] EXCEPT !.tripped = TRUE].tripped = TRUE
                           /\ [process[t] EXCEPT !.tripped = TRUE].phase = process[t].phase
      BY <1>a DEF ProcessType
    <3>3. ASSUME NEW t \in Tasks, process'[t] = process[t] PROVE Goes(t)
      BY <3>3, SMTT(60) DEF RunsOn, Live, LiveNext
    <3>4. ASSUME NEW t \in Tasks, process'[t] = [process[t] EXCEPT !.tripped = TRUE] PROVE Goes(t)
      BY <3>2, <3>4, SMTT(60) DEF RunsOn, Live, LiveNext
    <3> QED
      BY <3>1, <3>3, <3>4, ZenonT(60)
  <2>2. ASSUME NEW t \in Tasks, delete_task(t) PROVE Fine
    BY <1>a, <2>2, SMTT(60) DEF delete_task, RunsOn, Live, LiveNext, ProcessType
  <2> QED
    BY <1>0, <1>2, <2>1, <2>2, ZenonT(60) DEF UserNext, submit, Resend, subscribe, unsubscribe
<1>3. CASE StopStep
  BY <1>0, <1>3, SMTT(60) DEF StopStep, ListParked, _cancel_parked_exchanges
<1>4. ASSUME NEW t \in Tasks, PumpStep(t) PROVE Fine
  <2>0. process[t] \in ProcessType
    BY <1>a
  <2>1. \A u \in Tasks : u # t => process'[u] = process[u]
    BY <1>4, <1>a, ZenonT(60)
       DEF PumpStep, Iterate, Finish, AskUser, ask_user, _finalize, _terminate_process
  <2>2. SUFFICES ASSUME LiveNext(t) PROVE RunsOn(t)
    BY <1>o, <2>1, ZenonT(60)
  <2>3. CASE Iterate(t)
    BY <1>a, <2>0, <2>3, SMTT(60) DEF Iterate, RunsOn, Live, ProcessType
  <2>4. ASSUME NEW terminal \in Terminals, Finish(t, terminal) PROVE RunsOn(t)
    BY <1>a, <2>0, <2>4, SMTT(60) DEF Finish, RunsOn, Live, ProcessType
  <2>5. CASE AskUser(t)
    BY <1>a, <2>0, <2>5, SMTT(60) DEF AskUser, RunsOn, Live, ProcessType
  <2>6. CASE ask_user(t)
    BY <1>a, <2>0, <2>2, <2>6, SMTT(60) DEF ask_user, RunsOn, Live, LiveNext, ProcessType
  <2>7. CASE _finalize(t)
    BY <1>a, <2>0, <2>7, SMTT(60) DEF _finalize, RunsOn, Live, ProcessType
  <2>8. CASE _terminate_process(t)
    BY <1>a, <2>2, <2>8, SMTT(60) DEF _terminate_process, LiveNext
  <2> QED
    BY <1>4, <2>3, <2>4, <2>5, <2>6, <2>7, <2>8, SMTT(60) DEF PumpStep
<1>5. CASE ActorStep
  <2>1. CASE _cancel_exchanges
    BY <1>a, <2>1, SMTT(60) DEF _cancel_exchanges, RunsOn, Live, LiveNext, ProcessType
  <2>2. CASE _create_process("actor")
    <3> DEFINE f == frame["actor"]
    <3>1. \A u \in Tasks : u # f.t => process'[u] = process[u]
      BY <1>a, <2>2, SMTT(60) DEF _create_process
    <3>2. f.pc = "assemble" /\ frame'["actor"].pc # "assemble"
      BY <2>2, ActorFrame, ZenonT(60)
         DEF _create_process, Goto, IdleFrame, TypeOK, FramesOK, FrameType, Threads
    <3> QED
      BY <3>1, <3>2, ZenonT(60) DEF RunsOn, Assembled, Live, LiveNext
  <2>3. CASE SkipDuplicate \/ _handle_submit \/ _route \/ _collect_material
             \/ _apply_route \/ set_exchange \/ _ensure_owner
             \/ _resume_open_exchange("actor") \/ Resumed("actor")
    BY <1>0, <2>3, ZenonT(60)
       DEF SkipDuplicate, _handle_submit, _route, _collect_material, _apply_route,
         set_exchange, _ensure_owner, _resume_open_exchange, Resumed
  <2>4. CASE _settle_exchange \/ _handle_terminated \/ HandleFlush \/ _handle_promote
             \/ PromoteAlone \/ _reparent_material \/ ReviveTarget
    BY <1>0, <2>4, ZenonT(60)
       DEF _settle_exchange, _handle_terminated, HandleFlush, _handle_promote,
         PromoteAlone, _reparent_material, ReviveTarget
  <2> QED
    BY <1>5, <2>1, <2>2, <2>3, <2>4, SMTT(60) DEF ActorStep
<1>6. CASE SweeperStep
  BY <1>0, <1>6, ZenonT(60) DEF SweeperStep, QuietElapses, promote_collected
<1>7. CASE FaultNext
  <2>1. CASE Crash
    BY <1>a, <2>1, SMTT(60) DEF Crash, LiveNext
  <2>2. ASSUME NEW t \in Tasks, FinalizeFails(t) PROVE Fine
    BY <1>a, <2>2, SMTT(60) DEF FinalizeFails, RunsOn, Live, LiveNext, ProcessType
  <2>3. ASSUME NEW t \in Tasks, AskFails(t) PROVE Fine
    BY <1>a, <2>3, SMTT(60) DEF AskFails, RunsOn, Live, LiveNext, ProcessType
  <2> QED
    BY <1>0, <1>7, <2>1, <2>2, <2>3, ZenonT(60) DEF FaultNext, PersistFails, SettleFails, CommandFails
<1> QED
  BY <1>1, <1>2, <1>3, <1>4, <1>5, <1>6, <1>7, ManagerRests, ZenonT(60) DEF Next

(* What a step does to the cancelled exchanges in the actor's hands and to  *)
(* the slot it reserves.                                                    *)
Rests == frame'["actor"] = frame["actor"] /\ UNCHANGED spawnLock

Drops == frame'["actor"].cancelled = {} /\ frame'["actor"].pc # "assemble"

HoldsOn ==
    /\ frame'["actor"].cancelled = frame["actor"].cancelled
    /\ frame'["actor"].cmd = frame["actor"].cmd
    /\ frame["actor"].pc # "assemble"

Reserves ==
    /\ HoldsOn /\ frame'["actor"].pc = "assemble"
    /\ spawnLock' = "actor" /\ UNCHANGED process
    /\ \E C \in {{}, frame["actor"].cancelled} : ~_exceeds_limit(C)

ActorMoves ==
    \/ Rests \/ Drops \/ Reserves \/ _cancel_exchanges
    \/ HoldsOn /\ frame'["actor"].pc # "assemble"

LEMMA ActorSlots ==
    ASSUME TypeOK, OnlyActorStarts, [Next]_vars,
           frame["actor"].cancelled # {} => frame["actor"].cmd.type = "submit"
    PROVE  ActorMoves
<1> DEFINE f == frame["actor"]
<1>f. f \in FrameType(Exchanges) /\ DOMAIN frame = Threads /\ "actor" \in Threads
  BY ActorFrame, ZenonT(60) DEF Threads, TypeOK, FramesOK
<1>0. ASSUME frame'["actor"] = frame["actor"], UNCHANGED spawnLock PROVE ActorMoves
  BY <1>0, ZenonT(60) DEF ActorMoves, Rests
<1>a. ASSUME NEW g, Goto("actor", g) PROVE frame'["actor"] = g
  BY <1>f, <1>a, ZenonT(60) DEF Goto, TypeOK, FramesOK
<1>g. ASSUME NEW g, Goto("actor", g), g.cancelled = {}, g.pc # "assemble" PROVE ActorMoves
  BY <1>a, <1>g, ZenonT(60) DEF ActorMoves, Drops
<1>k. ASSUME NEW g, Goto("actor", g), g.cancelled = f.cancelled, g.cmd = f.cmd, g.pc # "assemble",
             f.pc # "assemble"
      PROVE  ActorMoves
  BY <1>a, <1>k, ZenonT(60) DEF ActorMoves, HoldsOn
<1>s. ASSUME NEW g, NEW e, _start_answer("actor", e, g), g \in FrameType(Exchanges),
             g.cancelled = f.cancelled, g.cmd = f.cmd, f.pc # "assemble", UNCHANGED process,
             ~_exceeds_limit({}) \/ ~_exceeds_limit(f.cancelled)
      PROVE  ActorMoves
  <2>1. PICK t \in Tasks : Goto("actor", [g EXCEPT !.pc = "assemble", !.t = t])
    BY <1>s, ZenonT(60) DEF _start_answer
  <2>2. spawnLock' = "actor"
    BY <1>s, ZenonT(60) DEF _start_answer
  <2>3. /\ [g EXCEPT !.pc = "assemble", !.t = t].pc = "assemble"
        /\ [g EXCEPT !.pc = "assemble", !.t = t].cancelled = f.cancelled
        /\ [g EXCEPT !.pc = "assemble", !.t = t].cmd = f.cmd
    BY <1>s DEF FrameType
  <2>6. frame'["actor"] = [g EXCEPT !.pc = "assemble", !.t = t]
    BY <1>a, <2>1, ZenonT(60)
  <2>4. HoldsOn /\ frame'["actor"].pc = "assemble"
    BY <1>s, <2>3, <2>6, ZenonT(60) DEF HoldsOn
  <2>5. \E C \in {{}, f.cancelled} : ~_exceeds_limit(C)
    BY <1>s, ZenonT(60)
  <2> QED
    BY <1>s, <2>2, <2>4, <2>5, ZenonT(60) DEF ActorMoves, Reserves
<1>i. ASSUME Goto("actor", IdleFrame) PROVE ActorMoves
  BY <1>g, <1>i, ZenonT(60) DEF IdleFrame
<1>o. ASSUME NEW g, Goto("user", g), UNCHANGED spawnLock PROVE ActorMoves
  BY <1>0, <1>f, <1>o, ZenonT(60) DEF Goto, TypeOK, FramesOK, Threads
<1>1. CASE UNCHANGED vars
  BY <1>0, <1>1, ZenonT(60) DEF vars
<1>2. CASE UserNext
  BY <1>0, <1>o, <1>2, ZenonT(60)
     DEF UserNext, submit, Resend, _handle_cancel, subscribe, unsubscribe, spawn_task, delete_task
<1>3. CASE StopStep
  BY <1>o, <1>3, ZenonT(60) DEF StopStep, ListParked, _cancel_parked_exchanges
<1>4. ASSUME NEW t \in Tasks, PumpStep(t) PROVE ActorMoves
  BY <1>0, <1>4, ZenonT(60)
     DEF PumpStep, Iterate, Finish, AskUser, ask_user, _finalize, _terminate_process
<1>5. CASE ActorStep
  <2>1. CASE _handle_submit
    <3> DEFINE L == list_live
               g == [IdleFrame EXCEPT !.cmd = Head(inbox), !.live = L]
               x == First(_sole_fresh_collection(list_live))
               h == [g EXCEPT !.pc = "apply", !.act = "CONTINUE", !.ex = x]
    <3>1. \/ \E pc \in {"collect", "apply", "routing"} : Goto("actor", [g EXCEPT !.pc = pc])
          \/ Goto("actor", h)
      BY <2>1 DEF _handle_submit
    <3> HIDE DEF L, x
    <3>2. \A pc \in {"collect", "apply", "routing"} :
             [g EXCEPT !.pc = pc].cancelled = {} /\ [g EXCEPT !.pc = pc].pc # "assemble"
      BY SMTT(60) DEF IdleFrame
    <3>3. h.cancelled = {} /\ h.pc # "assemble"
      BY DEF IdleFrame
    <3> HIDE DEF g, h
    <3> QED
      BY <1>g, <3>1, <3>2, <3>3, ZenonT(60)
  <2>2. CASE _route
    <3> DEFINE G(a, e, r) == [f EXCEPT !.pc = "apply", !.act = a, !.ex = e, !.rest = r]
               H(a, r) == [f EXCEPT !.pc = "apply", !.act = a, !.rest = r]
    <3>1. f.pc # "assemble" /\ ((\E a, e, r : Goto("actor", G(a, e, r))) \/ \E a, r : Goto("actor", H(a, r)))
      BY <2>2, ZenonT(60) DEF _route
    <3>2. \A a, e, r : /\ G(a, e, r).cancelled = f.cancelled /\ G(a, e, r).cmd = f.cmd
                       /\ G(a, e, r).pc # "assemble"
                       /\ H(a, r).cancelled = f.cancelled /\ H(a, r).cmd = f.cmd
                       /\ H(a, r).pc # "assemble"
      BY <1>f, SMTT(60) DEF FrameType
    <3>3. ASSUME NEW a, NEW e, NEW r, Goto("actor", G(a, e, r)) PROVE ActorMoves
      <4> DEFINE g == G(a, e, r)
      <4>1. g.cancelled = f.cancelled /\ g.cmd = f.cmd /\ g.pc # "assemble" /\ Goto("actor", g)
        BY <3>2, <3>3, SMTT(60)
      <4> HIDE DEF g
      <4> QED
        BY <1>k, <3>1, <4>1, ZenonT(60)
    <3>4. ASSUME NEW a, NEW r, Goto("actor", H(a, r)) PROVE ActorMoves
      <4> DEFINE g == H(a, r)
      <4>1. g.cancelled = f.cancelled /\ g.cmd = f.cmd /\ g.pc # "assemble" /\ Goto("actor", g)
        BY <3>2, <3>4, SMTT(60)
      <4> HIDE DEF g
      <4> QED
        BY <1>k, <3>1, <4>1, ZenonT(60)
    <3> HIDE DEF G, H
    <3> QED
      BY <3>1, <3>3, <3>4, ZenonT(60)
  <2>a. \A e : /\ [f EXCEPT !.pc = "attach", !.ex = e].cancelled = f.cancelled
               /\ [f EXCEPT !.pc = "attach", !.ex = e].cmd = f.cmd
               /\ [f EXCEPT !.pc = "attach", !.ex = e].pc # "assemble"
    BY <1>f, SMTT(60) DEF FrameType
  <2>3. CASE _collect_material \/ _apply_route
    <3>1. f.pc # "assemble"
      BY <2>3, ZenonT(60) DEF _collect_material, _apply_route
    <3>2. Goto("actor", IdleFrame) \/ \E e : Goto("actor", [f EXCEPT !.pc = "attach", !.ex = e])
      BY <2>3, ZenonT(60) DEF _collect_material, _apply_route, Done
    <3> QED
      BY <1>k, <1>i, <2>a, <3>1, <3>2, ZenonT(60)
  <2>4. CASE _cancel_exchanges
    BY <2>4 DEF ActorMoves
  <2>5. CASE set_exchange
    <3> DEFINE g == [f EXCEPT !.pc = "own"]
    <3>1. f.pc # "assemble" /\ (Goto("actor", IdleFrame) \/ Goto("actor", g))
      BY <2>5, SMTT(60) DEF set_exchange
    <3>2. g.cancelled = f.cancelled /\ g.cmd = f.cmd /\ g.pc # "assemble"
      BY <1>f, SMTT(60) DEF FrameType
    <3> HIDE DEF g
    <3> QED
      BY <1>k, <1>i, <3>1, <3>2, ZenonT(60)
  <2>6. CASE _ensure_owner
    <3>1. f.pc # "assemble" /\ UNCHANGED process
      BY <2>6, ZenonT(60) DEF _ensure_owner
    <3>2. \/ Goto("actor", IdleFrame)
          \/ ~_exceeds_limit(f.cancelled) /\ _start_answer("actor", f.ex, f)
      BY <2>6, ZenonT(60) DEF _ensure_owner, Done
    <3> QED
      BY <1>s, <1>i, <1>f, <3>1, <3>2, ZenonT(60)
  <2>7. CASE _create_process("actor")
    <3> DEFINE g == [f EXCEPT !.pc = "resume", !.t = None]
    <3>1. Goto("actor", IdleFrame) \/ (f.cmd.type # "submit" /\ Goto("actor", g))
      BY <2>7, SMTT(60) DEF _create_process
    <3>2. g.cancelled = f.cancelled /\ g.pc # "assemble"
      BY <1>f, SMTT(60) DEF FrameType
    <3> HIDE DEF g
    <3> QED
      BY <1>g, <1>i, <3>1, <3>2, ZenonT(60)
  <2>8. CASE _resume_open_exchange("actor")
    <3> DEFINE e == First(f.todo)
               g == [f EXCEPT !.todo = @ \ {e}]
    <3>1. f.pc # "assemble" /\ UNCHANGED process
      BY <2>8, SMTT(60) DEF _resume_open_exchange
    <3>2. Goto("actor", g) \/ (~_exceeds_limit({}) /\ _start_answer("actor", e, g))
      BY <2>8, ZenonT(60) DEF _resume_open_exchange
    <3> HIDE DEF e
    <3>3. /\ g \in FrameType(Exchanges) /\ g.cancelled = f.cancelled /\ g.cmd = f.cmd
          /\ g.pc = f.pc
      BY <1>f DEF FrameType
    <3> HIDE DEF g
    <3> QED
      BY <1>k, <1>s, <3>1, <3>2, <3>3, ZenonT(60)
  <2>9. CASE Resumed("actor")
    <3> DEFINE g == [f EXCEPT !.pc = f.then]
    <3>1. f.pc # "assemble" /\ (Goto("actor", IdleFrame) \/ Goto("actor", g))
      BY <2>9, SMTT(60) DEF Resumed
    <3>2. g.cancelled = f.cancelled /\ g.cmd = f.cmd /\ g.pc # "assemble"
      BY <1>f, SMTT(60) DEF FrameType
    <3> HIDE DEF g
    <3> QED
      BY <1>k, <1>i, <3>1, <3>2, ZenonT(60)
  <2>10. CASE _settle_exchange
    <3> DEFINE c == Head(inbox)
               g == [IdleFrame EXCEPT !.cmd = c, !.pc = "deliver"]
               h == [g EXCEPT !.pc = "resume", !.todo = {c.ex}, !.then = "deliver"]
    <3>1. Goto("actor", g) \/ Goto("actor", h)
      BY <2>10 DEF _settle_exchange
    <3> HIDE DEF c
    <3>2. g.cancelled = {} /\ g.pc # "assemble" /\ h.cancelled = {} /\ h.pc # "assemble"
      BY DEF IdleFrame
    <3> HIDE DEF g, h
    <3> QED
      BY <1>g, <3>1, <3>2, ZenonT(60)
  <2>11. CASE _handle_terminated \/ PromoteAlone \/ ReviveTarget
    <3>1. /\ f.pc # "assemble"
          /\ \/ \E S : Goto("actor", [f EXCEPT !.pc = "resume", !.todo = S, !.then = "idle"])
             \/ Goto("actor", IdleFrame)
      BY <2>11, ZenonT(60) DEF _handle_terminated, PromoteAlone, ReviveTarget, Revive, Done
    <3>2. \A S : /\ [f EXCEPT !.pc = "resume", !.todo = S, !.then = "idle"].cancelled = f.cancelled
                 /\ [f EXCEPT !.pc = "resume", !.todo = S, !.then = "idle"].cmd = f.cmd
                 /\ [f EXCEPT !.pc = "resume", !.todo = S, !.then = "idle"].pc # "assemble"
      BY <1>f, SMTT(60) DEF FrameType
    <3> QED
      BY <1>k, <1>i, <3>1, <3>2, ZenonT(60)
  <2>12. CASE _reparent_material
    <3>1. f.pc # "assemble" /\ \E e : Goto("actor", [f EXCEPT !.pc = "revive", !.ex = e])
      BY <2>12, ZenonT(60) DEF _reparent_material
    <3>2. \A e : /\ [f EXCEPT !.pc = "revive", !.ex = e].cancelled = f.cancelled
                 /\ [f EXCEPT !.pc = "revive", !.ex = e].cmd = f.cmd
                 /\ [f EXCEPT !.pc = "revive", !.ex = e].pc # "assemble"
      BY <1>f, SMTT(60) DEF FrameType
    <3> QED
      BY <1>k, <3>1, <3>2, ZenonT(60)
  <2>13. CASE _handle_promote
    <3> DEFINE c == Head(inbox)
               L == {e \in list_live \ {c.ex} : status[e] # "COLLECTING"}
               g == [IdleFrame EXCEPT !.cmd = c, !.live = L]
               h == [g EXCEPT !.pc = "resume", !.todo = {c.ex}, !.then = "idle"]
               k == [g EXCEPT !.pc = "material"]
    <3>1. (UNCHANGED frame \/ Goto("actor", h) \/ Goto("actor", k)) /\ UNCHANGED spawnLock
      BY <2>13 DEF _handle_promote, Revive
    <3> HIDE DEF c, L
    <3>2. h.cancelled = {} /\ h.pc # "assemble" /\ k.cancelled = {} /\ k.pc # "assemble"
      BY DEF IdleFrame
    <3> HIDE DEF h, g, k
    <3> QED
      BY <1>0, <1>g, <3>1, <3>2, ZenonT(60)
  <2>14. CASE SkipDuplicate \/ HandleFlush
    BY <1>0, <2>14, ZenonT(60) DEF SkipDuplicate, HandleFlush
  <2> QED
    BY <1>5, <2>1, <2>2, <2>3, <2>4, <2>5, <2>6, <2>7, <2>8, <2>9, <2>10, <2>11, <2>12, <2>13, <2>14,
       ZenonT(60) DEF ActorStep
<1>6. CASE SweeperStep
  BY <1>0, <1>6, ZenonT(60) DEF SweeperStep, QuietElapses, promote_collected
<1>7. CASE FaultNext
  <2>1. CASE Crash
    BY <2>1, ZenonT(60) DEF Crash, ActorMoves, Drops, IdleFrame, Threads
  <2>2. CASE CommandFails
    BY <1>i, <2>2, ZenonT(60) DEF CommandFails, Done
  <2> QED
    BY <1>0, <1>7, <2>1, <2>2, ZenonT(60) DEF FaultNext, PersistFails, SettleFails, FinalizeFails, AskFails
<1> QED
  BY <1>1, <1>2, <1>3, <1>4, <1>5, <1>6, <1>7, ManagerRests, SMTT(60) DEF Next

(* The exchanges the actor has cancelled keep no working run. *)
LEMMA CancelledStep ==
    ASSUME TypeOK, OwnershipInv, OnlyActorStarts, OneRunPerExchange, SlotInv, [Next]_vars, ActorMoves,
           NEW t \in Tasks, LiveNext(t), task'[t].ex \in frame'["actor"].cancelled
    PROVE  process'[t].tripped
<1> DEFINE f == frame["actor"]
<1>0. (\A u \in Tasks : RowKept(u)) /\ ProcessesAccounted /\ TypeOK'
  BY RowsKept, ProcessSteps, NextTyped, ZenonT(60) DEF OwnershipInv
<1>1. task'[t].ex # None
  <2>1. frame'["actor"].cancelled \in SUBSET Exchanges
    BY <1>0, ZenonT(60) DEF TypeOK, FramesOK, FrameType
  <2> QED
    BY <2>1, BoundsAssumption, SMTT(60) DEF Exchanges, None
<1>2. CASE Drops
  BY <1>2, ZenonT(60) DEF Drops
<1>3. ASSUME ~Assembled(t) PROVE GoesOn(t) /\ task'[t].ex = task[t].ex
  <2>1. ~Background(t)
    BY <1>1, ZenonT(60) DEF Background, OnlyActorStarts
  <2>2. ~Created(t)
    BY <1>3, ZenonT(60) DEF Created, Assembled, OnlyActorStarts, Threads
  <2>3. GoesOn(t)
    BY <1>0, <2>1, <2>2, ZenonT(60) DEF ProcessesAccounted
  <2>4. Stored(t)
    BY <2>3, ZenonT(60) DEF GoesOn, OwnershipInv, RowsExist, Processes
  <2> QED
    BY <1>0, <2>3, <2>4, ZenonT(60) DEF RowKept
<1>4. CASE Rests \/ HoldsOn
  <2>1. ~Assembled(t) /\ frame'["actor"].cancelled = f.cancelled
    BY <1>4, ZenonT(60) DEF Rests, HoldsOn, Assembled
  <2> QED
    BY <1>3, <2>1, ZenonT(60) DEF SlotInv, GoesOn
<1>5. CASE _cancel_exchanges
  <2> DEFINE e == First(f.rest)
  <2>1. ~Assembled(t)
    BY <1>5, SMTT(60) DEF _cancel_exchanges, Assembled
  <2>2. frame'["actor"].cancelled = f.cancelled \cup {e}
    <3>1. frame'["actor"] = [f EXCEPT !.rest = @ \ {e}, !.cancelled = @ \cup {e}]
      BY <1>5, ZenonT(60) DEF _cancel_exchanges, Goto, TypeOK, FramesOK, Threads
    <3>2. f \in FrameType(Exchanges)
      BY ActorFrame, ZenonT(60)
    <3> HIDE DEF e
    <3> QED
      BY <3>1, <3>2 DEF FrameType
  <2>3. CASE task[t].ex \in f.cancelled
    BY <1>3, <2>1, <2>3, ZenonT(60) DEF SlotInv, GoesOn
  <2>4. CASE task[t].ex = e
    <3>1. Live(t) /\ task[t].ex # None
      BY <1>1, <1>3, <2>1, ZenonT(60) DEF GoesOn
    <3>2. _live_process_for(e) = {t}
      BY <2>4, <3>1, ZenonT(60) DEF _live_process_for, OneRunPerExchange, Processes
    <3>3. First({t}) = t
      <4>1. {t} \in SUBSET Nat
        BY BoundsAssumption, SMTT(60) DEF Tasks
      <4> QED
        BY <4>1, FirstInSet, ZenonT(60)
    <3>4. process' = [process EXCEPT ![First(_live_process_for(e))].tripped = TRUE]
      BY <1>5, <3>2, SMTT(60) DEF _cancel_exchanges
    <3>5. process' = [process EXCEPT ![t].tripped = TRUE]
      BY <3>2, <3>3, <3>4, ZenonT(60)
    <3> QED
      BY <3>5, SMTT(60) DEF TypeOK, ProcessType
  <2> QED
    BY <1>3, <2>1, <2>2, <2>3, <2>4, ZenonT(60)
<1> QED
  BY <1>2, <1>4, <1>5, ZenonT(60) DEF ActorMoves, Reserves

(* The working runs and the reserved slot stay within the limit. *)
LEMMA CountStep ==
    ASSUME TypeOK, OwnershipInv, OnlyActorStarts, SlotInv, [Next]_vars, ActorMoves
    PROVE  Cardinality(ActiveIn(process')) + (IF frame'["actor"].pc = "assemble" THEN 1 ELSE 0)
               <= MaxProcesses
<1> DEFINE f == frame["actor"]
           A == ActiveIn(process)
           B == ActiveIn(process')
<1>0. /\ A \in SUBSET Tasks /\ B \in SUBSET Tasks /\ Cardinality(A) \in Nat /\ Cardinality(B) \in Nat
      /\ IsFiniteSet(A)
  <2>1. A \in SUBSET Tasks /\ B \in SUBSET Tasks
    BY ZenonT(60) DEF ActiveIn
  <2> QED
    BY <2>1, RunsFinite, ZenonT(60)
<1>s. /\ Cardinality(A) + (IF f.pc = "assemble" THEN 1 ELSE 0) <= MaxProcesses
      /\ f.pc = "assemble" => spawnLock = "actor"
  BY ZenonT(60) DEF SlotInv
<1>1. CASE spawn_task
  <2>1. f.pc # "assemble" /\ frame' = frame /\ Cardinality(Processes) < MaxProcesses
    BY <1>1, <1>s, SMTT(60) DEF spawn_task, Free
  <2>2. PICK t \in Tasks : process' = [process EXCEPT ![t] = [NoProcess EXCEPT !.phase = "new"]]
    BY <1>1, ZenonT(60) DEF spawn_task
  <2>3. B \subseteq A \cup {t}
    BY <2>2, SMTT(60) DEF ActiveIn, TypeOK
  <2>4. Cardinality(B) <= Cardinality(A) + 1
    BY <1>0, <2>3, OneMore, ZenonT(60)
  <2>5. Cardinality(A) <= Cardinality(Processes) /\ Cardinality(Processes) \in Nat
    <3>1. A \in SUBSET Processes /\ Processes \in SUBSET Tasks
      BY SMTT(60) DEF ActiveIn, Processes, Live
    <3> QED
      BY <3>1, RunsFinite, FS_Subset, ZenonT(60)
  <2> HIDE DEF A, B
  <2>6. Cardinality(B) <= MaxProcesses
    BY <1>0, <2>1, <2>4, <2>5, BoundsAssumption, SMTT(60)
  <2> QED
    BY <1>0, <2>1, <2>6, SMTT(60) DEF B
<1>2. CASE ~spawn_task
  <2>0. \A t \in Tasks : LiveNext(t) => RunsOn(t) \/ Assembled(t)
    BY <1>2, RunsStart, SMTT(60)
  <2>1. CASE Reserves
    <3>1. B = A /\ frame'["actor"].pc = "assemble"
      BY <2>1, ZenonT(60) DEF Reserves
    <3>2. PICK C \in {{}, f.cancelled} : ~_exceeds_limit(C)
      BY <2>1, ZenonT(60) DEF Reserves
    <3>3. C \in SUBSET Exchanges /\ (\A t \in Tasks : Live(t) /\ task[t].ex \in C => process[t].tripped)
      BY <3>2, ActorFrame, ZenonT(60) DEF SlotInv, FrameType
    <3>4. Cardinality(A) + 1 <= MaxProcesses
      BY <3>2, <3>3, SlotFree, ZenonT(60)
    <3> QED
      BY <3>1, <3>4, ZenonT(60)
  <2>2. CASE ~\E t \in Tasks : Assembled(t)
    <3>1. B \in SUBSET A
      BY <2>0, <2>2, ZenonT(60) DEF ActiveIn, LiveNext, RunsOn, Live
    <3>2. Cardinality(B) <= Cardinality(A)
      BY <1>0, <3>1, FS_Subset, ZenonT(60)
    <3>3. Reserves \/ frame'["actor"].pc # "assemble" \/ f.pc = "assemble"
      <4>1. CASE _cancel_exchanges
        <5>1. f \in FrameType(Exchanges) /\ f.pc = "apply"
          BY <4>1, ActorFrame, SMTT(60) DEF _cancel_exchanges
        <5>2. frame'["actor"] = [f EXCEPT !.rest = @ \ {First(f.rest)}, !.cancelled = @ \cup {First(f.rest)}]
          BY <4>1, ZenonT(60) DEF _cancel_exchanges, Goto, TypeOK, FramesOK, Threads
        <5>3. frame'["actor"].pc = f.pc
          BY <5>1, <5>2 DEF FrameType
        <5> QED
          BY <5>1, <5>3, SMTT(60)
      <4> QED
        BY <4>1, SMTT(60) DEF ActorMoves, Rests, Drops
    <3> HIDE DEF A, B
    <3> QED
      BY <1>0, <1>s, <2>1, <3>2, <3>3, BoundsAssumption, SMTT(60) DEF B
  <2>3. CASE \E t \in Tasks : Assembled(t)
    <3>1. f.pc = "assemble" /\ frame'["actor"].pc # "assemble"
      BY <2>3, SMTT(60) DEF Assembled
    <3>2. B \subseteq A \cup {f.t}
      BY <2>0, ZenonT(60) DEF ActiveIn, LiveNext, RunsOn, Assembled, Live
    <3>3. Cardinality(B) <= Cardinality(A) + 1
      BY <1>0, <3>2, OneMore, ZenonT(60)
    <3> HIDE DEF A, B
    <3>4. Cardinality(B) <= MaxProcesses
      BY <1>0, <1>s, <3>1, <3>3, BoundsAssumption, SMTT(60)
    <3> QED
      BY <1>0, <3>1, <3>4, SMTT(60) DEF B
  <2> QED
    BY <2>2, <2>3, ZenonT(60)
<1> QED
  BY <1>1, <1>2, ZenonT(60)

LEMMA SlotStep ==
    ASSUME TypeOK, OwnershipInv, OnlyActorStarts, OneRunPerExchange, SlotInv, [Next]_vars
    PROVE  SlotInv'
<1> DEFINE f == frame["actor"]
           g == frame'["actor"]
<1>1. ActorMoves
  BY ActorSlots, ZenonT(60) DEF SlotInv
<1>2. \A t \in Tasks : LiveNext(t) /\ task'[t].ex \in g.cancelled => process'[t].tripped
  BY <1>1, CancelledStep, ZenonT(60)
<1>3. Cardinality(ActiveIn(process')) + (IF g.pc = "assemble" THEN 1 ELSE 0) <= MaxProcesses
  BY <1>1, CountStep, ZenonT(60)
<1>c. CASE _cancel_exchanges
  <2>1. f \in FrameType(Exchanges) /\ f.pc = "apply" /\ f.cmd.type = "submit"
    BY <1>c, ActorFrame, SMTT(60) DEF _cancel_exchanges, AtCommand
  <2>2. g = [f EXCEPT !.rest = @ \ {First(f.rest)}, !.cancelled = @ \cup {First(f.rest)}]
    BY <1>c, ZenonT(60) DEF _cancel_exchanges, Goto, TypeOK, FramesOK, Threads
  <2>3. g.cmd = f.cmd /\ g.pc = f.pc
    BY <2>1, <2>2 DEF FrameType
  <2>4. (g.cancelled # {} => g.cmd.type = "submit") /\ (g.pc = "assemble" => spawnLock' = "actor")
    BY <2>1, <2>3, ZenonT(60)
  <2> QED
    BY <1>2, <1>3, <2>4, ZenonT(60) DEF SlotInv, Live, LiveNext
<1>4. CASE ~_cancel_exchanges
  <2>1. (g.cancelled # {} => g.cmd.type = "submit") /\ (g.pc = "assemble" => spawnLock' = "actor")
    BY <1>1, <1>4, ZenonT(60) DEF SlotInv, ActorMoves, Rests, Drops, Reserves, HoldsOn
  <2> QED
    BY <1>2, <1>3, <2>1, ZenonT(60) DEF SlotInv, Live, LiveNext
<1> QED
  BY <1>c, <1>4

(* The limit holds: between two restarts the runs that were not told to     *)
(* stop never outnumber OF_MAX_PROCESSES, although _ensure_owner counts the *)
(* exchanges its own routing decision has cancelled as free slots           *)
(* (_exceeds_limit, spawn_task, _create_process).                           *)
THEOREM RunsWithinLimit == ASSUME MaxCrashes = 0 PROVE Spec => []ActiveRunsWithinLimit
<1> DEFINE I == OwnershipInv /\ OnlyActorStarts /\ OneRunPerExchange /\ SlotInv
<1>1. Init => I
  <2>1. ASSUME Init PROVE SlotInv
    <3>1. ActiveIn(process) = {} /\ frame["actor"] = IdleFrame
      BY <2>1, ZenonT(60) DEF Init, ActiveIn, NoProcess, Threads
    <3>2. IdleFrame.cancelled = {} /\ IdleFrame.pc = "idle"
      BY ZenonT(60) DEF IdleFrame
    <3>3. Cardinality(ActiveIn(process)) = 0
      BY <3>1, FS_EmptySet, ZenonT(60)
    <3> QED
      BY <3>1, <3>2, <3>3, BoundsAssumption, SMTT(60) DEF SlotInv
  <2> QED
    BY <2>1, OneRunInit, OwnershipInit, ZenonT(60)
<1>2. TypeOK /\ I /\ [Next]_vars => I'
  BY OwnershipStep, OnlyActorStartsStep, OneRunStep, SlotStep, SMTT(60)
<1>3. I => ActiveRunsWithinLimit
  <2>1. {t \in Processes : ~process[t].tripped} = ActiveIn(process)
    BY ZenonT(60) DEF ActiveIn, Processes, Live
  <2>2. ActiveIn(process) \in SUBSET Tasks
    BY ZenonT(60) DEF ActiveIn
  <2>3. Cardinality(ActiveIn(process)) \in Nat
    BY <2>2, RunsFinite, ZenonT(60)
  <2>4. SlotInv => Cardinality(ActiveIn(process)) <= MaxProcesses
    BY <2>3, BoundsAssumption, SMTT(60) DEF SlotInv
  <2> QED
    BY <2>1, <2>4, ZenonT(60) DEF ActiveRunsWithinLimit
<1> HIDE DEF I
<1> QED
  BY <1>1, <1>2, <1>3, TypeCorrect, PTL DEF Spec

=============================================================================
