---------------------------- MODULE RunnerProofs ----------------------------
(***************************************************************************)
(* TypeOK is an invariant of the conversation actor for every value of the *)
(* constants. It is inductive as it stands, because it says more than the  *)
(* shapes: the command a frame holds is the one its handler takes, a       *)
(* command names the row it is about, and what a frame lists are rows of   *)
(* the right table. One lemma per group of actions, as Next is laid out.   *)
(***************************************************************************)
EXTENDS ConversationRunner, WellFoundedInduction, TLAPS

(* A nonempty set of ids has a least one: less-than on the naturals is     *)
(* well-founded.                                                           *)
LEMMA LeastExists ==
    ASSUME NEW S \in SUBSET Nat, S # {}
    PROVE  \E x \in S : \A y \in S : x <= y
<1> DEFINE below == {ss \in Nat \X Nat : ss[1] < ss[2]}
<1>1. OpToRel(<, Nat) = below
  BY DEF OpToRel
<1>2. IsWellFoundedOn(below, Nat)
  BY <1>1, NatLessThanWellFounded, Zenon
<1>3. ASSUME NEW x \in Nat, NEW y \in Nat, y < x PROVE <<y, x>> \in below
  BY <1>3
<1> HIDE DEF below
<1>4. PICK x \in S : \A y \in S : ~(<<y, x>> \in below)
  BY <1>2, WFMin, Zenon
<1>5. ASSUME NEW y \in S PROVE x <= y
  <2>1. ~(y < x)
    BY <1>3, <1>4, Zenon
  <2> QED
    BY <2>1
<1> QED
  BY <1>5

(* The first of a nonempty set of ids is one of them. *)
LEMMA FirstInSet ==
    ASSUME NEW S \in SUBSET Nat, S # {}
    PROVE  First(S) \in S /\ \A y \in S : First(S) <= y
BY LeastExists, ZenonT(60) DEF First

(* The commands the handlers put into the inbox are well formed. *)
LEMMA CommandsTyped ==
    ASSUME TypeOK
    PROVE  /\ NoCommand \in CommandType
           /\ \A m \in Messages : _Submit(m) \in CommandType
           /\ _Flush \in CommandType
           /\ \A e \in Exchanges : _PromoteCollected(e) \in CommandType
           /\ \A t \in Tasks : Redelivery(t) \in CommandType
<1>0. \A c \in CommandShape : NamesItsRow(c) => c \in CommandType
  BY DEF CommandType
<1>1. NoCommand \in CommandShape
  BY DEF CommandShape, NoCommand, None
<1>2. NamesItsRow(NoCommand)
  BY DEF NamesItsRow, NoCommand
<1>3. ASSUME NEW m \in Messages PROVE _Submit(m) \in CommandShape
  BY <1>1, ZenonT(60) DEF CommandShape, _Submit, TypeOK
<1>4. ASSUME NEW m \in Messages PROVE NamesItsRow(_Submit(m))
  BY BoundsAssumption DEF NamesItsRow, _Submit, NoCommand, None, Messages
<1>5. _Flush \in CommandShape
  BY <1>1 DEF CommandShape, _Flush
<1>6. NamesItsRow(_Flush)
  BY DEF NamesItsRow, _Flush, NoCommand
<1>7. ASSUME NEW e \in Exchanges PROVE _PromoteCollected(e) \in CommandShape
  BY <1>1, ZenonT(60) DEF CommandShape, _PromoteCollected
<1>8. ASSUME NEW e \in Exchanges PROVE NamesItsRow(_PromoteCollected(e))
  BY BoundsAssumption DEF NamesItsRow, _PromoteCollected, NoCommand, None, Exchanges
<1>9. ASSUME NEW t \in Tasks PROVE Redelivery(t) \in CommandShape
  BY <1>1, ZenonT(60) DEF CommandShape, Redelivery
<1>10. ASSUME NEW t \in Tasks PROVE NamesItsRow(Redelivery(t))
  BY BoundsAssumption DEF NamesItsRow, Redelivery, NoCommand, None, Tasks
<1> QED
  BY <1>0, <1>1, <1>2, <1>3, <1>4, <1>5, <1>6, <1>7, <1>8, <1>9, <1>10, SMTT(60)

(* What a process's termination tells the actor is well formed. *)
LEMMA TerminationTyped ==
    ASSUME TypeOK, NEW t \in Tasks
    PROVE  _ProcessTerminated(t) \in CommandType
<1>1. Outcome(t) \in ClosedStatuses
  BY DEF Outcome, ClosedStatuses
<1>2. _unseen_kind(t) \in {"NONE", "MATERIAL_ONLY", "SPOKEN"}
  BY DEF _unseen_kind
<1>3. /\ task[t].ex \in Exchanges \cup {None}
      /\ process[t].heard \in BOOLEAN
      /\ (IF process[t].terminal = "Cancelled" THEN "none" ELSE process[t].terminal)
             \in {"none", "Finished", "Silent", "Failed"}
  BY DEF TypeOK, TaskType, ProcessType, Terminals
<1>4. _ProcessTerminated(t) \in CommandShape
  BY <1>1, <1>2, <1>3 DEF CommandShape, _ProcessTerminated, None
<1>5. NamesItsRow(_ProcessTerminated(t))
  BY BoundsAssumption DEF NamesItsRow, _ProcessTerminated, None, Tasks
<1> QED
  BY <1>4, <1>5 DEF CommandType

(* The fields of a command. *)
LEMMA CommandFields ==
    ASSUME NEW c \in CommandType
    PROVE  /\ c.m \in Messages \cup {None} /\ c.ex \in Exchanges \cup {None}
           /\ c.t \in Tasks \cup {None} /\ c.epoch \in Nat
           /\ c.outcome \in ClosedStatuses \cup {"none"}
           /\ c.type = "submit" => c.m \in Messages
           /\ c.type = "promote" => c.ex \in Exchanges
           /\ c.type = "terminated" => c.t \in Tasks
BY DEF CommandType, CommandShape, NamesItsRow

(* The command at the head of the inbox, and what is left without it. *)
LEMMA TakenTyped ==
    ASSUME TypeOK, NEW type, Taken(type)
    PROVE  /\ Head(inbox) \in CommandType /\ Head(inbox).type = type
           /\ inbox' \in Seq(CommandType)
           /\ frame["actor"].pc = "idle"
BY SMTT(60) DEF TypeOK, Taken

(* The idle frame fits every coroutine. *)
LEMMA IdleTyped ==
    /\ \A S : IdleFrame \in FrameType(S)
    /\ AtCommand(IdleFrame)
<1>1. NoCommand \in CommandType
  <2>1. NoCommand \in CommandShape
    BY DEF CommandShape, NoCommand, None
  <2>2. NamesItsRow(NoCommand)
    BY DEF NamesItsRow, NoCommand
  <2> QED
    BY <2>1, <2>2 DEF CommandType
<1>2. ASSUME NEW S PROVE IdleFrame \in FrameType(S)
  BY <1>1 DEF IdleFrame, FrameType, None
<1>3. AtCommand(IdleFrame)
  BY DEF IdleFrame, AtCommand
<1> QED
  BY <1>2, <1>3

(* A coroutine goes on with well-formed locals. *)
LEMMA GotoActor ==
    ASSUME TypeOK, NEW f, f \in FrameType(Exchanges), AtCommand(f), Goto("actor", f)
    PROVE  FramesOK'
<1>1. f \in FrameType(Nat)
  BY BoundsAssumption DEF FrameType, Exchanges
<1> QED
  BY <1>1 DEF TypeOK, FramesOK, Goto, Threads

(* The stop moves to a frame of its own shape. *)
LEMMA GotoUser ==
    ASSUME TypeOK, NEW f, f \in FrameType(Exchanges), Goto("user", f)
    PROVE  FramesOK'
<1>1. f \in FrameType(Nat)
  BY BoundsAssumption DEF FrameType, Exchanges
<1> QED
  BY <1>1 DEF TypeOK, FramesOK, Goto, Threads

(* So does the recovery. *)
LEMMA GotoManager ==
    ASSUME TypeOK, NEW f, f \in FrameType(Tasks), Goto("manager", f)
    PROVE  FramesOK'
<1>1. f \in FrameType(Nat)
  BY BoundsAssumption DEF FrameType, Tasks
<1> QED
  BY <1>1 DEF TypeOK, FramesOK, Goto, Threads

-----------------------------------------------------------------------------
(* Type correctness, one lemma per group of actions *)

(* A fresh dialog has its shapes. *)
LEMMA InitTyped == Init => TypeOK
<1> SUFFICES ASSUME Init PROVE TypeOK
  OBVIOUS
<1>1. FramesOK
  BY IdleTyped DEF Init, FramesOK, Threads
<1>2. inbox \in Seq(CommandType)
  BY SMTT(60) DEF Init
<1>3. task \in [Tasks -> TaskType]
  BY DEF Init, TaskType, NoTask, None
<1>4. message \in [Messages -> MessageType]
  BY DEF Init, MessageType, None
<1>5. process \in [Tasks -> ProcessType]
  BY DEF Init, ProcessType, NoProcess, None
<1> QED
  BY <1>1, <1>2, <1>3, <1>4, <1>5, ChoicesAssumption, SMTT(60)
     DEF Init, TypeOK, Statuses, Free

(* Counting a bounded event keeps the counters naturals. *)
LEMMA SpendTyped ==
    ASSUME TypeOK, NEW what \in Events, NEW bound, Spend(what, bound)
    PROVE  used' \in [Events -> Nat]
<1>1. used[what] + 1 \in Nat
  BY DEF TypeOK
<1> QED
  BY <1>1 DEF Spend, TypeOK

(* Updates of a process, and the row of a new task. *)
LEMMA ProcessUpdates ==
    /\ \A p \in ProcessType : [p EXCEPT !.tripped = TRUE] \in ProcessType
    /\ [NoProcess EXCEPT !.phase = "new"] \in ProcessType
    /\ NoProcess \in ProcessType
<1>1. NoProcess \in ProcessType
  BY DEF ProcessType, NoProcess, None
<1>2. ASSUME NEW p \in ProcessType PROVE [p EXCEPT !.tripped = TRUE] \in ProcessType
  BY ZenonT(60) DEF ProcessType
<1>3. [NoProcess EXCEPT !.phase = "new"] \in ProcessType
  BY <1>1 DEF ProcessType
<1> QED
  BY <1>1, <1>2, <1>3

(* The first free id is a task id, and writing its row keeps the table. *)
LEMMA NewTaskTyped ==
    /\ [NoTask EXCEPT !.status = "RUNNING"] \in TaskType
    /\ \A e \in Exchanges \cup {None} :
          [NoTask EXCEPT !.status = "RUNNING", !.ex = e] \in TaskType
<1>1. NoTask \in TaskType
  BY DEF TaskType, NoTask, None
<1> QED
  BY <1>1, ZenonT(60) DEF TaskType

(* submit, cancel, subscribe, spawn_task and delete_task keep the shapes. *)
LEMMA UserTyped == TypeOK /\ UserNext => TypeOK'
<1> SUFFICES ASSUME TypeOK, UserNext PROVE TypeOK'
  OBVIOUS
<1>1. ASSUME NEW m \in Messages, submit(m) PROVE TypeOK'
  <2>1. message' \in [Messages -> MessageType]
    BY <1>1, ChoicesAssumption, SMTT(60) DEF TypeOK, submit, MessageType, None
  <2>2. inbox' \in Seq(CommandType)
    BY <1>1, CommandsTyped, SMTT(60) DEF TypeOK, submit
  <2> QED
    BY <1>1, <2>1, <2>2, SMTT(60) DEF TypeOK, FramesOK, submit, delivery
<1>2. ASSUME NEW m \in Messages, Resend(m) PROVE TypeOK'
  <2>1. inbox' \in Seq(CommandType)
    BY <1>2, CommandsTyped, SMTT(60) DEF TypeOK, Resend
  <2>2. used' \in [Events -> Nat]
    BY <1>2, SpendTyped DEF Resend, Events
  <2> QED
    BY <1>2, <2>1, <2>2, SMTT(60) DEF TypeOK, FramesOK, Resend, rows, delivery
<1>3. ASSUME _handle_cancel PROVE TypeOK'
  <2>1. FramesOK'
    <3>1. [IdleFrame EXCEPT !.pc = "listing"] \in FrameType(Exchanges)
      BY IdleTyped DEF FrameType
    <3> QED
      BY <1>3, <3>1, GotoUser, SMTT(60) DEF _handle_cancel
  <2>2. process' \in [Tasks -> ProcessType]
    BY <1>3, ProcessUpdates DEF _handle_cancel, TypeOK
  <2>3. used' \in [Events -> Nat]
    BY <1>3, SpendTyped DEF _handle_cancel, Events
  <2>4. served' \subseteq Messages /\ cancelEpoch' \in Nat
    BY <1>3, SMTT(60) DEF _handle_cancel, TypeOK
  <2> QED
    BY <1>3, <2>1, <2>2, <2>3, <2>4, SMTT(60) DEF TypeOK, _handle_cancel, rows, delivery
<1>4. ASSUME subscribe PROVE TypeOK'
  <2>1. inbox' \in Seq(CommandType)
    BY <1>4, CommandsTyped, SMTT(60) DEF TypeOK, subscribe
  <2> QED
    BY <1>4, <2>1, SMTT(60) DEF TypeOK, FramesOK, subscribe, rows
<1>5. ASSUME unsubscribe PROVE TypeOK'
  <2>1. used' \in [Events -> Nat]
    BY <1>5, SpendTyped, SMTT(60) DEF unsubscribe, Events
  <2> QED
    BY <1>5, <2>1, ZenonT(60) DEF TypeOK, FramesOK, unsubscribe, rows
<1>6. ASSUME spawn_task PROVE TypeOK'
  <2>1. used' \in [Events -> Nat]
    BY <1>6, SpendTyped DEF spawn_task, Events
  <2>2. task' \in [Tasks -> TaskType]
    BY <1>6, NewTaskTyped, ZenonT(60) DEF spawn_task, TypeOK
  <2>3. process' \in [Tasks -> ProcessType]
    BY <1>6, ProcessUpdates DEF spawn_task, TypeOK
  <2> QED
    BY <1>6, <2>1, <2>2, <2>3, SMTT(60) DEF TypeOK, FramesOK, spawn_task, delivery
<1>7. ASSUME NEW t \in Tasks, delete_task(t) PROVE TypeOK'
  <2>1. used' \in [Events -> Nat]
    BY <1>7, SpendTyped DEF delete_task, Events
  <2>2. process' \in [Tasks -> ProcessType]
    BY <1>7, ProcessUpdates DEF delete_task, TypeOK
  <2>3. served' \subseteq Messages
    BY <1>7 DEF delete_task, TypeOK
  <2> QED
    BY <1>7, <2>1, <2>2, <2>3, SMTT(60) DEF TypeOK, FramesOK, delete_task, rows, delivery
<1> QED
  BY <1>1, <1>2, <1>3, <1>4, <1>5, <1>6, <1>7, SMTT(60) DEF UserNext

(* Writing one status keeps the table of exchanges. *)
LEMMA SetStatusTyped ==
    ASSUME TypeOK, NEW e, NEW s \in Statuses, set_status(e, s)
    PROVE  status' \in [Exchanges -> Statuses] /\ quiet' \in [Exchanges -> BOOLEAN]
BY ZenonT(60) DEF TypeOK, set_status

(* The second half of cancel keeps the shapes. *)
LEMMA StopTyped == TypeOK /\ StopStep => TypeOK'
<1> SUFFICES ASSUME TypeOK, StopStep PROVE TypeOK'
  OBVIOUS
<1>1. CASE ListParked
  <2> DEFINE collecting == {e \in list_live : status[e] = "COLLECTING"}
             awaiting == {e \in list_live : status[e] = "AWAITING_USER"}
             closing == [IdleFrame EXCEPT !.pc = "closing", !.live = collecting,
                                          !.rest = collecting \cup awaiting]
  <2>1. collecting \subseteq Exchanges /\ awaiting \subseteq Exchanges
    BY DEF list_live
  <2> HIDE DEF collecting, awaiting
  <2>2. closing \in FrameType(Exchanges)
    BY <2>1, IdleTyped, ZenonT(60) DEF FrameType
  <2>3. Goto("user", IF collecting \cup awaiting = {} THEN IdleFrame ELSE closing)
    BY <1>1 DEF ListParked, collecting, awaiting
  <2> HIDE DEF closing
  <2>4. FramesOK'
    BY <2>2, <2>3, GotoUser, IdleTyped
  <2> QED
    BY <1>1, <2>4 DEF TypeOK, ListParked, rows, delivery
<1>2. CASE _cancel_parked_exchanges
  <2> DEFINE f == frame["user"]
             e == First(f.rest)
             next == [f EXCEPT !.rest = @ \ {e}]
  <2>1. next \in FrameType(Exchanges)
    BY ZenonT(60) DEF TypeOK, FramesOK, FrameType
  <2>2. FramesOK'
    BY <1>2, <2>1, GotoUser, IdleTyped DEF _cancel_parked_exchanges
  <2>3. status' \in [Exchanges -> Statuses] /\ quiet' \in [Exchanges -> BOOLEAN]
    <3>1. CASE set_status(e, "CANCELLED")
      BY <3>1, SetStatusTyped DEF Statuses, ClosedStatuses
    <3>2. CASE UNCHANGED <<status, quiet>>
      BY <3>2 DEF TypeOK
    <3> QED
      BY <1>2, <3>1, <3>2 DEF _cancel_parked_exchanges
  <2> QED
    BY <1>2, <2>2, <2>3 DEF TypeOK, _cancel_parked_exchanges, delivery
<1> QED
  BY <1>1, <1>2 DEF StopStep

(* The pump of one process keeps the shapes. *)
LEMMA PumpTyped == ASSUME TypeOK, NEW t \in Tasks, PumpStep(t) PROVE TypeOK'
<1>0. process[t] \in ProcessType /\ task[t] \in TaskType
  BY DEF TypeOK
<1>1. CASE Iterate(t)
  <2>1. (IF task[t].ex = None THEN {} ELSE narrative) \in SUBSET Messages
    BY DEF TypeOK
  <2>2. process' \in [Tasks -> ProcessType]
    BY <1>0, <1>1, <2>1, ZenonT(60) DEF Iterate, TypeOK, ProcessType, Terminals
  <2> QED
    BY <1>1, <2>2, SMTT(60) DEF TypeOK, FramesOK, Iterate, rows, delivery
<1>2. ASSUME NEW terminal \in Terminals, Finish(t, terminal) PROVE TypeOK'
  <2>1. (watching /\ task[t].ex # None /\ terminal # "Cancelled") \in BOOLEAN
    OBVIOUS
  <2>2. process' \in [Tasks -> ProcessType]
    BY <1>0, <1>2, <2>1, ZenonT(60) DEF Finish, TypeOK, ProcessType
  <2>3. reached' \subseteq Tasks
    BY <1>2 DEF Finish, TypeOK
  <2> QED
    BY <1>2, <2>2, <2>3 DEF TypeOK, FramesOK, Finish, rows
<1>3. CASE AskUser(t)
  <2>1. process' \in [Tasks -> ProcessType]
    BY <1>0, <1>3, ZenonT(60) DEF AskUser, TypeOK, ProcessType
  <2> QED
    BY <1>3, <2>1 DEF TypeOK, FramesOK, AskUser, rows, delivery
<1>4. CASE ask_user(t)
  <2>1. process' \in [Tasks -> ProcessType]
    BY <1>0, <1>4, ZenonT(60) DEF ask_user, TypeOK, ProcessType
  <2>2. status' \in [Exchanges -> Statuses] /\ quiet' \in [Exchanges -> BOOLEAN]
    BY <1>4, SetStatusTyped, SMTT(60) DEF ask_user, Statuses, LiveStatuses
  <2> QED
    BY <1>4, <2>1, <2>2 DEF TypeOK, FramesOK, ask_user, delivery
<1>5. CASE _finalize(t)
  <2>1. process' \in [Tasks -> ProcessType]
    BY <1>0, <1>5, ZenonT(60) DEF _finalize, TypeOK, ProcessType
  <2>2. task' \in [Tasks -> TaskType]
    BY <1>0, <1>5, ZenonT(60) DEF _finalize, TypeOK, TaskType
  <2> QED
    BY <1>5, <2>1, <2>2 DEF TypeOK, FramesOK, _finalize, delivery
<1>6. CASE _terminate_process(t)
  <2>1. inbox' \in Seq(CommandType)
    BY <1>6, TerminationTyped, SMTT(60) DEF _terminate_process, TypeOK
  <2>2. process' \in [Tasks -> ProcessType]
    BY <1>6, ProcessUpdates, SMTT(60) DEF _terminate_process, TypeOK
  <2>3. served' \subseteq Messages
    BY <1>0, <1>6, SMTT(60) DEF _terminate_process, TypeOK, ProcessType
  <2> QED
    BY <1>6, <2>1, <2>2, <2>3, SMTT(60) DEF TypeOK, FramesOK, _terminate_process, rows, delivery
<1> QED
  BY <1>1, <1>2, <1>3, <1>4, <1>5, <1>6, SMTT(60) DEF PumpStep

(* The actor on its way through a handler keeps its command. *)
LEMMA ActorFrame ==
    ASSUME TypeOK
    PROVE  /\ frame["actor"] \in FrameType(Exchanges) /\ AtCommand(frame["actor"])
           /\ frame["actor"].cmd \in CommandType
           /\ frame["actor"].cmd.type = "submit" => frame["actor"].cmd.m \in Messages
           /\ frame["actor"].cmd.type = "terminated" => frame["actor"].cmd.t \in Tasks
           /\ frame["actor"].cmd.type = "promote" => frame["actor"].cmd.ex \in Exchanges
<1>1. frame["actor"] \in FrameType(Exchanges) /\ AtCommand(frame["actor"])
  BY DEF TypeOK, FramesOK
<1>2. frame["actor"].cmd \in CommandType
  BY <1>1 DEF FrameType
<1> QED
  BY <1>1, <1>2, CommandFields, SMTT(60)

(* The actor's frame on a fresh command. *)
LEMMA FreshFrame ==
    ASSUME NEW c \in CommandType, NEW S \in SUBSET Exchanges
    PROVE  /\ [IdleFrame EXCEPT !.cmd = c, !.live = S] \in FrameType(Exchanges)
           /\ [IdleFrame EXCEPT !.cmd = c, !.live = S].then = "idle"
           /\ [IdleFrame EXCEPT !.cmd = c, !.live = S].cmd = c
<1>1. IdleFrame \in FrameType(Exchanges)
  BY IdleTyped
<1>2. [IdleFrame EXCEPT !.cmd = c, !.live = S] \in FrameType(Exchanges)
  BY <1>1, ZenonT(60) DEF FrameType
<1> QED
  BY <1>2 DEF IdleFrame

(* Storing a message and routing it. *)
LEMMA SubmitTyped ==
    ASSUME TypeOK, SkipDuplicate \/ _handle_submit \/ _route \/ set_exchange
    PROVE  TypeOK'
<1> DEFINE f == frame["actor"]
<1>0. f \in FrameType(Exchanges) /\ AtCommand(f)
  BY ActorFrame, SMTT(60)
<1>1. CASE SkipDuplicate
  BY <1>1, TakenTyped, ZenonT(60) DEF TypeOK, FramesOK, SkipDuplicate, rows, delivery
<1>2. CASE _handle_submit
  <2> DEFINE c == Head(inbox)
             g == [IdleFrame EXCEPT !.cmd = c, !.live = list_live]
             sole == _sole_fresh_collection(list_live)
  <2>1. c \in CommandType /\ c.type = "submit" /\ c.m \in Messages /\ inbox' \in Seq(CommandType)
    BY <1>2, TakenTyped, CommandFields DEF _handle_submit
  <2>2. list_live \subseteq Exchanges /\ sole \subseteq Exchanges
    BY DEF list_live, _sole_fresh_collection
  <2>3. g \in FrameType(Exchanges) /\ g.then = "idle" /\ g.cmd = c
    BY <2>1, <2>2, FreshFrame, ZenonT(60)
  <2>4. sole # {} => First(sole) \in Exchanges
    <3>1. sole \in SUBSET Nat
      BY <2>2 DEF Exchanges
    <3> QED
      BY <2>2, <3>1, FirstInSet
  <2> HIDE DEF g, sole
  <2>5. ASSUME NEW pc \in {"collect", "apply", "routing"}
        PROVE  /\ [g EXCEPT !.pc = pc] \in FrameType(Exchanges)
               /\ AtCommand([g EXCEPT !.pc = pc])
    <3>1. [g EXCEPT !.pc = pc] \in FrameType(Exchanges)
      BY <2>3 DEF FrameType
    <3>2. AtCommand([g EXCEPT !.pc = pc])
      BY <2>1, <2>3 DEF AtCommand, FrameType
    <3> QED
      BY <3>1, <3>2
  <2>6. ASSUME sole # {}
        PROVE  LET h == [g EXCEPT !.pc = "apply", !.act = "CONTINUE", !.ex = First(sole)]
               IN  h \in FrameType(Exchanges) /\ AtCommand(h)
    <3> DEFINE h == [g EXCEPT !.pc = "apply", !.act = "CONTINUE", !.ex = First(sole)]
    <3>1. h \in FrameType(Exchanges)
      BY <2>3, <2>4, <2>6, ZenonT(60) DEF FrameType
    <3>2. AtCommand(h)
      BY <2>1, <2>3 DEF AtCommand, FrameType
    <3> QED
      BY <3>1, <3>2
  <2>7. FramesOK'
    <3>1. CASE Goto("actor", [g EXCEPT !.pc = "collect"])
      BY <3>1, <2>5, GotoActor
    <3>2. CASE Goto("actor", [g EXCEPT !.pc = "apply"])
      BY <3>2, <2>5, GotoActor
    <3>3. CASE sole # {} /\ Goto("actor", [g EXCEPT !.pc = "apply", !.act = "CONTINUE",
                                                   !.ex = First(sole)])
      BY <3>3, <2>6, GotoActor
    <3>4. CASE Goto("actor", [g EXCEPT !.pc = "routing"])
      BY <3>4, <2>5, GotoActor, SMTT(60)
    <3> QED
      BY <1>2, <3>1, <3>2, <3>3, <3>4, SMTT(60) DEF _handle_submit, g, sole
  <2>8. recorded' \subseteq Messages
    BY <1>2, <2>1 DEF _handle_submit, TypeOK
  <2> QED
    BY <1>2, <2>1, <2>7, <2>8, SMTT(60) DEF TypeOK, _handle_submit, delivery
<1>3. CASE _route
  <2>1. f.pc = "routing" /\ f.cmd.type = "submit"
    BY <1>0, <1>3, ZenonT(60) DEF _route, AtCommand
  <2>2. ASSUME NEW cancels \in SUBSET f.live, NEW e \in f.live,
               Goto("actor", [f EXCEPT !.pc = "apply", !.act = "CONTINUE",
                                       !.ex = e, !.rest = cancels])
        PROVE  FramesOK'
    <3> DEFINE h == [f EXCEPT !.pc = "apply", !.act = "CONTINUE", !.ex = e, !.rest = cancels]
    <3>1. h \in FrameType(Exchanges)
      BY <1>0, ZenonT(60) DEF FrameType
    <3>2. AtCommand(h)
      BY <1>0, <2>1 DEF AtCommand, FrameType
    <3> QED
      BY <2>2, <3>1, <3>2, GotoActor
  <2>3. ASSUME NEW cancels \in SUBSET f.live, NEW act \in {"NEW", "COMMAND"},
               Goto("actor", [f EXCEPT !.pc = "apply", !.act = act, !.rest = cancels])
        PROVE  FramesOK'
    <3> DEFINE h == [f EXCEPT !.pc = "apply", !.act = act, !.rest = cancels]
    <3>1. h \in FrameType(Exchanges)
      BY <1>0, ZenonT(60) DEF FrameType
    <3>2. AtCommand(h)
      BY <1>0, <2>1 DEF AtCommand, FrameType
    <3> QED
      BY <2>3, <3>1, <3>2, GotoActor
  <2>4. FramesOK'
    BY <1>3, <2>2, <2>3, ZenonT(60) DEF _route
  <2> QED
    BY <1>3, <2>4, ZenonT(60) DEF TypeOK, _route, rows, delivery
<1>4. CASE set_exchange
  <2>1. f.pc = "attach" /\ f.cmd.type = "submit"
    BY <1>0, <1>4 DEF set_exchange, AtCommand
  <2>2. [f EXCEPT !.pc = "own"] \in FrameType(Exchanges)
    BY <1>0 DEF FrameType
  <2>3. AtCommand([f EXCEPT !.pc = "own"])
    BY <1>0, <2>1 DEF AtCommand, FrameType
  <2>4. FramesOK'
    BY <1>4, <2>2, <2>3, IdleTyped, GotoActor, SMTT(60) DEF set_exchange
  <2> QED
    BY <1>4, <2>4 DEF TypeOK, set_exchange, rows, delivery
<1> QED
  BY <1>1, <1>2, <1>3, <1>4, SMTT(60)

(* The message joins its exchange, after the cancellations the router asked for. *)
LEMMA JoinTyped ==
    ASSUME TypeOK, _collect_material \/ _cancel_exchanges \/ _apply_route
    PROVE  TypeOK'
<1> DEFINE f == frame["actor"]
<1>0. f \in FrameType(Exchanges) /\ AtCommand(f) /\ f.cmd.type = "submit" /\ f.cmd.m \in Messages
  <2>1. f.cmd.type = "submit"
    BY ActorFrame, ZenonT(60) DEF AtCommand, _collect_material, _cancel_exchanges, _apply_route
  <2> QED
    BY <2>1, ActorFrame
<1>1. ASSUME NEW e \in Exchanges \cup {None}
      PROVE  [message EXCEPT ![f.cmd.m].ex = e] \in [Messages -> MessageType]
  BY <1>0, ZenonT(60) DEF TypeOK, MessageType
<1>2. narrative \cup {f.cmd.m} \subseteq Messages /\ served \cup {f.cmd.m} \subseteq Messages
  BY <1>0, ZenonT(60) DEF TypeOK
<1>3. CASE _collect_material
  <2>1. PICK e \in Exchanges :
          /\ status' = [status EXCEPT ![e] = IF @ = "absent" THEN "COLLECTING" ELSE @]
          /\ quiet' = [quiet EXCEPT ![e] = FALSE]
          /\ message' = [message EXCEPT ![f.cmd.m].ex = e]
          /\ Goto("actor", [f EXCEPT !.pc = "attach", !.ex = e])
    BY <1>3, ZenonT(60) DEF _collect_material
  <2> DEFINE h == [f EXCEPT !.pc = "attach", !.ex = e]
  <2>2. h \in FrameType(Exchanges)
    BY <1>0, ZenonT(60) DEF FrameType
  <2>3. AtCommand(h)
    BY <1>0 DEF AtCommand, FrameType
  <2>4. FramesOK'
    BY <2>1, <2>2, <2>3, GotoActor, SMTT(60)
  <2>5. status' \in [Exchanges -> Statuses] /\ quiet' \in [Exchanges -> BOOLEAN]
    BY <2>1, SMTT(60) DEF TypeOK, Statuses, LiveStatuses
  <2>6. message' \in [Messages -> MessageType]
    BY <1>1, <2>1, ZenonT(60)
  <2> QED
    BY <1>2, <1>3, <2>4, <2>5, <2>6, ZenonT(60) DEF TypeOK, _collect_material, delivery
<1>4. CASE _cancel_exchanges
  <2> DEFINE e == First(f.rest)
             next == [f EXCEPT !.rest = @ \ {e}, !.cancelled = @ \cup {e}]
  <2>1. e \in Exchanges
    <3>1. f.rest \in SUBSET Exchanges /\ f.rest # {}
      BY <1>0, <1>4 DEF FrameType, _cancel_exchanges
    <3>2. f.rest \in SUBSET Nat
      BY <3>1 DEF Exchanges
    <3> QED
      BY <3>1, <3>2, FirstInSet, SMTT(60)
  <2> HIDE DEF e
  <2>2. next \in FrameType(Exchanges)
    BY <1>0, <2>1, ZenonT(60) DEF FrameType
  <2>3. AtCommand(next)
    BY <1>0, SMTT(60) DEF AtCommand, FrameType
  <2>4. FramesOK'
    BY <1>4, <2>2, <2>3, GotoActor, SMTT(60) DEF _cancel_exchanges, e
  <2>5. status' \in [Exchanges -> Statuses] /\ quiet' \in [Exchanges -> BOOLEAN]
    <3>1. set_status(e, "CANCELLED")
      BY <1>4 DEF _cancel_exchanges, e
    <3> QED
      BY <3>1, SetStatusTyped DEF Statuses, ClosedStatuses
  <2>6. process' \in [Tasks -> ProcessType]
    BY <1>4, ProcessUpdates, ZenonT(60) DEF _cancel_exchanges, TypeOK
  <2>7. served' \subseteq Messages
    BY <1>2, <1>4 DEF _cancel_exchanges
  <2> QED
    BY <1>4, <2>4, <2>5, <2>6, <2>7, ZenonT(60) DEF TypeOK, _cancel_exchanges, delivery
<1>5. CASE _apply_route
  <2> DEFINE joined(e) == /\ message' = [message EXCEPT ![f.cmd.m].ex = e]
                          /\ Goto("actor", [f EXCEPT !.pc = "attach", !.ex = e])
             rowsOK == /\ status' \in [Exchanges -> Statuses]
                       /\ quiet' \in [Exchanges -> BOOLEAN]
                       /\ message' \in [Messages -> MessageType]
                       /\ FramesOK'
                       /\ served' \subseteq Messages
  <2>1. ASSUME NEW e \in Exchanges \cup {None}, joined(e)
        PROVE  message' \in [Messages -> MessageType] /\ FramesOK'
    <3> DEFINE h == [f EXCEPT !.pc = "attach", !.ex = e]
    <3>1. h \in FrameType(Exchanges)
      BY <1>0, ZenonT(60) DEF FrameType
    <3>2. AtCommand(h)
      BY <1>0 DEF AtCommand, FrameType
    <3> QED
      BY <1>1, <2>1, <3>1, <3>2, GotoActor, ZenonT(60)
  <2>2. ASSUME joined(f.ex), UNCHANGED <<status, quiet, served>> PROVE rowsOK
    <3>1. f.ex \in Exchanges \cup {None}
      BY <1>0 DEF FrameType
    <3> QED
      BY <2>1, <2>2, <3>1, ZenonT(60) DEF TypeOK
  <2>3. ASSUME \E e \in Exchanges : NextExchange(e) /\ set_status(e, "OPEN") /\ joined(e),
               UNCHANGED served
        PROVE  rowsOK
    <3>1. PICK e \in Exchanges : set_status(e, "OPEN") /\ joined(e)
      BY <2>3, ZenonT(60)
    <3>2. "OPEN" \in Statuses
      BY DEF Statuses, LiveStatuses
    <3>3. status' \in [Exchanges -> Statuses] /\ quiet' \in [Exchanges -> BOOLEAN]
      BY <3>1, <3>2, SetStatusTyped, SMTT(60)
    <3> QED
      BY <2>1, <2>3, <3>1, <3>3, ZenonT(60) DEF TypeOK
  <2>4. ASSUME served' = served \cup {f.cmd.m}, Done("actor"),
               UNCHANGED <<status, quiet, message>>
        PROVE  rowsOK
    BY <1>2, <2>4, IdleTyped, GotoActor, SMTT(60) DEF TypeOK, Done
  <2>5. rowsOK
    BY <1>5, <2>2, <2>3, <2>4, ZenonT(60) DEF _apply_route
  <2> QED
    BY <1>2, <1>5, <2>5, ZenonT(60) DEF TypeOK, _apply_route, delivery
<1> QED
  BY <1>3, <1>4, <1>5, SMTT(60)

(* Giving an exchange a run, for either coroutine that does it: the new     *)
(* task's row, the exchange's status and the lock.                          *)
LEMMA StartTyped ==
    ASSUME TypeOK, NEW th \in Threads, NEW e \in Exchanges \cup {None}, NEW f,
           _start_answer(th, e, f)
    PROVE  /\ task' \in [Tasks -> TaskType]
           /\ status' \in [Exchanges -> Statuses] /\ quiet' \in [Exchanges -> BOOLEAN]
           /\ spawnLock' \in Threads \cup {Free}
           /\ \E t \in Tasks : Goto(th, [f EXCEPT !.pc = "assemble", !.t = t])
<1>1. task' \in [Tasks -> TaskType]
  BY NewTaskTyped, ZenonT(60) DEF _start_answer, TypeOK
<1>2. status' \in [Exchanges -> Statuses] /\ quiet' \in [Exchanges -> BOOLEAN]
  BY SetStatusTyped DEF _start_answer, Statuses, LiveStatuses
<1> QED
  BY <1>1, <1>2, ZenonT(60) DEF _start_answer

(* Locals that fit a coroutine: the manager lists tasks, the others         *)
(* exchanges, and the actor works on its handler's command.                 *)
Listed(th) == IF th = "manager" THEN Tasks ELSE Exchanges
Fits(th, f) == f \in FrameType(Listed(th)) /\ (th = "actor" => AtCommand(f))

(* A coroutine's own locals fit, and so does every frame it moves to. *)
LEMMA GotoFits ==
    ASSUME TypeOK, NEW th \in Threads
    PROVE  /\ Fits(th, frame[th]) /\ Fits(th, IdleFrame)
           /\ \A f : Fits(th, f) /\ Goto(th, f) => FramesOK'
<1>1. Fits(th, frame[th]) /\ Fits(th, IdleFrame)
  BY IdleTyped DEF TypeOK, FramesOK, Threads, Fits, Listed
<1>2. ASSUME NEW f, Fits(th, f), Goto(th, f) PROVE FramesOK'
  <2>1. CASE th = "actor"
    BY <1>2, <2>1, GotoActor DEF Fits, Listed
  <2>2. CASE th = "user"
    BY <1>2, <2>2, GotoUser DEF Fits, Listed
  <2>3. CASE th = "manager"
    BY <1>2, <2>3, GotoManager DEF Fits, Listed
  <2> QED
    BY <2>1, <2>2, <2>3 DEF Threads
<1> QED
  BY <1>1, <1>2

(* On the way to a run and past it, a handler's locals still fit. *)
LEMMA ResumeFits ==
    ASSUME NEW th \in Threads, NEW f, Fits(th, f)
    PROVE  /\ \A e : Fits(th, [f EXCEPT !.todo = @ \ {e}])
           /\ \A t \in Tasks : Fits(th, [f EXCEPT !.pc = "assemble", !.t = t])
           /\ Fits(th, [f EXCEPT !.pc = "resume", !.t = None])
           /\ f.then # "idle" => Fits(th, [f EXCEPT !.pc = f.then])
<1>0. f \in FrameType(Listed(th))
  BY DEF Fits
<1>1. ASSUME NEW e PROVE Fits(th, [f EXCEPT !.todo = @ \ {e}])
  <2>1. [f EXCEPT !.todo = @ \ {e}] \in FrameType(Listed(th))
    BY <1>0 DEF FrameType
  <2>2. th = "actor" => AtCommand([f EXCEPT !.todo = @ \ {e}])
    BY <1>0 DEF Fits, FrameType, AtCommand
  <2> QED BY <2>1, <2>2 DEF Fits
<1>2. ASSUME NEW t \in Tasks PROVE Fits(th, [f EXCEPT !.pc = "assemble", !.t = t])
  <2>1. [f EXCEPT !.pc = "assemble", !.t = t] \in FrameType(Listed(th))
    BY <1>0, ZenonT(60) DEF FrameType
  <2>2. th = "actor" => AtCommand([f EXCEPT !.pc = "assemble", !.t = t])
    BY <1>0 DEF Fits, FrameType, AtCommand
  <2> QED BY <2>1, <2>2 DEF Fits
<1>3. Fits(th, [f EXCEPT !.pc = "resume", !.t = None])
  <2>1. [f EXCEPT !.pc = "resume", !.t = None] \in FrameType(Listed(th))
    BY <1>0, ZenonT(60) DEF FrameType
  <2>2. th = "actor" => AtCommand([f EXCEPT !.pc = "resume", !.t = None])
    BY <1>0 DEF Fits, FrameType, AtCommand
  <2> QED BY <2>1, <2>2 DEF Fits
<1>4. ASSUME f.then # "idle" PROVE Fits(th, [f EXCEPT !.pc = f.then])
  <2>1. [f EXCEPT !.pc = f.then] \in FrameType(Listed(th))
    BY <1>0 DEF FrameType
  <2>2. th = "actor" => AtCommand([f EXCEPT !.pc = f.then])
    BY <1>0, <1>4 DEF Fits, FrameType, AtCommand
  <2> QED BY <2>1, <2>2 DEF Fits
<1> QED
  BY <1>1, <1>2, <1>3, <1>4, ZenonT(60)

(* Creating the process, reviving exchanges and going on after them, by the *)
(* actor or by the manager; the actor's _ensure_owner.                      *)
LEMMA RunTyped ==
    ASSUME TypeOK, NEW th \in Threads,
           \/ _create_process(th) \/ _resume_open_exchange(th) \/ Resumed(th)
           \/ th = "actor" /\ _ensure_owner
    PROVE  TypeOK'
<1> DEFINE f == frame[th]
<1>0. Fits(th, f) /\ f \in FrameType(Listed(th)) /\ f.cmd \in CommandType
  <2>1. Fits(th, f)
    BY GotoFits
  <2> QED
    BY <2>1, ZenonT(60) DEF Fits, FrameType
<1>1. CASE _create_process(th)
  <2> DEFINE p == [NoProcess EXCEPT !.phase = "new", !.seen = narrative,
                       !.epoch = f.cmd.epoch, !.tripped = PredatesStop(f.cmd.epoch)]
  <2>1. p \in ProcessType
    <3>1. f.cmd.epoch \in Nat /\ narrative \in SUBSET Messages
      BY <1>0, CommandFields, ZenonT(60) DEF TypeOK
    <3>2. PredatesStop(f.cmd.epoch) \in BOOLEAN
      BY DEF PredatesStop
    <3> QED
      BY <3>1, <3>2, ProcessUpdates, ZenonT(60) DEF ProcessType
  <2> HIDE DEF p
  <2>2. process' \in [Tasks -> ProcessType]
    BY <1>1, <2>1, ZenonT(60) DEF _create_process, TypeOK, p
  <2>3. FramesOK'
    BY <1>0, <1>1, GotoFits, ResumeFits, ZenonT(60) DEF _create_process
  <2> QED
    BY <1>1, <2>2, <2>3 DEF TypeOK, _create_process, rows, delivery
<1>2. CASE _resume_open_exchange(th)
  <2> DEFINE e == First(f.todo)
             g == [f EXCEPT !.todo = @ \ {e}]
  <2>1. e \in Exchanges
    <3>1. f.todo \in SUBSET Exchanges /\ f.todo # {}
      BY <1>0, <1>2, SMTT(60) DEF FrameType, _resume_open_exchange
    <3>2. f.todo \in SUBSET Nat
      BY <3>1 DEF Exchanges
    <3> QED
      BY <3>1, <3>2, FirstInSet, SMTT(60)
  <2>2. Fits(th, g)
    BY <1>0, ResumeFits, ZenonT(60)
  <2>3. CASE Goto(th, g) /\ UNCHANGED <<status, quiet, task, spawnLock>>
    BY <1>2, <2>2, <2>3, GotoFits, ZenonT(60) DEF TypeOK, _resume_open_exchange, delivery
  <2>4. CASE _start_answer(th, e, g)
    <3> HIDE DEF e, g
    <3>1. FramesOK'
      BY <2>1, <2>2, <2>4, StartTyped, GotoFits, ResumeFits, ZenonT(60)
    <3> QED
      BY <1>2, <2>1, <2>4, <3>1, StartTyped, ZenonT(60) DEF TypeOK, _resume_open_exchange, delivery
  <2> QED
    BY <1>2, <2>3, <2>4, SMTT(60) DEF _resume_open_exchange
<1>3. CASE Resumed(th)
  <2>1. FramesOK'
    BY <1>0, <1>3, GotoFits, ResumeFits, ZenonT(60) DEF Resumed
  <2> QED
    BY <1>3, <2>1 DEF TypeOK, Resumed, rows, delivery
<1>4. CASE th = "actor" /\ _ensure_owner
  <2>1. f.ex \in Exchanges \cup {None}
    BY <1>0, ZenonT(60) DEF FrameType
  <2>2. served' \subseteq Messages
    <3>1. f.cmd.m \in Messages
      BY <1>4, ActorFrame, ZenonT(60) DEF _ensure_owner, AtCommand
    <3> QED
      BY <1>4, <3>1, ZenonT(60) DEF _ensure_owner, TypeOK
  <2>3. CASE Done("actor") /\ UNCHANGED <<status, quiet, task, spawnLock>>
    <3>1. FramesOK'
      BY <1>4, <2>3, GotoFits DEF Done
    <3> QED
      BY <1>4, <2>2, <2>3, <3>1, ZenonT(60) DEF TypeOK, _ensure_owner, delivery
  <2>4. CASE _start_answer("actor", f.ex, f)
    <3>1. FramesOK'
      BY <1>0, <1>4, <2>1, <2>4, StartTyped, GotoFits, ResumeFits, ZenonT(60)
    <3> QED
      BY <1>4, <2>1, <2>2, <2>4, <3>1, StartTyped, ZenonT(60) DEF TypeOK, _ensure_owner, delivery
  <2> QED
    BY <1>4, <2>3, <2>4, ZenonT(60) DEF _ensure_owner
<1> QED
  BY <1>1, <1>2, <1>3, <1>4, SMTT(60)

(* The frame of a handler that goes on to revive exchanges, and that of one *)
(* that starts on its command.                                              *)
LEMMA ResumeFrame ==
    ASSUME NEW L, NEW f \in FrameType(L), NEW S \in SUBSET Exchanges,
           NEW n \in {"idle", "deliver", "redeliver"}
    PROVE  [f EXCEPT !.pc = "resume", !.todo = S, !.then = n] \in FrameType(L)
BY ZenonT(60) DEF FrameType

(* The frames a termination starts with. *)
LEMMA StartFrame ==
    ASSUME NEW L, NEW f \in FrameType(L), NEW c \in CommandType,
           NEW pc \in {"deliver", "resume"}
    PROVE  [f EXCEPT !.cmd = c, !.pc = pc] \in FrameType(L)
BY ZenonT(60) DEF FrameType

(* Columns of a task's row change. *)
LEMMA TaskUpdates ==
    ASSUME TypeOK, NEW t \in Tasks
    PROVE  /\ [task EXCEPT ![t].delivered = TRUE] \in [Tasks -> TaskType]
           /\ [task EXCEPT ![t].status = "FAILED"] \in [Tasks -> TaskType]
           /\ [task EXCEPT ![t].status = "DONE", ![t].empty = TRUE] \in [Tasks -> TaskType]
<1>0. task \in [Tasks -> TaskType]
  BY DEF TypeOK
<1>1. [task EXCEPT ![t].delivered = TRUE] \in [Tasks -> TaskType]
  BY <1>0, ZenonT(60) DEF TaskType
<1>2. [task EXCEPT ![t].status = "FAILED"] \in [Tasks -> TaskType]
  BY <1>0 DEF TaskType
<1>3. [task EXCEPT ![t].status = "DONE", ![t].empty = TRUE] \in [Tasks -> TaskType]
  BY <1>0, ZenonT(60) DEF TaskType
<1> QED
  BY <1>1, <1>2, <1>3, SMTT(60)

(* Queueing outcomes and flushing them. *)
LEMMA FlushTyped ==
    ASSUME TypeOK, NEW T \in SUBSET Tasks, NEW rowsNow \in [Tasks -> TaskType],
           _flush_deliveries(T, rowsNow)
    PROVE  outbox' \subseteq Tasks /\ reached' \subseteq Tasks /\ task' \in [Tasks -> TaskType]
<1>1. CASE watching
  <2>1. ASSUME NEW t \in Tasks
        PROVE  [rowsNow[t] EXCEPT !.delivered = @ \/ t \in outbox \cup T] \in TaskType
    <3> DEFINE now == rowsNow[t].delivered \/ t \in outbox \cup T
    <3>1. now \in BOOLEAN
      OBVIOUS
    <3>2. rowsNow[t] \in TaskType
      OBVIOUS
    <3> HIDE DEF now
    <3>3. [rowsNow[t] EXCEPT !.delivered = now] \in TaskType
      BY <3>1, <3>2 DEF TaskType
    <3> QED
      BY <3>3 DEF now
  <2> QED
    BY <1>1, <2>1 DEF _flush_deliveries, TypeOK
<1>2. CASE ~watching
  BY <1>2, SMTT(60) DEF _flush_deliveries, TypeOK
<1> QED
  BY <1>1, <1>2

(* Settling the exchange, delivering the outcome, flushing. *)
LEMMA TerminatedTyped ==
    ASSUME TypeOK, _settle_exchange \/ _handle_terminated \/ HandleFlush
    PROVE  TypeOK'
<1>1. CASE _settle_exchange
  <2> DEFINE c == Head(inbox)
             f == [IdleFrame EXCEPT !.cmd = c, !.pc = "deliver"]
             g == [f EXCEPT !.pc = "resume", !.todo = {c.ex}, !.then = "deliver"]
             cancelled == c.outcome = "CANCELLED"
             target == CASE ~cancelled /\ c.unseen = "SPOKEN" -> "OPEN"
                         [] ~cancelled /\ c.unseen = "MATERIAL_ONLY" -> "COLLECTING"
                         [] OTHER -> c.outcome
             keep == ~cancelled /\ c.unseen = "NONE"
  <2>1. c \in CommandType /\ c.type = "terminated" /\ inbox' \in Seq(CommandType)
    BY <1>1, TakenTyped DEF _settle_exchange
  <2>2. c.ex \in Exchanges \cup {None} /\ c.outcome \in ClosedStatuses \cup {"none"}
    BY <2>1, CommandFields
  <2>3. f \in FrameType(Exchanges) /\ f.cmd = c
    <3>1. IdleFrame \in FrameType(Exchanges)
      BY IdleTyped
    <3>2. f \in FrameType(Exchanges)
      BY <2>1, <3>1, StartFrame, ZenonT(60)
    <3>3. f.cmd = c
      BY DEF IdleFrame
    <3> QED
      BY <3>2, <3>3
  <2>4. AtCommand(f)
    BY <2>1 DEF AtCommand, IdleFrame
  <2>5. ASSUME c.ex # None PROVE g \in FrameType(Exchanges)
    <3>1. {c.ex} \in SUBSET Exchanges
      BY <2>2, <2>5
    <3> HIDE DEF f, c
    <3> QED BY <2>3, <3>1, ResumeFrame, ZenonT(60)
  <2>6. AtCommand(g)
    <3> HIDE DEF f
    <3> QED BY <2>1, <2>3 DEF AtCommand, FrameType
  <2>7. c.outcome # "none" => target \in Statuses
    BY <2>2, SMTT(60) DEF Statuses, LiveStatuses
  <2> HIDE DEF target
  <2>8. CASE c.outcome = "none" \/ c.ex = None
    <3>1. Goto("actor", f) /\ UNCHANGED <<status, quiet>>
      BY <1>1, <2>8 DEF _settle_exchange
    <3>2. FramesOK'
      BY <2>3, <2>4, <3>1, GotoActor, SMTT(60)
    <3> QED
      BY <1>1, <2>1, <3>1, <3>2, SMTT(60) DEF TypeOK, _settle_exchange, delivery
  <2>9. CASE ~(c.outcome = "none" \/ c.ex = None)
    <3>1. /\ settle_owned(c, target, keep)
          /\ Goto("actor", IF target = "OPEN" /\ SettleApplies(c, keep) THEN g ELSE f)
      BY <1>1, <2>9, ZenonT(60) DEF _settle_exchange, target
    <3>2. FramesOK'
      <4> HIDE DEF f, g
      <4> QED BY <2>3, <2>4, <2>5, <2>6, <2>9, <3>1, GotoActor, ZenonT(60)
    <3>3. status' \in [Exchanges -> Statuses] /\ quiet' \in [Exchanges -> BOOLEAN]
      <4>1. CASE set_status(c.ex, target)
        BY <2>7, <2>9, <4>1, SetStatusTyped, SMTT(60)
      <4>2. CASE UNCHANGED <<status, quiet>>
        BY <4>2, SMTT(60) DEF TypeOK
      <4> QED
        BY <3>1, <4>1, <4>2 DEF settle_owned
    <3> QED
      BY <1>1, <2>1, <3>2, <3>3, ZenonT(60) DEF TypeOK, _settle_exchange, delivery
  <2> QED
    BY <2>8, <2>9, SMTT(60)
<1>2. CASE _handle_terminated
  <2> DEFINE f == frame["actor"]
             c == f.cmd
             h == [f EXCEPT !.pc = "resume", !.todo = list_unowned_open, !.then = "idle"]
  <2>0. f.pc = "deliver" /\ Goto("actor", h)
    BY <1>2 DEF _handle_terminated
  <2>1. f \in FrameType(Exchanges) /\ c.t \in Tasks
    BY <2>0, ActorFrame DEF AtCommand
  <2>2. h \in FrameType(Exchanges)
    <3>1. list_unowned_open \in SUBSET Exchanges
      BY DEF list_unowned_open
    <3> QED
      BY <2>1, <3>1, ResumeFrame, ZenonT(60)
  <2>3. AtCommand(h)
    BY <2>1 DEF AtCommand, FrameType
  <2>4. FramesOK'
    BY <2>0, <2>2, <2>3, GotoActor, SMTT(60)
  <2>5. [task EXCEPT ![c.t].delivered = TRUE] \in [Tasks -> TaskType]
    BY <2>1, TaskUpdates, ZenonT(60)
  <2>6. outbox' \subseteq Tasks /\ reached' \subseteq Tasks /\ task' \in [Tasks -> TaskType]
    <3> DEFINE T == IF ToQueue(c) THEN {c.t} ELSE {}
               R == IF StampedAtOnce(c) THEN [task EXCEPT ![c.t].delivered = TRUE] ELSE task
    <3>1. _flush_deliveries(T, R)
      BY <1>2 DEF _handle_terminated
    <3>2. T \in SUBSET Tasks
      BY <2>1
    <3>3. R \in [Tasks -> TaskType]
      BY <2>5, SMTT(60) DEF TypeOK
    <3> HIDE DEF T, R
    <3> QED
      BY <3>1, <3>2, <3>3, FlushTyped, SMTT(60)
  <2> QED
    BY <1>2, <2>4, <2>6, SMTT(60) DEF TypeOK, _handle_terminated
<1>3. CASE HandleFlush
  <2>1. outbox' \subseteq Tasks /\ reached' \subseteq Tasks /\ task' \in [Tasks -> TaskType]
    <3>1. task \in [Tasks -> TaskType] /\ {} \in SUBSET Tasks
      BY DEF TypeOK
    <3> QED
      BY <1>3, <3>1, FlushTyped, SMTT(60) DEF HandleFlush
  <2> QED
    BY <1>3, <2>1, TakenTyped, ZenonT(60) DEF TypeOK, FramesOK, HandleFlush
<1> QED
  BY <1>1, <1>2, <1>3

(* The frame of Revive fits wherever the exchange is one there is. *)
LEMMA ReviveTyped ==
    ASSUME TypeOK, NEW e \in Exchanges, NEW f \in FrameType(Exchanges), Revive(e, f)
    PROVE  FramesOK'
<1> DEFINE h == [f EXCEPT !.pc = "resume", !.todo = {e}, !.then = "idle"]
<1>1. h \in FrameType(Exchanges)
  BY ResumeFrame, ZenonT(60)
<1>2. AtCommand(h)
  BY DEF AtCommand, FrameType
<1> QED
  BY <1>1, <1>2, GotoActor DEF Revive

(* Promoting a collection, alone or into the exchange the router names. *)
LEMMA PromoteTyped ==
    ASSUME TypeOK, _handle_promote \/ PromoteAlone \/ _reparent_material \/ ReviveTarget
    PROVE  TypeOK'
<1>0. "OPEN" \in Statuses /\ "CANCELLED" \in Statuses
  BY DEF Statuses, LiveStatuses, ClosedStatuses
<1>1. CASE _handle_promote
  <2> DEFINE c == Head(inbox)
             others == {e \in list_live \ {c.ex} : status[e] # "COLLECTING"}
             f == [IdleFrame EXCEPT !.cmd = c, !.live = others]
             g == [f EXCEPT !.pc = "material"]
  <2>1. c \in CommandType /\ c.type = "promote" /\ c.ex \in Exchanges
    BY <1>1, TakenTyped, CommandFields, SMTT(60) DEF _handle_promote
  <2>2. inbox' \in Seq(CommandType)
    BY <1>1, TakenTyped DEF _handle_promote
  <2>3. others \in SUBSET Exchanges
    BY DEF list_live
  <2> HIDE DEF c, others
  <2>4. f \in FrameType(Exchanges) /\ f.then = "idle" /\ f.cmd = c
    BY <2>1, <2>3, FreshFrame, ZenonT(60)
  <2> HIDE DEF f
  <2>5. g \in FrameType(Exchanges)
    BY <2>4 DEF FrameType
  <2>6. AtCommand(g)
    BY <2>1, <2>4, SMTT(60) DEF AtCommand, FrameType
  <2>7. CASE UNCHANGED <<status, quiet, frame>>
    BY <1>1, <2>2, <2>7, SMTT(60) DEF TypeOK, FramesOK, _handle_promote, delivery
  <2>8. CASE set_status(c.ex, "OPEN") /\ Revive(c.ex, f)
    <3>1. FramesOK'
      BY <2>1, <2>4, <2>8, ReviveTyped, SMTT(60)
    <3>2. status' \in [Exchanges -> Statuses] /\ quiet' \in [Exchanges -> BOOLEAN]
      BY <1>0, <2>8, SetStatusTyped, SMTT(60)
    <3> QED
      BY <1>1, <2>2, <3>1, <3>2, SMTT(60) DEF TypeOK, _handle_promote, delivery
  <2>9. CASE Goto("actor", g) /\ UNCHANGED <<status, quiet>>
    <3>1. FramesOK'
      BY <2>5, <2>6, <2>9, GotoActor, SMTT(60)
    <3> QED
      BY <1>1, <2>2, <2>9, <3>1, SMTT(60) DEF TypeOK, _handle_promote, delivery
  <2> QED
    BY <1>1, <2>7, <2>8, <2>9, SMTT(60) DEF _handle_promote, f, c, others
<1> DEFINE f == frame["actor"]
<1>2. f \in FrameType(Exchanges) /\ AtCommand(f)
  BY ActorFrame
<1>3. CASE PromoteAlone
  <2>1. f.cmd.ex \in Exchanges
    BY <1>3, ActorFrame, ZenonT(60) DEF PromoteAlone, AtCommand
  <2>2. FramesOK'
    BY <1>2, <1>3, <2>1, ReviveTyped, ZenonT(60) DEF PromoteAlone
  <2>3. status' \in [Exchanges -> Statuses] /\ quiet' \in [Exchanges -> BOOLEAN]
    BY <1>0, <1>3, SetStatusTyped, ZenonT(60) DEF PromoteAlone
  <2> QED
    BY <1>3, <2>2, <2>3, ZenonT(60) DEF TypeOK, PromoteAlone, delivery
<1>4. CASE _reparent_material
  <2>1. f.pc = "material" /\ f.cmd.type = "promote" /\ f.live \subseteq Exchanges
    BY <1>2, <1>4, ZenonT(60) DEF _reparent_material, AtCommand, FrameType
  <2>2. PICK target \in f.live :
          /\ message' = [m \in Messages |-> IF m \in MessagesOf(f.cmd.ex)
                            THEN [message[m] EXCEPT !.ex = target] ELSE message[m]]
          /\ set_status(f.cmd.ex, "CANCELLED")
          /\ Goto("actor", [f EXCEPT !.pc = "revive", !.ex = target])
    BY <1>4, ZenonT(60) DEF _reparent_material
  <2>3. target \in Exchanges
    BY <2>1
  <2>4. message' \in [Messages -> MessageType]
    <3>1. \A m \in Messages : [message[m] EXCEPT !.ex = target] \in MessageType
      BY <2>3, ZenonT(60) DEF TypeOK, MessageType
    <3> QED
      BY <2>2, <3>1, SMTT(60) DEF TypeOK
  <2>5. status' \in [Exchanges -> Statuses] /\ quiet' \in [Exchanges -> BOOLEAN]
    BY <1>0, <2>2, SetStatusTyped, SMTT(60)
  <2> DEFINE h == [f EXCEPT !.pc = "revive", !.ex = target]
  <2>6. h \in FrameType(Exchanges)
    BY <1>2, <2>3, ZenonT(60) DEF FrameType
  <2>7. AtCommand(h)
    BY <1>2, <2>1, <2>3, BoundsAssumption, SMTT(60) DEF AtCommand, FrameType, Exchanges, None
  <2>8. FramesOK'
    BY <2>2, <2>6, <2>7, GotoActor, SMTT(60)
  <2> QED
    BY <1>4, <2>4, <2>5, <2>8, ZenonT(60) DEF TypeOK, _reparent_material, delivery
<1>5. CASE ReviveTarget
  <2>1. f.ex \in Exchanges
    BY <1>2, <1>5, ZenonT(60) DEF ReviveTarget, AtCommand, FrameType
  <2>2. CASE Done("actor") /\ UNCHANGED <<status, quiet>>
    <3>1. FramesOK'
      BY <2>2, IdleTyped, GotoActor, SMTT(60) DEF Done
    <3> QED
      BY <1>5, <2>2, <3>1, ZenonT(60) DEF TypeOK, ReviveTarget, delivery
  <2>3. CASE set_status(f.ex, "OPEN") /\ Revive(f.ex, f)
    <3>1. FramesOK'
      BY <1>2, <2>1, <2>3, ReviveTyped, SMTT(60)
    <3>2. status' \in [Exchanges -> Statuses] /\ quiet' \in [Exchanges -> BOOLEAN]
      BY <1>0, <2>3, SetStatusTyped, SMTT(60)
    <3> QED
      BY <1>5, <3>1, <3>2, ZenonT(60) DEF TypeOK, ReviveTarget, delivery
  <2> QED
    BY <1>5, <2>2, <2>3, ZenonT(60) DEF ReviveTarget
<1> QED
  BY <1>1, <1>3, <1>4, <1>5

(* Every handler of the actor keeps the shapes. *)
LEMMA ActorTyped == TypeOK /\ ActorStep => TypeOK'
<1> SUFFICES ASSUME TypeOK, ActorStep PROVE TypeOK'
  OBVIOUS
<1>1. "actor" \in Threads
  BY DEF Threads
<1> QED
  BY <1>1, SubmitTyped, JoinTyped, RunTyped, TerminatedTyped, PromoteTyped, SMTT(60) DEF ActorStep

(* The manager's listed tasks are tasks. *)
LEMMA ManagerFrame ==
    ASSUME TypeOK
    PROVE  /\ frame["manager"] \in FrameType(Tasks)
           /\ frame["manager"].rest # {} => First(frame["manager"].rest) \in Tasks
           /\ frame["manager"].live # {} => First(frame["manager"].live) \in Tasks
<1>1. frame["manager"] \in FrameType(Tasks)
  BY DEF TypeOK, FramesOK
<1>2. frame["manager"].rest \in SUBSET Tasks /\ frame["manager"].live \in SUBSET Tasks
  BY <1>1 DEF FrameType
<1>3. Tasks \subseteq Nat
  BY DEF Tasks
<1>4. ASSUME NEW S \in SUBSET Tasks, S # {} PROVE First(S) \in Tasks
  <2>1. S \in SUBSET Nat
    BY <1>3
  <2> QED
    BY <1>4, <2>1, FirstInSet, ZenonT(60)
<1> QED
  BY <1>1, <1>2, <1>4, SMTT(60)

(* Recovery's frames. *)
LEMMA RecoveryFrames ==
    ASSUME NEW f \in FrameType(Tasks)
    PROVE  /\ \A t : [f EXCEPT !.rest = @ \ {t}] \in FrameType(Tasks)
           /\ \A t : [f EXCEPT !.live = @ \ {t}] \in FrameType(Tasks)
           /\ \A t \in Tasks : [f EXCEPT !.pc = "reattach", !.t = t] \in FrameType(Tasks)
           /\ [f EXCEPT !.pc = "reown"] \in FrameType(Tasks)
           /\ [f EXCEPT !.pc = "restart", !.t = None] \in FrameType(Tasks)
           /\ \A S \in SUBSET Exchanges :
                [f EXCEPT !.pc = "resume", !.then = "redeliver", !.todo = S] \in FrameType(Tasks)
           /\ \A R, L \in SUBSET Tasks : \A a \in {"SWEEP", "SKIP"} :
                [f EXCEPT !.pc = "restart", !.rest = R, !.live = L, !.act = a]
                    \in FrameType(Tasks)
<1>1. ASSUME NEW t PROVE [f EXCEPT !.rest = @ \ {t}] \in FrameType(Tasks)
  BY DEF FrameType
<1>2. ASSUME NEW t PROVE [f EXCEPT !.live = @ \ {t}] \in FrameType(Tasks)
  BY DEF FrameType
<1>3. ASSUME NEW t \in Tasks PROVE [f EXCEPT !.pc = "reattach", !.t = t] \in FrameType(Tasks)
  BY ZenonT(60) DEF FrameType
<1>4. [f EXCEPT !.pc = "reown"] \in FrameType(Tasks)
  BY DEF FrameType
<1>5. [f EXCEPT !.pc = "restart", !.t = None] \in FrameType(Tasks)
  BY ZenonT(60) DEF FrameType
<1>6. ASSUME NEW S \in SUBSET Exchanges
      PROVE  [f EXCEPT !.pc = "resume", !.then = "redeliver", !.todo = S] \in FrameType(Tasks)
  BY ZenonT(60) DEF FrameType
<1>7. ASSUME NEW R \in SUBSET Tasks, NEW L \in SUBSET Tasks, NEW a \in {"SWEEP", "SKIP"}
      PROVE  [f EXCEPT !.pc = "restart", !.rest = R, !.live = L, !.act = a] \in FrameType(Tasks)
  BY ZenonT(60) DEF FrameType
<1> QED
  BY <1>1, <1>2, <1>3, <1>4, <1>5, <1>6, <1>7, ZenonT(60)

(* Every step of the recovery keeps the shapes. *)
LEMMA ManagerTyped == TypeOK /\ ManagerStep => TypeOK'
<1> SUFFICES ASSUME TypeOK, ManagerStep PROVE TypeOK'
  OBVIOUS
<1> DEFINE f == frame["manager"]
<1>0. f \in FrameType(Tasks)
  BY ManagerFrame, SMTT(60)
<1>1. CASE _recover_dialog
  <2> DEFINE act == IF {e \in Exchanges : status'[e] = "OPEN" /\ ~_has_live_task(e)} = {}
                    THEN "SKIP" ELSE "SWEEP"
             h == [IdleFrame EXCEPT !.pc = "restart", !.rest = list_orphaned,
                                    !.live = list_undelivered, !.act = act]
  <2>1. status' \in [Exchanges -> Statuses]
    BY <1>1 DEF _recover_dialog, TypeOK, Statuses, LiveStatuses
  <2>2. quiet' \in [Exchanges -> BOOLEAN]
    BY <1>1 DEF _recover_dialog
  <2>3. h \in FrameType(Tasks)
    <3>1. list_orphaned \in SUBSET Tasks /\ list_undelivered \in SUBSET Tasks
      BY DEF list_orphaned, list_undelivered
    <3>2. act \in {"SWEEP", "SKIP"}
      OBVIOUS
    <3> HIDE DEF act
    <3> QED
      BY <3>1, <3>2, IdleTyped, RecoveryFrames, ZenonT(60)
  <2>4. Goto("manager", h)
    BY <1>1 DEF _recover_dialog
  <2>5. FramesOK'
    BY <2>3, <2>4, GotoManager, SMTT(60)
  <2> QED
    BY <1>1, <2>1, <2>2, <2>5, SMTT(60) DEF TypeOK, _recover_dialog, delivery
<1>2. CASE RefuseRestart
  <2> DEFINE t == First(f.rest)
  <2>1. t \in Tasks
    BY <1>2, ManagerFrame, ZenonT(60) DEF RefuseRestart
  <2>2. Goto("manager", [f EXCEPT !.rest = @ \ {t}])
    BY <1>2 DEF RefuseRestart
  <2>3. FramesOK'
    BY <1>0, <2>2, RecoveryFrames, GotoManager, ZenonT(60)
  <2>4. _flush_deliveries({t}, [task EXCEPT ![t].status = "FAILED"])
    BY <1>2, ZenonT(60) DEF RefuseRestart
  <2>5. outbox' \subseteq Tasks /\ reached' \subseteq Tasks /\ task' \in [Tasks -> TaskType]
    <3> DEFINE R == [task EXCEPT ![t].status = "FAILED"]
    <3>1. R \in [Tasks -> TaskType] /\ {t} \in SUBSET Tasks
      BY <2>1, TaskUpdates, ZenonT(60)
    <3> HIDE DEF R, t
    <3> QED
      BY <2>4, <3>1, FlushTyped, ZenonT(60) DEF R
  <2>6. status' \in [Exchanges -> Statuses] /\ quiet' \in [Exchanges -> BOOLEAN]
    <3>1. CASE UNCHANGED <<status, quiet>>
      BY <3>1 DEF TypeOK
    <3>2. CASE set_status(task[t].ex, "OPEN")
      BY <3>2, SetStatusTyped, SMTT(60) DEF Statuses, LiveStatuses
    <3> QED
      BY <1>2, <3>1, <3>2, SMTT(60) DEF RefuseRestart
  <2> QED
    BY <1>2, <2>3, <2>5, <2>6, ZenonT(60) DEF TypeOK, RefuseRestart
<1>3. CASE restart_task
  <2> DEFINE t == First(f.rest)
             g == [f EXCEPT !.rest = @ \ {t}]
             h == [g EXCEPT !.pc = "reattach", !.t = t]
  <2>1. t \in Tasks
    BY <1>3, ManagerFrame, ZenonT(60) DEF restart_task
  <2>2. g \in FrameType(Tasks)
    BY <1>0, RecoveryFrames, ZenonT(60)
  <2>3. h \in FrameType(Tasks)
    <3> HIDE DEF g, t
    <3> QED BY <2>1, <2>2, RecoveryFrames, ZenonT(60)
  <2>4. CASE /\ process' = [process EXCEPT ![t] = [NoProcess EXCEPT !.phase = "new"]]
             /\ Goto("manager", g) /\ UNCHANGED <<task, spawnLock>>
    <3>1. FramesOK'
      BY <2>2, <2>4, GotoManager
    <3>2. process' \in [Tasks -> ProcessType]
      BY <2>4, ProcessUpdates, ZenonT(60) DEF TypeOK
    <3> QED
      BY <1>3, <2>4, <3>1, <3>2, ZenonT(60) DEF TypeOK, restart_task, delivery
  <2>5. CASE /\ task' = [task EXCEPT ![t].status = "DONE", ![t].empty = TRUE]
             /\ Goto("manager", g) /\ UNCHANGED <<process, spawnLock>>
    <3>1. FramesOK'
      BY <2>2, <2>5, GotoManager, SMTT(60)
    <3>2. task' \in [Tasks -> TaskType]
      BY <2>1, <2>5, TaskUpdates, ZenonT(60)
    <3> QED
      BY <1>3, <2>5, <3>1, <3>2, ZenonT(60) DEF TypeOK, restart_task, delivery
  <2>6. CASE spawnLock' = "manager" /\ Goto("manager", h) /\ UNCHANGED <<task, process>>
    <3>1. FramesOK'
      BY <2>3, <2>6, GotoManager, SMTT(60)
    <3> QED
      BY <1>3, <2>6, <3>1, ZenonT(60) DEF TypeOK, restart_task, delivery, Threads
  <2> QED
    BY <1>3, <2>4, <2>5, <2>6, ZenonT(60) DEF restart_task
<1>4. CASE _start_orphaned
  <2> DEFINE p == [NoProcess EXCEPT !.phase = "new", !.seen = narrative]
  <2>1. p \in ProcessType
    <3>1. narrative \in SUBSET Messages
      BY DEF TypeOK
    <3> QED
      BY <3>1, ProcessUpdates, ZenonT(60) DEF ProcessType
  <2> HIDE DEF p
  <2>2. process' \in [Tasks -> ProcessType]
    BY <1>4, <2>1, ZenonT(60) DEF _start_orphaned, TypeOK, p
  <2>3. FramesOK'
    BY <1>0, <1>4, RecoveryFrames, GotoManager, ZenonT(60) DEF _start_orphaned
  <2> QED
    BY <1>4, <2>2, <2>3, SMTT(60) DEF TypeOK, _start_orphaned, rows, delivery
<1>5. CASE Reown
  <2>1. FramesOK'
    BY <1>0, <1>5, RecoveryFrames, GotoManager, ZenonT(60) DEF Reown
  <2>2. status' \in [Exchanges -> Statuses] /\ quiet' \in [Exchanges -> BOOLEAN]
    BY <1>5, SetStatusTyped, SMTT(60) DEF Reown, Statuses, LiveStatuses
  <2> QED
    BY <1>5, <2>1, <2>2, SMTT(60) DEF TypeOK, Reown, delivery
<1>6. CASE resume_stranded
  <2> DEFINE S == IF f.act = "SWEEP" THEN list_unowned_open ELSE {}
             h == [f EXCEPT !.pc = "resume", !.then = "redeliver", !.todo = S]
  <2>1. S \in SUBSET Exchanges
    BY DEF list_unowned_open
  <2>2. Goto("manager", h)
    BY <1>6 DEF resume_stranded
  <2>3. h \in FrameType(Tasks)
    <3> HIDE DEF S
    <3> QED BY <1>0, <2>1, RecoveryFrames, ZenonT(60)
  <2>4. FramesOK'
    BY <2>2, <2>3, GotoManager, SMTT(60)
  <2> QED
    BY <1>6, <2>4, SMTT(60) DEF TypeOK, resume_stranded, rows, delivery
<1>7. CASE request_result_delivery
  <2>1. CASE f.live = {}
    <3>1. FramesOK'
      BY <1>7, <2>1, IdleTyped, GotoManager, SMTT(60) DEF request_result_delivery, Done
    <3> QED
      BY <1>7, <2>1, <3>1, SMTT(60) DEF TypeOK, request_result_delivery, rows, delivery
  <2>2. CASE f.live # {}
    <3>1. First(f.live) \in Tasks
      BY <2>2, ManagerFrame, ZenonT(60)
    <3>2. FramesOK'
      BY <1>0, <1>7, <2>2, RecoveryFrames, GotoManager, ZenonT(60) DEF request_result_delivery
    <3>3. inbox' \in Seq(CommandType)
      <4>1. Redelivery(First(f.live)) \in CommandType
        BY <3>1, CommandsTyped
      <4>2. inbox' = Append(inbox, Redelivery(First(f.live)))
        BY <1>7, <2>2, SMTT(60) DEF request_result_delivery
      <4>3. inbox \in Seq(CommandType)
        BY DEF TypeOK
      <4> QED
        BY <4>1, <4>2, <4>3, SMTT(60)
    <3> QED
      BY <1>7, <3>2, <3>3, SMTT(60) DEF TypeOK, request_result_delivery, rows, delivery
  <2> QED
    BY <2>1, <2>2
<1>8. "manager" \in Threads
  BY DEF Threads
<1> QED
  BY <1>1, <1>2, <1>3, <1>4, <1>5, <1>6, <1>7, <1>8, RunTyped, SMTT(60) DEF ManagerStep

(* The collecting sweep keeps the shapes. *)
LEMMA SweeperTyped == TypeOK /\ SweeperStep => TypeOK'
<1> SUFFICES ASSUME TypeOK, NEW e \in Exchanges, QuietElapses(e) \/ promote_collected(e)
             PROVE  TypeOK'
  BY SMTT(60) DEF SweeperStep
<1>1. CASE QuietElapses(e)
  BY <1>1, ZenonT(60) DEF TypeOK, FramesOK, QuietElapses, delivery
<1>2. CASE promote_collected(e)
  <2>1. inbox' \in Seq(CommandType)
    BY <1>2, CommandsTyped, SMTT(60) DEF TypeOK, promote_collected
  <2> QED
    BY <1>2, <2>1, ZenonT(60) DEF TypeOK, FramesOK, promote_collected, rows, delivery
<1> QED
  BY <1>1, <1>2

(* A failing write, a failing handler and a crash keep the shapes. *)
LEMMA FaultTyped == TypeOK /\ FaultNext => TypeOK'
<1> SUFFICES ASSUME TypeOK, FaultNext PROVE TypeOK'
  OBVIOUS
<1>1. CASE PersistFails
  <2>1. Head(inbox).m \in Messages /\ inbox' \in Seq(CommandType)
    BY <1>1, TakenTyped, CommandFields, ZenonT(60) DEF PersistFails
  <2>2. used' \in [Events -> Nat]
    BY <1>1, SpendTyped, SMTT(60) DEF PersistFails, Events
  <2> QED
    BY <1>1, <2>1, <2>2, ZenonT(60) DEF TypeOK, FramesOK, PersistFails, rows, delivery
<1>2. CASE SettleFails
  <2>1. inbox' \in Seq(CommandType)
    BY <1>2, TakenTyped, ZenonT(60) DEF SettleFails
  <2>2. used' \in [Events -> Nat]
    BY <1>2, SpendTyped, SMTT(60) DEF SettleFails, Events
  <2> QED
    BY <1>2, <2>1, <2>2, ZenonT(60) DEF TypeOK, FramesOK, SettleFails, rows, delivery
<1>3. CASE CommandFails
  <2>1. FramesOK'
    BY <1>3, IdleTyped, GotoActor, ZenonT(60) DEF CommandFails, Done
  <2>2. used' \in [Events -> Nat]
    BY <1>3, SpendTyped, ZenonT(60) DEF CommandFails, Events
  <2>3. served' \subseteq Messages
    BY <1>3, ActorFrame, ZenonT(60) DEF CommandFails, TypeOK
  <2> QED
    BY <1>3, <2>1, <2>2, <2>3, ZenonT(60) DEF TypeOK, CommandFails, rows, delivery
<1>4. CASE Crash
  <2> DEFINE f == frame["actor"]
  <2>1. used' \in [Events -> Nat]
    BY <1>4, SpendTyped, SMTT(60) DEF Crash, Events
  <2>2. process' \in [Tasks -> ProcessType]
    BY <1>4, ProcessUpdates, SMTT(60) DEF Crash
  <2>3. message' \in [Messages -> MessageType]
    <3>1. CASE f.pc = "attach"
      <4>1. f.cmd.m \in Messages
        BY <3>1, ActorFrame, ZenonT(60) DEF AtCommand
      <4>2. message \in [Messages -> MessageType]
        BY DEF TypeOK
      <4>3. [message EXCEPT ![f.cmd.m].ex = None] \in [Messages -> MessageType]
        BY <4>1, <4>2, SMTT(60) DEF MessageType
      <4> QED
        BY <1>4, <3>1, <4>3, SMTT(60) DEF Crash
    <3>2. CASE f.pc # "attach"
      BY <1>4, <3>2, SMTT(60) DEF Crash, TypeOK
    <3> QED
      BY <3>1, <3>2, SMTT(60)
  <2>4. FramesOK'
    <3> DEFINE h == [IdleFrame EXCEPT !.pc = "recover"]
    <3>1. h \in FrameType(Tasks)
      BY IdleTyped DEF FrameType
    <3>2. h \in FrameType(Nat)
      BY IdleTyped, ZenonT(60) DEF FrameType
    <3>3. frame' = [th \in Threads |-> IF th = "manager" THEN h ELSE IdleFrame]
      BY <1>4, ZenonT(60) DEF Crash, Threads
    <3> HIDE DEF h
    <3> QED
      BY <3>1, <3>2, <3>3, IdleTyped, SMTT(60) DEF FramesOK, Threads
  <2>5. inbox' \in Seq(CommandType)
    BY <1>4, SMTT(60) DEF Crash
  <2> QED
    BY <1>4, <2>1, <2>2, <2>3, <2>4, <2>5, ZenonT(60) DEF TypeOK, Crash
<1>5. ASSUME NEW t \in Tasks, FinalizeFails(t) PROVE TypeOK'
  <2>1. used' \in [Events -> Nat]
    BY <1>5, SpendTyped, SMTT(60) DEF FinalizeFails, Events
  <2>2. process[t] \in ProcessType
    BY DEF TypeOK
  <2>3. process' \in [Tasks -> ProcessType]
    BY <1>5, <2>2, ZenonT(60) DEF FinalizeFails, TypeOK, ProcessType
  <2> QED
    BY <1>5, <2>1, <2>3, SMTT(60) DEF TypeOK, FramesOK, FinalizeFails, rows, delivery
<1>6. ASSUME NEW t \in Tasks, AskFails(t) PROVE TypeOK'
  <2>1. used' \in [Events -> Nat]
    BY <1>6, SpendTyped, SMTT(60) DEF AskFails, Events
  <2>2. process[t] \in ProcessType
    BY DEF TypeOK
  <2>3. process' \in [Tasks -> ProcessType]
    BY <1>6, <2>2, ZenonT(60) DEF AskFails, TypeOK, ProcessType
  <2> QED
    BY <1>6, <2>1, <2>3, SMTT(60) DEF TypeOK, FramesOK, AskFails, rows, delivery
<1> QED
  BY <1>1, <1>2, <1>3, <1>4, <1>5, <1>6, SMTT(60) DEF FaultNext

(* Every step of every coroutine, fault and crash keeps the types. *)
LEMMA NextTyped == TypeOK /\ [Next]_vars => TypeOK'
<1> SUFFICES ASSUME TypeOK, [Next]_vars PROVE TypeOK'
  BY SMTT(60)
<1>1. CASE UNCHANGED vars
  BY <1>1, ZenonT(60) DEF TypeOK, FramesOK, vars, rows, delivery
<1>2. CASE Next
  BY <1>2, UserTyped, StopTyped, PumpTyped, ActorTyped, ManagerTyped, SweeperTyped, FaultTyped, SMTT(60)
     DEF Next
<1> QED
  BY <1>1, <1>2

(* Type correctness of the conversation actor, for any limit on processes   *)
(* and any number of rows, stops, crashes and faults.                       *)
THEOREM TypeCorrect == Spec => []TypeOK
BY InitTyped, NextTyped, PTL DEF Spec

=============================================================================
