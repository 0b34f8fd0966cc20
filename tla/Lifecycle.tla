------------------------------- MODULE Lifecycle -------------------------------
(***************************************************************************)
(* One process from start to stop: the composition root `runtime` of       *)
(* deploy/main.py, the schema bootstrap of db/engine.py it begins with,    *)
(* and the part of ConversationManager that start and stop touch: runners  *)
(* are built in shielded tasks, the caller that started a build attaches   *)
(* the surface, stop_all lists builds and actors, cancels the builds one   *)
(* after the other and then stops the actors it listed.  While the process *)
(* serves, the background loops, the poller and requests contact dialogs   *)
(* at any moment, also during the steps of the shutdown.                   *)
(***************************************************************************)
EXTENDS Naturals, Sequences, FiniteSets, FiniteSetsExt

CONSTANTS Dialogs, MaxContacts, MaxFaults

VARIABLES db,       \* the database: its tables, dialect, alembic_version, moved data
          stage,    \* the step of `runtime` to run next
          surface,  \* the manager's renderer is bound (use_surface)
          build,    \* build[d]: the step a build task is at, "none"
          caller,   \* caller[d]: who awaits the build it started; "gone" if cancelled
          runner,   \* dialogs with a live actor
          attached, \* attached[d]: how often the surface was attached to the actor
          claimed,  \* dialogs this process holds a claim on
          todo,     \* dialogs recover_interrupted still has to adopt
          stop,     \* what stop_all read: the actors it still has to stop, and
                    \* how many builds were in flight
          past      \* contacts and faults so far; the actors no surface was attached to

lifecycleVars == <<db, stage, surface, build, caller, runner, attached, claimed, todo, stop, past>>

Order == <<"schema", "retention", "skills", "attach", "recover", "loops", "surfaces", "serving",
           "stop loops", "close", "stop all", "stop builds", "stop runners", "down">>
At(s) == stage = s
After(s) == Order[1 + CHOOSE i \in 1..Len(Order) : Order[i] = s]

Databases ==
  {[tables |-> "none", dialect |-> x, version |-> "none", moved |-> TRUE]
     : x \in {"sqlite", "postgres"}} \union
  {[tables |-> "memories", dialect |-> "sqlite", version |-> "none", moved |-> FALSE],
   [tables |-> "memories", dialect |-> "sqlite", version |-> "old", moved |-> FALSE],
   [tables |-> "current", dialect |-> "sqlite", version |-> "none", moved |-> TRUE],
   [tables |-> "current", dialect |-> "postgres", version |-> "head", moved |-> TRUE]}

Init ==
  /\ db \in Databases /\ stage = "schema" /\ surface = FALSE
  /\ build = [d \in Dialogs |-> "none"] /\ caller = [d \in Dialogs |-> "none"]
  /\ runner = {} /\ attached = [d \in Dialogs |-> 0] /\ claimed = {}
  /\ todo \in SUBSET Dialogs
  /\ stop = [runners |-> {}, flying |-> 0]
  /\ past = [contacts |-> 0, faults |-> 0, migration |-> FALSE, bare |-> {}]

Fault == past.faults < MaxFaults
managerVars == <<surface, build, caller, runner, attached, claimed, todo, stop>>

-----------------------------------------------------------------------------
(* _bootstrap_sync: a database older than Alembic is stamped, at the       *)
(* baseline when it still has the memories table, else at head.            *)
Adopt(old) ==
  IF old.tables # "none" /\ old.version = "none"
  THEN [old EXCEPT !.version = IF old.tables = "memories" THEN "base" ELSE "head"]
  ELSE old

(* command.upgrade: every revision after the stamped one runs; the one     *)
(* that moves the memories into the instructions lies behind the baseline. *)
Upgrade(old) ==
  IF old.version = "head" THEN old
  ELSE [old EXCEPT !.tables = "current", !.version = "head", !.moved = TRUE]

(* A fresh database off SQLite gets today's tables and the head stamp.     *)
_create_and_stamp(old) == [old EXCEPT !.tables = "current", !.version = "head"]

_bootstrap_sync(old) ==
  IF old.tables = "none" /\ old.dialect # "sqlite" THEN _create_and_stamp(old)
  ELSE Upgrade(Adopt(old))

(* init_db: create_all adds what is missing and stamps nothing.            *)
init_db(old) == [old EXCEPT !.tables = IF @ = "none" THEN "current" ELSE @]

(* _bootstrap_schema: one transaction, or the create_all fallback.         *)
_bootstrap_schema ==
  /\ At("schema") /\ stage' = After(stage)
  /\ \/ db' = _bootstrap_sync(db) /\ UNCHANGED past
     \/ /\ Fault /\ db' = init_db(db)
        /\ past' = [past EXCEPT !.faults = @ + 1, !.migration = TRUE]
  /\ UNCHANGED managerVars

(* _sweep_retention and _sync_system_skills: a failure is logged, and the  *)
(* start goes on; neither touches what is modelled here.                   *)
_sweep_retention ==
  /\ At("retention") /\ stage' = After(stage)
  /\ UNCHANGED <<db, past>> /\ UNCHANGED managerVars

_sync_system_skills ==
  /\ At("skills") /\ stage' = After(stage)
  /\ UNCHANGED <<db, past>> /\ UNCHANGED managerVars

(* _attach_renderers: use_surface, before recovery builds any actor.       *)
_attach_renderers ==
  /\ At("attach") /\ stage' = After(stage) /\ surface' = TRUE
  /\ UNCHANGED <<db, past, build, caller, runner, attached, claimed, todo, stop>>

-----------------------------------------------------------------------------
(* get_or_create_runner without a build on file: this caller starts one    *)
(* and will attach the surface.                                            *)
StartBuild(d, who) ==
  /\ build[d] = "none" /\ d \notin runner
  /\ build' = [build EXCEPT ![d] = "claim"] /\ caller' = [caller EXCEPT ![d] = who]

(* recover_interrupted: the stranded dialogs nobody holds, one by one.     *)
_adopt(d) ==
  /\ At("recover") /\ d \in todo
  /\ \A e \in Dialogs : caller[e] # "recovery"
  /\ todo' = todo \ {d}
  /\ IF d \in runner THEN UNCHANGED <<build, caller>> ELSE StartBuild(d, "recovery")
  /\ UNCHANGED <<db, stage, surface, runner, attached, claimed, stop, past>>

recover_interrupted ==
  /\ At("recover") /\ todo = {} /\ \A d \in Dialogs : caller[d] = "none"
  /\ stage' = After(stage)
  /\ UNCHANGED <<db, past>> /\ UNCHANGED managerVars

(* The heartbeat, the cron scheduler, the sweepers and the MCP loop start. *)
StartLoops ==
  /\ At("loops") /\ stage' = After(stage)
  /\ UNCHANGED <<db, past>> /\ UNCHANGED managerVars

(* _start_surfaces: one that fails to start is skipped.                    *)
_start_surfaces ==
  /\ At("surfaces") /\ stage' = After(stage)
  /\ UNCHANGED <<db, past>> /\ UNCHANGED managerVars

Position(s) == CHOOSE i \in 1..Len(Order) : Order[i] = s
Running(who) ==
  CASE who = "loop" -> Position(stage) \in Position("surfaces")..Position("stop loops")
    [] who = "poller" -> Position(stage) \in Position("serving")..Position("close")

(* A cron firing, a settled collection, a message reach a dialog: the      *)
(* first contact builds its actor, later ones share the build.             *)
Contact(d, who) ==
  /\ Running(who) /\ past.contacts < MaxContacts
  /\ StartBuild(d, who)
  /\ past' = [past EXCEPT !.contacts = @ + 1]
  /\ UNCHANGED <<db, stage, surface, runner, attached, claimed, todo, stop>>

(* _build_runner: the claim commits, then the actor starts and is          *)
(* registered, then the dialog is recovered and handed out.                *)
Claim(d) ==
  /\ build[d] = "claim"
  /\ build' = [build EXCEPT ![d] = "start"] /\ claimed' = claimed \union {d}
  /\ UNCHANGED <<db, stage, surface, caller, runner, attached, todo, stop, past>>

Register(d) ==
  /\ build[d] = "start"
  /\ build' = [build EXCEPT ![d] = "recover"] /\ runner' = runner \union {d}
  /\ UNCHANGED <<db, stage, surface, caller, attached, claimed, todo, stop, past>>

_recover_dialog(d) ==
  /\ build[d] = "recover"
  /\ build' = [build EXCEPT ![d] = "done"]
  /\ UNCHANGED <<db, stage, surface, caller, runner, attached, claimed, todo, stop, past>>

(* A build that fails at the claim or while it loads the history is        *)
(* dropped and its caller told.                                            *)
BuildFails(d) ==
  /\ build[d] \in {"claim", "start"} /\ Fault
  /\ build' = [build EXCEPT ![d] = "none"] /\ caller' = [caller EXCEPT ![d] = "none"]
  /\ past' = [past EXCEPT !.faults = @ + 1]
  /\ UNCHANGED <<db, stage, surface, runner, attached, claimed, todo, stop>>

(* A loop's tick is cut short while it awaits a build it started: shield   *)
(* keeps the build, and nobody is left to attach the surface.              *)
CallerCancelled(d) ==
  /\ caller[d] = "loop" /\ Running("loop") /\ Fault
  /\ caller' = [caller EXCEPT ![d] = "none"]
  /\ past' = [past EXCEPT !.faults = @ + 1, !.bare = @ \union {d}]
  /\ UNCHANGED <<db, stage, surface, build, runner, attached, claimed, todo, stop>>

(* _attach_surface: the caller that started the build, once it is done; a  *)
(* transport that cannot attach is logged and costs its delivery.          *)
_attach_surface(d) ==
  /\ build[d] = "done" /\ caller[d] \notin {"none", "gone"}
  /\ caller' = [caller EXCEPT ![d] = "none"]
  /\ \/ attached' = [attached EXCEPT ![d] = @ + (IF surface THEN 1 ELSE 0)] /\ UNCHANGED past
     \/ /\ Fault /\ surface /\ UNCHANGED attached
        /\ past' = [past EXCEPT !.faults = @ + 1, !.bare = @ \union {d}]
  /\ UNCHANGED <<db, stage, surface, build, runner, claimed, todo, stop>>

-----------------------------------------------------------------------------
shutdown == /\ At("serving") /\ stage' = After(stage)
            /\ UNCHANGED <<db, past>> /\ UNCHANGED managerVars

Cancel(who) ==
  caller' = [d \in Dialogs |-> IF caller[d] = who THEN "gone" ELSE caller[d]]

(* _stop_background_tasks: the loops end where they wait; a build one of   *)
(* them waited for runs on.                                                *)
_stop_background_tasks ==
  /\ At("stop loops") /\ stage' = After(stage) /\ Cancel("loop")
  /\ UNCHANGED <<db, surface, build, runner, attached, claimed, todo, stop, past>>

_close_surface ==
  /\ At("close") /\ stage' = After(stage) /\ Cancel("poller")
  /\ UNCHANGED <<db, surface, build, runner, attached, claimed, todo, stop, past>>

Building(d) == build[d] \in {"claim", "start", "recover"}

(* The next build in flight is cancelled; until it has ended the others    *)
(* go on.  With none left the actors are next.                             *)
CancelOne(tasks) ==
  \/ \E d \in Dialogs : /\ Building(d) /\ stage' = "stop builds"
                        /\ build' = [tasks EXCEPT ![d] = "none"]
  \/ /\ \A d \in Dialogs : ~Building(d)
     /\ stage' = "stop runners" /\ build' = tasks

(* stop_all: builds and actors are listed under the lock and forgotten;    *)
(* the first build is cancelled in the same step.                          *)
stop_all ==
  /\ At("stop all")
  /\ CancelOne([d \in Dialogs |-> IF Building(d) THEN build[d] ELSE "none"])
  /\ stop' = [runners |-> runner, flying |-> Quantify(Dialogs, LAMBDA d : Building(d))]
  /\ caller' = [d \in Dialogs |-> "none"]
  /\ UNCHANGED <<db, surface, runner, attached, claimed, todo, past>>

CancelNext ==
  /\ At("stop builds") /\ CancelOne(build)
  /\ UNCHANGED <<db, surface, caller, runner, attached, claimed, todo, stop, past>>

(* Each listed actor is detached and stopped and its claim released (a     *)
(* release may fail).                                                      *)
StopRunner(d) ==
  /\ At("stop runners") /\ d \in stop.runners
  /\ stop' = [stop EXCEPT !.runners = @ \ {d}]
  /\ runner' = runner \ {d} /\ attached' = [attached EXCEPT ![d] = 0]
  /\ \/ claimed' = claimed \ {d} /\ UNCHANGED past
     \/ Fault /\ claimed' = claimed /\ past' = [past EXCEPT !.faults = @ + 1]
  /\ UNCHANGED <<db, stage, surface, build, caller, todo>>

Stopped ==
  /\ At("stop runners") /\ stop.runners = {} /\ stage' = After(stage)
  /\ UNCHANGED <<db, past>> /\ UNCHANGED managerVars

Next ==
  \/ _bootstrap_schema \/ _sweep_retention \/ _sync_system_skills \/ _attach_renderers
  \/ recover_interrupted \/ StartLoops \/ _start_surfaces
  \/ shutdown \/ _stop_background_tasks \/ _close_surface \/ stop_all \/ CancelNext \/ Stopped
  \/ \E d \in Dialogs :
       \/ _adopt(d) \/ \E who \in {"loop", "poller"} : Contact(d, who)
       \/ Claim(d) \/ Register(d) \/ _recover_dialog(d) \/ BuildFails(d)
       \/ CallerCancelled(d) \/ _attach_surface(d) \/ StopRunner(d)

Spec == Init /\ [][Next]_lifecycleVars

-----------------------------------------------------------------------------
(* Shapes; a build past registration has a live actor until actors are     *)
(* stopped, and one process never attaches an actor twice.                 *)
LifecycleTypeOK ==
  /\ stage \in {Order[i] : i \in 1..Len(Order)} /\ runner \subseteq Dialogs
  /\ \A d \in Dialogs : /\ build[d] \in {"none", "claim", "start", "recover", "done"}
                        /\ attached[d] \in 0..1
                        /\ build[d] \in {"recover", "done"} =>
                             d \in runner \/ stage \in {"stop runners", "down"}

(* "Renderers BEFORE recovery": whoever built an actor while the process   *)
(* serves, recovery included, its dialog has somewhere to deliver to once  *)
(* the build has been handed out, unless attaching failed or the caller    *)
(* that was to attach was cut short.                                       *)
LiveMeansRendered ==
  At("serving") => \A d \in runner \ past.bare : build[d] = "done" /\ caller[d] = "none" => attached[d] = 1

(* "Stop and deregister every live runner": after stop_all no build is on  *)
(* its way and no actor lives, however the shutdown interleaved with       *)
(* contacts, when at most one build was in flight.  Of more, each one but  *)
(* the first may register its actor after the list was taken, while an     *)
(* earlier one is awaited, and that actor is not stopped.                  *)
QuietAfterStop ==
  At("down") => /\ \A d \in Dialogs : ~Building(d)
                /\ Cardinality(runner) <= Max({0, stop.flying - 1})

(* bootstrap_schema: without a migration failure every kind of database is *)
(* at head before anything reads it, with the memories moved.              *)
SchemaAtHead ==
  ~At("schema") /\ ~past.migration => db.tables = "current" /\ db.version = "head" /\ db.moved
=============================================================================
