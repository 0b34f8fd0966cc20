---------------------------- MODULE DialogClaims ----------------------------
(***************************************************************************)
(* Who answers one dialog when several processes share the database: the   *)
(* claim row (dialogs/store.py) and the ConversationManager of every node  *)
(* (agent/runner.py).                                                      *)
(*                                                                         *)
(* On every node a message that arrived there, a sweep with background     *)
(* work, the heartbeat and an administrator's eviction work on the dialog; *)
(* `todo' holds the actor each of them decided about before an await.      *)
(* Actors are numbered in the order they are built; 0 is None.             *)
(***************************************************************************)
EXTENDS Naturals, Sequences, FiniteSets

CONSTANTS
    Nodes,
    MaxBuilds,      \* bound: actors built
    MaxContacts,    \* bound: messages that find no actor, or a retired one
    MaxMishaps      \* bound: failed builds, crashes, clean stops, evictions

VARIABLES
    row,        \* DialogClaimRow: [owner, generation, fresh], or NoRow
    up,         \* the node runs
    actor,      \* every ConversationRunner ever built, with its claim
    runners,    \* ConversationManager._runners of each node
    build,      \* ConversationManager._builds of each node: the memoized task
    todo,       \* locals of each node's coroutines
    spending    \* how much of each bound is used up, and whether a claim
                \* was ever released

claimVars == <<row, up, actor, runners, build, todo, spending>>

None == 0
NoRow == [owner |-> "nobody", generation |-> 0, fresh |-> FALSE]
NoBuild == [phase |-> "none", generation |-> 0, actor |-> None]
Nothing == [act |-> "none", a |-> None]
Callers == {"message", "sweep"}
Threads == Callers \cup {"heartbeat", "evict"}

Mishap == /\ spending.mishaps < MaxMishaps
          /\ spending' = [spending EXCEPT !.mishaps = @ + 1]

Claimed == row # NoRow
retired(a) == actor[a].state # "running"
Holds(a) == /\ Claimed
            /\ row.owner = actor[a].owner
            /\ row.generation = actor[a].generation

Free(n, t) == up[n] /\ todo[n][t] = Nothing
Doing(n, t, act) == up[n] /\ todo[n][t].act = act
Then(n, t, act, a) == todo' = [todo EXCEPT ![n][t] = [act |-> act, a |-> a]]
Ended(n, t) == todo' = [todo EXCEPT ![n][t] = Nothing]

-----------------------------------------------------------------------------
(* Claiming and building *)

(* Mutant: taking over leaves the generation as it was. *)
ClaimKeepsGeneration(n) ==
    [owner |-> n, generation |-> IF Claimed THEN row.generation ELSE 1, fresh |-> TRUE]

_claim_upsert(n) ==
    [owner |-> n, generation |-> IF Claimed THEN row.generation + 1 ELSE 1, fresh |-> TRUE]

Builds == Len(actor) + Cardinality({n \in Nodes : build[n].phase = "load"})

(* Behind the build map: a build is awaited, or one is started, and the      *)
(* first thing it does is claim. The row alone may land when it fails.       *)
get_or_create_runner(n) ==
    IF build[n].phase # "none" THEN UNCHANGED <<row, build>>
    ELSE /\ Builds < MaxBuilds
         /\ row' = _claim_upsert(n)
         /\ build' = [build EXCEPT ![n] =
                         [phase |-> "load", generation |-> row'.generation, actor |-> None]]

(* The hot slice is loaded; the actor is built, started and registered. *)
_build_runner(n) ==
    /\ up[n] /\ build[n].phase = "load"
    /\ actor' = Append(actor, [owner |-> n, generation |-> build[n].generation,
                               state |-> "running"])
    /\ runners' = [runners EXCEPT ![n] = Len(actor')]
    /\ build' = [build EXCEPT ![n].phase = "recover", ![n].actor = Len(actor')]
    /\ UNCHANGED <<row, up, todo, spending>>

(* Recovery never raises; the build is done. *)
_recover_dialog(n) ==
    /\ up[n] /\ build[n].phase = "recover"
    /\ build' = [build EXCEPT ![n].phase = "done"]
    /\ UNCHANGED <<row, up, actor, runners, todo, spending>>

BuildFails(n) ==
    /\ up[n] /\ build[n].phase = "load"
    /\ Mishap
    /\ build' = [build EXCEPT ![n] = NoBuild]
    /\ UNCHANGED <<row, up, actor, runners, todo>>

-----------------------------------------------------------------------------
(* A message, or a sweep, asks for the runner *)

(* The generation alone is compared, and a row that is gone counts as ours. *)
_still_owns_dialog(a) == ~Claimed \/ row.generation = actor[a].generation

can_still_answer(a) == ~retired(a) /\ _still_owns_dialog(a)

(* A cached actor that cannot answer any more is replaced first. A failed    *)
(* look at the claim trusts the actor, and nothing happens.                  *)
_replace_retired(n, t) ==
    /\ IF build[n].phase = "done"
         THEN /\ ~can_still_answer(build[n].actor)
              /\ Then(n, t, "drop", build[n].actor)
              /\ UNCHANGED <<row, build>>
         ELSE /\ build[n].phase = "none"
              /\ get_or_create_runner(n)
              /\ UNCHANGED todo
    /\ UNCHANGED <<up, actor, runners>>

Contact(n) ==
    /\ Free(n, "message") /\ spending.contacts < MaxContacts
    /\ spending' = [spending EXCEPT !.contacts = @ + 1]
    /\ _replace_retired(n, "message")

(* Mutant: a claim keeps its dialog however old its heartbeat is. *)
HeldForever(n) == Claimed /\ row.owner # n

held_elsewhere(n) == Claimed /\ row.owner # n /\ row.fresh

(* Background work acts on the runner registered here, adopts a dialog      *)
(* nobody holds, and leaves a live peer's alone (a failed look as well).    *)
(* A claim that changes between the look and the claim of the build is the  *)
(* message path's case, which claims without looking.                       *)
_runner_for_background(n) ==
    /\ Free(n, "sweep")
    /\ runners[n] # None => retired(runners[n])
    /\ ~held_elsewhere(n)
    /\ _replace_retired(n, "sweep")
    /\ UNCHANGED spending

(* The memo goes if it still holds this actor; whatever runner is           *)
(* registered for the dialog goes; the actor stands down.                   *)
_drop_preempted(n, t) ==
    /\ Doing(n, t, "drop")
    /\ LET a == todo[n][t].a IN
       /\ build' = [build EXCEPT ![n] =
                       IF @.phase = "done" /\ @.actor = a THEN NoBuild ELSE @]
       /\ actor' = [actor EXCEPT ![a].state = "down"]
    /\ runners' = [runners EXCEPT ![n] = None]
    /\ IF t = "heartbeat" THEN Ended(n, t) ELSE Then(n, t, "build", None)
    /\ UNCHANGED <<row, up, spending>>

(* The caller goes on once the actor has stopped. *)
Rebuild(n, t) ==
    /\ Doing(n, t, "build")
    /\ get_or_create_runner(n)
    /\ Ended(n, t)
    /\ UNCHANGED <<up, actor, runners, spending>>

-----------------------------------------------------------------------------
(* The heartbeat *)

(* Mutant: any claim on the dialog counts as ours. *)
AnyClaim(a) == Claimed

KeptBy(a) == Holds(a)

Keep(n) ==
    /\ ~row.fresh /\ KeptBy(runners[n])
    /\ row' = [row EXCEPT !.fresh = TRUE]
    /\ UNCHANGED todo

Lose(n) ==
    /\ ~KeptBy(runners[n])
    /\ Then(n, "heartbeat", "drop", runners[n])
    /\ UNCHANGED row

(* A claim that is still this exact one is refreshed; the others are lost.  *)
(* A failed beat is swallowed.                                              *)
_beat_once(n) ==
    /\ Free(n, "heartbeat") /\ runners[n] # None
    /\ Keep(n) \/ Lose(n)
    /\ UNCHANGED <<up, actor, runners, build, spending>>

Kept == \E n \in Nodes : up[n] /\ runners[n] # None /\ Holds(runners[n])
Loading == \E n \in Nodes : build[n].phase = "load" /\ row.owner = n
                             /\ row.generation = build[n].generation

(* The staleness window is several heartbeats long: it passes only when no  *)
(* registered actor keeps the claim warm and none is about to.              *)
GoesStale ==
    /\ Claimed /\ row.fresh /\ ~Kept /\ ~Loading
    /\ row' = [row EXCEPT !.fresh = FALSE]
    /\ UNCHANGED <<up, actor, runners, build, todo, spending>>

-----------------------------------------------------------------------------
(* A run about to start looks at the claim first, and refuses if it moved *)

_start_answer(a) ==
    /\ ~retired(a) /\ ~_still_owns_dialog(a)
    /\ actor' = [actor EXCEPT ![a].state = "preempted"]
    /\ UNCHANGED <<row, up, runners, build, todo, spending>>

-----------------------------------------------------------------------------
(* Leaving: an administrator's eviction, a clean stop, a crash *)

Released(a) == IF Holds(a) THEN NoRow ELSE row

(* The memo is taken; a build still under way is cancelled, and when it has  *)
(* registered its actor already, nobody stops that one.                      *)
evict(n) ==
    /\ Free(n, "evict") /\ build[n].phase # "none"
    /\ Mishap
    /\ build' = [build EXCEPT ![n] = NoBuild]
    /\ IF build[n].phase = "done"
         THEN /\ runners' = [runners EXCEPT ![n] = None]
              /\ Then(n, "evict", "stop", build[n].actor)
              /\ actor' = [actor EXCEPT ![build[n].actor].state = "down"]
         ELSE UNCHANGED <<runners, todo, actor>>
    /\ UNCHANGED <<row, up>>

EvictReleases(n) ==
    /\ Doing(n, "evict", "stop")
    /\ row' = Released(todo[n]["evict"].a)
    /\ spending' = [spending EXCEPT !.released = TRUE]
    /\ Ended(n, "evict")
    /\ UNCHANGED <<up, actor, runners, build>>

(* The node's process is gone, and everything in its memory with it. *)
Die(n) ==
    /\ up' = [up EXCEPT ![n] = FALSE]
    /\ actor' = [a \in DOMAIN actor |->
                    IF actor[a].owner = n THEN [actor[a] EXCEPT !.state = "down"]
                                          ELSE actor[a]]
    /\ runners' = [runners EXCEPT ![n] = None]
    /\ build' = [build EXCEPT ![n] = NoBuild]
    /\ todo' = [todo EXCEPT ![n] = [t \in Threads |-> Nothing]]

stop_all(n) ==
    /\ up[n] /\ spending.mishaps < MaxMishaps
    /\ spending' = [spending EXCEPT !.mishaps = @ + 1, !.released = TRUE]
    /\ row' = IF runners[n] = None THEN row ELSE Released(runners[n])
    /\ Die(n)

Crash(n) == up[n] /\ Mishap /\ Die(n) /\ UNCHANGED row

Restart(n) ==
    /\ ~up[n]
    /\ up' = [up EXCEPT ![n] = TRUE]
    /\ UNCHANGED <<row, actor, runners, build, todo, spending>>

-----------------------------------------------------------------------------
ClaimsInit ==
    /\ row = NoRow
    /\ up = [n \in Nodes |-> TRUE]
    /\ actor = <<>>
    /\ runners = [n \in Nodes |-> None]
    /\ build = [n \in Nodes |-> NoBuild]
    /\ todo = [n \in Nodes |-> [t \in Threads |-> Nothing]]
    /\ spending = [contacts |-> 0, mishaps |-> 0, released |-> FALSE]

ClaimsNext ==
    \/ \E n \in Nodes :
         \/ Contact(n) \/ _runner_for_background(n) \/ _beat_once(n)
         \/ \E t \in Threads : _drop_preempted(n, t) \/ Rebuild(n, t)
         \/ _build_runner(n) \/ _recover_dialog(n) \/ BuildFails(n)
         \/ evict(n) \/ EvictReleases(n) \/ stop_all(n) \/ Crash(n) \/ Restart(n)
    \/ \E a \in DOMAIN actor : _start_answer(a)
    \/ GoesStale

ClaimsFairness ==
    /\ \A n \in Nodes :
         /\ WF_claimVars(_runner_for_background(n)) /\ WF_claimVars(_beat_once(n))
         /\ \A t \in Threads : WF_claimVars(_drop_preempted(n, t)) /\ WF_claimVars(Rebuild(n, t))
         /\ WF_claimVars(_build_runner(n)) /\ WF_claimVars(_recover_dialog(n))
         /\ WF_claimVars(EvictReleases(n)) /\ WF_claimVars(Restart(n))
    /\ WF_claimVars(GoesStale)

ClaimsSpec == ClaimsInit /\ [][ClaimsNext]_claimVars /\ ClaimsFairness

-----------------------------------------------------------------------------
(* Properties *)

(* Every variable keeps its shape; what the manager's maps name are actors  *)
(* of that node, and a node that is down has nothing in memory.             *)
ClaimsTypeOK ==
    /\ row \in [owner : Nodes \cup {"nobody"}, generation : Nat, fresh : BOOLEAN]
    /\ \A a \in DOMAIN actor : actor[a] \in
         [owner : Nodes, generation : Nat \ {0}, state : {"running", "preempted", "down"}]
    /\ \A n \in Nodes :
         /\ runners[n] # None => actor[runners[n]].owner = n
         /\ build[n].phase \in {"recover", "done"} => actor[build[n].actor].owner = n
         /\ ~up[n] => runners[n] = None /\ build[n] = NoBuild

(* As long as no claim was released, an actor whose look at the claim lets  *)
(* it answer is the one the row names, if the row names one                 *)
(* (_still_owns_dialog compares the generation alone).                      *)
OnlyOwnerAnswers ==
    ~spending.released =>
        \A a \in DOMAIN actor : Claimed /\ can_still_answer(a) => Holds(a)

(* Every runner a heartbeat would refresh holds the dialog.                *)
RunnersHold == \A n \in Nodes : runners[n] # None => Holds(runners[n])

(* The dialog has an owner that keeps its claim warm, or the bound on       *)
(* builds is used up.                                                       *)
Adopted == Kept \/ Builds = MaxBuilds
=============================================================================
