------------------------------- MODULE Admission -------------------------------
(***************************************************************************)
(* Who an account is and whether they may talk: identity/store.py,         *)
(* identity/service.py, and the doors that call them (server deps.py and   *)
(* api/identity.py, the poller's _record_member and _admit, the console's  *)
(* set_user_status).  Requests of one account run concurrently: its        *)
(* profile, its message, a second pod.  Each store call is one             *)
(* transaction; between two of them anything may happen.                   *)
(***************************************************************************)
EXTENDS Naturals, FiniteSets

CONSTANTS Accounts,   \* surface accounts
          Persons,    \* ids of people, 1..n in the order they are minted
          Requests, Caps, MaxKnocks, MaxOrders

(* The people ids are minted in order, and a cap is a number. *)
ASSUME AdmissionAssumption ==
  /\ IsFiniteSet(Persons) /\ Persons = 1..Cardinality(Persons)
  /\ Caps \subseteq Nat

VARIABLES users,     \* users[p]: status of a person, "none" before it is minted
          identity,  \* identity[a]: the person an account is linked to, or 0
          request,   \* request[r]: where a request in flight stands
          cap,       \* the operator's limit of active users
          order,     \* the operator's set_user_status in flight
          jobs,      \* persons whose cron jobs are enabled
          past       \* knocks and orders so far, the highest cap, activations by hand

admissionVars == <<users, identity, request, cap, order, jobs, past>>

Nobody == "none"
NoRequest == [pc |-> "idle", account |-> Nobody, person |-> 0, cap |-> 0]
NoOrder == [pc |-> "idle", person |-> 0]

AdmissionInit ==
  /\ users = [p \in Persons |-> Nobody]
  /\ identity = [a \in Accounts |-> 0]
  /\ request = [r \in Requests |-> NoRequest]
  /\ cap \in Caps /\ order = NoOrder /\ jobs = {}
  /\ past = [knocks |-> 0, orders |-> 0, highest |-> cap, forced |-> FALSE]

Known == {p \in Persons : users[p] # Nobody}
Active == {p \in Persons : users[p] = "active"}

Goto(r, pc) == request' = [request EXCEPT ![r].pc = pc]

(* A request of an account arrives: get_user_id, put_profile or the bot.   *)
get_user_id(r, a) ==
  /\ request[r].pc = "idle" /\ past.knocks < MaxKnocks
  /\ request' = [request EXCEPT ![r] = [NoRequest EXCEPT !.pc = "resolve", !.account = a]]
  /\ past' = [past EXCEPT !.knocks = @ + 1]
  /\ UNCHANGED <<users, identity, cap, order, jobs>>

(* resolve: the first read of resolve_or_create.  Every identity is active *)
(* here: nothing under src calls deactivate, so the IdentityTakenError of  *)
(* a revoked account does not arise.                                       *)
resolve(r) ==
  /\ request[r].pc = "resolve"
  /\ LET found == identity[request[r].account]
     IN request' = [request EXCEPT ![r].person = found,
                                   ![r].pc = IF found = 0 THEN "create" ELSE "admit"]
  /\ UNCHANGED <<users, identity, cap, order, jobs, past>>

(* create_user: a fresh id (they are minted in order here).                *)
create_user(r) ==
  /\ request[r].pc = "create"
  /\ LET p == Cardinality(Known) + 1 IN
       /\ p \in Persons
       /\ users' = [users EXCEPT ![p] = "waiting"]
       /\ request' = [request EXCEPT ![r].person = p, ![r].pc = "link"]
  /\ UNCHANGED <<identity, cap, order, jobs, past>>

(* Mutant: the later link replaces the first. *)
LinkOverwrites(a, p) == identity' = [identity EXCEPT ![a] = p]

(* link: the unique constraint on the account lets the first one in.       *)
link(a, p) == identity' = IF identity[a] = 0 THEN [identity EXCEPT ![a] = p] ELSE identity

(* The end of resolve_or_create: the loser of the race re-reads the winner *)
(* and leaves the person it minted behind.                                 *)
resolve_or_create(r) ==
  LET a == request[r].account IN
  /\ request[r].pc = "link"
  /\ link(a, request[r].person)
  /\ request' = [request EXCEPT ![r].person = IF identity[a] = 0 THEN @ ELSE identity[a],
                                ![r].pc = "admit"]
  /\ UNCHANGED <<users, cap, order, jobs, past>>

(* admit: the status is read; only the waiting go on to the cap.           *)
admit(r) ==
  /\ request[r].pc = "admit"
  /\ IF users[request[r].person] = "waiting" THEN Goto(r, "cap") ELSE Goto(r, "answered")
  /\ UNCHANGED <<users, identity, cap, order, jobs, past>>

ReadCap(r) ==
  /\ request[r].pc = "cap"
  /\ request' = [request EXCEPT ![r].cap = cap, ![r].pc = "activate"]
  /\ UNCHANGED <<users, identity, cap, order, jobs, past>>

(* Mutant: the status is not looked at again. *)
ActivateUnchecked(r) ==
  LET p == request[r].person IN
  /\ request[r].pc = "activate"
  /\ users' = IF Cardinality(Active) < request[r].cap
              THEN [users EXCEPT ![p] = "active"] ELSE users
  /\ Goto(r, "answered")
  /\ UNCHANGED <<identity, cap, order, jobs, past>>

(* Mutant: the count is off by one. *)
ActivateAtCap(r) ==
  LET p == request[r].person IN
  /\ request[r].pc = "activate"
  /\ users' = IF users[p] = "waiting" /\ Cardinality(Active) <= request[r].cap
              THEN [users EXCEPT ![p] = "active"] ELSE users
  /\ Goto(r, "answered")
  /\ UNCHANGED <<identity, cap, order, jobs, past>>

(* try_activate: one serialized statement counts the active and flips the  *)
(* row if it is still waiting.                                             *)
try_activate(r) ==
  LET p == request[r].person IN
  /\ request[r].pc = "activate"
  /\ users' = IF users[p] = "waiting" /\ Cardinality(Active) < request[r].cap
              THEN [users EXCEPT ![p] = "active"] ELSE users
  /\ Goto(r, "answered")
  /\ UNCHANGED <<identity, cap, order, jobs, past>>

(* The answer, a 403 or a dialog; an active person's run may schedule.     *)
Answer(r) ==
  /\ request[r].pc = "answered"
  /\ request' = [request EXCEPT ![r] = NoRequest]
  /\ jobs' \in IF users[request[r].person] = "active"
               THEN {jobs, jobs \union {request[r].person}} ELSE {jobs}
  /\ UNCHANGED <<users, identity, cap, order, past>>

-----------------------------------------------------------------------------
(* The operator's settings: a new cap demotes nobody.                      *)
set_setting(n) ==
  /\ past.orders < MaxOrders /\ n # cap
  /\ cap' = n
  /\ past' = [past EXCEPT !.orders = @ + 1, !.highest = IF n > @ THEN n ELSE @]
  /\ UNCHANGED <<users, identity, request, order, jobs>>

set_status(p, status) == users' = [users EXCEPT ![p] = status]

(* set_user_status: the status first; a ban goes on to pause the jobs.     *)
set_user_status(p, status) ==
  /\ order = NoOrder /\ past.orders < MaxOrders /\ p \in Known
  /\ set_status(p, status)
  /\ order' = IF status = "banned" THEN [pc |-> "pause", person |-> p] ELSE order
  /\ past' = [past EXCEPT !.orders = @ + 1, !.forced = @ \/ status = "active"]
  /\ UNCHANGED <<identity, request, cap, jobs>>

PauseJobs ==
  /\ order.pc = "pause"
  /\ jobs' = jobs \ {order.person} /\ order' = NoOrder
  /\ UNCHANGED <<users, identity, request, cap, past>>

AdmissionNext ==
  \/ \E r \in Requests : \/ \E a \in Accounts : get_user_id(r, a)
                         \/ resolve(r) \/ create_user(r) \/ resolve_or_create(r)
                         \/ admit(r) \/ ReadCap(r) \/ try_activate(r) \/ Answer(r)
  \/ \E n \in Caps : set_setting(n)
  \/ \E p \in Persons, status \in {"waiting", "active", "banned"} : set_user_status(p, status)
  \/ PauseJobs

AdmissionSpec == AdmissionInit /\ [][AdmissionNext]_admissionVars

-----------------------------------------------------------------------------
(* Every record has its shape and an account is linked to a stored person. *)
AdmissionTypeOK ==
  /\ users \in [Persons -> {Nobody, "waiting", "active", "banned"}]
  /\ \A a \in Accounts : identity[a] \in Known \union {0}
  /\ \A r \in Requests : request[r].pc \in {"idle", "resolve", "create", "link", "admit", "cap",
                                            "activate", "answered"}
  /\ cap \in Caps /\ jobs \subseteq Known

(* resolve_or_create: "Two first messages arriving together must not mint  *)
(* two people ... so both end up on the same person": every request past   *)
(* resolution acts for the person its account is linked to, whatever raced *)
(* with it.                                                                *)
OnePersonPerAccount ==
  \A r \in Requests : request[r].pc \in {"admit", "cap", "activate", "answered"} =>
    request[r].person = identity[request[r].account]

(* try_activate: "this cap is a promise": admissions never fill more slots *)
(* than the highest cap the operator has set, with any number of requests  *)
(* between reading the cap and the activation, unless the operator         *)
(* activated somebody by hand.                                             *)
CapKept == ~past.forced => Cardinality(Active) <= past.highest

(* What each step owes BanStands.                                         *)
BanStandsStep ==
    \A p \in Persons : users[p] = "banned" /\ users'[p] # "banned" =>
      past'.orders > past.orders

(* A ban is only ever lifted by the operator: an activation attempt that   *)
(* read WAITING before the ban does not undo it.                           *)
BanStands == [][BanStandsStep]_admissionVars
=============================================================================
