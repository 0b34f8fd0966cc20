------------------------------ MODULE Retention ------------------------------
(***************************************************************************)
(* The age-based sweep a node runs once at startup                         *)
(* (retention_sweep.py), over one dialog's messages, its exchanges, its    *)
(* tasks and the usage ledger, while other nodes keep serving.  The sweep  *)
(* is four transactions in a fixed order; a database that enforces         *)
(* tasks.exchange_id (fk) refuses to delete an exchange a task still       *)
(* names, and the refusal ends the sweep.                                  *)
(***************************************************************************)
EXTENDS Integers, FiniteSets, TLC

CONSTANTS
  Exchanges,     \* ids of exchange rows
  Tasks,         \* ids of task rows
  Limited,       \* the sets of tables an operator may have set a limit for
  MaxMessages,   \* messages the dialog may hold
  MaxElsewhere   \* bound on the steps of the other nodes

VARIABLES
  fk,         \* whether the database enforces foreign keys (PostgreSQL)
  env,        \* OF_RETENTION_*_DAYS as configured, by table
  messages,   \* seq -> age in days, of the stored messages
  boundary,   \* the highest seq_to of the dialog's summaries
  exchanges,  \* id -> [settled, age]
  tasks,      \* id -> [exchange, delivered, age]
  usage,      \* ages of the usage events
  last,       \* the highest seq ever written
  pc,         \* the sweep's next transaction
  elsewhere   \* steps other nodes took

vars == <<fk, env, messages, boundary, exchanges, tasks, usage, last, pc, elsewhere>>

None == -1
NO_COMPACTED_SEQ == 0
Days == 2                  \* a configured limit
Ages == {0, 3}             \* rows written today and rows past the limit
Tables == {"messages", "exchanges", "tasks", "usage"}
Without(f, gone) == [x \in DOMAIN f \ gone |-> f[x]]

(* The configured 0 reads as "keep forever". *)
retention_policy == [t \in Tables |-> IF env[t] = 0 THEN None ELSE env[t]]

enabled == \E t \in Tables : retention_policy[t] # None

(* Whether a row of the table is old enough to go; never when unlimited.   *)
(* A row of today is still older than the moment the sweep runs.           *)
Expired(t, age) == retention_policy[t] # None /\ (age > retention_policy[t] \/ retention_policy[t] = 0)

(* What a restarting runner reloads as its narrative. *)
list_hot_slice == {s \in DOMAIN messages : s > boundary}

(* The rows of every table before the sweep: some exchanges and tasks are  *)
(* absent, and a run's task is younger than the exchange it pays for.      *)
Init ==
  /\ fk \in BOOLEAN
  /\ env \in {[t \in Tables |-> IF t \in set THEN Days ELSE 0] : set \in Limited}
  /\ last = 2
  /\ messages \in {[s \in 1..2 |-> 3], (1 :> 3) @@ (2 :> 0)}
  /\ boundary \in {NO_COMPACTED_SEQ, 1}
  /\ exchanges \in UNION {[S -> [settled : BOOLEAN, age : Ages]] : S \in SUBSET Exchanges}
  /\ tasks \in UNION {[S -> [exchange : DOMAIN exchanges \cup {None}, delivered : BOOLEAN, age : Ages]] :
                        S \in {{CHOOSE t \in Tasks : TRUE}, {}}}
  /\ usage = Ages
  /\ pc = "start"
  /\ elsewhere = 0

-----------------------------------------------------------------------------
(* The startup step: nothing runs under the default policy. *)
_sweep_retention ==
  /\ pc = "start"
  /\ pc' = IF enabled THEN "messages" ELSE "off"
  /\ UNCHANGED <<fk, env, messages, boundary, exchanges, tasks, usage, last, elsewhere>>

(* Old messages that already live behind a summary. *)
_sweep_messages ==
  /\ pc = "messages"
  /\ messages' = Without(messages, {s \in DOMAIN messages :
                                      Expired("messages", messages[s]) /\ s <= boundary})
  /\ pc' = "exchanges"
  /\ UNCHANGED <<fk, env, boundary, exchanges, tasks, usage, last, elsewhere>>

Settled == {e \in DOMAIN exchanges : exchanges[e].settled /\ Expired("exchanges", exchanges[e].age)}
Named(es) == \E t \in DOMAIN tasks : tasks[t].exchange \in es

(* Old settled exchanges; the whole statement is refused when a task names *)
(* one of them, and _sweep_retention then starts without the rest.         *)
_sweep_exchanges ==
  /\ pc = "exchanges"
  /\ exchanges' = Without(exchanges, IF fk /\ Named(Settled) THEN {} ELSE Settled)
  /\ pc' = IF fk /\ Named(Settled) THEN "failed" ELSE "tasks"
  /\ UNCHANGED <<fk, env, messages, boundary, tasks, usage, last, elsewhere>>

(* Old tasks whose result already reached the user. *)
_sweep_tasks ==
  /\ pc = "tasks"
  /\ tasks' = Without(tasks, {t \in DOMAIN tasks : tasks[t].delivered /\ Expired("tasks", tasks[t].age)})
  /\ pc' = "usage"
  /\ UNCHANGED <<fk, env, messages, boundary, exchanges, usage, last, elsewhere>>

_sweep_usage ==
  /\ pc = "usage"
  /\ usage' = {age \in usage : ~Expired("usage", age)}
  /\ pc' = "done"
  /\ UNCHANGED <<fk, env, messages, boundary, exchanges, tasks, last, elsewhere>>

-----------------------------------------------------------------------------
(* The other nodes, at any moment of the sweep. *)
Elsewhere == elsewhere < MaxElsewhere /\ elsewhere' = elsewhere + 1 /\ UNCHANGED <<fk, env, usage, pc>>

append ==
  /\ Elsewhere /\ last < MaxMessages
  /\ last' = last + 1
  /\ messages' = [s \in DOMAIN messages \cup {last + 1} |-> IF s = last + 1 THEN 0 ELSE messages[s]]
  /\ UNCHANGED <<boundary, exchanges, tasks>>

(* A compaction stores a summary that reaches further. *)
summaries_create ==
  /\ Elsewhere
  /\ boundary' \in boundary + 1 .. last
  /\ UNCHANGED <<messages, exchanges, tasks, last>>

Settle(e) ==
  /\ Elsewhere /\ ~exchanges[e].settled
  /\ exchanges' = [exchanges EXCEPT ![e].settled = TRUE]
  /\ UNCHANGED <<messages, boundary, tasks, last>>

StartRun(t, e) ==
  /\ Elsewhere /\ t \notin DOMAIN tasks /\ ~exchanges[e].settled
  /\ tasks' = [x \in DOMAIN tasks \cup {t} |->
                 IF x = t THEN [exchange |-> e, delivered |-> FALSE, age |-> 0] ELSE tasks[x]]
  /\ UNCHANGED <<messages, boundary, exchanges, last>>

mark_delivered(t) ==
  /\ Elsewhere /\ ~tasks[t].delivered
  /\ tasks' = [tasks EXCEPT ![t].delivered = TRUE]
  /\ UNCHANGED <<messages, boundary, exchanges, last>>

Next ==
  \/ _sweep_retention \/ _sweep_messages \/ _sweep_exchanges \/ _sweep_tasks \/ _sweep_usage
  \/ append \/ summaries_create
  \/ \E e \in DOMAIN exchanges : Settle(e)
  \/ \E t \in Tasks, e \in DOMAIN exchanges : StartRun(t, e)
  \/ \E t \in DOMAIN tasks : mark_delivered(t)

Spec == Init /\ [][Next]_vars
-----------------------------------------------------------------------------
(* Types. *)
RetentionTypeOK ==
  /\ DOMAIN messages \subseteq 1..MaxMessages /\ boundary \in 0..last /\ last <= MaxMessages
  /\ DOMAIN exchanges \subseteq Exchanges /\ DOMAIN tasks \subseteq Tasks
  /\ \A t \in DOMAIN tasks : tasks[t].exchange \in Exchanges \cup {None}
  /\ pc \in Tables \cup {"start", "off", "done", "failed"}

(* Every message past the compaction boundary is still stored, whatever    *)
(* its age and however compactions and appends on other nodes fall between *)
(* the transactions: a restarting runner reloads an unchanged narrative.   *)
NarrativeWhole == list_hot_slice = boundary + 1 .. last

(* Without a message limit the transcript loses no row, even when another  *)
(* table's limit makes the sweep run: the configured 0 is "keep forever".  *)
(* Today's usage, which the limit checks read, survives every limit.       *)
UnsetKeepsAll ==
  /\ env["messages"] = 0 => DOMAIN messages = 1..last
  /\ 0 \in usage

(* A sweep that ran to its end removed everything its limits allowed of    *)
(* what only time could change: no event past its limit, and no expired    *)
(* message, exchange or task unless another node moved meanwhile.  The     *)
(* message at the boundary itself, which the summary covers, goes with the *)
(* older ones (seq <= boundary), where the module's text keeps it.         *)
DoneMeansSwept ==
  pc = "done" =>
    /\ \A age \in usage : ~Expired("usage", age)
    /\ elsewhere = 0 =>
         /\ Settled = {}
         /\ \A t \in DOMAIN tasks : tasks[t].delivered => ~Expired("tasks", tasks[t].age)
         /\ \A s \in DOMAIN messages : s <= boundary => ~Expired("messages", messages[s])

(* A sweep fails only where the database enforces the link and a task      *)
(* still names an exchange past its limit; a task never names a missing    *)
(* exchange on such a database.                                            *)
RefusalIsReferenced ==
  /\ pc = "failed" => fk /\ Named(Settled)
  /\ fk => \A t \in DOMAIN tasks : tasks[t].exchange \in DOMAIN exchanges \cup {None}

(* What each step owes OwedKept.                                          *)
OwedKeptStep ==
    /\ \A e \in DOMAIN exchanges : exchanges[e].settled \/ e \in DOMAIN exchanges'
    /\ \A t \in DOMAIN tasks : tasks[t].delivered \/ t \in DOMAIN tasks'

(* No step removes a live exchange or a task whose result has not reached  *)
(* the user, although either may settle or be delivered between two        *)
(* transactions of the sweep.                                              *)
OwedKept == [][OwedKeptStep]_vars
=============================================================================
