------------------------------- MODULE Outbox -------------------------------
(***************************************************************************)
(* The delivery outbox of one dialog actor at the grain of its awaits:     *)
(* the queue of pending deliveries, the flush lock that the actor and the  *)
(* tool tasks share, the bounded subscriber queues with their eviction     *)
(* rule, the delivery stamps of the task store, and a restart.             *)
(*                                                                         *)
(* A delivery is the task it reports, or a question (an ask_user notice,   *)
(* which jumps the queue).  Its events are reduced to the ones a full      *)
(* queue treats differently: a critical marker and the terminal that says  *)
(* which delivery it ends, and droppable text.                             *)
(***************************************************************************)
EXTENDS Naturals, Sequences, FiniteSets

CONSTANTS
    Tasks,
    Answers,               \* the tasks that answer an exchange, live; the rest are RUN tasks
    Questions,             \* ask_user questions and notices
    Subscribers,
    SUBSCRIBER_QUEUE_SIZE,
    Outcomes,              \* how a run may end: DONE, FAILED, CANCELLED
    MaxMishaps,            \* failing store writes, restarts and task_delete calls
    MaxAttaches

ASSUME OutboxAssumption ==
    /\ Outcomes \subseteq {"DONE", "FAILED", "CANCELLED"}
    /\ Tasks \cap Questions = {}

VARIABLES
    rows,        \* the task rows: status, blank (an empty result), delivered
    live,        \* _processes: the task's pump has not been terminated
    ended,       \* the runs' terminals: outcome, blank, terminal_accepted
    recovering,  \* undelivered outcomes the startup sweep still has to request
    inbox,       \* the actor's inbox, its termination and flush commands
    pending,     \* _pending_deliveries
    queues,      \* attached subscribers' queues
    flushing,    \* _flush_lock's holder and waiters: what each flusher does
    reached,     \* deliveries whose terminal some queue accepted
    asked,       \* questions put in the outbox since the last start
    deleting,    \* task_delete calls between their read and their write
    used         \* the bounded events so far

outboxVars == <<rows, live, ended, recovering, inbox, pending, queues, flushing,
                reached, asked, deleting, used>>

Flushers == {"actor", "tool"}
Nothing == "none"
Deliveries == Tasks \cup Questions

Row == [status : {"RUNNING", "DONE", "FAILED", "CANCELLED"},
        blank : BOOLEAN, delivered : BOOLEAN]
Item == {"text", "started"} \cup Deliveries
Critical(item) == item # "text"

Running == [status |-> "RUNNING", blank |-> FALSE, delivered |-> FALSE]
Closed == [status |-> "DONE", blank |-> TRUE, delivered |-> FALSE]

(* terminal: the command carries the run's own outcome; a redelivery asked  *)
(* for by recovery carries none and re-reads the row.                       *)
Terminated(t, terminal, row) == [type |-> "terminated", t |-> t, terminal |-> terminal, row |-> row]
_Flush == [type |-> "flush", t |-> Nothing, terminal |-> FALSE,
           row |-> Running]

Attached == {s \in Subscribers : queues[s].on}
Detached == [on |-> FALSE, items |-> <<>>]
Streaming == [status |-> "RUNNING", blank |-> FALSE, accepted |-> FALSE]
Idle == [pc |-> "idle", d |-> Nothing]

(* The dialog has just been picked up; a row an earlier start closed        *)
(* silently is still unstamped.                                             *)
OutboxInit ==
    /\ rows \in {r \in [Tasks -> {Running, Closed}] : \A t \in Tasks \ Answers : r[t] = Running}
    /\ live = {t \in Tasks : rows[t] = Running}
    /\ ended = [t \in Tasks |-> Streaming]
    /\ recovering = Tasks \ live
    /\ inbox = <<>>
    /\ pending = <<>>
    /\ queues \in [Subscribers -> {Detached, [on |-> TRUE, items |-> <<>>]}]
    /\ flushing = [f \in Flushers |-> Idle]
    /\ reached = {}
    /\ asked = {}
    /\ deleting = {}
    /\ used = [mishaps |-> 0, attaches |-> 0]

-----------------------------------------------------------------------------
(* The subscriber queues *)

(* A queue without its i-th item. *)
Without(items, i) == SubSeq(items, 1, i - 1) \o SubSeq(items, i + 1, Len(items))

(* Room for a critical event: the oldest droppable one goes; with none the  *)
(* put is refused and the queue is as it was.                               *)
_evict_and_put(items, item) ==
    LET droppable == {i \in DOMAIN items : ~Critical(items[i])}
        oldest == CHOOSE i \in droppable : \A j \in droppable : i <= j
    IN IF droppable = {}
       THEN [ok |-> FALSE, items |-> items]
       ELSE [ok |-> TRUE,
             items |-> Append(Without(items, oldest), item)]

Put(items, item) ==
    IF Len(items) < SUBSCRIBER_QUEUE_SIZE THEN [ok |-> TRUE, items |-> Append(items, item)]
    ELSE IF Critical(item) THEN _evict_and_put(items, item)
    ELSE [ok |-> FALSE, items |-> items]

(* One event to every attached queue; accepted when some queue took it. *)
_broadcast(now, item) ==
    LET put == [s \in Subscribers |->
                  IF now[s].on THEN Put(now[s].items, item)
                  ELSE [ok |-> FALSE, items |-> now[s].items]]
    IN [accepted |-> \E s \in Subscribers : put[s].ok,
        queues |-> [s \in Subscribers |-> [now[s] EXCEPT !.items = put[s].items]]]

(* A delivery's events in order; only the terminal's acceptance counts. *)
Send(d) ==
    LET started == IF d \in Tasks THEN _broadcast(queues, "started").queues ELSE queues
    IN _broadcast(_broadcast(started, "text").queues, d)

subscribe(s) ==
    /\ ~queues[s].on
    /\ used.attaches < MaxAttaches
    /\ used' = [used EXCEPT !.attaches = @ + 1]
    /\ queues' = [queues EXCEPT ![s] = [on |-> TRUE, items |-> <<>>]]
    /\ inbox' = Append(inbox, _Flush)
    /\ UNCHANGED <<rows, live, ended, recovering, pending, flushing, reached, asked, deleting>>

unsubscribe(s) ==
    /\ queues[s].on
    /\ queues' = [queues EXCEPT ![s] = Detached]
    /\ UNCHANGED <<rows, live, ended, recovering, inbox, pending, flushing, reached, asked, deleting, used>>

(* The transport takes the next event. *)
Consume(s) ==
    /\ queues[s].items # <<>>
    /\ queues' = [queues EXCEPT ![s].items = Tail(@)]
    /\ UNCHANGED <<rows, live, ended, recovering, inbox, pending, flushing, reached, asked, deleting, used>>

(* A live answer run's stream. *)
Chatter ==
    /\ \E t \in live \cap Answers : ended[t] = Streaming
    /\ queues' = _broadcast(queues, "text").queues
    /\ UNCHANGED <<rows, live, ended, recovering, inbox, pending, flushing, reached, asked, deleting, used>>

-----------------------------------------------------------------------------
(* The task store *)

Owed(row) == row.status \in {"DONE", "FAILED"} /\ ~row.delivered

_finish(row, status, blank, delivered) ==
    [status |-> status, blank |-> blank, delivered |-> row.delivered \/ delivered]

mark_delivered(t) == rows' = [rows EXCEPT ![t].delivered = TRUE]

-----------------------------------------------------------------------------
(* The end of a run *)

(* Mutant: a background result is stamped by the write that ends it. *)
CertainAnyway(streamed, blank) == TRUE

_delivery_is_certain(streamed, blank) == blank \/ streamed

(* The loop's terminal: broadcast under the exchange of an answer run,      *)
(* where a Finished or Failed notes whether some subscriber accepted it; a  *)
(* RUN task's terminal is not broadcast.                                    *)
_stream_once(t, status, blank) ==
    LET sent == _broadcast(queues, IF status = "CANCELLED" THEN "started" ELSE t)
        accepted == t \in Answers /\ sent.accepted /\ status # "CANCELLED"
    IN /\ t \in live
       /\ ended[t] = Streaming
       /\ blank => status = "DONE"
       /\ ended' = [ended EXCEPT ![t] = [status |-> status, blank |-> blank, accepted |-> accepted]]
       /\ queues' = IF t \in Answers THEN sent.queues ELSE queues
       /\ reached' = reached \cup (IF accepted THEN {t} ELSE {})
       /\ UNCHANGED <<rows, live, recovering, inbox, pending, flushing, asked, deleting, used>>

(* The outcome is written to the row, with the stamp where delivery is      *)
(* already certain.                                                         *)
_finalize(t) ==
    /\ t \in live
    /\ ended[t] # Streaming
    /\ rows[t].status = "RUNNING"
    /\ rows' = [rows EXCEPT ![t] =
           _finish(@, ended[t].status, ended[t].blank,
                   /\ ended[t].status # "CANCELLED"
                   /\ _delivery_is_certain(ended[t].accepted, ended[t].blank))]
    /\ UNCHANGED <<live, ended, recovering, inbox, pending, queues, flushing, reached, asked, deleting, used>>

(* The process leaves the table and its outcome goes to the actor.  The     *)
(* ProcessCompleted it broadcasts is left out: it is owed to nobody, and as *)
(* a critical event it fills a queue no faster than one more terminal does. *)
_terminate_process(t) ==
    /\ t \in live
    /\ rows[t].status # "RUNNING"
    /\ live' = live \ {t}
    /\ inbox' = Append(inbox, Terminated(t, rows[t].status # "CANCELLED", rows[t]))
    /\ ended' = [ended EXCEPT ![t] = Streaming]
    /\ UNCHANGED <<rows, recovering, pending, queues, flushing, reached, asked, deleting, used>>

(* task_delete read a running row, its process was gone by the time it was  *)
(* to be stopped, and the row is marked cancelled whatever it says now.     *)
DeleteReads(t) ==
    /\ rows[t].status = "RUNNING"
    /\ t \notin deleting
    /\ used.mishaps < MaxMishaps
    /\ used' = [used EXCEPT !.mishaps = @ + 1]
    /\ deleting' = deleting \cup {t}
    /\ UNCHANGED <<rows, live, ended, recovering, inbox, pending, queues, flushing, reached, asked>>

mark_cancelled(t) ==
    /\ t \in deleting \ live
    /\ deleting' = deleting \ {t}
    /\ rows' = [rows EXCEPT ![t] = _finish(@, "CANCELLED", rows[t].blank, FALSE)]
    /\ UNCHANGED <<live, ended, recovering, inbox, pending, queues, flushing, reached, asked, used>>

-----------------------------------------------------------------------------
(* The actor and the outbox *)

_silent_done(row) == row.status = "DONE" /\ row.blank

_enqueue_redelivery(row) == Owed(row)

(* _handle_terminated: the actor takes the command, stamps or queues the    *)
(* outcome, and goes on to flush.  delivered_live is what _finalize wrote   *)
(* as delivered.                                                            *)
_handle_terminated ==
    /\ flushing["actor"] = Idle
    /\ inbox # <<>> /\ Head(inbox).type = "terminated"
    /\ inbox' = Tail(inbox)
    /\ flushing' = [flushing EXCEPT !["actor"].pc = "wait"]
    /\ LET c == Head(inbox)
           row == IF c.terminal THEN c.row ELSE rows[c.t]
           queue == ~_silent_done(row)
                    /\ IF c.terminal THEN ~row.delivered ELSE _enqueue_redelivery(row)
       IN /\ pending' = IF queue THEN Append(pending, c.t) ELSE pending
          /\ IF _silent_done(row) /\ ~row.delivered THEN mark_delivered(c.t) ELSE UNCHANGED rows
    /\ UNCHANGED <<live, ended, recovering, queues, reached, asked, deleting, used>>

FlushCommand ==
    /\ flushing["actor"] = Idle
    /\ inbox # <<>> /\ Head(inbox).type = "flush"
    /\ inbox' = Tail(inbox)
    /\ flushing' = [flushing EXCEPT !["actor"].pc = "wait"]
    /\ UNCHANGED <<rows, live, ended, recovering, pending, queues, reached, asked, deleting, used>>

(* A tool of an answer run asks: the question is persisted, jumps the queue    *)
(* and the tool's own task flushes.                                         *)
_deliver_notice(q) ==
    /\ flushing["tool"] = Idle
    /\ \E t \in live \cap Answers : ended[t] = Streaming
    /\ q \in Questions \ asked
    /\ asked' = asked \cup {q}
    /\ pending' = <<q>> \o pending
    /\ flushing' = [flushing EXCEPT !["tool"].pc = "wait"]
    /\ UNCHANGED <<rows, live, ended, recovering, inbox, queues, reached, deleting, used>>

LockFree == \A f \in Flushers : flushing[f].pc # "mark"

(* Mutant: the delivery is taken off by position. *)
PopLeft(d) == {Tail(pending)}

(* Off the queue by identity: a question may have jumped ahead meanwhile. *)
Removed(d) ==
    LET at == {i \in DOMAIN pending : pending[i] = d}
    IN IF at = {} THEN {pending}
       ELSE {Without(pending, i) : i \in {i \in at : \A j \in at : i <= j}}

(* One turn of the flush loop up to its await: nothing to send or nobody to *)
(* send to ends it, a terminal no queue took ends it with the delivery      *)
(* still queued; otherwise the stamp is awaited.  A question has no task    *)
(* to stamp and leaves at once.                                             *)
FlushTurn(f) ==
    /\ flushing[f].pc = "wait"
    /\ LockFree
    /\ IF pending = <<>> \/ Attached = {}
       THEN /\ flushing' = [flushing EXCEPT ![f] = Idle]
            /\ UNCHANGED <<pending, queues, reached>>
       ELSE LET d == Head(pending)
                sent == Send(d)
            IN /\ queues' = sent.queues
               /\ reached' = reached \cup (IF sent.accepted THEN {d} ELSE {})
               /\ pending' = IF sent.accepted /\ d \notin Tasks THEN Tail(pending) ELSE pending
               /\ flushing' = [flushing EXCEPT ![f] =
                     IF ~sent.accepted THEN Idle
                     ELSE IF d \notin Tasks THEN @
                     ELSE [pc |-> "mark", d |-> d]]
    /\ UNCHANGED <<rows, live, ended, recovering, inbox, asked, deleting, used>>

(* The stamp is written, the delivery leaves the queue, the loop goes on. *)
FlushMarked(f) ==
    /\ flushing[f].pc = "mark"
    /\ mark_delivered(flushing[f].d)
    /\ pending' \in Removed(flushing[f].d)
    /\ flushing' = [flushing EXCEPT ![f] = [pc |-> "wait", d |-> Nothing]]
    /\ UNCHANGED <<live, ended, recovering, inbox, queues, reached, asked, deleting, used>>

(* The write fails: the flush ends with the delivery still queued. *)
FlushFails(f) ==
    /\ flushing[f].pc = "mark"
    /\ used.mishaps < MaxMishaps
    /\ used' = [used EXCEPT !.mishaps = @ + 1]
    /\ flushing' = [flushing EXCEPT ![f] = Idle]
    /\ UNCHANGED <<rows, live, ended, recovering, inbox, pending, queues, reached, asked, deleting>>

-----------------------------------------------------------------------------
(* Restart *)

list_for_recovery(now) == {t \in Tasks : Owed(now[t])}

(* The process dies with its memory; the next one's recovery lists the      *)
(* undelivered outcomes and restarts the orphaned tasks, closing with an    *)
(* empty result a run that died after asking: its question waits for the    *)
(* user.                                                                    *)
Restart(closed) ==
    /\ used.mishaps < MaxMishaps
    /\ \A t \in closed : rows[t] = Running /\ asked # {}
    /\ used' = [used EXCEPT !.mishaps = @ + 1]
    /\ rows' = [t \in Tasks |-> IF t \in closed THEN Closed ELSE rows[t]]
    /\ live' = {t \in Tasks \ closed : rows[t].status = "RUNNING"}
    /\ ended' = [t \in Tasks |-> Streaming]
    /\ recovering' = list_for_recovery(rows)
    /\ inbox' = <<>>
    /\ pending' = <<>>
    /\ queues' = [s \in Subscribers |-> Detached]
    /\ flushing' = [f \in Flushers |-> Idle]
    /\ asked' = {}
    /\ deleting' = {}
    /\ UNCHANGED reached

request_result_delivery(t) ==
    /\ t \in recovering
    /\ recovering' = recovering \ {t}
    /\ inbox' = Append(inbox, Terminated(t, FALSE, Running))
    /\ UNCHANGED <<rows, live, ended, pending, queues, flushing, reached, asked, deleting, used>>

OutboxNext ==
    \/ \E s \in Subscribers : subscribe(s) \/ unsubscribe(s) \/ Consume(s)
    \/ Chatter
    \/ \E t \in Tasks : \/ \E status \in Outcomes, blank \in BOOLEAN :
                              _stream_once(t, status, blank)
                        \/ request_result_delivery(t)
                        \/ _finalize(t) \/ _terminate_process(t) \/ DeleteReads(t) \/ mark_cancelled(t)
    \/ _handle_terminated \/ FlushCommand
    \/ \E q \in Questions : _deliver_notice(q)
    \/ \E f \in Flushers : FlushTurn(f) \/ FlushMarked(f) \/ FlushFails(f)
    \/ \E closed \in SUBSET Answers : Restart(closed)

OutboxSpec == OutboxInit /\ [][OutboxNext]_outboxVars

-----------------------------------------------------------------------------
OutboxTypeOK ==
    /\ rows \in [Tasks -> Row]
    /\ live \subseteq Tasks
    /\ recovering \subseteq Tasks
    /\ \A i \in DOMAIN inbox : inbox[i].t \in Tasks \cup {Nothing}
    /\ \A i \in DOMAIN pending : pending[i] \in Deliveries
    /\ \A s \in Subscribers : /\ Len(queues[s].items) <= SUBSCRIBER_QUEUE_SIZE
                              /\ \A i \in DOMAIN queues[s].items : queues[s].items[i] \in Item
    /\ \A f \in Flushers : flushing[f].pc \in {"idle", "wait", "mark"}
    /\ reached \subseteq Deliveries
    /\ asked \subseteq Questions
    /\ deleting \subseteq Tasks

(* A finished outcome nobody has been shown is on its way: its process is   *)
(* about to hand it over, its command is in the inbox or it waits in the    *)
(* outbox - through failing stamps, refused queues and a question that      *)
(* jumps ahead while a stamp is awaited.                                    *)
OwedIsQueued ==
    \A t \in Tasks :
        Owed(rows[t]) /\ ~rows[t].blank =>
                         \/ t \in live \cup recovering
                         \/ \E i \in DOMAIN inbox : inbox[i].t = t
                         \/ \E i \in DOMAIN pending : pending[i] = t

(* A question of a live run is in the outbox until some subscriber has      *)
(* accepted it: "a blind popleft would silently drop that question".        *)
QuestionKept ==
    \A q \in asked : q \in reached \/ \E i \in DOMAIN pending : pending[i] = q

(* Nothing the user is to see is lost on the way: what is owed is queued,   *)
(* and what was asked is kept until it is shown.                            *)
NothingOwedIsLost == OwedIsQueued /\ QuestionKept

(* What a subscriber has accepted stays in its queue until it takes it or   *)
(* leaves: an earlier terminal is never evicted for a later one             *)
(* (_evict_and_put).  On a queue with nothing but terminals the later one   *)
(* is refused and stays owed, although _broadcast's docstring says of a     *)
(* critical event that it "always lands".                                   *)
AcceptedStaysStep ==
    \A s \in Subscribers : \A d \in Deliveries :
       LET Held(items) == Cardinality({i \in DOMAIN items : items[i] = d})
       IN Held(queues'[s].items) < Held(queues[s].items)
          => \/ Head(queues[s].items) = d /\ queues'[s].items = Tail(queues[s].items)
             \/ ~queues'[s].on

(* What the abstract delivery sees of the outbox. *)
Promise == INSTANCE Delivery
    WITH owed <- {t \in Tasks : rows[t].status \in {"DONE", "FAILED"} /\ ~rows[t].blank},
         reached <- reached \cap Tasks,
         stamped <- {t \in Tasks : rows[t].delivered /\ ~rows[t].blank}

(* The outbox implements the abstract delivery: an outcome is stamped only  *)
(* after some subscriber accepted it, and a stamp is never taken back.      *)
ImplementsDelivery == Promise!Spec
=============================================================================
