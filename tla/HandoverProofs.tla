--------------------------- MODULE HandoverProofs ---------------------------
(***************************************************************************)
(* Two places where what one coroutine made must reach another, proved for *)
(* every value of the constants.                                           *)
(*                                                                         *)
(* The outbox implements Delivery, for any tasks, questions, subscribers,  *)
(* queue size and bounds. No future of the embedding cache is orphaned and *)
(* no text is computed twice at once, for any callers, requests, capacity  *)
(* and mishaps.                                                            *)
(***************************************************************************)
EXTENDS Outbox, EmbeddingCache, TLAPS

-----------------------------------------------------------------------------
(* Outbox *)

Ending == [status : {"RUNNING", "DONE", "FAILED", "CANCELLED"},
           blank : BOOLEAN, accepted : BOOLEAN]
Flusher == [pc : {"idle", "wait", "mark"}, d : Deliveries \cup {Nothing}]
Command == [type : {"terminated", "flush"}, t : Tasks \cup {Nothing},
            terminal : BOOLEAN, row : Row]

(* A termination command names a task; the one that carries an outcome has  *)
(* a finished row, as blank as the copy in the command.                     *)
InboxOK(box, table) ==
    /\ box \in Seq(Command)
    /\ \A i \in 1..Len(box) :
          box[i].type = "terminated" =>
             /\ box[i].t \in Tasks
             /\ box[i].terminal => /\ table[box[i].t].status # "RUNNING"
                                   /\ box[i].row.blank = table[box[i].t].blank

(* Only finished tasks are in the outbox. *)
QueueOK(q, table) ==
    /\ q \in Seq(Deliveries)
    /\ \A i \in 1..Len(q) : q[i] \in Tasks => table[q[i]].status # "RUNNING"

(* What the simulation needs to know of the state: a terminal noted as       *)
(* accepted and a delivery whose stamp is awaited have both reached a queue, *)
(* and only finished tasks are queued or stamped.                            *)
Simulation ==
    /\ rows \in [Tasks -> Row]
    /\ ended \in [Tasks -> Ending]
    /\ flushing \in [Flushers -> Flusher]
    /\ recovering \subseteq Tasks
    /\ InboxOK(inbox, rows)
    /\ QueueOK(pending, rows)
    /\ \A t \in Tasks : ended[t].accepted => t \in reached
    /\ \A t \in Tasks : ended[t].status = "RUNNING" => ended[t] = Streaming
    /\ \A t \in Tasks : rows[t].status = "RUNNING" => ~rows[t].delivered /\ ~rows[t].blank
    /\ \A f \in Flushers : flushing[f].pc = "mark" =>
          flushing[f].d \in reached \cap Tasks /\ rows[flushing[f].d].status # "RUNNING"

-----------------------------------------------------------------------------
(* Two queues in a row. *)
LEMMA InARow ==
    ASSUME NEW S, NEW a \in Seq(S), NEW b \in Seq(S)
    PROVE  /\ a \o b \in Seq(S) /\ Len(a \o b) = Len(a) + Len(b)
           /\ \A i \in 1..(Len(a) + Len(b)) :
                 (a \o b)[i] = IF i <= Len(a) THEN a[i] ELSE b[i - Len(a)]
BY SMTT(60)

(* Taking a delivery off the queue leaves only what was in it. *)
LEMMA RemovedFrom ==
    ASSUME NEW d, NEW q \in Removed(d), pending \in Seq(Deliveries)
    PROVE  /\ q \in Seq(Deliveries)
           /\ \A i \in 1..Len(q) : \E j \in 1..Len(pending) : q[i] = pending[j]
<1>1. CASE q = pending
    BY <1>1
<1>2. CASE q # pending
    <2>1. PICK k \in 1..Len(pending) : q = Without(pending, k)
        BY <1>2 DEF Removed
    <2> DEFINE a == SubSeq(pending, 1, k - 1)
               b == SubSeq(pending, k + 1, Len(pending))
    <2>2. q = a \o b
        BY <2>1 DEF Without
    <2>3. /\ a \in Seq(Deliveries) /\ b \in Seq(Deliveries)
          /\ Len(a) = k - 1 /\ Len(b) = Len(pending) - k
          /\ \A i \in 1..(k - 1) : a[i] = pending[i]
          /\ \A i \in 1..(Len(pending) - k) : b[i] = pending[k + i]
        BY SMTT(60)
    <2> HIDE DEF a, b
    <2>4. q \in Seq(Deliveries) /\ Len(q) = Len(pending) - 1
        <3>1. Len(pending) \in Nat
            BY SMTT(60)
        <3>2. a \o b \in Seq(Deliveries) /\ Len(a \o b) = Len(a) + Len(b)
            BY <2>3, InARow, ZenonT(60)
        <3> QED
            BY <2>2, <2>3, <3>1, <3>2, SMTT(60)
    <2>5. ASSUME NEW i \in 1..Len(q)
          PROVE  \E j \in 1..Len(pending) : q[i] = pending[j]
        <3>1. CASE i <= Len(a)
            <4>1. q[i] = a[i] /\ i \in 1..(k - 1)
                BY <2>2, <2>3, <2>4, <3>1, SMTT(60)
            <4> QED
                BY <4>1, <2>3
        <3>2. CASE i > Len(a)
            <4>1. q[i] = b[i - Len(a)] /\ i - Len(a) \in 1..(Len(pending) - k)
                BY <2>2, <2>3, <2>4, <3>2, SMTT(60)
            <4>2. q[i] = pending[k + (i - Len(a))] /\ k + (i - Len(a)) \in 1..Len(pending)
                BY <4>1, <2>3, <2>4, SMTT(60)
            <4> QED
                BY <4>2
        <3> QED
            BY <3>1, <3>2, <2>3, <2>4, SMTT(60)
    <2> QED
        BY <2>4, <2>5
<1> QED
    BY <1>1, <1>2

LEMMA SimulationInit == OutboxInit => Simulation
<1> SUFFICES ASSUME OutboxInit PROVE Simulation
    OBVIOUS
<1> USE DEF OutboxInit
<1>1. /\ rows \in [Tasks -> Row]
      /\ \A t \in Tasks : rows[t].status = "RUNNING" => ~rows[t].delivered /\ ~rows[t].blank
    <2>1. rows \in [Tasks -> {Running, Closed}]
        OBVIOUS
    <2>2. Running \in Row /\ Closed \in Row
        BY DEF Row, Running, Closed
    <2>3. Closed.status # "RUNNING" /\ ~Running.delivered /\ ~Running.blank
        BY DEF Running, Closed
    <2> QED
        BY <2>1, <2>2, <2>3, SMTT(60)
<1>2. ended \in [Tasks -> Ending] /\ \A t \in Tasks : ~ended[t].accepted /\ ended[t] = Streaming
    BY DEF Ending, Streaming
<1>3. flushing \in [Flushers -> Flusher] /\ \A f \in Flushers : flushing[f].pc # "mark"
    BY DEF Flusher, Idle, Nothing
<1>4. inbox \in Seq(Command) /\ pending \in Seq(Deliveries) /\ Len(inbox) = 0 /\ Len(pending) = 0
    OBVIOUS
<1>5. recovering \subseteq Tasks
    OBVIOUS
<1> HIDE DEF OutboxInit
<1> QED
    BY <1>1, <1>2, <1>3, <1>4, <1>5, SMTT(60) DEF Simulation, InboxOK, QueueOK

-----------------------------------------------------------------------------
LEMMA InboxGrows ==
    ASSUME NEW box, NEW table, InboxOK(box, table), NEW c \in Command,
           c.type = "terminated" =>
             /\ c.t \in Tasks
             /\ c.terminal => /\ table[c.t].status # "RUNNING"
                              /\ c.row.blank = table[c.t].blank
    PROVE  InboxOK(Append(box, c), table)
<1>1. box \in Seq(Command)
    BY DEF InboxOK
<1>2. /\ Append(box, c) \in Seq(Command)
      /\ Len(Append(box, c)) = Len(box) + 1
      /\ \A i \in 1..Len(box) : Append(box, c)[i] = box[i]
      /\ Append(box, c)[Len(box) + 1] = c
    BY <1>1
<1>3. \A i \in 1..(Len(box) + 1) : i \in 1..Len(box) \/ i = Len(box) + 1
    BY <1>1
<1> QED
    BY <1>2, <1>3, SMTT(60) DEF InboxOK

LEMMA InboxShrinks ==
    ASSUME NEW box, NEW table, InboxOK(box, table), box # <<>>
    PROVE  InboxOK(Tail(box), table)
<1>1. box \in Seq(Command)
    BY DEF InboxOK
<1>2. /\ Tail(box) \in Seq(Command)
      /\ Len(Tail(box)) = Len(box) - 1
      /\ \A i \in 1..(Len(box) - 1) : Tail(box)[i] = box[i + 1]
      /\ \A i \in 1..(Len(box) - 1) : i + 1 \in 1..Len(box)
    BY <1>1
<1> QED
    BY <1>2 DEF InboxOK

LEMMA QueueGrows ==
    ASSUME NEW q, NEW table, QueueOK(q, table), NEW d \in Deliveries,
           d \in Tasks => table[d].status # "RUNNING"
    PROVE  QueueOK(Append(q, d), table) /\ QueueOK(<<d>> \o q, table)
<1>1. q \in Seq(Deliveries)
    BY DEF QueueOK
<1>2. /\ Append(q, d) \in Seq(Deliveries)
      /\ Len(Append(q, d)) = Len(q) + 1
      /\ \A i \in 1..Len(q) : Append(q, d)[i] = q[i]
      /\ Append(q, d)[Len(q) + 1] = d
    BY <1>1
<1>3. \A i \in 1..(Len(q) + 1) : i \in 1..Len(q) \/ i = Len(q) + 1
    BY <1>1
<1>4. QueueOK(Append(q, d), table)
    BY <1>2, <1>3, SMTT(60) DEF QueueOK
<1>5. <<d>> \in Seq(Deliveries) /\ Len(<<d>>) = 1 /\ <<d>>[1] = d
    OBVIOUS
<1>6. /\ <<d>> \o q \in Seq(Deliveries)
      /\ Len(<<d>> \o q) = Len(<<d>>) + Len(q)
      /\ \A i \in 1..(Len(<<d>>) + Len(q)) :
            (<<d>> \o q)[i] = IF i <= Len(<<d>>) THEN <<d>>[i] ELSE q[i - Len(<<d>>)]
    BY <1>1, <1>5, InARow, ZenonT(60)
<1>7. \A i \in 1..(1 + Len(q)) : i = 1 \/ (~(i <= 1) /\ i - 1 \in 1..Len(q))
    BY <1>1
<1>8. ASSUME NEW i \in 1..Len(<<d>> \o q)
      PROVE  (<<d>> \o q)[i] = d \/ \E j \in 1..Len(q) : (<<d>> \o q)[i] = q[j]
    BY <1>5, <1>6, <1>7, SMTT(60)
<1>9. QueueOK(<<d>> \o q, table)
    BY <1>6, <1>8 DEF QueueOK
<1> QED
    BY <1>4, <1>9

LEMMA QueueShrinks ==
    ASSUME NEW q, NEW table, QueueOK(q, table), q # <<>>
    PROVE  QueueOK(Tail(q), table) /\ (Head(q) \in Tasks => table[Head(q)].status # "RUNNING")
<1>1. q \in Seq(Deliveries)
    BY DEF QueueOK
<1>2. /\ Tail(q) \in Seq(Deliveries)
      /\ Len(Tail(q)) = Len(q) - 1
      /\ \A i \in 1..(Len(q) - 1) : Tail(q)[i] = q[i + 1]
      /\ \A i \in 1..(Len(q) - 1) : i + 1 \in 1..Len(q)
      /\ Head(q) = q[1] /\ 1 \in 1..Len(q)
    BY <1>1
<1> QED
    BY <1>2 DEF QueueOK

(* The rows keep their blanks and never run again: inbox and outbox stay OK. *)
LEMMA TableMoves ==
    ASSUME NEW box, NEW q, NEW table, NEW now, InboxOK(box, table), QueueOK(q, table),
           \A t \in Tasks : table[t].status # "RUNNING" =>
               now[t].status # "RUNNING" /\ now[t].blank = table[t].blank
    PROVE  InboxOK(box, now) /\ QueueOK(q, now)
BY DEF InboxOK, QueueOK

LEMMA SimulationStep ==
    ASSUME Simulation, [OutboxNext]_outboxVars
    PROVE  Simulation'
<1> USE DEF Simulation
<1>1. CASE UNCHANGED <<rows, ended, flushing, recovering, inbox, pending, reached>>
    BY <1>1, ZenonT(60) DEF InboxOK, QueueOK
<1>2. ASSUME NEW s \in Subscribers, subscribe(s) PROVE Simulation'
    <2>1. _Flush \in Command /\ _Flush.type # "terminated"
        BY DEF _Flush, Command, Running, Row, Nothing
    <2>2. InboxOK(inbox', rows)
        BY <1>2, <2>1, InboxGrows, SMTT(60) DEF subscribe
    <2> QED
        BY <1>2, <2>2, SMTT(60) DEF subscribe
<1>3. ASSUME NEW t \in Tasks, request_result_delivery(t) PROVE Simulation'
    <2>1. /\ Terminated(t, FALSE, Running) \in Command
          /\ Terminated(t, FALSE, Running).t = t /\ ~Terminated(t, FALSE, Running).terminal
        BY DEF Terminated, Command, Running, Row
    <2>2. InboxOK(inbox', rows)
        BY <1>3, <2>1, InboxGrows, ZenonT(60) DEF request_result_delivery
    <2> QED
        BY <1>3, <2>2, ZenonT(60) DEF request_result_delivery
<1>4. ASSUME NEW t \in Tasks, NEW status \in Outcomes, NEW blank \in BOOLEAN,
             _stream_once(t, status, blank)
      PROVE  Simulation'
    <2> DEFINE e == ended'[t]
    <2>1. PICK accepted \in BOOLEAN :
             /\ ended' = [ended EXCEPT ![t] = [status |-> status, blank |-> blank, accepted |-> accepted]]
             /\ reached' = reached \cup (IF accepted THEN {t} ELSE {})
        BY <1>4, ZenonT(60) DEF _stream_once
    <2>2. [status |-> status, blank |-> blank, accepted |-> accepted] \in Ending
        BY OutboxAssumption DEF Ending
    <2>3. ended' \in [Tasks -> Ending]
        BY <2>1, <2>2
    <2>4. \A u \in Tasks : ended'[u].accepted => u \in reached'
        BY <2>1
    <2>5. status # "RUNNING"
        BY OutboxAssumption
    <2>6. \A u \in Tasks : ended'[u].status = "RUNNING" => ended'[u] = Streaming
        BY <2>1, <2>5, SMTT(60)
    <2>7. UNCHANGED <<rows, flushing, recovering, inbox, pending>>
        BY <1>4, ZenonT(60) DEF _stream_once
    <2>8. reached \subseteq reached'
        BY <2>1, SMTT(60)
    <2> QED
        BY <2>3, <2>4, <2>6, <2>7, <2>8
<1>5. ASSUME NEW t \in Tasks, _finalize(t) PROVE Simulation'
    <2> DEFINE r == rows'[t]
    <2>1. PICK delivered \in BOOLEAN :
             rows' = [rows EXCEPT ![t] =
                        [status |-> ended[t].status, blank |-> ended[t].blank, delivered |-> delivered]]
        BY <1>5, ZenonT(60) DEF _finalize, _finish, _delivery_is_certain, Row, Ending
    <2>2. [status |-> ended[t].status, blank |-> ended[t].blank, delivered |-> delivered] \in Row
        BY DEF Row, Ending
    <2>3. rows' \in [Tasks -> Row]
        BY <2>1, <2>2
    <2>4. ended[t].status # "RUNNING" /\ rows[t].status = "RUNNING"
        BY <1>5 DEF _finalize
    <2>5. \A u \in Tasks : rows'[u].status = "RUNNING" => rows'[u] = rows[u]
        BY <2>1, <2>4
    <2>6. \A u \in Tasks : rows[u].status # "RUNNING" => rows'[u] = rows[u]
        BY <2>1, <2>4, SMTT(60)
    <2>7. UNCHANGED <<ended, flushing, recovering, inbox, pending, reached>>
        BY <1>5, SMTT(60) DEF _finalize
    <2>8. InboxOK(inbox, rows') /\ QueueOK(pending, rows')
        BY <2>6, TableMoves, SMTT(60)
    <2> QED
        BY <2>3, <2>5, <2>6, <2>7, <2>8, ZenonT(60)
<1>6. ASSUME NEW t \in Tasks, _terminate_process(t) PROVE Simulation'
    <2> DEFINE c == Terminated(t, rows[t].status # "CANCELLED", rows[t])
    <2>1. /\ c \in Command /\ c.t = t /\ c.row = rows[t]
        BY ZenonT(60) DEF Terminated, Command
    <2>2. rows[t].status # "RUNNING" /\ inbox' = Append(inbox, c)
        BY <1>6 DEF _terminate_process
    <2> HIDE DEF c
    <2>3. InboxOK(inbox', rows)
        BY <2>1, <2>2, InboxGrows, SMTT(60)
    <2>4. Streaming \in Ending /\ ~Streaming.accepted
        BY DEF Streaming, Ending
    <2>5. ended' = [ended EXCEPT ![t] = Streaming] /\ UNCHANGED <<rows, flushing, recovering, pending, reached>>
        BY <1>6 DEF _terminate_process
    <2>6. /\ ended' \in [Tasks -> Ending]
          /\ \A u \in Tasks : ended'[u].accepted => u \in reached
          /\ \A u \in Tasks : ended'[u].status = "RUNNING" => ended'[u] = Streaming
        BY <2>4, <2>5, SMTT(60)
    <2> QED
        BY <2>3, <2>5, <2>6, SMTT(60)
<1>7. ASSUME NEW t \in Tasks, mark_cancelled(t) PROVE Simulation'
    <2>1. rows' = [rows EXCEPT ![t] = [status |-> "CANCELLED", blank |-> rows[t].blank,
                                       delivered |-> rows[t].delivered]]
        BY <1>7, ZenonT(60) DEF mark_cancelled, _finish, Row
    <2>2. [status |-> "CANCELLED", blank |-> rows[t].blank, delivered |-> rows[t].delivered] \in Row
        BY DEF Row
    <2>3. rows' \in [Tasks -> Row]
        BY <2>1, <2>2
    <2>4. \A u \in Tasks : /\ rows'[u].status = "RUNNING" => rows'[u] = rows[u]
                           /\ rows[u].status # "RUNNING" =>
                                rows'[u].status # "RUNNING" /\ rows'[u].blank = rows[u].blank
        BY <2>1
    <2>5. UNCHANGED <<ended, flushing, recovering, inbox, pending, reached>>
        BY <1>7 DEF mark_cancelled
    <2>6. InboxOK(inbox, rows') /\ QueueOK(pending, rows')
        BY <2>4, TableMoves, SMTT(60)
    <2> QED
        BY <2>3, <2>4, <2>5, <2>6, SMTT(60)
<1>8. CASE _handle_terminated
    <2> DEFINE c == Head(inbox)
               row == IF c.terminal THEN c.row ELSE rows[c.t]
    <2>1. /\ inbox # <<>> /\ c.type = "terminated" /\ inbox' = Tail(inbox)
          /\ flushing' = [flushing EXCEPT !["actor"].pc = "wait"]
          /\ UNCHANGED <<ended, recovering, reached>>
        BY <1>8 DEF _handle_terminated
    <2>2. c = inbox[1] /\ 1 \in 1..Len(inbox) /\ inbox \in Seq(Command)
        BY <2>1 DEF InboxOK
    <2>3. c.t \in Tasks /\ (c.terminal => rows[c.t].status # "RUNNING")
        BY <2>1, <2>2, SMTT(60) DEF InboxOK
    <2>4. rows' = rows \/ (rows' = [rows EXCEPT ![c.t].delivered = TRUE] /\ _silent_done(row))
        BY <1>8, SMTT(60) DEF _handle_terminated, mark_delivered
    <2>5. \/ pending' = pending
          \/ pending' = Append(pending, c.t) /\ (~c.terminal => Owed(rows[c.t]))
        BY <1>8, ZenonT(60) DEF _handle_terminated, _enqueue_redelivery
    <2>6. _silent_done(row) => rows[c.t].status # "RUNNING"
        BY <2>3, ZenonT(60) DEF _silent_done
    <2> HIDE DEF c, row
    <2>7. /\ rows' \in [Tasks -> Row]
          /\ \A u \in Tasks : rows'[u].status = rows[u].status /\ rows'[u].blank = rows[u].blank
          /\ \A u \in Tasks : rows'[u].status = "RUNNING" => rows'[u] = rows[u]
        <3>1. CASE rows' = rows
            BY <3>1
        <3>2. CASE rows' = [rows EXCEPT ![c.t].delivered = TRUE] /\ rows[c.t].status # "RUNNING"
            <4>1. [rows[c.t] EXCEPT !.delivered = TRUE] \in Row
                BY <2>3, ZenonT(60) DEF Row
            <4>2. rows' \in [Tasks -> Row]
                BY <3>2, <4>1, <2>3
            <4>3. rows[c.t] \in Row
                BY <2>3
            <4>4. [rows[c.t] EXCEPT !.delivered = TRUE].status = rows[c.t].status
                  /\ [rows[c.t] EXCEPT !.delivered = TRUE].blank = rows[c.t].blank
                BY <4>3 DEF Row
            <4>5. \A u \in Tasks : rows'[u] = IF u = c.t THEN [rows[c.t] EXCEPT !.delivered = TRUE]
                                             ELSE rows[u]
                BY <3>2, <2>3
            <4> QED
                BY <4>2, <4>4, <4>5, <3>2, SMTT(60)
        <3> QED
            BY <2>4, <2>6, <3>1, <3>2, SMTT(60)
    <2>8. InboxOK(inbox', rows)
        BY <2>1, InboxShrinks
    <2>9. QueueOK(pending', rows)
        <3>1. Owed(rows[c.t]) => rows[c.t].status # "RUNNING"
            BY DEF Owed
        <3>2. c.t \in Deliveries /\ QueueOK(pending, rows)
            BY <2>3 DEF Deliveries
        <3>3. CASE pending' = pending
            BY <3>2, <3>3, SMTT(60)
        <3>4. CASE pending' = Append(pending, c.t) /\ (~c.terminal => Owed(rows[c.t]))
            <4>1. rows[c.t].status # "RUNNING"
                BY <2>3, <3>1, <3>4, SMTT(60)
            <4>2. QueueOK(Append(pending, c.t), rows)
                BY <3>2, <4>1, QueueGrows, ZenonT(60)
            <4> QED
                BY <3>4, <4>2, SMTT(60)
        <3> QED
            BY <2>5, <3>3, <3>4
    <2>10. InboxOK(inbox', rows') /\ QueueOK(pending', rows')
        <3>1. \A t \in Tasks : rows[t].status # "RUNNING" =>
                 rows'[t].status # "RUNNING" /\ rows'[t].blank = rows[t].blank
            BY <2>7, ZenonT(60)
        <3> QED
            BY <2>8, <2>9, <3>1, TableMoves, ZenonT(60)
    <2>11. /\ flushing' \in [Flushers -> Flusher]
           /\ \A f \in Flushers : flushing'[f].pc = "mark" => flushing'[f] = flushing[f]
        BY <2>1 DEF Flushers, Flusher
    <2> QED
        BY <2>1, <2>7, <2>10, <2>11
<1>9. CASE FlushCommand
    <2>1. /\ inbox # <<>> /\ inbox' = Tail(inbox)
          /\ flushing' = [flushing EXCEPT !["actor"].pc = "wait"]
          /\ UNCHANGED <<rows, ended, recovering, pending, reached>>
        BY <1>9 DEF FlushCommand
    <2>2. InboxOK(inbox', rows)
        BY <2>1, InboxShrinks
    <2>3. /\ flushing' \in [Flushers -> Flusher]
          /\ \A f \in Flushers : flushing'[f].pc = "mark" => flushing'[f] = flushing[f]
        BY <2>1 DEF Flushers, Flusher
    <2> QED
        BY <2>1, <2>2, <2>3
<1>10. ASSUME NEW q \in Questions, _deliver_notice(q) PROVE Simulation'
    <2>1. /\ pending' = <<q>> \o pending
          /\ flushing["tool"] = Idle
          /\ flushing' = [flushing EXCEPT !["tool"].pc = "wait"]
          /\ UNCHANGED <<rows, ended, recovering, inbox, reached>>
        BY <1>10 DEF _deliver_notice
    <2>2. QueueOK(pending', rows)
        BY <2>1, QueueGrows, OutboxAssumption DEF Deliveries
    <2>3. /\ flushing' \in [Flushers -> Flusher]
          /\ \A f \in Flushers : flushing'[f].pc = "mark" => flushing'[f] = flushing[f]
        BY <2>1, ZenonT(60) DEF Flushers, Flusher
    <2> QED
        BY <2>1, <2>2, <2>3
<1>11. ASSUME NEW f \in Flushers, FlushTurn(f) PROVE Simulation'
    <2> DEFINE d == Head(pending)
    <2>1. /\ UNCHANGED <<rows, ended, recovering, inbox>>
          /\ \A g \in Flushers : flushing[g].pc # "mark"
        BY <1>11, ZenonT(60) DEF FlushTurn, LockFree
    <2>2. CASE pending = <<>> \/ Attached = {}
        <3>1. flushing' = [flushing EXCEPT ![f] = Idle] /\ UNCHANGED <<pending, reached>>
            BY <1>11, <2>2, ZenonT(60) DEF FlushTurn
        <3>2. flushing' \in [Flushers -> Flusher] /\ \A g \in Flushers : flushing'[g].pc # "mark"
            BY <2>1, <3>1, SMTT(60) DEF Flusher, Idle
        <3> QED
            BY <2>1, <3>1, <3>2, ZenonT(60)
    <2>3. CASE ~(pending = <<>> \/ Attached = {})
        <3>1. PICK accepted \in BOOLEAN :
                 /\ reached' = reached \cup (IF accepted THEN {d} ELSE {})
                 /\ pending' = IF accepted /\ d \notin Tasks THEN Tail(pending) ELSE pending
                 /\ flushing' = [flushing EXCEPT ![f] =
                       IF ~accepted THEN Idle
                       ELSE IF d \notin Tasks THEN @
                       ELSE [pc |-> "mark", d |-> d]]
            <4>1. Send(d).accepted \in BOOLEAN
                BY ZenonT(60) DEF Send, _broadcast
            <4> QED
                BY <1>11, <2>3, <4>1, ZenonT(60) DEF FlushTurn
        <3>2. QueueOK(Tail(pending), rows) /\ (d \in Tasks => rows[d].status # "RUNNING")
            BY <2>3, QueueShrinks, ZenonT(60)
        <3> HIDE DEF d
        <3>3. QueueOK(pending', rows) /\ reached \subseteq reached'
            BY <3>1, <3>2, SMTT(60)
        <3>4. flushing' \in [Flushers -> Flusher]
            BY <3>1, SMTT(60) DEF Flusher, Idle, Deliveries
        <3>5. \A g \in Flushers : flushing'[g].pc = "mark" =>
                 flushing'[g].d \in reached' \cap Tasks /\ rows[flushing'[g].d].status # "RUNNING"
            <4>1. SUFFICES ASSUME NEW g \in Flushers, flushing'[g].pc = "mark"
                           PROVE  /\ flushing'[g].d \in reached' \cap Tasks
                                  /\ rows[flushing'[g].d].status # "RUNNING"
                BY ZenonT(60)
            <4>2. g = f /\ accepted /\ d \in Tasks /\ flushing'[g].d = d
                BY <2>1, <3>1, <4>1, ZenonT(60) DEF Idle
            <4> QED
                BY <3>1, <3>2, <4>2, SMTT(60)
        <3> QED
            BY <2>1, <3>3, <3>4, <3>5, ZenonT(60)
    <2> QED
        BY <2>2, <2>3, ZenonT(60)
<1>12. ASSUME NEW f \in Flushers, FlushMarked(f) PROVE Simulation'
    <2> DEFINE d == flushing[f].d
    <2>1. /\ rows' = [rows EXCEPT ![d].delivered = TRUE]
          /\ pending' \in Removed(d)
          /\ flushing' = [flushing EXCEPT ![f] = [pc |-> "wait", d |-> Nothing]]
          /\ d \in Tasks /\ rows[d].status # "RUNNING"
          /\ UNCHANGED <<ended, recovering, inbox, reached>>
        BY <1>12 DEF FlushMarked, mark_delivered
    <2> HIDE DEF d
    <2>2. rows[d] \in Row /\ [rows[d] EXCEPT !.delivered = TRUE] \in Row
        BY <2>1, ZenonT(60) DEF Row
    <2>3. [rows[d] EXCEPT !.delivered = TRUE].status = rows[d].status
          /\ [rows[d] EXCEPT !.delivered = TRUE].blank = rows[d].blank
        BY <2>2 DEF Row
    <2>4. /\ rows' \in [Tasks -> Row]
          /\ \A u \in Tasks : rows'[u] = IF u = d THEN [rows[d] EXCEPT !.delivered = TRUE] ELSE rows[u]
        BY <2>1, <2>2
    <2>5. \A t \in Tasks : rows[t].status # "RUNNING" =>
             rows'[t].status # "RUNNING" /\ rows'[t].blank = rows[t].blank
        BY <2>3, <2>4, ZenonT(60)
    <2>6. \A t \in Tasks : rows'[t].status = "RUNNING" => rows'[t] = rows[t]
        BY <2>1, <2>3, <2>4
    <2>7. QueueOK(pending', rows)
        <3>1. pending \in Seq(Deliveries)
            BY ZenonT(60) DEF QueueOK
        <3>2. /\ pending' \in Seq(Deliveries)
              /\ \A i \in 1..Len(pending') : \E j \in 1..Len(pending) : pending'[i] = pending[j]
            BY <2>1, <3>1, RemovedFrom, SMTT(60)
        <3> QED
            BY <3>2, SMTT(60) DEF QueueOK
    <2>8. InboxOK(inbox, rows') /\ QueueOK(pending', rows')
        BY <2>5, <2>7, TableMoves, ZenonT(60)
    <2>9. /\ flushing' \in [Flushers -> Flusher]
          /\ \A g \in Flushers : flushing'[g].pc = "mark" => flushing'[g] = flushing[g]
        BY <2>1, SMTT(60) DEF Flusher
    <2> QED
        BY <2>1, <2>4, <2>5, <2>6, <2>8, <2>9, SMTT(60)
<1>13. ASSUME NEW f \in Flushers, FlushFails(f) PROVE Simulation'
    <2>1. /\ flushing' = [flushing EXCEPT ![f] = Idle]
          /\ UNCHANGED <<rows, ended, recovering, inbox, pending, reached>>
        BY <1>13, SMTT(60) DEF FlushFails
    <2>2. /\ flushing' \in [Flushers -> Flusher]
          /\ \A g \in Flushers : flushing'[g].pc = "mark" => flushing'[g] = flushing[g]
        BY <2>1, SMTT(60) DEF Flusher, Idle
    <2> QED
        BY <2>1, <2>2, ZenonT(60)
<1>14. ASSUME NEW closed \in SUBSET Answers, Restart(closed) PROVE Simulation'
    <2>1. /\ \A t \in closed : rows[t] = Running
          /\ rows' = [t \in Tasks |-> IF t \in closed THEN Closed ELSE rows[t]]
          /\ ended' = [t \in Tasks |-> Streaming]
          /\ recovering' \subseteq Tasks
          /\ inbox' = <<>> /\ pending' = <<>>
          /\ flushing' = [f \in Flushers |-> Idle]
          /\ UNCHANGED reached
        BY <1>14, SMTT(60) DEF Restart, list_for_recovery
    <2>2. Closed \in Row /\ Closed.status # "RUNNING"
        BY ZenonT(60) DEF Closed, Row
    <2>3. /\ rows' \in [Tasks -> Row]
          /\ \A t \in Tasks : rows'[t].status = "RUNNING" => ~rows'[t].delivered /\ ~rows'[t].blank
        BY <2>1, <2>2, ZenonT(60)
    <2>4. /\ ended' \in [Tasks -> Ending]
          /\ \A t \in Tasks : ~ended'[t].accepted /\ ended'[t] = Streaming
        BY <2>1, ZenonT(60) DEF Ending, Streaming
    <2>5. flushing' \in [Flushers -> Flusher] /\ \A f \in Flushers : flushing'[f].pc # "mark"
        BY <2>1, ZenonT(60) DEF Flusher, Idle, Nothing
    <2>6. InboxOK(inbox', rows') /\ QueueOK(pending', rows')
        BY <2>1, SMTT(60) DEF InboxOK, QueueOK
    <2> QED
        BY <2>1, <2>3, <2>4, <2>5, <2>6, ZenonT(60)
<1>15. ASSUME NEW s \in Subscribers, unsubscribe(s) \/ Consume(s) PROVE Simulation'
    BY <1>1, <1>15, SMTT(60) DEF unsubscribe, Consume
<1>16. CASE Chatter
    BY <1>1, <1>16, ZenonT(60) DEF Chatter
<1>17. ASSUME NEW t \in Tasks, DeleteReads(t) PROVE Simulation'
    BY <1>1, <1>17, SMTT(60) DEF DeleteReads
<1>18. CASE UNCHANGED outboxVars
    BY <1>1, <1>18, ZenonT(60) DEF outboxVars
<1> HIDE DEF Simulation
<1> QED
    BY <1>2, <1>3, <1>4, <1>5, <1>6, <1>7, <1>8, <1>9, <1>10, <1>11, <1>12, <1>13, <1>14,
       <1>15, <1>16, <1>17, <1>18, SMTT(60) DEF OutboxNext

-----------------------------------------------------------------------------
(* Every step of the outbox is a step of Delivery or changes nothing it sees. *)
LEMMA StepImplements ==
    ASSUME Simulation, [OutboxNext]_outboxVars
    PROVE  [Promise!Next]_Promise!vars
<1> DEFINE owed(r) == {t \in Tasks : r[t].status \in {"DONE", "FAILED"} /\ ~r[t].blank}
           stamped(r) == {t \in Tasks : r[t].delivered /\ ~r[t].blank}
           shown == reached \cap Tasks
<1>1. ASSUME owed(rows') = owed(rows), stamped(rows') = stamped(rows), shown' = shown
      PROVE  [Promise!Next]_Promise!vars
    BY <1>1, SMTT(60) DEF Promise!vars
<1>2. ASSUME NEW t \in Tasks, owed(rows') = owed(rows), stamped(rows') = stamped(rows),
             shown' = shown \cup {t}
      PROVE  [Promise!Next]_Promise!vars
    BY <1>2, ZenonT(60) DEF Promise!Next, Promise!Reach
<1>3. ASSUME NEW t \in Tasks, owed(rows') = owed(rows), shown' = shown,
             t \in reached, stamped(rows') = stamped(rows) \cup {t}
      PROVE  [Promise!Next]_Promise!vars
    BY <1>3, ZenonT(60) DEF Promise!Next, Promise!Stamp
<1>4. ASSUME NEW t \in Tasks, owed(rows') = owed(rows) \ {t}, shown' = shown,
             stamped(rows') = stamped(rows)
      PROVE  [Promise!Next]_Promise!vars
    BY <1>4, ZenonT(60) DEF Promise!Next, Promise!Withdraw
<1>5. ASSUME NEW t \in Tasks, t \notin owed(rows), owed(rows') = owed(rows) \cup {t}, shown' = shown,
             \/ stamped(rows') = stamped(rows)
             \/ stamped(rows') = stamped(rows) \cup {t} /\ t \in reached
      PROVE  [Promise!Next]_Promise!vars
    BY <1>5, ZenonT(60) DEF Promise!Next, Promise!Finish
<1>6. CASE UNCHANGED <<rows, reached>>
    BY <1>1, <1>6, SMTT(60)
<1>7. ASSUME NEW t \in Tasks, NEW status \in Outcomes, NEW blank \in BOOLEAN,
             _stream_once(t, status, blank)
      PROVE  [Promise!Next]_Promise!vars
    <2>1. rows' = rows /\ (reached' = reached \/ reached' = reached \cup {t})
        BY <1>7, ZenonT(60) DEF _stream_once
    <2>2. shown' = shown \/ shown' = shown \cup {t}
        BY <2>1
    <2>3. owed(rows') = owed(rows) /\ stamped(rows') = stamped(rows)
        BY <2>1
    <2> HIDE DEF owed, stamped, shown
    <2> QED
        BY <1>1, <1>2, <2>2, <2>3, SMTT(60)
<1>8. ASSUME NEW t \in Tasks, _finalize(t) PROVE [Promise!Next]_Promise!vars
    <2> DEFINE certain == ended[t].status # "CANCELLED" /\ (ended[t].blank \/ ended[t].accepted)
    <2>1. /\ rows[t].status = "RUNNING" /\ ~rows[t].delivered /\ ~rows[t].blank
          /\ ended[t].status \in {"DONE", "FAILED", "CANCELLED"}
          /\ ended[t].accepted => t \in reached
          /\ rows \in [Tasks -> Row]
        BY <1>8, ZenonT(60) DEF _finalize, Simulation, Ending
    <2>2. /\ rows' = [rows EXCEPT ![t] = [status |-> ended[t].status, blank |-> ended[t].blank,
                                          delivered |-> rows[t].delivered \/ certain]]
          /\ reached' = reached
        BY <1>8, ZenonT(60) DEF _finalize, _finish, _delivery_is_certain
    <2>3. \A u \in Tasks : u # t => rows'[u] = rows[u]
        BY <2>1, <2>2, ZenonT(60)
    <2>4. /\ rows'[t].status = ended[t].status /\ rows'[t].blank = ended[t].blank
          /\ rows'[t].delivered = (rows[t].delivered \/ certain)
        BY <2>1, <2>2, ZenonT(60)
    <2>5. t \notin owed(rows) /\ t \notin stamped(rows) /\ shown' = shown
        BY <2>1, <2>2, ZenonT(60)
    <2>6. CASE ended[t].blank \/ ended[t].status = "CANCELLED"
        <3>1. t \notin owed(rows') /\ t \notin stamped(rows')
            BY <2>1, <2>4, <2>6, ZenonT(60)
        <3>2. owed(rows') = owed(rows) /\ stamped(rows') = stamped(rows)
            BY <2>3, <2>5, <3>1, ZenonT(60)
        <3> HIDE DEF owed, stamped, shown
        <3> QED
            BY <1>1, <2>5, <3>2, SMTT(60)
    <2>7. CASE ~ended[t].blank /\ ended[t].status # "CANCELLED"
        <3>1. t \in owed(rows') /\ (t \in stamped(rows') => t \in reached)
            BY <2>1, <2>4, <2>7, ZenonT(60)
        <3>2. owed(rows') = owed(rows) \cup {t}
            BY <2>3, <3>1
        <3>3. stamped(rows') = stamped(rows) \/ (stamped(rows') = stamped(rows) \cup {t} /\ t \in reached)
            BY <2>3, <2>5, <3>1, ZenonT(60)
        <3> HIDE DEF owed, stamped, shown
        <3> QED
            BY <1>5, <2>5, <3>2, <3>3, SMTT(60)
    <2> QED
        BY <2>6, <2>7, SMTT(60)
<1>9. ASSUME NEW t \in Tasks, mark_cancelled(t) PROVE [Promise!Next]_Promise!vars
    <2>1. /\ rows \in [Tasks -> Row] /\ reached' = reached
          /\ rows' = [rows EXCEPT ![t] = [status |-> "CANCELLED", blank |-> rows[t].blank,
                                          delivered |-> rows[t].delivered]]
        BY <1>9, ZenonT(60) DEF Simulation, mark_cancelled, _finish, Row
    <2>2. /\ \A u \in Tasks : u # t => rows'[u] = rows[u]
          /\ rows'[t].status = "CANCELLED" /\ rows'[t].blank = rows[t].blank
          /\ rows'[t].delivered = rows[t].delivered
        BY <2>1
    <2>3. owed(rows') = owed(rows) \ {t} /\ stamped(rows') = stamped(rows) /\ shown' = shown
        BY <2>1, <2>2, ZenonT(60)
    <2> HIDE DEF owed, stamped, shown
    <2> QED
        BY <1>4, <2>3, SMTT(60)
<1>10. CASE _handle_terminated
    <2> DEFINE c == Head(inbox)
               row == IF c.terminal THEN c.row ELSE rows[c.t]
    <2>1. /\ inbox # <<>> /\ c.type = "terminated" /\ reached' = reached
          /\ rows \in [Tasks -> Row] /\ InboxOK(inbox, rows)
        BY <1>10, SMTT(60) DEF _handle_terminated, Simulation
    <2>2. c = inbox[1] /\ 1 \in 1..Len(inbox)
        BY <2>1, SMTT(60) DEF InboxOK
    <2>3. c.t \in Tasks /\ (c.terminal => c.row.blank = rows[c.t].blank)
        BY <2>1, <2>2, SMTT(60) DEF InboxOK
    <2>4. rows' = rows \/ (rows' = [rows EXCEPT ![c.t].delivered = TRUE] /\ _silent_done(row))
        BY <1>10, SMTT(60) DEF _handle_terminated, mark_delivered
    <2>5. _silent_done(row) => rows[c.t].blank
        BY <2>3 DEF _silent_done
    <2> HIDE DEF c, row
    <2>6. CASE rows' = rows
        BY <1>6, <2>1, <2>6, SMTT(60)
    <2>7. CASE rows' = [rows EXCEPT ![c.t].delivered = TRUE] /\ rows[c.t].blank
        <3>1. rows[c.t] \in Row
            BY <2>1, <2>3, SMTT(60)
        <3>2. /\ \A u \in Tasks : u # c.t => rows'[u] = rows[u]
              /\ rows'[c.t].status = rows[c.t].status /\ rows'[c.t].blank = rows[c.t].blank
            BY <2>1, <2>3, <2>7, <3>1, ZenonT(60) DEF Row
        <3>3. owed(rows') = owed(rows) /\ stamped(rows') = stamped(rows) /\ shown' = shown
            BY <2>1, <2>7, <3>2
        <3> HIDE DEF owed, stamped, shown
        <3> QED
            BY <1>1, <3>3, SMTT(60)
    <2> QED
        BY <2>4, <2>5, <2>6, <2>7
<1>11. ASSUME NEW f \in Flushers, FlushTurn(f) PROVE [Promise!Next]_Promise!vars
    <2> DEFINE d == Head(pending)
    <2>1. rows' = rows /\ (reached' = reached \/ reached' = reached \cup {d})
        BY <1>11, ZenonT(60) DEF FlushTurn
    <2> HIDE DEF d
    <2>2. shown' = shown \/ (d \in Tasks /\ shown' = shown \cup {d})
        BY <2>1
    <2>3. owed(rows') = owed(rows) /\ stamped(rows') = stamped(rows)
        BY <2>1
    <2> HIDE DEF owed, stamped, shown
    <2> QED
        BY <1>1, <1>2, <2>2, <2>3
<1>12. ASSUME NEW f \in Flushers, FlushMarked(f) PROVE [Promise!Next]_Promise!vars
    <2> DEFINE d == flushing[f].d
    <2>1. /\ rows' = [rows EXCEPT ![d].delivered = TRUE] /\ reached' = reached
          /\ d \in reached \cap Tasks /\ rows \in [Tasks -> Row]
        BY <1>12 DEF FlushMarked, mark_delivered, Simulation
    <2> HIDE DEF d
    <2>2. rows[d] \in Row
        BY <2>1
    <2>3. /\ \A u \in Tasks : u # d => rows'[u] = rows[u]
          /\ rows'[d].status = rows[d].status /\ rows'[d].blank = rows[d].blank /\ rows'[d].delivered
        BY <2>1, <2>2, SMTT(60) DEF Row
    <2>4. owed(rows') = owed(rows) /\ shown' = shown
        BY <2>1, <2>3, SMTT(60)
    <2>5. stamped(rows') = stamped(rows) \/ stamped(rows') = stamped(rows) \cup {d}
        <3>1. CASE rows[d].blank
            BY <2>3, <3>1, SMTT(60)
        <3>2. CASE ~rows[d].blank
            BY <2>1, <2>3, <3>2, SMTT(60)
        <3> QED
            BY <3>1, <3>2, ZenonT(60)
    <2>6. d \in Tasks /\ d \in reached
        BY <2>1, SMTT(60)
    <2> HIDE DEF owed, stamped, shown
    <2> QED
        BY <1>1, <1>3, <2>4, <2>5, <2>6
<1>13. ASSUME NEW closed \in SUBSET Answers, Restart(closed) PROVE [Promise!Next]_Promise!vars
    <2>1. /\ \A t \in closed : rows[t] = Running
          /\ rows' = [t \in Tasks |-> IF t \in closed THEN Closed ELSE rows[t]]
          /\ reached' = reached
        BY <1>13, SMTT(60) DEF Restart
    <2>2. /\ Closed.blank
          /\ Running.status = "RUNNING" /\ ~Running.delivered
        BY DEF Closed, Running
    <2>3. owed(rows') = owed(rows) /\ stamped(rows') = stamped(rows) /\ shown' = shown
        BY <2>1, <2>2, SMTT(60)
    <2> HIDE DEF owed, stamped, shown
    <2> QED
        BY <1>1, <2>3, SMTT(60)
<1>14. ASSUME NEW s \in Subscribers, subscribe(s) \/ unsubscribe(s) \/ Consume(s)
       PROVE  [Promise!Next]_Promise!vars
    BY <1>6, <1>14, SMTT(60) DEF subscribe, unsubscribe, Consume
<1>15. ASSUME NEW t \in Tasks, request_result_delivery(t) \/ _terminate_process(t) \/ DeleteReads(t)
       PROVE  [Promise!Next]_Promise!vars
    BY <1>6, <1>15, ZenonT(60) DEF request_result_delivery, _terminate_process, DeleteReads
<1>16. CASE Chatter \/ FlushCommand
    BY <1>6, <1>16 DEF Chatter, FlushCommand
<1>17. ASSUME NEW q \in Questions, _deliver_notice(q) PROVE [Promise!Next]_Promise!vars
    BY <1>6, <1>17 DEF _deliver_notice
<1>18. ASSUME NEW f \in Flushers, FlushFails(f) PROVE [Promise!Next]_Promise!vars
    BY <1>6, <1>18 DEF FlushFails
<1>19. CASE UNCHANGED outboxVars
    BY <1>6, <1>19, SMTT(60) DEF outboxVars
<1> QED
    BY <1>7, <1>8, <1>9, <1>10, <1>11, <1>12, <1>13, <1>14, <1>15, <1>16, <1>17, <1>18, <1>19, SMTT(60)
    DEF OutboxNext

LEMMA InitImplements == OutboxInit => Promise!Init
<1> SUFFICES ASSUME OutboxInit PROVE Promise!Init
    OBVIOUS
<1>1. rows \in [Tasks -> {Running, Closed}] /\ reached = {}
    BY DEF OutboxInit
<1>2. /\ Closed.blank
      /\ Running.status = "RUNNING" /\ ~Running.delivered
    BY DEF Closed, Running
<1> QED
    BY <1>1, <1>2, SMTT(60) DEF Promise!Init

(* The outbox implements Delivery (_flush_deliveries, _finalize, the stamps  *)
(* of the task store and the recovery sweep): an outcome is recorded as      *)
(* delivered only after some subscriber queue accepted its terminal, and no  *)
(* record is taken back, whatever the number of tasks, questions and         *)
(* subscribers, the size of their queues and the mishaps.                    *)
THEOREM OutboxImplementsDelivery ==
    OutboxSpec => ImplementsDelivery
<1>1. OutboxInit => Promise!Init
    BY InitImplements
<1>2. OutboxInit => Simulation
    BY SimulationInit
<1>3. Simulation /\ [OutboxNext]_outboxVars => Simulation'
    BY SimulationStep
<1>4. Simulation /\ [OutboxNext]_outboxVars => [Promise!Next]_Promise!vars
    BY StepImplements
<1> QED
    BY <1>1, <1>2, <1>3, <1>4, PTL DEF OutboxSpec, ImplementsDelivery, Promise!Spec

-----------------------------------------------------------------------------
(* Nothing owed is lost *)

InBox(box, t) == \E i \in 1..Len(box) : box[i].type = "terminated" /\ box[i].t = t
InQueue(q, d) == \E i \in 1..Len(q) : q[i] = d

(* A row copied into a command as delivered is delivered. *)
CopiesOK(box, table) ==
    \A i \in 1..Len(box) :
       box[i].type = "terminated" /\ box[i].terminal /\ box[i].row.delivered =>
          table[box[i].t].delivered

OnItsWay(t, running, listed, box, q) ==
    t \in running \/ t \in listed \/ InBox(box, t) \/ InQueue(q, t)

Kept ==
    /\ asked \subseteq Questions
    /\ CopiesOK(inbox, rows)
    /\ \A t \in Tasks : Owed(rows[t]) /\ ~rows[t].blank =>
          OnItsWay(t, live, recovering, inbox, pending)
    /\ \A q \in asked : q \in reached \/ InQueue(pending, q)

(* What a longer or a shorter inbox still holds. *)
LEMMA BoxGrows ==
    ASSUME NEW box \in Seq(Command), NEW c \in Command, NEW table
    PROVE  /\ \A t : InBox(box, t) => InBox(Append(box, c), t)
           /\ c.type = "terminated" => InBox(Append(box, c), c.t)
           /\ CopiesOK(box, table)
                 /\ (c.type = "terminated" /\ c.terminal /\ c.row.delivered => table[c.t].delivered)
              => CopiesOK(Append(box, c), table)
<1> DEFINE more == Append(box, c)
<1>1. /\ Len(more) = Len(box) + 1 /\ Len(box) \in Nat
      /\ \A i \in 1..Len(box) : more[i] = box[i]
      /\ more[Len(box) + 1] = c
    OBVIOUS
<1> HIDE DEF more
<1>2. /\ \A i \in 1..Len(more) : i \in 1..Len(box) \/ i = Len(box) + 1
      /\ \A i \in 1..Len(box) : i \in 1..Len(more)
      /\ Len(box) + 1 \in 1..Len(more)
    BY <1>1, SMTT(60)
<1>3. \A t : InBox(box, t) => InBox(more, t)
    BY <1>1, <1>2, ZenonT(60) DEF InBox
<1>4. c.type = "terminated" => InBox(more, c.t)
    BY <1>1, <1>2, ZenonT(60) DEF InBox
<1>5. ASSUME CopiesOK(box, table),
             c.type = "terminated" /\ c.terminal /\ c.row.delivered => table[c.t].delivered
      PROVE  CopiesOK(more, table)
    BY <1>1, <1>2, <1>5, ZenonT(60) DEF CopiesOK
<1> QED
    BY <1>3, <1>4, <1>5, ZenonT(60) DEF more

LEMMA BoxShrinks ==
    ASSUME NEW box \in Seq(Command), box # <<>>, NEW table
    PROVE  /\ \A t : InBox(box, t) =>
                 InBox(Tail(box), t) \/ (Head(box).type = "terminated" /\ Head(box).t = t)
           /\ CopiesOK(box, table) => CopiesOK(Tail(box), table)
<1> DEFINE less == Tail(box)
<1>1. /\ Len(less) = Len(box) - 1 /\ Len(box) \in Nat /\ Len(box) >= 1
      /\ \A i \in 1..(Len(box) - 1) : less[i] = box[i + 1]
      /\ Head(box) = box[1]
    BY SMTT(60)
<1> HIDE DEF less
<1>2. /\ \A i \in 1..Len(less) : i + 1 \in 1..Len(box) /\ less[i] = box[i + 1]
      /\ \A i \in 1..Len(box) : i = 1 \/ (i - 1 \in 1..Len(less) /\ less[i - 1] = box[i])
    BY <1>1, SMTT(60)
<1>3. ASSUME NEW t, InBox(box, t)
      PROVE  InBox(less, t) \/ (Head(box).type = "terminated" /\ Head(box).t = t)
    BY <1>1, <1>2, <1>3, ZenonT(60) DEF InBox
<1>4. CopiesOK(box, table) => CopiesOK(less, table)
    BY <1>2, SMTT(60) DEF CopiesOK
<1> QED
    BY <1>3, <1>4, ZenonT(60) DEF less

(* What stays in the outbox when a delivery comes or goes. *)
LEMMA QueueKeeps ==
    ASSUME NEW q \in Seq(Deliveries), NEW d \in Deliveries
    PROVE  /\ \A x : InQueue(q, x) => InQueue(Append(q, d), x) /\ InQueue(<<d>> \o q, x)
           /\ InQueue(Append(q, d), d) /\ InQueue(<<d>> \o q, d)
<1> DEFINE last == Append(q, d)
           first == <<d>> \o q
<1>1. /\ Len(last) = Len(q) + 1 /\ Len(q) \in Nat
      /\ \A i \in 1..Len(q) : last[i] = q[i]
      /\ last[Len(q) + 1] = d
    OBVIOUS
<1>2. <<d>> \in Seq(Deliveries) /\ Len(<<d>>) = 1 /\ <<d>>[1] = d
    OBVIOUS
<1>3. /\ Len(first) = 1 + Len(q)
      /\ \A i \in 1..(1 + Len(q)) : first[i] = IF i <= 1 THEN <<d>>[i] ELSE q[i - 1]
    BY <1>2, InARow, SMTT(60)
<1> HIDE DEF last, first
<1>4. /\ \A i \in 1..Len(q) : i \in 1..Len(last) /\ i + 1 \in 1..Len(first) /\ first[i + 1] = q[i]
      /\ Len(q) + 1 \in 1..Len(last)
      /\ 1 \in 1..Len(first) /\ first[1] = d
    BY <1>1, <1>2, <1>3, SMTT(60)
<1>5. \A x : InQueue(q, x) => InQueue(last, x) /\ InQueue(first, x)
    BY <1>1, <1>4, ZenonT(60) DEF InQueue
<1>6. InQueue(last, d) /\ InQueue(first, d)
    BY <1>1, <1>4, ZenonT(60) DEF InQueue
<1> QED
    BY <1>5, <1>6, ZenonT(60) DEF last, first

LEMMA QueueWithoutHead ==
    ASSUME NEW q \in Seq(Deliveries), q # <<>>, NEW x, InQueue(q, x), x # Head(q)
    PROVE  InQueue(Tail(q), x)
<1> DEFINE less == Tail(q)
<1>1. /\ Len(less) = Len(q) - 1 /\ Len(q) \in Nat
      /\ \A i \in 1..(Len(q) - 1) : less[i] = q[i + 1]
      /\ Head(q) = q[1]
    BY SMTT(60)
<1> HIDE DEF less
<1>2. PICK i \in 1..Len(q) : q[i] = x
    BY DEF InQueue
<1>3. i - 1 \in 1..Len(less) /\ less[i - 1] = x
    BY <1>1, <1>2, SMTT(60)
<1> QED
    BY <1>3, ZenonT(60) DEF InQueue, less

LEMMA RemovedKeeps ==
    ASSUME pending \in Seq(Deliveries), NEW d, NEW q \in Removed(d), NEW x, x # d,
           InQueue(pending, x)
    PROVE  InQueue(q, x)
<1>1. CASE q = pending
    BY <1>1
<1>2. CASE q # pending
    <2>1. PICK k \in 1..Len(pending) : q = Without(pending, k) /\ pending[k] = d
        BY <1>2, SMTT(60) DEF Removed
    <2> DEFINE a == SubSeq(pending, 1, k - 1)
               b == SubSeq(pending, k + 1, Len(pending))
    <2>2. q = a \o b
        BY <2>1 DEF Without
    <2>3. /\ a \in Seq(Deliveries) /\ b \in Seq(Deliveries)
          /\ Len(a) = k - 1 /\ Len(b) = Len(pending) - k
          /\ \A i \in 1..(k - 1) : a[i] = pending[i]
          /\ \A i \in 1..(Len(pending) - k) : b[i] = pending[k + i]
        BY SMTT(60)
    <2> HIDE DEF a, b
    <2>4. /\ Len(q) = Len(a) + Len(b)
          /\ \A i \in 1..(Len(a) + Len(b)) : q[i] = IF i <= Len(a) THEN a[i] ELSE b[i - Len(a)]
        BY <2>2, <2>3, InARow, ZenonT(60)
    <2>5. PICK i \in 1..Len(pending) : pending[i] = x
        BY DEF InQueue
    <2>6. i # k /\ Len(pending) \in Nat
        BY <2>1, <2>5, SMTT(60)
    <2>7. CASE i < k
        <3>1. i \in 1..Len(q) /\ q[i] = x
            BY <2>3, <2>4, <2>5, <2>6, <2>7, SMTT(60)
        <3> QED
            BY <3>1, ZenonT(60) DEF InQueue
    <2>8. CASE i > k
        <3>1. i - 1 \in 1..Len(q) /\ ~(i - 1 <= Len(a)) /\ q[i - 1] = b[i - 1 - Len(a)]
            BY <2>3, <2>4, <2>5, <2>6, <2>8, SMTT(60)
        <3>2. i - k \in 1..(Len(pending) - k) /\ i - 1 - Len(a) = i - k /\ k + (i - k) = i
            BY <2>3, <2>5, <2>6, <2>8, SMTT(60)
        <3>3. q[i - 1] = x
            BY <2>3, <2>5, <3>1, <3>2, ZenonT(60)
        <3> QED
            BY <3>1, <3>3, ZenonT(60) DEF InQueue
    <2> QED
        BY <2>6, <2>7, <2>8, SMTT(60)
<1> QED
    BY <1>1, <1>2

LEMMA KeptInit == OutboxInit => Kept
<1> SUFFICES ASSUME OutboxInit PROVE Kept
    OBVIOUS
<1>1. asked = {} /\ Len(inbox) = 0 /\ recovering = Tasks \ live
    BY DEF OutboxInit
<1>2. CopiesOK(inbox, rows)
    BY <1>1, SMTT(60) DEF CopiesOK
<1>3. \A t \in Tasks : OnItsWay(t, live, recovering, inbox, pending)
    BY <1>1, ZenonT(60) DEF OnItsWay
<1> QED
    BY <1>1, <1>2, <1>3, ZenonT(60) DEF Kept

(* A step that forgets none of the ways and makes nothing owed. *)
LEMMA WaysKept ==
    ASSUME Kept, asked' \subseteq Questions, CopiesOK(inbox', rows'),
           \A t \in Tasks : Owed(rows'[t]) /\ ~rows'[t].blank =>
               \/ OnItsWay(t, live', recovering', inbox', pending')
               \/ Owed(rows[t]) /\ ~rows[t].blank /\ (t \in live => t \in live')
                  /\ (t \in recovering => t \in recovering')
                  /\ (InBox(inbox, t) => InBox(inbox', t))
                  /\ (InQueue(pending, t) => InQueue(pending', t)),
           \A q \in asked' : q \in reached' \/ InQueue(pending', q)
                 \/ (q \in asked /\ (q \in reached => q \in reached')
                                 /\ (InQueue(pending, q) => InQueue(pending', q)))
    PROVE  Kept'
<1>1. ASSUME NEW t \in Tasks, Owed(rows'[t]), ~rows'[t].blank
      PROVE  OnItsWay(t, live', recovering', inbox', pending')
    BY <1>1, ZenonT(60) DEF Kept, OnItsWay
<1>2. ASSUME NEW q \in asked' PROVE q \in reached' \/ InQueue(pending', q)
    BY <1>2, ZenonT(60) DEF Kept
<1> QED
    BY <1>1, <1>2, ZenonT(60) DEF Kept

LEMMA KeptStep ==
    ASSUME Simulation, Kept, [OutboxNext]_outboxVars
    PROVE  Kept'
<1>a. rows \in [Tasks -> Row] /\ InboxOK(inbox, rows) /\ QueueOK(pending, rows)
    BY ZenonT(60) DEF Simulation
<1>b. asked \subseteq Questions /\ CopiesOK(inbox, rows)
    BY ZenonT(60) DEF Kept
<1>0. /\ inbox \in Seq(Command) /\ pending \in Seq(Deliveries)
      /\ rows \in [Tasks -> Row] /\ asked \subseteq Questions /\ CopiesOK(inbox, rows)
    BY <1>a, <1>b, ZenonT(60) DEF InboxOK, QueueOK
<1>c. ASSUME \A u \in Tasks : rows[u].delivered => rows'[u].delivered
      PROVE  CopiesOK(inbox, rows')
    BY <1>a, <1>b, <1>c, ZenonT(60) DEF CopiesOK, InboxOK
<1>1. CASE UNCHANGED <<rows, live, recovering, inbox, pending, reached, asked>>
    BY <1>1, SMTT(60) DEF Kept
<1>2. ASSUME NEW s \in Subscribers, subscribe(s) PROVE Kept'
    <2>1. _Flush \in Command /\ _Flush.type # "terminated"
        BY ZenonT(60) DEF _Flush, Command, Running, Row, Nothing
    <2>2. inbox' = Append(inbox, _Flush)
          /\ UNCHANGED <<rows, live, recovering, pending, reached, asked>>
        BY <1>2 DEF subscribe
    <2>3. CopiesOK(inbox', rows) /\ \A t : InBox(inbox, t) => InBox(inbox', t)
        BY <1>0, <2>1, <2>2, BoxGrows, ZenonT(60)
    <2> QED
        BY <1>0, <2>2, <2>3, WaysKept, ZenonT(60)
<1>3. ASSUME NEW t \in Tasks, request_result_delivery(t) PROVE Kept'
    <2> DEFINE c == Terminated(t, FALSE, Running)
    <2>1. c \in Command /\ c.type = "terminated" /\ c.t = t /\ ~c.terminal
        BY ZenonT(60) DEF Terminated, Command, Running, Row
    <2>2. /\ inbox' = Append(inbox, c) /\ recovering' = recovering \ {t}
          /\ UNCHANGED <<rows, live, pending, reached, asked>>
        BY <1>3 DEF request_result_delivery
    <2> HIDE DEF c
    <2>3. /\ CopiesOK(inbox', rows) /\ InBox(inbox', t)
          /\ \A u : InBox(inbox, u) => InBox(inbox', u)
        BY <1>0, <2>1, <2>2, BoxGrows, ZenonT(60)
    <2>4. \A u \in Tasks : u # t /\ u \in recovering => u \in recovering'
        BY <2>2
    <2> QED
        BY <1>0, <2>2, <2>3, <2>4, WaysKept, ZenonT(60) DEF OnItsWay
<1>4. ASSUME NEW t \in Tasks, NEW status \in Outcomes, NEW blank \in BOOLEAN,
             _stream_once(t, status, blank)
      PROVE  Kept'
    <2>1. reached \subseteq reached' /\ UNCHANGED <<rows, live, recovering, inbox, pending, asked>>
        BY <1>4, ZenonT(60) DEF _stream_once
    <2> QED
        BY <1>0, <2>1, WaysKept, ZenonT(60)
<1>5. ASSUME NEW t \in Tasks, _finalize(t) PROVE Kept'
    <2>1. /\ t \in live /\ rows[t].status = "RUNNING"
          /\ UNCHANGED <<live, recovering, inbox, pending, reached, asked>>
        BY <1>5, ZenonT(60) DEF _finalize
    <2>2. \A u \in Tasks : u # t => rows'[u] = rows[u]
        BY <1>0, <1>5, ZenonT(60) DEF _finalize
    <2>3. \A u \in Tasks : rows[u].delivered => rows'[u].delivered
        <3>1. ~rows[t].delivered
            BY <2>1, ZenonT(60) DEF Simulation
        <3> QED
            BY <2>2, <3>1, ZenonT(60)
    <2>4. CopiesOK(inbox', rows')
        BY <1>c, <2>1, <2>3, ZenonT(60)
    <2> QED
        BY <1>0, <2>1, <2>2, <2>4, WaysKept, ZenonT(60) DEF OnItsWay
<1>6. ASSUME NEW t \in Tasks, _terminate_process(t) PROVE Kept'
    <2> DEFINE c == Terminated(t, rows[t].status # "CANCELLED", rows[t])
    <2>1. c \in Command /\ c.type = "terminated" /\ c.t = t /\ c.row = rows[t]
        BY <1>0, ZenonT(60) DEF Terminated, Command
    <2>2. /\ inbox' = Append(inbox, c) /\ live' = live \ {t}
          /\ UNCHANGED <<rows, recovering, pending, reached, asked>>
        BY <1>6, ZenonT(60) DEF _terminate_process
    <2> HIDE DEF c
    <2>3. /\ CopiesOK(inbox', rows) /\ InBox(inbox', t)
          /\ \A u : InBox(inbox, u) => InBox(inbox', u)
        BY <1>0, <2>1, <2>2, BoxGrows, ZenonT(60)
    <2>4. \A u \in Tasks : u # t /\ u \in live => u \in live'
        BY <2>2
    <2> QED
        BY <1>0, <2>2, <2>3, <2>4, WaysKept, ZenonT(60) DEF OnItsWay
<1>7. ASSUME NEW t \in Tasks, mark_cancelled(t) PROVE Kept'
    <2>1. UNCHANGED <<live, recovering, inbox, pending, reached, asked>>
        BY <1>7 DEF mark_cancelled
    <2>2. /\ \A u \in Tasks : u # t => rows'[u] = rows[u]
          /\ rows'[t].status = "CANCELLED" /\ (rows[t].delivered => rows'[t].delivered)
        <3>1. rows' = [rows EXCEPT ![t] = [status |-> "CANCELLED", blank |-> rows[t].blank,
                                           delivered |-> rows[t].delivered \/ FALSE]]
            BY <1>7, ZenonT(60) DEF mark_cancelled, _finish
        <3> QED
            BY <1>0, <3>1, ZenonT(60)
    <2>3. ~Owed(rows'[t]) /\ \A u \in Tasks : rows[u].delivered => rows'[u].delivered
        <3>1. ~Owed(rows'[t])
            BY <2>2, SMTT(60) DEF Owed
        <3> QED
            BY <2>2, <3>1, ZenonT(60)
    <2>4. CopiesOK(inbox', rows')
        BY <1>c, <2>1, <2>3, ZenonT(60)
    <2> QED
        BY <1>0, <2>1, <2>2, <2>3, <2>4, WaysKept, ZenonT(60)
<1>8. CASE _handle_terminated
    <2> DEFINE c == Head(inbox)
               row == IF c.terminal THEN c.row ELSE rows[c.t]
    <2>1. /\ inbox # <<>> /\ c.type = "terminated" /\ inbox' = Tail(inbox)
          /\ UNCHANGED <<live, recovering, reached, asked>>
        BY <1>8 DEF _handle_terminated
    <2>2. c = inbox[1] /\ 1 \in 1..Len(inbox)
        BY <1>0, <2>1, SMTT(60)
    <2>3. /\ c.t \in Tasks
          /\ c.terminal => /\ c.row.blank = rows[c.t].blank
                           /\ c.row.delivered => rows[c.t].delivered
        BY <1>a, <1>b, <2>1, <2>2, ZenonT(60) DEF InboxOK, CopiesOK
    <2>4. /\ rows' = rows \/ rows' = [rows EXCEPT ![c.t].delivered = TRUE]
          /\ pending' = pending \/ pending' = Append(pending, c.t)
        BY <1>8, ZenonT(60) DEF _handle_terminated, mark_delivered
    <2>5. ASSUME Owed(rows[c.t]), ~rows[c.t].blank PROVE pending' = Append(pending, c.t)
        <3>1. ~_silent_done(row)
            BY <2>3, <2>5, ZenonT(60) DEF _silent_done
        <3>2. IF c.terminal THEN ~row.delivered ELSE _enqueue_redelivery(row)
            BY <2>3, <2>5, SMTT(60) DEF Owed, _enqueue_redelivery
        <3> QED
            BY <1>8, <3>1, <3>2, ZenonT(60) DEF _handle_terminated
    <2> HIDE DEF c, row
    <2>6. \A u \in Tasks : /\ rows[u].delivered => rows'[u].delivered
                           /\ Owed(rows'[u]) /\ ~rows'[u].blank => Owed(rows[u]) /\ ~rows[u].blank
        <3>1. CASE rows' = rows
            BY <3>1, ZenonT(60)
        <3>2. CASE rows' = [rows EXCEPT ![c.t].delivered = TRUE]
            <4>1. rows'[c.t].delivered /\ \A u \in Tasks : u # c.t => rows'[u] = rows[u]
                BY <1>0, <2>3, <3>2, SMTT(60) DEF Row
            <4>2. ~Owed(rows'[c.t])
                BY <4>1, SMTT(60) DEF Owed
            <4> QED
                BY <4>1, <4>2, ZenonT(60)
        <3> QED
            BY <2>4, <3>1, <3>2
    <2>7. /\ \A u : InBox(inbox, u) => InBox(inbox', u) \/ c.t = u
          /\ CopiesOK(inbox', rows)
        BY <1>0, <2>1, BoxShrinks, ZenonT(60) DEF c
    <2>8. CopiesOK(inbox', rows')
        <3>1. InboxOK(inbox', rows)
            BY <2>1, InboxShrinks, ZenonT(60) DEF Simulation
        <3> QED
            BY <2>6, <2>7, <3>1, ZenonT(60) DEF CopiesOK, InboxOK
    <2>9. \A x : InQueue(pending, x) => InQueue(pending', x)
        BY <1>0, <2>3, <2>4, QueueKeeps, ZenonT(60) DEF Deliveries
    <2>10. Owed(rows[c.t]) /\ ~rows[c.t].blank => InQueue(pending', c.t)
        BY <1>0, <2>3, <2>5, QueueKeeps, ZenonT(60) DEF Deliveries
    <2> QED
        BY <1>0, <2>1, <2>6, <2>7, <2>8, <2>9, <2>10, WaysKept, ZenonT(60) DEF OnItsWay
<1>9. CASE FlushCommand
    <2>1. /\ inbox # <<>> /\ Head(inbox).type = "flush" /\ inbox' = Tail(inbox)
          /\ UNCHANGED <<rows, live, recovering, pending, reached, asked>>
        BY <1>9 DEF FlushCommand
    <2>2. CopiesOK(inbox', rows) /\ \A u : InBox(inbox, u) => InBox(inbox', u)
        <3>1. Head(inbox).type # "terminated"
            BY <2>1
        <3> QED
            BY <1>0, <2>1, <3>1, BoxShrinks, ZenonT(60)
    <2> QED
        BY <1>0, <2>1, <2>2, WaysKept, ZenonT(60)
<1>10. ASSUME NEW q \in Questions, _deliver_notice(q) PROVE Kept'
    <2>1. /\ pending' = <<q>> \o pending /\ asked' = asked \cup {q}
          /\ UNCHANGED <<rows, live, recovering, inbox, reached>>
        BY <1>10 DEF _deliver_notice
    <2>2. InQueue(pending', q) /\ \A x : InQueue(pending, x) => InQueue(pending', x)
        BY <1>0, <2>1, QueueKeeps, ZenonT(60) DEF Deliveries
    <2>3. asked' \subseteq Questions /\ \A p \in asked' : p \in asked \/ p = q
        BY <1>0, <2>1
    <2> QED
        BY <1>0, <2>1, <2>2, <2>3, WaysKept, ZenonT(60)
<1>11. ASSUME NEW f \in Flushers, FlushTurn(f) PROVE Kept'
    <2> DEFINE d == Head(pending)
    <2>1. UNCHANGED <<rows, live, recovering, inbox, asked>>
        BY <1>11, ZenonT(60) DEF FlushTurn
    <2>2. \/ pending' = pending /\ reached \subseteq reached'
          \/ pending # <<>> /\ pending' = Tail(pending) /\ d \notin Tasks /\ reached' = reached \cup {d}
        BY <1>11, ZenonT(60) DEF FlushTurn
    <2>3. CASE pending' = pending /\ reached \subseteq reached'
        BY <1>0, <2>1, <2>3, WaysKept, ZenonT(60)
    <2>4. CASE pending # <<>> /\ pending' = Tail(pending) /\ d \notin Tasks /\ reached' = reached \cup {d}
        <3>1. \A x : x # d /\ InQueue(pending, x) => InQueue(pending', x)
            BY <1>0, <2>4, QueueWithoutHead, ZenonT(60)
        <3>2. d \in reached' /\ reached \subseteq reached'
            BY <2>4
        <3> HIDE DEF d
        <3>3. \A t \in Tasks : InQueue(pending, t) => InQueue(pending', t)
            BY <2>4, <3>1, ZenonT(60)
        <3> QED
            BY <1>0, <2>1, <3>1, <3>2, <3>3, WaysKept, ZenonT(60)
    <2> QED
        BY <2>2, <2>3, <2>4
<1>12. ASSUME NEW f \in Flushers, FlushMarked(f) PROVE Kept'
    <2> DEFINE d == flushing[f].d
    <2>1. /\ rows' = [rows EXCEPT ![d].delivered = TRUE] /\ pending' \in Removed(d)
          /\ UNCHANGED <<live, recovering, inbox, reached, asked>>
        BY <1>12 DEF FlushMarked, mark_delivered
    <2>2. d \in Tasks
        BY <1>12, ZenonT(60) DEF FlushMarked, Simulation
    <2> HIDE DEF d
    <2>3. rows'[d].delivered /\ \A u \in Tasks : u # d => rows'[u] = rows[u]
        BY <1>0, <2>1, <2>2, SMTT(60) DEF Row
    <2>4. ~Owed(rows'[d]) /\ \A u \in Tasks : rows[u].delivered => rows'[u].delivered
        BY <2>3, SMTT(60) DEF Owed
    <2>5. CopiesOK(inbox', rows')
        BY <1>c, <2>1, <2>4, ZenonT(60)
    <2>6. \A x : x # d /\ InQueue(pending, x) => InQueue(pending', x)
        <3>1. PICK q \in Removed(d) : q = pending'
            BY <2>1, ZenonT(60)
        <3>2. ASSUME NEW x, x # d, InQueue(pending, x) PROVE InQueue(q, x)
            BY <1>0, <3>2, RemovedKeeps, SMTT(60)
        <3> QED
            BY <3>1, <3>2, ZenonT(60)
    <2>7. \A q \in asked : q # d
        BY <1>0, <2>2, OutboxAssumption
    <2> QED
        BY <1>0, <2>1, <2>3, <2>4, <2>5, <2>6, <2>7, WaysKept, ZenonT(60)
<1>13. ASSUME NEW closed \in SUBSET Answers, Restart(closed) PROVE Kept'
    <2>1. /\ rows' = [t \in Tasks |-> IF t \in closed THEN Closed ELSE rows[t]]
          /\ recovering' = {t \in Tasks : Owed(rows[t])}
          /\ inbox' = <<>> /\ asked' = {}
        BY <1>13 DEF Restart, list_for_recovery
    <2>2. Closed.blank
        BY DEF Closed
    <2>3. \A t \in Tasks : Owed(rows'[t]) /\ ~rows'[t].blank => t \in recovering'
        BY <2>1, <2>2, SMTT(60)
    <2>4. CopiesOK(inbox', rows')
        BY <2>1, SMTT(60) DEF CopiesOK
    <2> QED
        BY <2>1, <2>3, <2>4, WaysKept, ZenonT(60) DEF OnItsWay
<1>14. ASSUME NEW s \in Subscribers, unsubscribe(s) \/ Consume(s) PROVE Kept'
    BY <1>1, <1>14, SMTT(60) DEF unsubscribe, Consume
<1>15. CASE Chatter
    BY <1>1, <1>15, SMTT(60) DEF Chatter
<1>16. ASSUME NEW t \in Tasks, DeleteReads(t) PROVE Kept'
    BY <1>1, <1>16, SMTT(60) DEF DeleteReads
<1>17. ASSUME NEW f \in Flushers, FlushFails(f) PROVE Kept'
    BY <1>1, <1>17, SMTT(60) DEF FlushFails
<1>18. CASE UNCHANGED outboxVars
    BY <1>1, <1>18, SMTT(60) DEF outboxVars
<1> QED
    BY <1>2, <1>3, <1>4, <1>5, <1>6, <1>7, <1>8, <1>9, <1>10, <1>11, <1>12, <1>13, <1>14, <1>15,
       <1>16, <1>17, <1>18, ZenonT(60) DEF OutboxNext

(* Nothing the user is to see is lost on the way through the outbox          *)
(* (_handle_terminated, _flush_deliveries, request_result_delivery): a       *)
(* finished outcome nobody was shown is with its process, the recovery, the  *)
(* inbox or the outbox, and a question is in the outbox until some           *)
(* subscriber has accepted it, for any number of tasks, questions and        *)
(* subscribers, failing stamps, deletions and restarts.                      *)
THEOREM OutboxLosesNothing ==
    OutboxSpec => []NothingOwedIsLost
<1>1. Simulation /\ Kept => NothingOwedIsLost
    <2> SUFFICES ASSUME Simulation, Kept PROVE NothingOwedIsLost
        OBVIOUS
    <2>1. DOMAIN inbox = 1..Len(inbox) /\ DOMAIN pending = 1..Len(pending)
        BY SMTT(60) DEF Simulation, InboxOK, QueueOK
    <2>2. OwedIsQueued
        BY <2>1, ZenonT(60) DEF Kept, OwedIsQueued, OnItsWay, InBox, InQueue
    <2>3. QuestionKept
        BY <2>1, ZenonT(60) DEF Kept, QuestionKept, InQueue
    <2> QED
        BY <2>2, <2>3 DEF NothingOwedIsLost
<1>2. OutboxInit => Simulation /\ Kept
    BY SimulationInit, KeptInit
<1>3. Simulation /\ Kept /\ [OutboxNext]_outboxVars => Simulation' /\ Kept'
    BY SimulationStep, KeptStep
<1> QED
    BY <1>1, <1>2, <1>3, PTL DEF OutboxSpec

-----------------------------------------------------------------------------
(* EmbeddingCache *)

EmbedCall == [pc : {"idle", "computing", "resolving", "waiting", "woken", "alone", "failed"},
         texts : Seq(Texts), missing : SUBSET Texts, n : Nat,
         on : (Callers \X Texts) \cup {None}]

CacheShapes ==
  /\ embedding \in [Callers -> EmbedCall]
  /\ _in_flight \in [Texts -> Callers \cup {None}]

(* A registered text is being computed by the caller it is registered for... *)
Computed ==
  \A t \in Texts : _in_flight[t] # None =>
    embedding[_in_flight[t]].pc = "computing" /\ t \in embedding[_in_flight[t]].missing

(* ... and whatever a caller computes is registered for it. *)
Registered ==
  \A c \in Callers : embedding[c].pc = "computing" =>
    \A t \in embedding[c].missing : _in_flight[t] = c

(* A waiting call waits for a future that is registered. *)
Awaited ==
  \A c \in Callers : embedding[c].pc = "waiting" =>
    embedding[c].on \in Callers \X Texts /\ _in_flight[embedding[c].on[2]] = embedding[c].on[1]

Published == CacheShapes /\ Computed /\ Registered /\ Awaited

-----------------------------------------------------------------------------
(* A step that registers and releases nothing, and lets no call compute or *)
(* stop computing, keeps the registry true.                                *)
LEMMA Quiet ==
    ASSUME Published, _in_flight' = _in_flight, embedding' \in [Callers -> EmbedCall],
           \A d \in Callers :
             /\ embedding'[d].pc = "computing" <=> embedding[d].pc = "computing"
             /\ embedding[d].pc = "computing" => embedding'[d].missing = embedding[d].missing,
           Awaited'
    PROVE  Published'
BY ZenonT(60) DEF Published, CacheShapes, Computed, Registered

LEMMA IdleIsCall == NoCall \in EmbedCall
BY SMTT(60) DEF NoCall, EmbedCall, None

(* A call that takes its request up. *)
Begun(p, r, m) == [NoCall EXCEPT !.pc = p, !.texts = r, !.missing = m]

LEMMA CallBegins ==
    ASSUME NEW p \in {"resolving", "computing"}, NEW r \in Seq(Texts), NEW m \in SUBSET Texts
    PROVE  Begun(p, r, m) \in EmbedCall /\ Begun(p, r, m).pc = p /\ Begun(p, r, m).missing = m
<1>1. NoCall \in EmbedCall
    BY IdleIsCall
<1> QED BY <1>1, ZenonT(60) DEF EmbedCall, Begun

(* A call that got its next text, or none. *)
LEMMA CallGoesOn ==
    ASSUME NEW j \in EmbedCall, NEW p \in {"resolving", "woken"}
    PROVE  /\ [j EXCEPT !.pc = p, !.n = @ + 1] \in EmbedCall
           /\ [j EXCEPT !.pc = p, !.n = @ + 1, !.on = None] \in EmbedCall
<1> DEFINE m == j.n + 1
<1>1. m \in Nat
    BY DEF EmbedCall
<1> HIDE DEF m
<1>2. /\ [j EXCEPT !.pc = p, !.n = m] \in EmbedCall
      /\ [j EXCEPT !.pc = p, !.n = m, !.on = None] \in EmbedCall
    BY <1>1, ZenonT(60) DEF EmbedCall
<1> QED BY <1>2 DEF m

LEMMA PublishedInit == CacheInit => Published
<1> SUFFICES ASSUME CacheInit PROVE Published
    OBVIOUS
<1>1. CacheShapes
    BY IdleIsCall DEF CacheInit, CacheShapes
<1> QED BY <1>1, ZenonT(60) DEF CacheInit, Published, Computed, Registered, Awaited, NoCall

(* The texts of a request are texts. *)
LEMMA TextsOf ==
    ASSUME NEW r \in TextLists
    PROVE  r \in Seq(Texts) /\ Range(r) \subseteq Texts
BY CacheAssumption DEF Texts

-----------------------------------------------------------------------------
(* embed() registers only what nobody computes. *)
LEMMA EmbedStep ==
    ASSUME Published, NEW c \in Callers, NEW r \in TextLists, embed(c, r)
    PROVE  Published'
<1> DEFINE missing == {t \in Missed(r) : _in_flight[t] = None}
           k == [NoCall EXCEPT !.pc = IF missing = {} THEN "resolving" ELSE "computing",
                             !.texts = r, !.missing = missing]
<1>1. /\ embedding[c].pc = "idle" /\ embedding' = [embedding EXCEPT ![c] = k]
      /\ _in_flight' = [t \in Texts |-> IF t \in missing THEN c ELSE _in_flight[t]]
    BY DEF embed
<1>2. missing \subseteq Texts /\ r \in Seq(Texts)
    BY TextsOf DEF Missed
<1>3. /\ k.pc = IF missing = {} THEN "resolving" ELSE "computing"
      /\ k.missing = missing /\ k \in EmbedCall
    <2> DEFINE p == IF missing = {} THEN "resolving" ELSE "computing"
    <2>1. p \in {"resolving", "computing"}
        OBVIOUS
    <2> HIDE DEF missing, p
    <2>2. k = Begun(p, r, missing)
        BY DEF p, Begun
    <2>3. k \in EmbedCall /\ k.pc = p /\ k.missing = missing
        <3> HIDE DEF k
        <3> QED BY <1>2, <2>1, <2>2, CallBegins
    <2> QED BY <2>3 DEF p
<1>4. \A t \in missing : _in_flight[t] = None
    OBVIOUS
<1>t. embedding \in [Callers -> EmbedCall] /\ _in_flight \in [Texts -> Callers \cup {None}]
    BY DEF Published, CacheShapes
<1> HIDE DEF missing, k
<1>6. CacheShapes'
    BY <1>t, <1>1, <1>2, <1>3, ZenonT(60) DEF CacheShapes
<1>7. Computed'
    <2> SUFFICES ASSUME NEW t \in Texts, _in_flight'[t] # None
                 PROVE  embedding'[_in_flight'[t]].pc = "computing" /\ t \in embedding'[_in_flight'[t]].missing
        BY ZenonT(60) DEF Computed
    <2>1. CASE t \in missing
        BY <1>t, <1>1, <1>3, <2>1, ZenonT(60)
    <2>2. CASE t \notin missing
        <3>1. _in_flight'[t] = _in_flight[t] /\ _in_flight[t] \in Callers
            BY <1>t, <1>1, <2>2
        <3>2. embedding[_in_flight[t]].pc = "computing" /\ t \in embedding[_in_flight[t]].missing
            BY <3>1, ZenonT(60) DEF Published, Computed
        <3>3. _in_flight[t] # c
            BY <1>1, <3>2, ZenonT(60)
        <3> QED BY <1>t, <1>1, <3>1, <3>2, <3>3, ZenonT(60)
    <2> QED BY <2>1, <2>2, ZenonT(60)
<1>8. Registered'
    <2> SUFFICES ASSUME NEW d \in Callers, embedding'[d].pc = "computing", NEW t \in embedding'[d].missing
                 PROVE  _in_flight'[t] = d
        BY DEF Registered
    <2>1. CASE d = c
        BY <1>t, <1>1, <1>2, <1>3, <2>1, ZenonT(60)
    <2>2. CASE d # c
        <3>1. embedding'[d] = embedding[d] /\ embedding[d] \in EmbedCall
            BY <1>t, <1>1, <2>2, ZenonT(60)
        <3>2. _in_flight[t] = d /\ t \in Texts
            BY <3>1, ZenonT(60) DEF Published, Registered, EmbedCall
        <3>3. t \notin missing
            BY <1>4, <3>2, CacheAssumption, ZenonT(60)
        <3> QED BY <1>1, <3>2, <3>3, ZenonT(60)
    <2> QED BY <2>1, <2>2, ZenonT(60)
<1>9. Awaited'
    <2> SUFFICES ASSUME NEW d \in Callers, embedding'[d].pc = "waiting"
                 PROVE  embedding'[d].on \in Callers \X Texts
                        /\ _in_flight'[embedding'[d].on[2]] = embedding'[d].on[1]
        BY ZenonT(60) DEF Awaited
    <2>1. d # c
        BY <1>t, <1>1, <1>3, ZenonT(60)
    <2>2. embedding'[d] = embedding[d]
        BY <1>t, <1>1, <2>1, SMTT(60)
    <2>3. embedding[d].on \in Callers \X Texts /\ _in_flight[embedding[d].on[2]] = embedding[d].on[1]
        BY <2>2, ZenonT(60) DEF Published, Awaited
    <2>4. embedding[d].on[2] \notin missing /\ embedding[d].on[2] \in Texts
        BY <1>4, <2>3, CacheAssumption, ZenonT(60)
    <2> QED BY <1>1, <2>2, <2>3, <2>4, ZenonT(60)
<1> QED BY <1>6, <1>7, <1>8, <1>9 DEF Published

(* The end of a computation, good or bad, releases what it registered and *)
(* wakes everyone who waits for it.                                       *)
LEMMA ReleaseStep ==
    ASSUME Published, NEW c \in Callers, embedding[c].pc = "computing", NEW ok \in BOOLEAN,
           NEW k \in EmbedCall, k.pc \in {"resolving", "failed"}, Release(c),
           embedding' = [d \in Callers |-> IF d = c THEN k ELSE Woken(c, embedding[d], ok)]
    PROVE  Published'
<1>t. embedding \in [Callers -> EmbedCall] /\ _in_flight \in [Texts -> Callers \cup {None}]
    BY DEF Published, CacheShapes
<1>1. _in_flight' = [t \in Texts |-> IF t \in embedding[c].missing THEN None ELSE _in_flight[t]]
    BY ZenonT(60) DEF Release
<1>2. \A d \in Callers : d # c =>
        \/ embedding'[d] = embedding[d]
        \/ /\ embedding[d].pc = "waiting"
           /\ \/ embedding'[d] = [embedding[d] EXCEPT !.pc = "woken", !.n = @ + 1, !.on = None]
              \/ embedding'[d] = [embedding[d] EXCEPT !.pc = "failed", !.on = None]
    BY ZenonT(60) DEF Woken
<1>3. \A d \in Callers : /\ embedding'[d] \in EmbedCall
                         /\ d # c /\ embedding'[d] # embedding[d] =>
                              embedding[d].pc = "waiting" /\ embedding'[d].pc \in {"woken", "failed"}
    <2> SUFFICES ASSUME NEW d \in Callers
                 PROVE  /\ embedding'[d] \in EmbedCall
                        /\ d # c /\ embedding'[d] # embedding[d] =>
                              embedding[d].pc = "waiting" /\ embedding'[d].pc \in {"woken", "failed"}
        OBVIOUS
    <2>1. CASE d = c
        BY <2>1, ZenonT(60)
    <2>2. CASE d # c /\ embedding'[d] = embedding[d]
        BY <1>t, <2>2, ZenonT(60)
    <2>3. CASE /\ d # c /\ embedding[d].pc = "waiting"
               /\ embedding'[d] = [embedding[d] EXCEPT !.pc = "woken", !.n = @ + 1, !.on = None]
        <3>1. embedding[d] \in EmbedCall
            BY <1>t, SMTT(60)
        <3>2. embedding'[d] \in EmbedCall
            BY <2>3, <3>1, CallGoesOn, ZenonT(60)
        <3>3. embedding'[d].pc = "woken"
            BY <2>3, <3>1, ZenonT(60) DEF EmbedCall
        <3> QED BY <2>3, <3>2, <3>3, SMTT(60)
    <2>4. CASE /\ d # c /\ embedding[d].pc = "waiting"
               /\ embedding'[d] = [embedding[d] EXCEPT !.pc = "failed", !.on = None]
        <3>1. embedding[d] \in EmbedCall
            BY <1>t
        <3> QED BY <2>4, <3>1, ZenonT(60) DEF EmbedCall
    <2> QED BY <1>2, <2>1, <2>2, <2>3, <2>4, ZenonT(60)
<1>4. embedding'[c].pc # "computing" /\ embedding'[c].pc # "waiting"
    OBVIOUS
<1>5. CacheShapes'
    <2>1. embedding' \in [Callers -> EmbedCall]
        BY <1>3
    <2> QED BY <1>t, <1>1, <2>1, ZenonT(60) DEF CacheShapes
<1>6. Computed'
    <2> SUFFICES ASSUME NEW t \in Texts, _in_flight'[t] # None
                 PROVE  embedding'[_in_flight'[t]].pc = "computing" /\ t \in embedding'[_in_flight'[t]].missing
        BY ZenonT(60) DEF Computed
    <2>1. t \notin embedding[c].missing /\ _in_flight'[t] = _in_flight[t] /\ _in_flight[t] \in Callers
        BY <1>t, <1>1, ZenonT(60)
    <2>2. embedding[_in_flight[t]].pc = "computing" /\ t \in embedding[_in_flight[t]].missing
        BY <2>1, ZenonT(60) DEF Published, Computed
    <2>3. embedding'[_in_flight[t]] = embedding[_in_flight[t]]
        BY <1>3, <2>1, <2>2, ZenonT(60)
    <2> QED BY <2>1, <2>2, <2>3, ZenonT(60)
<1>7. Registered'
    <2> SUFFICES ASSUME NEW d \in Callers, embedding'[d].pc = "computing", NEW t \in embedding'[d].missing
                 PROVE  _in_flight'[t] = d
        BY ZenonT(60) DEF Registered
    <2>1. d # c /\ embedding'[d] = embedding[d]
        BY <1>3, <1>4, ZenonT(60)
    <2>2. _in_flight[t] = d /\ t \in Texts
        BY <1>t, <2>1, ZenonT(60) DEF Published, Registered, EmbedCall
    <2>3. t \notin embedding[c].missing
        BY <2>1, <2>2, ZenonT(60) DEF Published, Registered
    <2> QED BY <1>1, <2>2, <2>3, ZenonT(60)
<1>8. Awaited'
    <2> SUFFICES ASSUME NEW d \in Callers, embedding'[d].pc = "waiting"
                 PROVE  embedding'[d].on \in Callers \X Texts
                        /\ _in_flight'[embedding'[d].on[2]] = embedding'[d].on[1]
        BY ZenonT(60) DEF Awaited
    <2>1. d # c /\ embedding'[d] = embedding[d]
        BY <1>3, <1>4, ZenonT(60)
    <2>2. embedding[d].on \in Callers \X Texts /\ _in_flight[embedding[d].on[2]] = embedding[d].on[1]
        BY <2>1, ZenonT(60) DEF Published, Awaited
    <2>3. PICK o \in Callers, t \in Texts : embedding[d].on = <<o, t>>
        BY <2>2
    <2>4. t \notin embedding[c].missing
        <3> SUFFICES ASSUME t \in embedding[c].missing PROVE FALSE
            OBVIOUS
        <3>1. o = c
            BY <2>2, <2>3, SMTT(60) DEF Published, Registered
        <3>2. Woken(c, embedding[d], ok) # embedding[d]
            <4>1. embedding[d].pc = "waiting" /\ embedding[d].on \in {<<c, u>> : u \in embedding[c].missing}
                BY <2>1, <2>3, <3>1, ZenonT(60)
            <4>2. Woken(c, embedding[d], ok).pc # "waiting"
                BY <1>t, <4>1, ZenonT(60) DEF Woken, EmbedCall
            <4> QED BY <4>1, <4>2, ZenonT(60)
        <3> QED BY <2>1, <3>2, ZenonT(60)
    <2> QED BY <1>1, <2>1, <2>2, <2>3, <2>4, SMTT(60)
<1> QED BY <1>5, <1>6, <1>7, <1>8, ZenonT(60) DEF Published

(* What one call may do to itself without computing: its next state is a   *)
(* call, and if it waits then for a future that is registered.             *)
LEMMA EmbedMoves ==
    ASSUME Published, NEW c \in Callers, NEW k \in EmbedCall, embedding' = [embedding EXCEPT ![c] = k],
           _in_flight' = _in_flight, embedding[c].pc # "computing", k.pc # "computing",
           k.pc = "waiting" => k.on \in Callers \X Texts /\ _in_flight[k.on[2]] = k.on[1]
    PROVE  Published'
<1>t. embedding \in [Callers -> EmbedCall]
    BY ZenonT(60) DEF Published, CacheShapes
<1>1. embedding' \in [Callers -> EmbedCall]
    BY <1>t, ZenonT(60)
<1>2. \A d \in Callers : embedding'[d] = IF d = c THEN k ELSE embedding[d]
    BY <1>t, ZenonT(60)
<1>3. Awaited'
    BY <1>2 DEF Published, Awaited
<1> QED BY <1>1, <1>2, <1>3, Quiet, ZenonT(60)

(* The next text of a call is a text, and so it may wait for its future. *)
LEMMA ResolveStep ==
    ASSUME Published, NEW c \in Callers, _resolve(c)
    PROVE  Published'
<1> DEFINE text == Wanted(c)
           owner == _in_flight[text]
<1>t. /\ embedding \in [Callers -> EmbedCall] /\ embedding[c] \in EmbedCall
      /\ _in_flight \in [Texts -> Callers \cup {None}]
    BY DEF Published, CacheShapes
<1>1. embedding[c].pc = "resolving" /\ More(c) /\ _in_flight' = _in_flight
    BY DEF _resolve
<1>2. text \in Texts
    <2>1. /\ embedding[c].texts \in Seq(Texts) /\ embedding[c].n \in Nat
          /\ embedding[c].n < Len(embedding[c].texts)
        BY <1>t, <1>1, ZenonT(60) DEF EmbedCall, More
    <2>2. embedding[c].n + 1 \in 1..Len(embedding[c].texts)
        BY <2>1, SMTT(60)
    <2> QED BY <2>1, <2>2, SMTT(60) DEF Wanted
<1> HIDE DEF text
<1>3. CASE embedding' = [embedding EXCEPT ![c].n = @ + 1]
    <2> DEFINE k == [embedding[c] EXCEPT !.n = @ + 1]
    <2>1. k \in EmbedCall /\ k.pc = "resolving"
        BY <1>t, <1>1 DEF EmbedCall
    <2>2. embedding' = [embedding EXCEPT ![c] = k]
        BY <1>3, <1>t
    <2> HIDE DEF k
    <2> QED BY <1>1, <2>1, <2>2, EmbedMoves, ZenonT(60)
<1>4. CASE /\ owner # None
           /\ embedding' = [embedding EXCEPT
                 ![c].pc = IF future[<<owner, text>>] = "cancelled" THEN "failed" ELSE "waiting",
                 ![c].on = <<owner, text>>]
    <2> DEFINE p == IF future[<<owner, text>>] = "cancelled" THEN "failed" ELSE "waiting"
               k == [embedding[c] EXCEPT !.pc = p, !.on = <<owner, text>>]
    <2>1. owner \in Callers
        BY <1>4, <1>t, <1>2
    <2>2. embedding' = [embedding EXCEPT ![c] = k]
        BY <1>4, <1>t, ZenonT(60)
    <2>3. p \in {"failed", "waiting"}
        OBVIOUS
    <2> HIDE DEF p
    <2>4. k \in EmbedCall /\ k.pc = p /\ k.on = <<owner, text>>
        BY <1>t, <1>2, <2>1, <2>3, ZenonT(60) DEF EmbedCall
    <2> HIDE DEF k
    <2>5. k.on \in Callers \X Texts /\ _in_flight[k.on[2]] = k.on[1]
        BY <1>2, <2>1, <2>4
    <2>6. k.pc # "computing"
        BY <2>3, <2>4, ZenonT(60)
    <2> QED BY <1>1, <2>2, <2>4, <2>5, <2>6, EmbedMoves, ZenonT(60)
<1>5. CASE embedding' = [embedding EXCEPT ![c].pc = "alone"]
    <2> DEFINE k == [embedding[c] EXCEPT !.pc = "alone"]
    <2>1. k \in EmbedCall /\ k.pc = "alone"
        BY <1>t DEF EmbedCall
    <2>2. embedding' = [embedding EXCEPT ![c] = k]
        BY <1>5, <1>t
    <2> HIDE DEF k
    <2> QED BY <1>1, <2>1, <2>2, EmbedMoves, ZenonT(60)
<1> QED BY <1>3, <1>4, <1>5, SMTT(60) DEF _resolve, text

(* Cancelling one waiter ends every waiter of that future and no other. *)
LEMMA CancelStep ==
    ASSUME Published, NEW c \in Callers, CancelWaiting(c)
    PROVE  Published'
<1>t. embedding \in [Callers -> EmbedCall]
    BY DEF Published, CacheShapes
<1>1. /\ _in_flight' = _in_flight
      /\ embedding' = [d \in Callers |-> IF embedding[d].pc = "waiting" /\ embedding[d].on = embedding[c].on
                                    THEN [embedding[d] EXCEPT !.pc = "failed"] ELSE embedding[d]]
    BY DEF CancelWaiting
<1>2. \A d \in Callers : /\ embedding'[d] \in EmbedCall
                         /\ \/ embedding'[d] = embedding[d]
                            \/ embedding[d].pc = "waiting" /\ embedding'[d].pc = "failed"
    BY <1>t, <1>1, ZenonT(60) DEF EmbedCall
<1>3. embedding' \in [Callers -> EmbedCall]
    BY <1>1, <1>2
<1>4. Awaited'
    BY <1>1, <1>2 DEF Published, Awaited
<1> QED BY <1>1, <1>2, <1>3, <1>4, Quiet

LEMMA PublishedNext ==
    Published /\ [CacheNext]_cacheVars => Published'
<1> SUFFICES ASSUME Published, [CacheNext]_cacheVars PROVE Published'
    OBVIOUS
<1>t. embedding \in [Callers -> EmbedCall]
    BY DEF Published, CacheShapes
<1>0. CASE UNCHANGED cacheVars
    BY <1>0, ZenonT(60) DEF cacheVars, Published, CacheShapes, Computed, Registered, Awaited
<1>1. ASSUME NEW c \in Callers, NEW r \in TextLists, embed(c, r) PROVE Published'
    BY <1>1, EmbedStep
<1>2. ASSUME NEW c \in Callers, Publish(c) PROVE Published'
    <2> DEFINE k == [embedding[c] EXCEPT !.pc = "resolving", !.missing = {}]
    <2>1. k \in EmbedCall /\ k.pc = "resolving"
        BY <1>t, ZenonT(60) DEF EmbedCall
    <2>2. /\ embedding[c].pc = "computing" /\ Release(c)
          /\ embedding' = [d \in Callers |-> IF d = c THEN k ELSE Woken(c, embedding[d], TRUE)]
        BY <1>2 DEF Publish
    <2> HIDE DEF k
    <2> QED BY <2>1, <2>2, ReleaseStep, ZenonT(60)
<1>3. ASSUME NEW c \in Callers, NEW cancelled \in BOOLEAN, _compute(c, cancelled)
      PROVE  Published'
    <2> DEFINE k == [embedding[c] EXCEPT !.pc = "failed", !.missing = {}]
    <2>1. k \in EmbedCall /\ k.pc = "failed"
        BY <1>t, ZenonT(60) DEF EmbedCall
    <2>2. /\ embedding[c].pc = "computing" /\ Release(c)
          /\ embedding' = [d \in Callers |-> IF d = c THEN k ELSE Woken(c, embedding[d], FALSE)]
        BY <1>3 DEF _compute
    <2> HIDE DEF k
    <2> QED BY <2>1, <2>2, ReleaseStep, ZenonT(60)
<1>4. ASSUME NEW c \in Callers, _resolve(c) PROVE Published'
    BY <1>4, ResolveStep
<1>5. ASSUME NEW c \in Callers, Wake(c) PROVE Published'
    <2> DEFINE k == [embedding[c] EXCEPT !.pc = "resolving"]
    <2>1. k \in EmbedCall /\ k.pc = "resolving"
        BY <1>t DEF EmbedCall
    <2>2. /\ embedding[c].pc = "woken" /\ embedding' = [embedding EXCEPT ![c] = k] /\ _in_flight' = _in_flight
        BY <1>5, <1>t DEF Wake
    <2> HIDE DEF k
    <2> QED BY <2>1, <2>2, EmbedMoves, ZenonT(60)
<1>6. ASSUME NEW c \in Callers, AloneAnswers(c) PROVE Published'
    <2> DEFINE k == [embedding[c] EXCEPT !.pc = "resolving", !.n = @ + 1]
    <2>0. embedding[c] \in EmbedCall
        BY <1>t
    <2>1. k \in EmbedCall /\ k.pc = "resolving"
        BY <2>0, CallGoesOn, ZenonT(60) DEF EmbedCall
    <2>2. /\ embedding[c].pc = "alone" /\ embedding' = [embedding EXCEPT ![c] = k] /\ _in_flight' = _in_flight
        BY <1>6, <1>t, ZenonT(60) DEF AloneAnswers
    <2> HIDE DEF k
    <2> QED BY <2>1, <2>2, EmbedMoves, ZenonT(60)
<1>7. ASSUME NEW c \in Callers, AloneFails(c) PROVE Published'
    <2> DEFINE k == [embedding[c] EXCEPT !.pc = "failed"]
    <2>1. k \in EmbedCall /\ k.pc = "failed"
        BY <1>t DEF EmbedCall
    <2>2. /\ embedding[c].pc = "alone" /\ embedding' = [embedding EXCEPT ![c] = k] /\ _in_flight' = _in_flight
        BY <1>7, <1>t DEF AloneFails
    <2> HIDE DEF k
    <2> QED BY <2>1, <2>2, EmbedMoves, ZenonT(60)
<1>8. ASSUME NEW c \in Callers, CancelWaiting(c) PROVE Published'
    BY <1>8, CancelStep
<1>9. ASSUME NEW c \in Callers, Return(c) PROVE Published'
    <2>1. /\ embedding[c].pc # "computing" /\ embedding' = [embedding EXCEPT ![c] = NoCall]
          /\ _in_flight' = _in_flight
        BY <1>9 DEF Return
    <2>2. NoCall.pc = "idle"
        BY DEF NoCall
    <2> QED BY <2>1, <2>2, IdleIsCall, EmbedMoves, ZenonT(60)
<1> QED BY <1>0, <1>1, <1>2, <1>3, <1>4, <1>5, <1>6, <1>7, <1>8, <1>9, ZenonT(60) DEF CacheNext

-----------------------------------------------------------------------------
(* _compute's except and finally, and embed's look at _in_flight: a text is *)
(* never left registered with nobody computing it, nobody waits for a       *)
(* future nobody will settle, whichever calls fail or are cancelled, and    *)
(* two calls never compute the same text at once as part of a registered    *)
(* request.                                                                 *)
THEOREM SharedIsSettled == CacheSpec => []SharedOnce
<1>1. Published => NoOrphanFuture
    BY ZenonT(60) DEF Published, Computed, Awaited, NoOrphanFuture
<1>2. Published => OneComputation
    <2> SUFFICES ASSUME Published, NEW c \in Callers, NEW d \in Callers, c # d,
                        embedding[c].pc = "computing", embedding[d].pc = "computing",
                        NEW t \in embedding[c].missing, t \in embedding[d].missing
                 PROVE  FALSE
        BY DEF OneComputation
    <2> QED BY ZenonT(60) DEF Published, Registered
<1>3. Published => SharedOnce
    BY <1>1, <1>2 DEF SharedOnce
<1> QED BY PublishedInit, PublishedNext, <1>3, PTL DEF CacheSpec

=============================================================================
