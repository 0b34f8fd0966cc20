----------------------------- MODULE MessageLog -----------------------------
(***************************************************************************)
(* The message log of one dialog under concurrent writers: append and      *)
(* append_pair with their retry on a lost seq race, alone or inside a unit *)
(* of work, on PostgreSQL (a clash with an uncommitted row waits for it, a *)
(* failed statement aborts the transaction) and on SQLite (one writer at a *)
(* time, a failed statement aborts nothing).                               *)
(***************************************************************************)
EXTENDS Naturals, Sequences, FiniteSets, FiniteSetsExt

CONSTANTS
    Writers,
    Casts,                        \* what each writer does: unit, calls, key
    MESSAGE_SEQ_RETRY_ATTEMPTS,
    Dialects,
    MaxAborts                     \* units left by an exception of their own

VARIABLES
    dialect,
    does,       \* the program of each writer
    log,        \* the committed message rows
    marks,      \* the other committed writes: <<writer, "task">>, <<writer, "child">>
    writer,
    aborts

logVars == <<dialect, does, log, marks, writer, aborts>>

None == "none"

(* A writer: where it is, the call it is at, the statements still to run,   *)
(* the seq its statement read, the attempts so far, the rows of its open    *)
(* transaction and those before the savepoint, its writes to other tables,  *)
(* whether the unit holds writes, the commits that came first, the task it  *)
(* spawned.                                                                 *)
Fresh == [pc |-> "begin", at |-> 1, left |-> 0, seq |-> 0, attempt |-> 0, rows |-> {},
          save |-> {}, marks |-> {}, wrote |-> FALSE, beaten |-> 0, child |-> None]

LogInit ==
    /\ dialect \in Dialects
    /\ does \in Casts
    /\ log = {} /\ marks = {}
    /\ writer = [v \in Writers |-> Fresh]
    /\ aborts = 0

Call(v) == does[v].calls[writer[v].at]
MoreCalls(v) == writer[v].at <= Len(does[v].calls)

-----------------------------------------------------------------------------
(* Unit of work *)

(* A call in flight: the unit's session is lent to one at a time. *)
Busy(v) == writer[v].pc \in {"insert", "lands", "commit"}
Open(v) == does[v].unit /\ writer[v].pc \in {"between", "insert", "lands"}

unit_has_writes(v) == writer[v].wrote

(* A SQLite transaction that has written, or is about to, keeps others out. *)
Holds(v) == writer[v].rows # {} \/ writer[v].marks # {} \/ writer[v].pc = "lands"
MayWrite(v) == dialect = "sqlite" => \A u \in Writers \ {v} : ~Holds(u)

(* What v wrote becomes visible; whoever is appending has lost a round. *)
Commits(v, next) ==
    /\ log' = log \cup writer[v].rows
    /\ marks' = marks \cup writer[v].marks
    /\ writer' = [u \in Writers |->
          IF u = v THEN [writer[v] EXCEPT !.pc = next, !.rows = {}, !.save = {}, !.marks = {}]
          ELSE IF Busy(u) /\ writer[v].rows # {} THEN [writer[u] EXCEPT !.beaten = @ + 1]
          ELSE writer[u]]
    /\ UNCHANGED <<dialect, does, aborts>>

RolledBack(r, pc) == [r EXCEPT !.pc = pc, !.rows = {}, !.save = {}, !.marks = {}, !.left = 0]

(* The block is entered; its clean exit commits once, an exception of its   *)
(* own rolls the whole of it back.                                          *)
UnitOpens(v) ==
    /\ writer[v].pc = "begin"
    /\ writer' = [writer EXCEPT ![v].pc = "between"]
    /\ UNCHANGED <<dialect, does, log, marks, aborts>>

UnitCommits(v) ==
    /\ writer[v].pc = "between"
    /\ ~MoreCalls(v)
    /\ Commits(v, "returned")

UnitFails(v) ==
    /\ Open(v)
    /\ aborts < MaxAborts
    /\ aborts' = aborts + 1
    /\ writer' = [writer EXCEPT ![v] = RolledBack(@, "failed")]
    /\ UNCHANGED <<dialect, does, log, marks>>

(* A task spawned inside the unit inherits its session. *)
Spawn(v) ==
    /\ Open(v)
    /\ does[v].spawns
    /\ writer[v].child = None
    /\ writer' = [writer EXCEPT ![v].child = "spawned"]
    /\ UNCHANGED <<dialect, does, log, marks, aborts>>

(* The spawned task writes: on the unit's session while the unit is open    *)
(* and idle, refused while a call is in flight, on a session of its own     *)
(* once the unit has exited.                                                *)
_borrow(v) ==
    /\ writer[v].child = "spawned"
    /\ MayWrite(v)
    /\ IF ~Open(v)
       THEN /\ writer' = [writer EXCEPT ![v].child = "own"]
            /\ marks' = marks \cup {<<v, "child">>}
       ELSE /\ IF Busy(v) THEN writer' = [writer EXCEPT ![v].child = "refused"]
               ELSE writer' = [writer EXCEPT ![v].child = "joined", ![v].wrote = TRUE,
                                             ![v].marks = @ \cup {<<v, "child">>}]
            /\ UNCHANGED marks
    /\ UNCHANGED <<dialect, does, log, aborts>>

-----------------------------------------------------------------------------
(* The calls *)

(* A write to another table: joined to the unit, or committed at once. *)
write_session(v) ==
    /\ writer[v].pc = "between" /\ MoreCalls(v)
    /\ Call(v) = "write"
    /\ MayWrite(v)
    /\ writer' = [writer EXCEPT ![v] =
          [@ EXCEPT !.marks = @ \cup {<<v, "task">>}, !.at = @ + 1, !.wrote = TRUE]]
    /\ UNCHANGED <<dialect, does, log, marks, aborts>>

(* One attempt begins; a savepoint remembers the rows before it. *)
Attempt(r, statements) ==
    [r EXCEPT !.pc = "insert", !.left = statements, !.save = r.rows]

append(v) ==
    /\ writer[v].pc = "between" /\ MoreCalls(v)
    /\ Call(v) = "append"
    /\ writer' = [writer EXCEPT ![v] = [Attempt(@, 1) EXCEPT !.attempt = 1, !.beaten = 0]]
    /\ UNCHANGED <<dialect, does, log, marks, aborts>>

append_pair(v) ==
    /\ writer[v].pc = "between" /\ MoreCalls(v)
    /\ Call(v) = "append_pair"
    /\ writer' = [writer EXCEPT ![v] = [Attempt(@, 2) EXCEPT !.attempt = 1, !.beaten = 0]]
    /\ UNCHANGED <<dialect, does, log, marks, aborts>>

(* The subquery of the INSERT: what is committed, and the writer's own. *)
next_seq(v) == 1 + Max({0} \cup {row.seq : row \in log \cup writer[v].rows})

(* The statement reads MAX(seq). *)
Insert(v) ==
    /\ writer[v].pc = "insert"
    /\ MayWrite(v)
    /\ writer' = [writer EXCEPT ![v] = [@ EXCEPT !.pc = "lands", !.seq = next_seq(v)]]
    /\ UNCHANGED <<dialect, does, log, marks, aborts>>

NewRow(v) == [seq |-> writer[v].seq, writer |-> v, at |-> writer[v].at,
              part |-> writer[v].left, key |-> does[v].key]

Clash(row, rows) ==
    \E other \in rows : other.seq = row.seq \/ (row.key # None /\ other.key = row.key)
Awaited(v) == \E u \in Writers \ {v} : Clash(NewRow(v), writer[u].rows)

(* Mutant: the first message of a pair commits on its own. *)
LandsApart(v) ==
    /\ writer[v].pc = "lands"
    /\ ~Awaited(v)
    /\ ~Clash(NewRow(v), log \cup writer[v].rows)
    /\ log' = IF writer[v].left > 1 THEN log \cup {NewRow(v)} ELSE log
    /\ writer' = [writer EXCEPT ![v] =
          IF @.left > 1 THEN [@ EXCEPT !.pc = "insert", !.left = @ - 1]
          ELSE [@ EXCEPT !.pc = IF does[v].unit THEN "between" ELSE "commit", !.left = 0,
                         !.rows = @ \cup {NewRow(v)}, !.at = @ + 1, !.wrote = TRUE]]
    /\ UNCHANGED <<dialect, does, marks, aborts>>

(* The row goes in once no uncommitted row stands in its way; the call that *)
(* ran its last statement returns into its unit, or commits on its own.     *)
Lands(v) ==
    /\ writer[v].pc = "lands"
    /\ ~Awaited(v)
    /\ ~Clash(NewRow(v), log \cup writer[v].rows)
    /\ LET r == [writer[v] EXCEPT !.rows = @ \cup {NewRow(v)}, !.left = @ - 1]
       IN writer' = [writer EXCEPT ![v] =
             IF r.left > 0 THEN [r EXCEPT !.pc = "insert"]
             ELSE IF does[v].unit
                  THEN [r EXCEPT !.pc = "between", !.at = @ + 1, !.wrote = TRUE, !.save = {}]
             ELSE [r EXCEPT !.pc = "commit"]]
    /\ UNCHANGED <<dialect, does, log, marks, aborts>>

SessionCommits(v) ==
    /\ writer[v].pc = "commit"
    /\ Commits(v, "returned")

(* What a failed attempt leaves: a lone session is discarded, a unit on     *)
(* PostgreSQL goes back to its savepoint, or to nothing when the attempt    *)
(* was all it held, and SQLite undoes the statement alone.                  *)
_insert_attempt(v) ==
    IF ~does[v].unit THEN [writer[v] EXCEPT !.rows = {}]
    ELSE IF dialect = "sqlite" THEN writer[v]
    ELSE IF unit_has_writes(v) THEN [writer[v] EXCEPT !.rows = writer[v].save]
    ELSE [writer[v] EXCEPT !.rows = {}, !.marks = {}]

(* The unique violation: another attempt, or the error goes to the caller   *)
(* and takes the unit with it.                                              *)
Violated(v) ==
    /\ writer[v].pc = "lands"
    /\ ~Awaited(v)
    /\ Clash(NewRow(v), log \cup writer[v].rows)
    /\ LET r == _insert_attempt(v)
       IN writer' = [writer EXCEPT ![v] =
             IF r.attempt < MESSAGE_SEQ_RETRY_ATTEMPTS
             THEN [Attempt(r, IF Call(v) = "append_pair" THEN 2 ELSE 1) EXCEPT !.attempt = @ + 1]
             ELSE RolledBack(r, "raised")]
    /\ UNCHANGED <<dialect, does, log, marks, aborts>>

LogNext ==
    \E v \in Writers :
        \/ UnitOpens(v) \/ UnitCommits(v) \/ UnitFails(v) \/ Spawn(v) \/ _borrow(v)
        \/ write_session(v) \/ append(v) \/ append_pair(v)
        \/ Insert(v) \/ Lands(v) \/ SessionCommits(v) \/ Violated(v)

LogSpec == LogInit /\ [][LogNext]_logVars

-----------------------------------------------------------------------------
LogTypeOK ==
    /\ \A v \in Writers : /\ writer[v].attempt \in 0..MESSAGE_SEQ_RETRY_ATTEMPTS
                          /\ writer[v].left \in 0..2
                          /\ writer[v].child \in {None, "spawned", "joined", "own", "refused"}
    /\ marks \subseteq Writers \X {"task", "child"}

(* Whatever writers raced, retried or rolled back, the log is 1, 2, 3, ...  *)
(* with one message at each seq: readers by seq neither skip nor repeat.    *)
SeqContiguous ==
    {row.seq : row \in log} = 1..Cardinality(log)

(* The two messages of a pair are seen together and next to each other: a   *)
(* salvaged answer never without its note, nothing written between them.    *)
PairIndivisible ==
    \A row \in log : does[row.writer].calls[row.at] = "append_pair" =>
        \E other \in log :
            /\ other.writer = row.writer /\ other.at = row.at
            /\ {row.part, other.part} = {1, 2}
            /\ other.seq + other.part = row.seq + row.part

(* The messages a program stores, by call and part. *)
Owed(v) ==
    UNION {{<<i, part>> : part \in 1..(IF does[v].calls[i] = "append_pair" THEN 2 ELSE 1)} :
              i \in {j \in 1..Len(does[v].calls) : does[v].calls[j] # "write"}}
Stored(v) == {<<row.at, row.part>> : row \in {x \in log : x.writer = v}}
Writes(v) == \E i \in 1..Len(does[v].calls) : does[v].calls[i] = "write"

(* A writer that returned has everything it wrote in the database, the      *)
(* writes before a retried append included; one that failed has nothing     *)
(* there.                                                                   *)
AllOrNothing ==
    \A v \in Writers :
        /\ writer[v].pc = "returned" => /\ Stored(v) = Owed(v)
                                        /\ Writes(v) => <<v, "task">> \in marks
        /\ writer[v].pc # "returned" => Stored(v) = {} /\ <<v, "task">> \notin marks

(* A write a spawned task was told is done, by its own session or by the    *)
(* unit that took it in and committed, is in the database.                  *)
ChildIsStored ==
    \A v \in Writers :
        /\ writer[v].child = "own" => <<v, "child">> \in marks
        /\ writer[v].child = "joined" /\ ~Open(v) =>
              (<<v, "child">> \in marks <=> writer[v].pc = "returned")

(* An append gives up only when its idempotency key is already taken, or    *)
(* after as many other commits as it has attempts: a writer is not lost to  *)
(* one race.                                                                *)
LosesOnlyToOthers ==
    \A v \in Writers :
        writer[v].pc = "raised" =>
            \/ \E row \in log : row.key # None /\ row.key = does[v].key
            \/ writer[v].beaten >= MESSAGE_SEQ_RETRY_ATTEMPTS
=============================================================================
