------------------------------ MODULE Compaction ------------------------------
(***************************************************************************)
(* The three levels of a dialog's context (context/compactor.py over       *)
(* context/store.py) and the actor's use of them (agent/runner.py): the    *)
(* archive of messages, the rolling summary of its oldest part, and the    *)
(* in-memory narrative.  The actor and the pumps persist messages and then *)
(* append them; pumps assemble branches; one background task compacts.     *)
(* Each reads the database and resumes later.  A message is its seq; an    *)
(* interrupted answer has length two and any other message length one.     *)
(***************************************************************************)
EXTENDS Naturals, Sequences, SequencesExt, FiniteSets, FiniteSetsExt

CONSTANTS Pumps, Tasks,       \* compaction tasks that may exist at once
          hot_max_chars, compact_target_chars, SEGMENT_FETCH_LIMIT,
          MaxMessages

VARIABLES archive,    \* kinds of the stored messages: "m", or a pair "a", "n"
          summary,    \* the rolling summary: its seq_to, and what was merged into it
          narrative,  \* the actor's in-memory list
          pending,    \* persisted, not appended yet
          asm,        \* the assemble that holds _assemble_lock
          tasks,      \* compaction tasks
          branch, watermark

compactionVars == <<archive, summary, narrative, pending, asm, tasks, branch, watermark>>

Seqs == DOMAIN archive
NoSummary == [to |-> 0, covers |-> {}]
Unlocked == [pc |-> "idle", by |-> 0, summary |-> NoSummary, read |-> FALSE, count |-> 0, counted |-> 0,
             known |-> FALSE, snap |-> 0, tail |-> <<>>, owed |-> {}, raced |-> FALSE]
Idle == [pc |-> "idle", from |-> 0, segment |-> <<>>, previous |-> {}]

Init ==
  /\ archive = <<>> /\ summary = NoSummary /\ narrative = <<>> /\ pending = {}
  /\ asm = Unlocked /\ tasks = [t \in Tasks |-> Idle]
  /\ branch = [p \in Pumps |-> {}] /\ watermark = [p \in Pumps |-> 0]

-----------------------------------------------------------------------------
InOrder(s) == \A i \in 1..(Len(s) - 1) : s[i] < s[i + 1]

(* A message, or a salvaged answer with its note, is stored...             *)
_persist(kinds) ==
  /\ Len(archive) + Len(kinds) <= MaxMessages
  /\ archive' = archive \o kinds
  /\ pending' = pending \union {[i \in DOMAIN kinds |-> Len(archive) + i]}
  /\ UNCHANGED <<summary, narrative, asm, tasks, branch, watermark>>

(* ... and appended when the writer resumes: a final after its commit, a   *)
(* user's message once it is routed.                                       *)
AppendToNarrative(m) ==
  /\ narrative' = narrative \o m /\ pending' = pending \ {m}
  /\ asm' = [asm EXCEPT !.raced = @ \/ (asm.known /\ asm.pc # "return") \/ ~InOrder(narrative')]
  /\ UNCHANGED <<archive, summary, tasks, branch, watermark>>

-----------------------------------------------------------------------------
(* _assemble_narrative takes the lock; assemble starts its two reads.      *)
assemble(p) ==
  /\ asm.pc = "idle" /\ narrative # <<>>
  /\ asm' = [Unlocked EXCEPT !.pc = "reads", !.by = p, !.owed = Range(narrative),
                                !.raced = ~InOrder(narrative)]
  /\ UNCHANGED <<archive, summary, narrative, pending, tasks, branch, watermark>>

list_for_dialog ==
  /\ asm.pc = "reads" /\ ~asm.read
  /\ asm' = [asm EXCEPT !.read = TRUE, !.summary = summary]
  /\ UNCHANGED <<archive, summary, narrative, pending, tasks, branch, watermark>>

count_hot_tail ==
  /\ asm.pc = "reads" /\ ~asm.known
  /\ asm' = [asm EXCEPT !.known = TRUE, !.counted = summary.to,
                        !.count = Cardinality({s \in Seqs : s > summary.to})]
  /\ UNCHANGED <<archive, summary, narrative, pending, tasks, branch, watermark>>

(* Mutant: boundaries that disagree are not noticed. *)
NoReread ==
  /\ asm.pc = "reads" /\ asm.read /\ asm.known
  /\ asm' = [asm EXCEPT !.pc = "snapshot"]
  /\ UNCHANGED <<archive, summary, narrative, pending, tasks, branch, watermark>>

(* Boundaries that disagree: the summaries are read again.                 *)
Reread ==
  /\ asm.pc = "reads" /\ asm.read /\ asm.known
  /\ asm' = [asm EXCEPT !.pc = "snapshot",
                        !.summary = IF asm.counted # asm.summary.to THEN summary ELSE asm.summary]
  /\ UNCHANGED <<archive, summary, narrative, pending, tasks, branch, watermark>>

_chars(s) == Len(s) + Cardinality({i \in DOMAIN s : archive[s[i]] = "a"})

_tail_of(count) == SubSeq(narrative, Len(narrative) - Min({count, Len(narrative)}) + 1, Len(narrative))

(* _start_compact: one task per dialog.                                    *)
_start_compact(t) == \A u \in Tasks : tasks[u].pc = "idle"

Begun(t) == [tasks EXCEPT ![t].pc = "boundary"]
Free == {t \in Tasks : _start_compact(t)}

(* The snapshot moment; an overflow of the tail or of the model's window   *)
(* triggers a compaction.                                                  *)
Snapshot(overflow) ==
  LET tail == _tail_of(asm.count)
  IN /\ asm.pc = "snapshot"
     /\ asm' = [asm EXCEPT !.pc = "return", !.snap = Len(narrative), !.tail = tail]
     /\ tasks' = IF (_chars(tail) > hot_max_chars \/ overflow) /\ Free # {} THEN Begun(Min(Free)) ELSE tasks
     /\ UNCHANGED <<archive, summary, narrative, pending, branch, watermark>>

(* _trim_narrative: by the snapshot's coordinates; watermarks shift.       *)
_trim_narrative(drop) ==
  /\ narrative' = SubSeq(narrative, drop + 1, Len(narrative))
  /\ watermark' = [p \in Pumps |-> IF p = asm.by THEN Len(asm.tail)
                                   ELSE IF watermark[p] > drop THEN watermark[p] - drop ELSE 0]

(* The lock is released; the pump's branch is what was assembled.          *)
_assemble_narrative ==
  /\ asm.pc = "return"
  /\ _trim_narrative(asm.snap - Len(asm.tail))
  /\ branch' = [branch EXCEPT ![asm.by] = asm.summary.covers \union Range(asm.tail)]
  /\ asm' = Unlocked
  /\ UNCHANGED <<archive, summary, pending, tasks>>

-----------------------------------------------------------------------------
_is_split_pair(a, b) == archive[a] = "a" /\ archive[b] = "n"

Fits(tail, n) == n <= 1 \/ _chars(SubSeq(tail, 1, n)) <= compact_target_chars

(* select_compact_segment: the oldest messages up to the target, never the *)
(* last, never half a pair.                                                *)
select_compact_segment(tail) ==
  LET n == Max({i \in 0..(Len(tail) - 1) : Fits(tail, i)})
      split == n > 0 /\ _is_split_pair(tail[n], tail[n + 1])
  IN SubSeq(tail, 1, IF ~split THEN n ELSE IF n + 1 = Len(tail) THEN n - 1 ELSE n + 1)

Compact(t, pc, next) == tasks[t].pc = pc /\ tasks' = [tasks EXCEPT ![t] = next]
                        /\ UNCHANGED <<archive, narrative, pending, asm, branch, watermark>>

(* _compact: the boundary, the tail past it, the previous summary, the     *)
(* merge and one write.                                                    *)
max_seq_to(t) == Compact(t, "boundary", [tasks[t] EXCEPT !.pc = "tail", !.from = summary.to])
                 /\ UNCHANGED summary

tail_after(t) ==
  LET rest == {s \in Seqs : s > tasks[t].from}
      tail == SubSeq(SetToSortSeq(rest, <), 1, Min({SEGMENT_FETCH_LIMIT, Cardinality(rest)}))
      segment == IF tail = <<>> THEN <<>> ELSE select_compact_segment(tail)
  IN /\ Compact(t, "tail", IF segment = <<>> THEN Idle
                           ELSE [tasks[t] EXCEPT !.pc = "previous", !.segment = segment])
     /\ UNCHANGED summary

Previous(t) == Compact(t, "previous", [tasks[t] EXCEPT !.pc = "merge", !.previous = summary.covers])
               /\ UNCHANGED summary

_summarize(t) ==
  /\ Compact(t, "merge", Idle)
  /\ summary' = [to |-> Last(tasks[t].segment),
                 covers |-> tasks[t].previous \union Range(tasks[t].segment)]

(* A failed or closed compaction leaves nothing behind.  The close is one  *)
(* step: the code takes the task out of _running before it has ended, and  *)
(* a second one that begins in between is left out.                        *)
aclose(t) == tasks[t].pc # "idle" /\ Compact(t, tasks[t].pc, Idle) /\ UNCHANGED summary

(* compact_now: join the run in flight or start one; the caller waits.     *)
compact_now == Free # {} /\ tasks' = Begun(Min(Free))
               /\ UNCHANGED <<archive, summary, narrative, pending, asm, branch, watermark>>

(* A restart: the narrative is the hot slice of the archive.               *)
Restart ==
  /\ archive # <<>>
  /\ narrative' = SetToSortSeq({s \in Seqs : s > summary.to}, <)
  /\ pending' = {} /\ asm' = Unlocked /\ tasks' = [t \in Tasks |-> Idle]
  /\ branch' = [p \in Pumps |-> {}] /\ watermark' = [p \in Pumps |-> 0]
  /\ UNCHANGED <<archive, summary>>

Next ==
  \/ _persist(<<"m">>) \/ _persist(<<"a", "n">>)
  \/ \E m \in pending : AppendToNarrative(m)
  \/ \E p \in Pumps : assemble(p)
  \/ list_for_dialog \/ count_hot_tail \/ Reread \/ _assemble_narrative
  \/ \E overflow \in BOOLEAN : Snapshot(overflow)
  \/ \E t \in Tasks : max_seq_to(t) \/ tail_after(t) \/ Previous(t) \/ _summarize(t) \/ aclose(t)
  \/ compact_now
  \/ Restart

Spec == Init /\ [][Next]_compactionVars

-----------------------------------------------------------------------------
(* The narrative and the summary are of the archive; watermarks are        *)
(* positions of the narrative.                                             *)
CompactionTypeOK ==
  /\ Range(narrative) \subseteq Seqs /\ summary.to \in {0} \union Seqs
  /\ \A p \in Pumps : watermark[p] \in 0..Len(narrative)

(* The rolling summary covers the archive from its first message to its    *)
(* boundary, and "the LAST message never leaves the tail".                 *)
SummaryWhole == summary.covers = 1..summary.to /\ (archive # <<>> => summary.to < Len(archive))

(* "A salvaged pair is never split": the boundary never falls between an   *)
(* interrupted answer and the note that says so.                           *)
PairsTogether ==
  summary.to > 0 /\ summary.to < Len(archive) => ~_is_split_pair(summary.to, summary.to + 1)

(* What each step owes BoundaryForward.                                   *)
BoundaryForwardStep ==
    summary'.to >= summary.to

(* "the boundary only moves forward", which one compaction per dialog      *)
(* guarantees and one re-read in assemble relies on (a task that is closed *)
(* and goes on beside the next one could take it back: see aclose).        *)
BoundaryForward == [][BoundaryForwardStep]_compactionVars

(* "afterwards the topics block covers at least everything the counter     *)
(* trimmed": an assembled context holds every message that was in the      *)
(* narrative, as summary or verbatim.                                      *)
NeverAGap == asm.pc = "return" => asm.owed \subseteq asm.summary.covers \union Range(asm.tail)

(* The same where the narrative mirrors the archive in order and nothing   *)
(* is appended between the count and the snapshot: _tail_of, which counts  *)
(* from the end, allows for neither.                                       *)
NoGapUndisturbed == ~asm.raced => NeverAGap

(* "it must stay above the watermark or the pull model silently loses it": *)
(* a message no assemble gave to a pump's branch lies past its watermark.  *)
UnseenPastWatermark ==
  \A p \in Pumps : \A i \in 1..watermark[p] : narrative[i] \in branch[p]
=============================================================================
