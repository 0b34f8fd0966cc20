------------------------------- MODULE PlanCaps -------------------------------
(***************************************************************************)
(* The caps of a plan that are checked where something is created: the     *)
(* characters of a user's memories (memory/tools.py) and the number of     *)
(* their scheduled jobs (cron/api.py, and server/api/cron.py, the same     *)
(* store's HTTP door).  The checks read, await and write, two calls may    *)
(* overlap, and the operator may edit the plan between.                    *)
(***************************************************************************)
EXTENDS Naturals, FiniteSets, FiniteSetsExt, Functions

CONSTANTS Calls, Keys, Lengths, Drafts, MemoryCaps, JobCaps, MaxStored

VARIABLES max_memory_chars, max_cron_jobs,
          memories,   \* key -> length of the content, 0 = absent
          jobs,       \* draft -> how many identical jobs exist
          calls, stored,
          answer      \* of the step just taken

capVars == <<max_memory_chars, max_cron_jobs, memories, jobs, calls, stored, answer>>

NoCall == [pc |-> "idle", tool |-> "none", key |-> "none", length |-> 0, cap |-> 0, seen |-> 0, used |-> 0,
           alone |-> TRUE]
NoAnswer == [of |-> NoCall, ok |-> TRUE]
memory_chars == FoldFunction(+, 0, memories)
Count == FoldFunction(+, 0, jobs)

Init ==
  /\ max_memory_chars \in MemoryCaps /\ max_cron_jobs \in JobCaps
  /\ memories = [k \in Keys |-> 0] /\ jobs = [d \in Drafts |-> 0]
  /\ calls = [c \in Calls |-> NoCall] /\ stored = 0 /\ answer = NoAnswer

Begin(c, call) ==
  /\ calls[c].pc = "idle" /\ stored < MaxStored /\ stored' = stored + 1
  /\ calls' = [d \in Calls |-> IF d = c THEN [call EXCEPT !.alone = \A e \in Calls : calls[e].pc = "idle"]
                               ELSE IF calls[d].pc # "idle" THEN [calls[d] EXCEPT !.alone = FALSE] ELSE calls[d]]
  /\ answer' = NoAnswer /\ UNCHANGED <<max_memory_chars, max_cron_jobs, memories, jobs>>
Step(c, pc, next) == calls[c].pc = pc /\ calls' = [calls EXCEPT ![c] = next] /\ UNCHANGED stored
Answer(c, ok) == answer' = [of |-> calls[c], ok |-> ok]
Plan == UNCHANGED <<max_memory_chars, max_cron_jobs>>

-----------------------------------------------------------------------------
(* memory_store: the cap is read, ...                                      *)
memory_store(c, key, length) ==
  Begin(c, [NoCall EXCEPT !.pc = "used", !.tool = "memory_store", !.key = key, !.length = length,
                          !.cap = max_memory_chars])

(* ... the characters in use, ...                                          *)
_over_the_cap(c) ==
  /\ Step(c, "used", [calls[c] EXCEPT !.pc = "own", !.used = memory_chars])
  /\ answer' = NoAnswer /\ Plan /\ UNCHANGED <<memories, jobs>>

(* ... the content that the upsert releases, ...                           *)
_own_content_length(c) == memories[calls[c].key]

Project(c) ==
  LET next == [calls[c] EXCEPT !.seen = memories[calls[c].key]]
  IN /\ calls[c].pc = "own"
     /\ IF calls[c].used + calls[c].length <= calls[c].cap + _own_content_length(c)
        THEN Step(c, "own", [next EXCEPT !.pc = "save"]) /\ answer' = NoAnswer
        ELSE Step(c, "own", NoCall) /\ answer' = [of |-> next, ok |-> FALSE]
     /\ Plan /\ UNCHANGED <<memories, jobs>>

(* ... and the record is saved.                                            *)
save(c) ==
  /\ calls[c].tool = "memory_store" /\ Step(c, "save", NoCall)
  /\ memories' = [memories EXCEPT ![calls[c].key] = calls[c].length]
  /\ Answer(c, TRUE) /\ Plan /\ UNCHANGED jobs

memory_delete(k) ==
  /\ memories[k] > 0 /\ memories' = [memories EXCEPT ![k] = 0]
  /\ answer' = NoAnswer /\ Plan /\ UNCHANGED <<jobs, calls, stored>>

-----------------------------------------------------------------------------
(* task_create with a schedule: the cap is read, ...                       *)
task_create(c, draft) ==
  Begin(c, [NoCall EXCEPT !.pc = "list", !.tool = "create_job", !.key = draft, !.cap = max_cron_jobs])

_find_duplicate(c) == jobs[calls[c].key] > 0

job_quota_refusal(existing, max) == existing >= max

(* ... one list serves both checks: a duplicate is never refused, ...      *)
create_job(c) ==
  /\ calls[c].pc = "list"
  /\ IF _find_duplicate(c) THEN Step(c, "list", NoCall) /\ Answer(c, TRUE)
     ELSE IF job_quota_refusal(Count, calls[c].cap) THEN Step(c, "list", NoCall) /\ Answer(c, FALSE)
     ELSE Step(c, "list", [calls[c] EXCEPT !.pc = "save"]) /\ answer' = NoAnswer
  /\ Plan /\ UNCHANGED <<memories, jobs>>

(* POST /api/cron/jobs: the same cap, and no look for a duplicate.         *)
post_job(c, draft) ==
  Begin(c, [NoCall EXCEPT !.pc = "count", !.tool = "post_job", !.key = draft, !.cap = max_cron_jobs])

PostChecked(c) ==
  /\ calls[c].pc = "count"
  /\ IF job_quota_refusal(Count, calls[c].cap) THEN Step(c, "count", NoCall) /\ Answer(c, FALSE)
     ELSE Step(c, "count", [calls[c] EXCEPT !.pc = "save"]) /\ answer' = NoAnswer
  /\ Plan /\ UNCHANGED <<memories, jobs>>

(* ... and the job is stored.                                              *)
create(c) ==
  /\ calls[c].tool \in {"create_job", "post_job"} /\ Step(c, "save", NoCall)
  /\ jobs' = [jobs EXCEPT ![calls[c].key] = @ + 1]
  /\ Answer(c, TRUE) /\ Plan /\ UNCHANGED memories

delete_for_user(d) ==
  /\ jobs[d] > 0 /\ jobs' = [jobs EXCEPT ![d] = @ - 1]
  /\ answer' = NoAnswer /\ Plan /\ UNCHANGED <<memories, calls, stored>>

(* The operator edits the plan.                                            *)
put(m, j) ==
  /\ max_memory_chars' = m /\ max_cron_jobs' = j
  /\ calls' = [c \in Calls |-> [calls[c] EXCEPT !.alone = calls[c].pc = "idle"]]
  /\ answer' = NoAnswer /\ UNCHANGED <<memories, jobs, stored>>

Next ==
  \/ \E c \in Calls, k \in Keys, l \in Lengths : memory_store(c, k, l)
  \/ \E c \in Calls, d \in Drafts : task_create(c, d) \/ post_job(c, d)
  \/ \E c \in Calls : _over_the_cap(c) \/ Project(c) \/ save(c) \/ create_job(c) \/ PostChecked(c) \/ create(c)
  \/ \E k \in Keys : memory_delete(k)
  \/ \E d \in Drafts : delete_for_user(d)
  \/ \E m \in MemoryCaps, j \in JobCaps : put(m, j)

Spec == Init /\ [][Next]_capVars

-----------------------------------------------------------------------------
(* Calls, lengths and counts are well formed.                              *)
CapsTypeOK ==
  /\ \A k \in Keys : memories[k] \in {0} \union Lengths
  /\ \A d \in Drafts : jobs[d] \in 0..MaxStored

(* What one undisturbed call creates keeps within the cap it read, through *)
(* the agent's tool and through HTTP: no "entrance" is "a bypass".         *)
CreatedWithinCap ==
  answer # NoAnswer /\ answer.ok /\ answer.of.alone /\ answer.of.pc = "save" =>
    CASE answer.of.tool = "memory_store" -> memory_chars <= answer.of.cap
      [] answer.of.tool \in {"create_job", "post_job"} -> Count <= answer.of.cap

(* "a shrinking rewrite always passes even over a full memory", where the  *)
(* memory is within the cap: a lowered plan is the exception.              *)
ShrinkingPasses ==
  ~answer.ok /\ answer.of.tool = "memory_store" /\ answer.of.alone /\ answer.of.used <= answer.of.cap =>
    answer.of.length > answer.of.seen

(* "Identical jobs are deduplicated", and "a duplicate is therefore never  *)
(* refused by the quota", but for identical creations that overlap.        *)
DuplicatesAnswered ==
  /\ ~answer.ok /\ answer.of.tool = "create_job" => jobs[answer.of.key] = 0
  /\ answer.ok /\ answer.of.tool = "create_job" /\ answer.of.pc = "save" /\ answer.of.alone => jobs[answer.of.key] = 1
=============================================================================
