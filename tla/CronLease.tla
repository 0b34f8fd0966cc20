------------------------------ MODULE CronLease ------------------------------
(***************************************************************************)
(* Cron: several scheduler instances poll one table of jobs, take a lease  *)
(* on a due job with one conditional UPDATE, wake the owner's dialog and   *)
(* move the schedule on (core/.../cron/scheduler.py, store.py,             *)
(* reporter.py).                                                           *)
(*                                                                         *)
(* The clock is relative. A lease and a tick have ages, which is all that  *)
(* `claimed_at < stale_before' compares. next_fire_at is the number of an  *)
(* occurrence of the job's schedule, occ[j] the number of the last         *)
(* occurrence that has passed; a tick works with the numbers as they were  *)
(* when it read the clock.                                                 *)
(***************************************************************************)
EXTENDS Naturals, FiniteSets

CONSTANTS
    Jobs,             \* the jobs
    Schedulers,       \* scheduler instances
    Nobody,           \* claimed_by IS NULL
    TTL,              \* lease_ttl_seconds, in units of the clock
    ReplayLimit,      \* replay_limit: jobs fired by one tick
    MaxOccurrences,   \* bound: occurrences of each schedule
    MaxTroubles,      \* bound: interruptions, store errors and refused wakes
    MaxEdits          \* bound: pauses, resumes and deletions

ASSUME CronAssumption ==
    /\ Nobody \notin Schedulers
    /\ TTL \in Nat /\ ReplayLimit \in Nat \ {0}
    /\ MaxOccurrences \in Nat /\ MaxTroubles \in Nat /\ MaxEdits \in Nat

VARIABLES
    job,      \* CronJobRow: claimed_by is `by', the age of claimed_at is `age'
    occ,      \* the last occurrence of each job that has passed
    sch,      \* a scheduler's tick: what it has listed and where it is
    running,  \* per job, the processes its fires have started and that run
    fires,    \* ghost: per job and occurrence, the fires that covered it
    excused,  \* ghost: per job, the fires that an interruption kept unrecorded
    used      \* how often each bounded event has happened

vars == <<job, occ, sch, running, fires, excused, used>>

Occurrences == 1..MaxOccurrences
Ages == 0..(2 * TTL + 1)
Older(age) == IF age = 2 * TTL + 1 THEN age ELSE age + 1

Trouble ==
    /\ used.troubles < MaxTroubles
    /\ used' = [used EXCEPT !.troubles = @ + 1]

Edit ==
    /\ used.edits < MaxEdits
    /\ used' = [used EXCEPT !.edits = @ + 1]

IdleTick == [pc |-> "idle", age |-> 0, at |-> [j \in Jobs |-> 0], due |-> {}, job |-> {}]

-----------------------------------------------------------------------------
(* The store *)

(* Mutants: a lease that ends with the tick's last moment; one that never   *)
(* goes stale.                                                              *)
ClaimableEarly(s, j) == job[j].by = Nobody \/ job[j].age >= sch[s].age + TTL
ClaimableOnce(s, j) == job[j].by = Nobody

(* claimed_by IS NULL OR claimed_at < stale_before, where stale_before is   *)
(* the tick's clock minus the lease.                                        *)
_claimable_clause(s, j) == job[j].by = Nobody \/ job[j].age > sch[s].age + TTL

(* The row of a new job: its first fire is the first occurrence to come. *)
create(one_shot) ==
    [there |-> TRUE, enabled |-> TRUE, one_shot |-> one_shot, next |-> 1, last |-> 0,
     by |-> Nobody, age |-> 0]

Due(s) == {j \in Jobs : /\ job[j].there /\ job[j].enabled
                        /\ job[j].next <= sch[s].at[j] /\ _claimable_clause(s, j)}

Listed(j) == [j |-> j, next |-> job[j].next, last |-> job[j].last]

(* Up to ReplayLimit due jobs, earliest first. *)
list_due(s) ==
    /\ sch[s].pc = "listing"
    /\ \E D \in SUBSET Due(s) :
          /\ \/ Cardinality(D) = ReplayLimit
             \/ D = Due(s) /\ Cardinality(D) < ReplayLimit
          /\ \A j \in D : \A k \in Due(s) \ D : job[j].next <= job[k].next
          /\ sch' = [sch EXCEPT ![s].pc = "firing", ![s].due = {Listed(j) : j \in D}]
    /\ UNCHANGED <<job, occ, running, fires, excused, used>>

(* Mutant: the row is not compared with what was listed. *)
ClaimAsListed(s, e) == job[e.j].there /\ job[e.j].enabled /\ _claimable_clause(s, e.j)

ClaimApplies(s, e) ==
    /\ job[e.j].there /\ job[e.j].enabled
    /\ job[e.j].next = e.next
    /\ _claimable_clause(s, e.j)

(* _fire begins: the lease, or the next job when somebody else has it. *)
claim(s) ==
    /\ sch[s].pc = "firing"
    /\ \E e \in sch[s].due :
          /\ \A o \in sch[s].due : e.next <= o.next
          /\ IF ClaimApplies(s, e)
             THEN /\ job' = [job EXCEPT ![e.j].by = s, ![e.j].age = sch[s].age]
                  /\ sch' = [sch EXCEPT ![s].pc = "waking", ![s].job = {e}, ![s].due = @ \ {e}]
             ELSE sch' = [sch EXCEPT ![s].due = @ \ {e}] /\ UNCHANGED job
    /\ UNCHANGED <<occ, running, fires, excused, used>>

-----------------------------------------------------------------------------
(* The waker *)

(* A process of the job is in the dialog: it stands for the occurrences     *)
(* since the last recorded fire (the others are reported as missed).        *)
Started(s, e) ==
    /\ running' = [running EXCEPT ![e.j] = @ + 1]
    /\ fires' = [fires EXCEPT ![e.j] =
          [o \in Occurrences |-> @[o] + IF e.last < o /\ o <= sch[s].at[e.j] THEN 1 ELSE 0]]

Delivered(s) ==
    /\ sch[s].pc = "waking"
    /\ \E e \in sch[s].job : Started(s, e)
    /\ sch' = [sch EXCEPT ![s].pc = "completing"]
    /\ UNCHANGED <<job, occ, excused, used>>

(* The dialog has no slot or no budget: the claim stays. *)
Limited(s) ==
    /\ sch[s].pc = "waking"
    /\ Trouble
    /\ sch' = [sch EXCEPT ![s].pc = "firing", ![s].job = {}]
    /\ UNCHANGED <<job, occ, running, fires, excused>>

(* Another instance has the dialog, or the wake raises: the lease goes back. *)
NotOurs(s) ==
    /\ sch[s].pc = "waking"
    /\ Trouble
    /\ sch' = [sch EXCEPT ![s].pc = "releasing"]
    /\ UNCHANGED <<job, occ, running, fires, excused>>

WakeRaises(s) ==
    /\ sch[s].pc = "waking"
    /\ Trouble
    /\ sch' = [sch EXCEPT ![s].pc = "releasing"]
    /\ UNCHANGED <<job, occ, running, fires, excused>>

release_claim(s) ==
    /\ sch[s].pc = "releasing"
    /\ \E e \in sch[s].job : job' = [job EXCEPT ![e.j].by = Nobody, ![e.j].age = 0]
    /\ sch' = [sch EXCEPT ![s].pc = "firing", ![s].job = {}]
    /\ UNCHANGED <<occ, running, fires, excused, used>>

(* The schedule goes on from the tick's clock. *)
complete_fire(s) ==
    /\ sch[s].pc = "completing"
    /\ \E e \in sch[s].job :
          job' = [job EXCEPT ![e.j].last = sch[s].at[e.j], ![e.j].next = sch[s].at[e.j] + 1,
                             ![e.j].by = Nobody, ![e.j].age = 0]
    /\ sch' = [sch EXCEPT ![s].pc = "firing", ![s].job = {}]
    /\ UNCHANGED <<occ, running, fires, excused, used>>

-----------------------------------------------------------------------------
(* A tick: its start and its ends *)

StartTick(s) ==
    /\ sch[s].pc = "idle"
    /\ sch' = [sch EXCEPT ![s] = [IdleTick EXCEPT !.pc = "listing", !.at = occ]]
    /\ UNCHANGED <<job, occ, running, fires, excused, used>>

TickEnds(s) ==
    /\ sch[s].pc = "firing" /\ sch[s].due = {}
    /\ sch' = [sch EXCEPT ![s] = IdleTick]
    /\ UNCHANGED <<job, occ, running, fires, excused, used>>

(* A store error ends the tick; one in complete_fire only skips the write. *)
TickFails(s) ==
    /\ sch[s].pc \in {"listing", "firing", "releasing"}
    /\ Trouble
    /\ sch' = [sch EXCEPT ![s] = IdleTick]
    /\ UNCHANGED <<job, occ, running, fires, excused>>

CompleteFails(s) ==
    /\ sch[s].pc = "completing"
    /\ Trouble
    /\ excused' = [j \in Jobs |-> excused[j] + Cardinality({e \in sch[s].job : e.j = j})]
    /\ sch' = [sch EXCEPT ![s].pc = "firing", ![s].job = {}]
    /\ UNCHANGED <<job, occ, running, fires>>

(* run_forever cancels a tick as old as the lease, and an instance may die  *)
(* at any moment. A wake that is cut off may have committed its task, which *)
(* the dialog's recovery will start.                                        *)
Interrupted(s) ==
    /\ sch[s].pc # "idle"
    /\ Trouble
    /\ \/ /\ sch[s].pc = "waking"
          /\ \E e \in sch[s].job : Started(s, e)
       \/ UNCHANGED <<running, fires>>
    /\ excused' = [j \in Jobs |->
          excused[j] + Cardinality({e \in sch[s].job : e.j = j /\ sch[s].pc # "releasing"})]
    /\ sch' = [sch EXCEPT ![s] = IdleTick]
    /\ UNCHANGED <<job, occ>>

(* No tick outlives run_forever's wait_for, which ends it as Interrupted. *)
TimePasses ==
    /\ \A s \in Schedulers : sch[s].pc # "idle" => sch[s].age < TTL
    /\ job' = [j \in Jobs |-> IF job[j].by = Nobody THEN job[j]
                              ELSE [job[j] EXCEPT !.age = Older(@)]]
    /\ sch' = [s \in Schedulers |-> IF sch[s].pc = "idle" THEN sch[s]
                                    ELSE [sch[s] EXCEPT !.age = @ + 1]]
    /\ UNCHANGED <<occ, running, fires, excused, used>>

Occurs(j) ==
    /\ occ[j] < MaxOccurrences
    /\ occ' = [occ EXCEPT ![j] = @ + 1]
    /\ UNCHANGED <<job, sch, running, fires, excused, used>>

-----------------------------------------------------------------------------
(* The owner and the dialog *)

pause(j) ==
    /\ job[j].there
    /\ Edit
    /\ job' = [job EXCEPT ![j].enabled = FALSE]
    /\ UNCHANGED <<occ, sch, running, fires, excused>>

resume(j) ==
    /\ job[j].there
    /\ Edit
    /\ job' = [job EXCEPT ![j].enabled = TRUE, ![j].next = occ[j] + 1]
    /\ UNCHANGED <<occ, sch, running, fires, excused>>

delete_for_user(j) ==
    /\ job[j].there
    /\ Edit
    /\ job' = [job EXCEPT ![j].there = FALSE]
    /\ UNCHANGED <<occ, sch, running, fires, excused>>

(* A fired process ends. One shot means one attempt, unless it was          *)
(* cancelled; the outcome of any other is only recorded.                    *)
report_outcome(j) ==
    /\ running[j] > 0
    /\ running' = [running EXCEPT ![j] = @ - 1]
    /\ \E status \in {"DONE", "FAILED", "CANCELLED"} :
          job' = IF job[j].one_shot /\ status # "CANCELLED"
                 THEN [job EXCEPT ![j].there = FALSE] ELSE job
    /\ UNCHANGED <<occ, sch, fires, excused, used>>

-----------------------------------------------------------------------------

Init ==
    /\ \E one_shot \in BOOLEAN : job = [j \in Jobs |-> create(one_shot)]
    /\ occ = [j \in Jobs |-> 0]
    /\ sch = [s \in Schedulers |-> IdleTick]
    /\ running = [j \in Jobs |-> 0]
    /\ fires = [j \in Jobs |-> [o \in Occurrences |-> 0]]
    /\ excused = [j \in Jobs |-> 0]
    /\ used = [troubles |-> 0, edits |-> 0]

SchedulerStep(s) ==
    \/ StartTick(s) \/ list_due(s) \/ claim(s)
    \/ Delivered(s) \/ Limited(s) \/ NotOurs(s) \/ WakeRaises(s)
    \/ release_claim(s) \/ complete_fire(s) \/ CompleteFails(s) \/ TickEnds(s)

OwnerStep(j) == pause(j) \/ resume(j) \/ delete_for_user(j)

Next ==
    \/ \E s \in Schedulers : SchedulerStep(s) \/ TickFails(s) \/ Interrupted(s)
    \/ \E j \in Jobs : Occurs(j) \/ OwnerStep(j) \/ report_outcome(j)
    \/ TimePasses

Spec == Init /\ [][Next]_vars

FairSpec == Spec /\ WF_vars(TimePasses) /\ \A s \in Schedulers : WF_vars(SchedulerStep(s))

-----------------------------------------------------------------------------
(* Properties *)

JobType == [there : BOOLEAN, enabled : BOOLEAN, one_shot : BOOLEAN, next : Nat, last : Nat,
            by : Schedulers \cup {Nobody}, age : Ages]

ListedType == [j : Jobs, next : Nat, last : Nat]

TickType == [pc : {"idle", "listing", "firing", "waking", "releasing", "completing"},
             age : 0..TTL, at : [Jobs -> Nat], due : SUBSET ListedType, job : SUBSET ListedType]

(* Every variable keeps its shape; in particular no tick gets older than    *)
(* the lease it takes.                                                      *)
CronTypeOK ==
    /\ job \in [Jobs -> JobType]
    /\ occ \in [Jobs -> Nat]
    /\ sch \in [Schedulers -> TickType]
    /\ running \in [Jobs -> Nat]
    /\ used \in [troubles : Nat, edits : Nat]

Fires(s, j) == sch[s].pc \in {"waking", "releasing", "completing"}
                   /\ \E e \in sch[s].job : e.j = j

(* Two schedulers are never in the middle of firing one job: a lease only   *)
(* goes stale after its tick has been cancelled, so release_claim and       *)
(* complete_fire, which name no owner, never undo somebody else's claim.    *)
OneFirerPerJob ==
    \A s, r \in Schedulers : s # r => \A j \in Jobs : ~(Fires(s, j) /\ Fires(r, j))

(* Exactly-once firing: an occurrence is covered by one fire, and by one    *)
(* more for each fire that was interrupted, or whose complete_fire failed,  *)
(* before it was recorded.                                                  *)
FiredOnce == \A j \in Jobs, o \in Occurrences : fires[j][o] <= 1 + excused[j]

(* A due job fires: whatever ticks die, time out or fail, its schedule      *)
(* moves on, or its owner pauses or deletes it.                             *)
DueIsServed ==
    \A j \in Jobs :
        job[j].there /\ job[j].enabled /\ job[j].next <= occ[j]
            ~> ~job[j].there \/ ~job[j].enabled \/ job[j].next > occ[j]

=============================================================================
