------------------------------ MODULE CronProofs ------------------------------
(***************************************************************************)
(* The lease on a cron job, which the schedulers of several instances      *)
(* compete for, proved safe for any number of instances and any bounds.    *)
(*                                                                         *)
(* OneFirerPerJob is not inductive: that a second scheduler cannot claim a *)
(* job depends on how old the first one's lease is. LeaseHeld adds it: the *)
(* row of a job names the scheduler that fires it, and the lease is as old *)
(* as that scheduler's tick, so at most TTL, while a stale one is older.   *)
(***************************************************************************)
EXTENDS CronLease, FiniteSetTheorems, TLAPS

(* claimed_by and claimed_at of a job that is being fired are its firer's. *)
LeaseHeld ==
    \A s \in Schedulers, j \in Jobs :
        Fires(s, j) => job[j].by = s /\ job[j].age = sch[s].age

(* The initial tables have the declared types. *)
LEMMA CronInitTypes == Init => CronTypeOK
<1> SUFFICES ASSUME Init PROVE CronTypeOK
  OBVIOUS
<1> USE CronAssumption
<1>1. IdleTick \in TickType
  BY DEF IdleTick, TickType
<1>2. \A b \in BOOLEAN : create(b) \in JobType
  BY DEF create, JobType, Ages
<1>3. job \in [Jobs -> JobType]
  BY <1>2 DEF Init
<1> QED
  BY <1>1, <1>3 DEF Init, CronTypeOK

(* Every step keeps the types; a tick's age stops at the lease because      *)
(* TimePasses waits for run_forever's timeout.                              *)
LEMMA CronTypeStep == CronTypeOK /\ [Next]_vars => CronTypeOK'
<1> SUFFICES ASSUME CronTypeOK, [Next]_vars PROVE CronTypeOK'
  OBVIOUS
<1> USE CronAssumption
<1>i. IdleTick \in TickType
  BY DEF IdleTick, TickType
<1>a. Trouble => used' \in [troubles : Nat, edits : Nat]
  BY DEF Trouble, CronTypeOK
<1>b. Edit => used' \in [troubles : Nat, edits : Nat]
  BY DEF Edit, CronTypeOK
<1>c. \A s \in Schedulers : \A e \in sch[s].job \cup sch[s].due : e \in ListedType
  BY DEF CronTypeOK, TickType
<1>d. ASSUME NEW s \in Schedulers, NEW e \in sch[s].job, Started(s, e)
      PROVE  running' \in [Jobs -> Nat]
  BY <1>c, <1>d DEF Started, CronTypeOK, ListedType
<1>t. \A s \in Schedulers : sch[s] \in TickType
  BY DEF CronTypeOK
<1>j. \A j \in Jobs : job[j] \in JobType
  BY DEF CronTypeOK
<1>1. ASSUME NEW s \in Schedulers, StartTick(s) PROVE CronTypeOK'
  <2>1. [IdleTick EXCEPT !.pc = "listing", !.at = occ] \in TickType
    BY <1>i, ZenonT(60) DEF CronTypeOK, TickType
  <2> QED
    BY <1>1, <2>1 DEF StartTick, CronTypeOK
<1>2. ASSUME NEW s \in Schedulers, list_due(s) PROVE CronTypeOK'
  <2>1. PICK D \in SUBSET Due(s) :
           sch' = [sch EXCEPT ![s].pc = "firing", ![s].due = {Listed(j) : j \in D}]
    BY <1>2, SMTT(60) DEF list_due
  <2>2. \A j \in Jobs : Listed(j) \in ListedType
    BY DEF Listed, ListedType, CronTypeOK, JobType
  <2>3. {Listed(j) : j \in D} \subseteq ListedType
    BY <2>2 DEF Due
  <2>4. sch' \in [Schedulers -> TickType]
    <3>1. [sch[s] EXCEPT !.pc = "firing", !.due = {Listed(j) : j \in D}] \in TickType
      BY <1>t, <2>3, ZenonT(60) DEF TickType
    <3> QED
      BY <2>1, <3>1 DEF CronTypeOK
  <2> QED
    BY <1>2, <2>4 DEF list_due, CronTypeOK
<1>3. ASSUME NEW s \in Schedulers, claim(s) PROVE CronTypeOK'
  <2>1. PICK e \in sch[s].due :
           IF ClaimApplies(s, e)
           THEN /\ job' = [job EXCEPT ![e.j].by = s, ![e.j].age = sch[s].age]
                /\ sch' = [sch EXCEPT ![s].pc = "waking", ![s].job = {e}, ![s].due = @ \ {e}]
           ELSE sch' = [sch EXCEPT ![s].due = @ \ {e}] /\ UNCHANGED job
    BY <1>3, ZenonT(60) DEF claim
  <2>2. e \in ListedType /\ e.j \in Jobs
    BY <1>c DEF ListedType
  <2>3. sch[s].age \in Ages
    BY DEF CronTypeOK, TickType, Ages
  <2>4. job' \in [Jobs -> JobType]
    <3>1. [job[e.j] EXCEPT !.by = s, !.age = sch[s].age] \in JobType
      BY <1>j, <2>2, <2>3, ZenonT(60) DEF JobType
    <3> QED
      BY <2>1, <2>2, <3>1, ZenonT(60) DEF CronTypeOK
  <2>5. sch' \in [Schedulers -> TickType]
    <3>1. [sch[s] EXCEPT !.pc = "waking", !.job = {e}, !.due = @ \ {e}] \in TickType
      BY <1>t, <2>2, ZenonT(60) DEF TickType
    <3>2. [sch[s] EXCEPT !.due = @ \ {e}] \in TickType
      BY <1>t DEF TickType
    <3> QED
      BY <2>1, <3>1, <3>2, ZenonT(60) DEF CronTypeOK
  <2> QED
    BY <1>3, <2>4, <2>5 DEF claim, CronTypeOK
<1>4. ASSUME NEW s \in Schedulers, Delivered(s) PROVE CronTypeOK'
  <2>1. running' \in [Jobs -> Nat]
    BY <1>4, <1>d DEF Delivered
  <2>2. sch' \in [Schedulers -> TickType]
    <3>1. [sch[s] EXCEPT !.pc = "completing"] \in TickType
      BY <1>t DEF TickType
    <3> QED
      BY <1>4, <3>1 DEF Delivered, CronTypeOK
  <2> QED
    BY <1>4, <2>1, <2>2 DEF Delivered, CronTypeOK
<1>5. ASSUME NEW s \in Schedulers, Limited(s) \/ NotOurs(s) \/ WakeRaises(s) \/ CompleteFails(s)
      PROVE  CronTypeOK'
  <2>1. sch' \in [Schedulers -> TickType]
    <3>1. [sch[s] EXCEPT !.pc = "firing", !.job = {}] \in TickType
      BY <1>t, ZenonT(60) DEF TickType
    <3>2. [sch[s] EXCEPT !.pc = "releasing"] \in TickType
      BY <1>t DEF TickType
    <3> QED
      BY <1>5, <3>1, <3>2, ZenonT(60) DEF Limited, NotOurs, WakeRaises, CompleteFails, CronTypeOK
  <2> QED
    BY <1>5, <1>a, <2>1 DEF Limited, NotOurs, WakeRaises, CompleteFails, CronTypeOK
<1>6. ASSUME NEW s \in Schedulers, release_claim(s) PROVE CronTypeOK'
  <2>1. job' \in [Jobs -> JobType]
    <3>1. PICK e \in sch[s].job : job' = [job EXCEPT ![e.j].by = Nobody, ![e.j].age = 0]
      BY <1>6, ZenonT(60) DEF release_claim
    <3>2. e.j \in Jobs
      BY <1>c DEF ListedType
    <3>3. [job[e.j] EXCEPT !.by = Nobody, !.age = 0] \in JobType
      <4>1. 0 \in Ages
        BY DEF Ages
      <4> QED
        BY <4>1, <1>j, <3>2, ZenonT(60) DEF JobType
    <3> QED
      BY <3>1, <3>2, <3>3, ZenonT(60) DEF CronTypeOK
  <2>2. sch' \in [Schedulers -> TickType]
    <3>1. [sch[s] EXCEPT !.pc = "firing", !.job = {}] \in TickType
      BY <1>t, ZenonT(60) DEF TickType
    <3> QED
      BY <1>6, <3>1 DEF release_claim, CronTypeOK
  <2> QED
    BY <1>6, <2>1, <2>2 DEF release_claim, CronTypeOK
<1>7. ASSUME NEW s \in Schedulers, complete_fire(s) PROVE CronTypeOK'
  <2>1. PICK e \in sch[s].job :
           job' = [job EXCEPT ![e.j].last = sch[s].at[e.j], ![e.j].next = sch[s].at[e.j] + 1,
                              ![e.j].by = Nobody, ![e.j].age = 0]
    BY <1>7, ZenonT(60) DEF complete_fire
  <2>2. e.j \in Jobs /\ sch[s].at[e.j] \in Nat /\ 0 \in Ages
    BY <1>c DEF ListedType, CronTypeOK, TickType, Ages
  <2>3. job' \in [Jobs -> JobType]
    <3>1. [job[e.j] EXCEPT !.last = sch[s].at[e.j], !.next = sch[s].at[e.j] + 1,
                           !.by = Nobody, !.age = 0] \in JobType
      <4>1. job[e.j] \in JobType /\ sch[s].at[e.j] + 1 \in Nat
        BY <2>2, SMTT(60) DEF CronTypeOK
      <4> QED
        BY <4>1, <2>2, ZenonT(60) DEF JobType
    <3> QED
      BY <2>1, <2>2, <3>1, ZenonT(60) DEF CronTypeOK
  <2>4. sch' \in [Schedulers -> TickType]
    <3>1. [sch[s] EXCEPT !.pc = "firing", !.job = {}] \in TickType
      BY <1>t, ZenonT(60) DEF TickType
    <3> QED
      BY <1>7, <3>1 DEF complete_fire, CronTypeOK
  <2> QED
    BY <1>7, <2>3, <2>4, ZenonT(60) DEF complete_fire, CronTypeOK
<1>8. ASSUME NEW s \in Schedulers, TickEnds(s) \/ TickFails(s) PROVE CronTypeOK'
  BY <1>8, <1>i, <1>a DEF TickEnds, TickFails, CronTypeOK
<1>9. ASSUME NEW s \in Schedulers, Interrupted(s) PROVE CronTypeOK'
  <2>1. running' \in [Jobs -> Nat]
    BY <1>9, <1>d DEF Interrupted, CronTypeOK
  <2> QED
    BY <1>9, <1>i, <1>a, <2>1 DEF Interrupted, CronTypeOK
<1>10. ASSUME TimePasses PROVE CronTypeOK'
  <2>1. \A age \in Ages : Older(age) \in Ages
    BY DEF Older, Ages
  <2>2. job' \in [Jobs -> JobType]
    BY <1>10, <2>1, SMTT(60) DEF TimePasses, CronTypeOK, JobType
  <2>3. sch' \in [Schedulers -> TickType]
    <3>1. ASSUME NEW s \in Schedulers, sch[s].pc # "idle"
          PROVE  [sch[s] EXCEPT !.age = @ + 1] \in TickType
      <4>1. sch[s].age + 1 \in 0..TTL
        BY <1>10, <3>1 DEF TimePasses, CronTypeOK, TickType
      <4> QED
        BY <4>1, <1>t DEF TickType
    <3> QED
      BY <1>10, <3>1 DEF TimePasses, CronTypeOK
  <2> QED
    BY <1>10, <2>2, <2>3 DEF TimePasses, CronTypeOK
<1>11. ASSUME NEW j \in Jobs, Occurs(j) PROVE CronTypeOK'
  BY <1>11 DEF Occurs, CronTypeOK
<1>12. ASSUME NEW j \in Jobs, OwnerStep(j) PROVE CronTypeOK'
  <2>1. job' \in [Jobs -> JobType]
    <3>1. /\ [job[j] EXCEPT !.enabled = FALSE] \in JobType
          /\ [job[j] EXCEPT !.there = FALSE] \in JobType
      BY <1>j, ZenonT(60) DEF JobType
    <3>2. [job[j] EXCEPT !.enabled = TRUE, !.next = occ[j] + 1] \in JobType
      <4>1. job[j] \in JobType /\ occ[j] + 1 \in Nat
        BY DEF CronTypeOK
      <4> QED
        BY <4>1, ZenonT(60) DEF JobType
    <3> QED
      BY <1>12, <3>1, <3>2, ZenonT(60) DEF OwnerStep, pause, resume, delete_for_user, CronTypeOK
  <2> QED
    BY <1>12, <1>b, <2>1 DEF OwnerStep, pause, resume, delete_for_user, CronTypeOK
<1>13. ASSUME NEW j \in Jobs, report_outcome(j) PROVE CronTypeOK'
  <2>1. [job[j] EXCEPT !.there = FALSE] \in JobType
    BY <1>j, ZenonT(60) DEF JobType
  <2>2. job' \in [Jobs -> JobType]
    BY <1>13, <2>1 DEF report_outcome, CronTypeOK
  <2>3. running' \in [Jobs -> Nat]
    BY <1>13 DEF report_outcome, CronTypeOK
  <2> QED
    BY <1>13, <2>2, <2>3 DEF report_outcome, CronTypeOK
<1>14. CASE UNCHANGED vars
  BY <1>14 DEF vars, CronTypeOK
<1> QED
  BY <1>1, <1>2, <1>3, <1>4, <1>5, <1>6, <1>7, <1>8, <1>9, <1>10, <1>11, <1>12, <1>13, <1>14, SMTT(60)
     DEF Next, SchedulerStep

(* Every step keeps the lease with the scheduler that fires the job.        *)
LEMMA LeaseStep == CronTypeOK /\ LeaseHeld /\ [Next]_vars => LeaseHeld'
<1> SUFFICES ASSUME CronTypeOK, LeaseHeld, [Next]_vars,
                    NEW r \in Schedulers, NEW k \in Jobs, Fires(r, k)'
             PROVE  job'[k].by = r /\ job'[k].age = sch'[r].age
  BY DEF LeaseHeld
<1> USE CronAssumption
<1>a. Fires(r, k) => job[k].by = r /\ job[k].age = sch[r].age /\ sch[r].age <= TTL
  BY DEF LeaseHeld, CronTypeOK, TickType
<1>b. \A s \in Schedulers : \A e \in sch[s].job \cup sch[s].due : e.j \in Jobs
  BY DEF CronTypeOK, TickType, ListedType
<1>u. ASSUME Fires(r, k), job'[k].by = job[k].by, job'[k].age = job[k].age,
             sch'[r].age = sch[r].age
      PROVE  job'[k].by = r /\ job'[k].age = sch'[r].age
  BY <1>a, <1>u
<1>1. ASSUME NEW s \in Schedulers, StartTick(s) \/ list_due(s)
      PROVE  job'[k].by = r /\ job'[k].age = sch'[r].age
  <2>1. sch'[s].pc \in {"listing", "firing"}
    <3>1. CASE StartTick(s)
      BY <3>1 DEF StartTick, IdleTick, CronTypeOK
    <3>2. CASE list_due(s)
      BY <3>2 DEF list_due, CronTypeOK, TickType
    <3> QED
      BY <1>1, <3>1, <3>2
  <2>2. r # s
    BY <2>1 DEF Fires
  <2>3. sch'[r] = sch[r] /\ UNCHANGED job
    BY <1>1, <2>2 DEF StartTick, list_due, CronTypeOK
  <2> QED
    BY <2>3, <1>u DEF Fires
<1>2. ASSUME NEW s \in Schedulers, claim(s) PROVE job'[k].by = r /\ job'[k].age = sch'[r].age
  <2>1. PICK e \in sch[s].due :
           IF ClaimApplies(s, e)
           THEN /\ job' = [job EXCEPT ![e.j].by = s, ![e.j].age = sch[s].age]
                /\ sch' = [sch EXCEPT ![s].pc = "waking", ![s].job = {e}, ![s].due = @ \ {e}]
           ELSE sch' = [sch EXCEPT ![s].due = @ \ {e}] /\ UNCHANGED job
    BY <1>2, ZenonT(60) DEF claim
  <2>2. e.j \in Jobs /\ sch[s].pc = "firing" /\ sch[s].age \in Nat
    BY <1>2, <1>b DEF claim, CronTypeOK, TickType
  <2>3. CASE ~ClaimApplies(s, e)
    BY <2>1, <2>2, <2>3, <1>u, ZenonT(60) DEF Fires, CronTypeOK, TickType
  <2>4. CASE ClaimApplies(s, e) /\ r = s
    BY <2>1, <2>2, <2>4 DEF Fires, CronTypeOK, TickType, JobType
  <2>5. CASE ClaimApplies(s, e) /\ r # s
    <3>1. Fires(r, k) /\ sch'[r].age = sch[r].age
      BY <2>1, <2>5 DEF Fires, CronTypeOK, TickType
    <3>2. k # e.j
      BY <3>1, <1>a, <2>2, <2>5 DEF ClaimApplies, _claimable_clause, CronTypeOK, TickType, JobType
    <3> QED
      BY <3>1, <3>2, <1>u, <2>1, <2>2, <2>5 DEF CronTypeOK
  <2> QED
    BY <2>3, <2>4, <2>5, SMTT(60)
<1>3. ASSUME NEW s \in Schedulers, Delivered(s) \/ NotOurs(s) \/ WakeRaises(s)
      PROVE  job'[k].by = r /\ job'[k].age = sch'[r].age
  <2>1. UNCHANGED job /\ sch'[r].job = sch[r].job /\ sch'[r].age = sch[r].age
    <3>1. \/ sch' = [sch EXCEPT ![s].pc = "completing"]
          \/ sch' = [sch EXCEPT ![s].pc = "releasing"]
      BY <1>3 DEF Delivered, NotOurs, WakeRaises
    <3>2. UNCHANGED job
      BY <1>3 DEF Delivered, NotOurs, WakeRaises
    <3>3. CASE sch' = [sch EXCEPT ![s].pc = "completing"]
      BY <3>2, <3>3 DEF CronTypeOK, TickType
    <3>4. CASE sch' = [sch EXCEPT ![s].pc = "releasing"]
      BY <3>2, <3>4 DEF CronTypeOK, TickType
    <3> QED
      BY <3>1, <3>3, <3>4
  <2>2. Fires(r, k)
    BY <1>3, <2>1 DEF Delivered, NotOurs, WakeRaises, Fires, CronTypeOK, TickType
  <2> QED
    BY <2>1, <2>2, <1>u
<1>4. ASSUME NEW s \in Schedulers, Limited(s) \/ CompleteFails(s)
      PROVE  job'[k].by = r /\ job'[k].age = sch'[r].age
  <2>1. sch' = [sch EXCEPT ![s].pc = "firing", ![s].job = {}] /\ UNCHANGED job
    BY <1>4 DEF Limited, CompleteFails
  <2>2. r # s
    BY <2>1 DEF Fires, CronTypeOK, TickType
  <2>3. sch'[r] = sch[r]
    BY <2>1, <2>2 DEF CronTypeOK
  <2> QED
    BY <2>1, <2>3, <1>u DEF Fires
<1>5. ASSUME NEW s \in Schedulers, release_claim(s) \/ complete_fire(s)
      PROVE  job'[k].by = r /\ job'[k].age = sch'[r].age
  <2>1. r # s /\ sch'[r] = sch[r] /\ Fires(r, k)
    <3>1. sch' = [sch EXCEPT ![s].pc = "firing", ![s].job = {}]
      BY <1>5, ZenonT(60) DEF release_claim, complete_fire
    <3>2. r # s
      BY <3>1 DEF Fires, CronTypeOK, TickType
    <3>3. sch'[r] = sch[r]
      BY <3>1, <3>2 DEF CronTypeOK
    <3> QED
      BY <3>2, <3>3 DEF Fires
  <2>2. PICK e \in sch[s].job : e.j \in Jobs /\ (k # e.j => job'[k] = job[k])
    <3>1. CASE release_claim(s)
      <4>1. PICK e \in sch[s].job : job' = [job EXCEPT ![e.j].by = Nobody, ![e.j].age = 0]
        BY <3>1, ZenonT(60) DEF release_claim
      <4> QED
        BY <4>1, <1>b DEF CronTypeOK
    <3>2. CASE complete_fire(s)
      <4>1. PICK e \in sch[s].job :
               job' = [job EXCEPT ![e.j].last = sch[s].at[e.j],
                                  ![e.j].next = sch[s].at[e.j] + 1,
                                  ![e.j].by = Nobody, ![e.j].age = 0]
        BY <3>2, ZenonT(60) DEF complete_fire
      <4>2. e.j \in Jobs
        BY <1>b
      <4>3. k # e.j => job'[k] = job[k]
        <5> DEFINE at == sch[s].at[e.j]
                   next == sch[s].at[e.j] + 1
        <5>1. job' = [job EXCEPT ![e.j].last = at, ![e.j].next = next,
                                 ![e.j].by = Nobody, ![e.j].age = 0]
          BY <4>1, ZenonT(60)
        <5> HIDE DEF at, next
        <5> QED
          BY <5>1, <4>2, SMTT(60) DEF CronTypeOK
      <4> QED
        BY <4>2, <4>3
    <3> QED
      BY <1>5, <3>1, <3>2
  <2>3. Fires(s, e.j)
    BY <1>5, <2>2, ZenonT(60) DEF release_claim, complete_fire, Fires
  <2>4. k # e.j
    BY <2>1, <2>2, <2>3, SMTT(60) DEF LeaseHeld
  <2> QED
    BY <2>1, <2>2, <2>4, <1>u
<1>6. ASSUME NEW s \in Schedulers, TickEnds(s) \/ TickFails(s) \/ Interrupted(s)
      PROVE  job'[k].by = r /\ job'[k].age = sch'[r].age
  <2>1. r # s
    BY <1>6 DEF TickEnds, TickFails, Interrupted, IdleTick, Fires, CronTypeOK
  <2>2. sch'[r] = sch[r] /\ UNCHANGED job
    BY <1>6, <2>1 DEF TickEnds, TickFails, Interrupted, CronTypeOK
  <2> QED
    BY <2>2, <1>u DEF Fires
<1>7. ASSUME TimePasses PROVE job'[k].by = r /\ job'[k].age = sch'[r].age
  <2>1. Fires(r, k) /\ sch[r].pc # "idle"
    BY <1>7 DEF TimePasses, Fires, CronTypeOK, TickType
  <2>2. sch'[r].age = sch[r].age + 1 /\ sch[r].age \in Nat /\ sch[r].age < TTL
    BY <1>7, <2>1 DEF TimePasses, CronTypeOK, TickType
  <2>3. job[k].by = r /\ r # Nobody /\ job[k].age = sch[r].age
    BY <1>a, <2>1
  <2>4. job'[k] = [job[k] EXCEPT !.age = Older(@)]
    BY <1>7, <2>3 DEF TimePasses
  <2>5. Older(job[k].age) = job[k].age + 1
    BY <2>2, <2>3 DEF Older
  <2> QED
    BY <2>2, <2>3, <2>4, <2>5 DEF CronTypeOK, JobType
<1>8. ASSUME NEW j \in Jobs, Occurs(j) PROVE job'[k].by = r /\ job'[k].age = sch'[r].age
  BY <1>8, <1>u, SMTT(60) DEF Occurs, Fires
<1>9. ASSUME NEW j \in Jobs, OwnerStep(j) \/ report_outcome(j)
      PROVE  job'[k].by = r /\ job'[k].age = sch'[r].age
  <2>1. UNCHANGED sch
    BY <1>9 DEF OwnerStep, pause, resume, delete_for_user, report_outcome
  <2>2. job'[k].by = job[k].by /\ job'[k].age = job[k].age
    BY <1>9 DEF OwnerStep, pause, resume, delete_for_user, report_outcome, CronTypeOK, JobType
  <2> QED
    BY <2>1, <2>2, <1>u DEF Fires
<1>10. CASE UNCHANGED vars
  BY <1>10, <1>u DEF vars, Fires
<1> QED
  BY <1>1, <1>2, <1>3, <1>4, <1>5, <1>6, <1>7, <1>8, <1>9, <1>10, SMTT(60) DEF Next, SchedulerStep

(* The lease is exclusive: no two schedulers are in _fire for one job,      *)
(* however long their ticks take and whatever is interrupted.               *)
THEOREM LeaseIsExclusive == Spec => []OneFirerPerJob
<1>1. Init => CronTypeOK /\ LeaseHeld
  BY CronInitTypes DEF Init, LeaseHeld, Fires, IdleTick
<1>2. CronTypeOK /\ LeaseHeld /\ [Next]_vars => CronTypeOK' /\ LeaseHeld'
  BY CronTypeStep, LeaseStep
<1>3. LeaseHeld => OneFirerPerJob
  BY DEF LeaseHeld, OneFirerPerJob
<1> QED
  BY <1>1, <1>2, <1>3, PTL DEF Spec

-----------------------------------------------------------------------------
(* What an occurrence may start. FiredOnce is not inductive: FireInv adds  *)
(* what a listed copy of a job and the job's row know of one another.      *)

(* The clocks: a job's last fire is before its next one and has passed, the *)
(* next one is at most the first to come, and no tick is ahead of the clock. *)
Clocks ==
    \A j \in Jobs :
        /\ job[j].last < job[j].next /\ job[j].last <= occ[j] /\ job[j].next <= occ[j] + 1
        /\ \A s \in Schedulers : sch[s].at[j] <= occ[j]

(* A tick fires one job at a time, and none outside _fire. *)
OneByOne ==
    \A s \in Schedulers :
        IF sch[s].pc \in {"waking", "releasing", "completing"}
        THEN \E e \in ListedType : sch[s].job = {e}
        ELSE sch[s].job = {}

(* A listed job was due, and either it has not been fired since, or a fire  *)
(* recorded since has gone past the occurrence it was listed for: so claim's *)
(* comparison of next_fire_at tells the two apart, although a resume may    *)
(* move the schedule and a complete_fire may move it back.                  *)
ListedOK ==
    \A s \in Schedulers : \A e \in sch[s].due :
        /\ e.last < e.next /\ e.next <= sch[s].at[e.j]
        /\ \/ e.last = job[e.j].last /\ e.next <= job[e.j].next
           \/ e.next <= job[e.j].last

(* A job that is being fired has not been fired since it was listed, and no *)
(* other copy of it was listed for a later occurrence.                      *)
FiredOK ==
    \A s \in Schedulers : \A e \in sch[s].job :
        /\ e.last = job[e.j].last /\ e.last < e.next /\ e.next <= sch[s].at[e.j]
        /\ \A r \in Schedulers : \A d \in sch[r].due : d.j = e.j => d.next <= e.next

Completing(s, j) == sch[s].pc = "completing" /\ \E e \in sch[s].job : e.j = j

(* An occurrence that no recorded fire covers, and no fire that is about to *)
(* be recorded, was covered only by excused ones.                           *)
Counted ==
    /\ fires \in [Jobs -> [Occurrences -> Nat]] /\ excused \in [Jobs -> Nat]
    /\ \A j \in Jobs, o \in Occurrences :
          /\ fires[j][o] <= 1 + excused[j]
          /\ /\ o > job[j].last
             /\ \A s \in Schedulers : Completing(s, j) => o > sch[s].at[j]
             => fires[j][o] <= excused[j]

FireInv == Clocks /\ OneByOne /\ ListedOK /\ FiredOK /\ Counted

(* Where a step only drops entries, keeps what was fired and moves no       *)
(* schedule back, every entry stays right.                                  *)
LEMMA EntriesShrink ==
    ASSUME CronTypeOK, CronTypeOK', ListedOK, FiredOK,
           \A s \in Schedulers : /\ sch'[s].due \subseteq sch[s].due
                                 /\ sch'[s].job \subseteq sch[s].job,
           \A s \in Schedulers : \/ sch'[s].at = sch[s].at
                                 \/ sch'[s].due = {} /\ sch'[s].job = {},
           \A j \in Jobs : job'[j].last = job[j].last /\ job[j].next <= job'[j].next
    PROVE  ListedOK' /\ FiredOK'
<1>t. \A s \in Schedulers : \A e \in sch[s].due \cup sch[s].job : e \in ListedType
  BY DEF CronTypeOK, TickType
<1>j. \A j \in Jobs : job[j].next \in Nat /\ job'[j].next \in Nat
  BY DEF CronTypeOK, JobType
<1>1. ASSUME NEW s \in Schedulers, NEW e \in sch'[s].due
      PROVE  /\ e.last < e.next /\ e.next <= sch'[s].at[e.j]
             /\ \/ e.last = job'[e.j].last /\ e.next <= job'[e.j].next
                \/ e.next <= job'[e.j].last
  <2>1. e \in sch[s].due /\ sch'[s].at = sch[s].at /\ e.j \in Jobs /\ e.next \in Nat
    BY <1>1, <1>t DEF ListedType
  <2>2. /\ e.last < e.next /\ e.next <= sch[s].at[e.j]
        /\ \/ e.last = job[e.j].last /\ e.next <= job[e.j].next
           \/ e.next <= job[e.j].last
    BY <2>1, SMTT(60) DEF ListedOK
  <2> QED
    BY <2>1, <2>2, <1>j
<1>2. ASSUME NEW s \in Schedulers, NEW e \in sch'[s].job
      PROVE  /\ e.last = job'[e.j].last /\ e.last < e.next /\ e.next <= sch'[s].at[e.j]
             /\ \A r \in Schedulers : \A d \in sch'[r].due : d.j = e.j => d.next <= e.next
  <2>1. e \in sch[s].job /\ sch'[s].at = sch[s].at /\ e.j \in Jobs
    BY <1>2, <1>t DEF ListedType
  <2>2. /\ e.last = job[e.j].last /\ e.last < e.next /\ e.next <= sch[s].at[e.j]
        /\ \A r \in Schedulers : \A d \in sch[r].due : d.j = e.j => d.next <= e.next
    BY <2>1 DEF FiredOK
  <2> QED
    BY <2>1, <2>2, SMTT(60)
<1>3. ListedOK'
  BY <1>1 DEF ListedOK
<1>4. FiredOK'
  BY <1>2, SMTT(60) DEF FiredOK
<1> QED
  BY <1>3, <1>4

(* Where a step fires nothing and records nothing, the counts stay right if *)
(* every fire that is dropped before it is recorded is excused.             *)
LEMMA CountsKept ==
    ASSUME Counted, UNCHANGED fires, excused' \in [Jobs -> Nat],
           \A j \in Jobs : job'[j].last = job[j].last /\ excused[j] <= excused'[j],
           \A j \in Jobs : \/ \A s \in Schedulers :
                                 Completing(s, j) => Completing(s, j)' /\ sch'[s].at = sch[s].at
                           \/ excused[j] + 1 <= excused'[j]
    PROVE  Counted'
<1> SUFFICES ASSUME NEW j \in Jobs, NEW o \in Occurrences
             PROVE  /\ fires[j][o] <= 1 + excused'[j]
                    /\ /\ o > job[j].last
                       /\ \A s \in Schedulers : Completing(s, j)' => o > sch'[s].at[j]
                       => fires[j][o] <= excused'[j]
  BY DEF Counted
<1>1. /\ fires[j][o] \in Nat /\ excused[j] \in Nat /\ excused'[j] \in Nat
      /\ excused[j] <= excused'[j]
  BY DEF Counted
<1>2. /\ fires[j][o] <= 1 + excused[j]
      /\ /\ o > job[j].last
         /\ \A s \in Schedulers : Completing(s, j) => o > sch[s].at[j]
         => fires[j][o] <= excused[j]
  BY DEF Counted
<1>3. CASE excused[j] + 1 <= excused'[j]
  BY <1>1, <1>2, <1>3, SMTT(60)
<1>4. CASE \A s \in Schedulers : Completing(s, j) => Completing(s, j)' /\ sch'[s].at = sch[s].at
  <2>1. ASSUME \A s \in Schedulers : Completing(s, j)' => o > sch'[s].at[j]
        PROVE  \A s \in Schedulers : Completing(s, j) => o > sch[s].at[j]
    BY <1>4, <2>1
  <2> QED
    BY <1>1, <1>2, <2>1, SMTT(60)
<1> QED
  BY <1>3, <1>4, SMTT(60)

(* The clocks, from what a step does to the rows and the ticks. *)
LEMMA ClocksKept ==
    ASSUME CronTypeOK, CronTypeOK', Clocks,
           \A j \in Jobs : occ[j] <= occ'[j],
           \A s \in Schedulers : \A j \in Jobs :
               sch'[s].at[j] = sch[s].at[j] \/ sch'[s].at[j] <= occ'[j],
           \A j \in Jobs : \/ job'[j].last = job[j].last /\ job'[j].next = job[j].next
                           \/ job'[j].last = job[j].last /\ job'[j].next = occ[j] + 1
                           \/ /\ job'[j].last <= occ[j]
                              /\ job'[j].next = job'[j].last + 1
    PROVE  Clocks'
<1> SUFFICES ASSUME NEW j \in Jobs
             PROVE  /\ job'[j].last < job'[j].next /\ job'[j].last <= occ'[j]
                    /\ job'[j].next <= occ'[j] + 1
                    /\ \A s \in Schedulers : sch'[s].at[j] <= occ'[j]
  BY DEF Clocks
<1>1. /\ occ[j] \in Nat /\ occ'[j] \in Nat /\ job[j].last \in Nat /\ job'[j].last \in Nat
      /\ job[j].next \in Nat /\ job'[j].next \in Nat /\ occ[j] <= occ'[j]
  BY DEF CronTypeOK, JobType
<1>2. /\ job[j].last < job[j].next /\ job[j].last <= occ[j] /\ job[j].next <= occ[j] + 1
      /\ \A s \in Schedulers : sch[s].at[j] <= occ[j]
  BY DEF Clocks
<1>3. \A s \in Schedulers : sch[s].at[j] \in Nat
  BY DEF CronTypeOK, TickType
<1>4. \A s \in Schedulers : sch'[s].at[j] <= occ'[j]
  BY <1>1, <1>2, <1>3
<1>5. /\ job'[j].last < job'[j].next /\ job'[j].last <= occ'[j]
      /\ job'[j].next <= occ'[j] + 1
  BY <1>1, <1>2
<1> QED
  BY <1>4, <1>5

(* What a tick's own step leaves to the others. *)
LEMMA OthersKept ==
    ASSUME CronTypeOK, NEW s \in Schedulers, NEW tick, sch' = [sch EXCEPT ![s] = tick]
    PROVE  sch'[s] = tick /\ \A r \in Schedulers : r # s => sch'[r] = sch[r]
BY DEF CronTypeOK

(* The copies of one job: a single entry, or none. *)
LEMMA EntryCount ==
    ASSUME NEW e, NEW j
    PROVE  /\ e.j = j => Cardinality({x \in {e} : x.j = j}) = 1
           /\ e.j # j => Cardinality({x \in {e} : x.j = j}) = 0
           /\ Cardinality({x \in {} : x.j = j}) = 0
<1>1. e.j = j => {x \in {e} : x.j = j} = {e}
  OBVIOUS
<1>2. e.j # j => {x \in {e} : x.j = j} = {}
  OBVIOUS
<1>3. {x \in {} : x.j = j} = {}
  OBVIOUS
<1> QED
  BY <1>1, <1>2, <1>3, FS_Singleton, FS_EmptySet, ZenonT(60)

LEMMA FireInit == Init => FireInv
<1> SUFFICES ASSUME Init PROVE FireInv
  OBVIOUS
<1>1. \A j \in Jobs : job[j].last = 0 /\ job[j].next = 1 /\ occ[j] = 0
  BY DEF Init, create
<1>2. \A s \in Schedulers : /\ sch[s].pc = "idle" /\ sch[s].due = {} /\ sch[s].job = {}
                            /\ \A j \in Jobs : sch[s].at[j] = 0
  BY DEF Init, IdleTick
<1>3. Counted
  BY <1>1, <1>2 DEF Init, Counted, Completing
<1>4. Clocks
  BY <1>1, <1>2, SMTT(60) DEF Clocks
<1>5. OneByOne
  BY <1>2 DEF OneByOne
<1> QED
  BY <1>2, <1>3, <1>4, <1>5 DEF FireInv, ListedOK, FiredOK
(* Steps of a tick that only move it on: every entry it drops is dropped     *)
(* before the fire or after a refused wake.                                 *)
LEMMA TickMovesFire ==
    ASSUME CronTypeOK, CronTypeOK', FireInv, NEW s \in Schedulers,
           \/ StartTick(s) \/ Limited(s) \/ NotOurs(s) \/ WakeRaises(s) \/ release_claim(s)
           \/ TickEnds(s) \/ TickFails(s)
    PROVE  FireInv'
<1>t. sch[s] \in TickType /\ sch \in [Schedulers -> TickType]
  BY SMTT(60) DEF CronTypeOK
<1>1. /\ \A r \in Schedulers : r # s => sch'[r] = sch[r]
      /\ sch'[s].due \subseteq sch[s].due
      /\ \/ sch'[s].job = sch[s].job /\ sch[s].pc = "waking" /\ sch'[s].pc = "releasing"
         \/ sch'[s].job = {} /\ sch'[s].pc \in {"idle", "listing", "firing"}
      /\ \/ sch'[s].at = sch[s].at
         \/ sch'[s].due = {} /\ sch'[s].job = {} /\ \A j \in Jobs : sch'[s].at[j] <= occ[j]
  <2>a. /\ IdleTick.due = {} /\ IdleTick.job = {} /\ IdleTick.pc = "idle"
        /\ \A j \in Jobs : IdleTick.at[j] = 0 /\ occ[j] \in Nat
    BY SMTT(60) DEF IdleTick, CronTypeOK
  <2>1. CASE StartTick(s)
    <3> DEFINE tick == [IdleTick EXCEPT !.pc = "listing", !.at = occ]
    <3>1. tick.due = {} /\ tick.job = {} /\ tick.pc = "listing" /\ tick.at = occ
      BY DEF IdleTick
    <3>2. sch' = [sch EXCEPT ![s] = tick]
      BY <2>1 DEF StartTick
    <3> HIDE DEF tick
    <3>3. sch'[s] = tick /\ \A r \in Schedulers : r # s => sch'[r] = sch[r]
      BY <3>2, OthersKept, ZenonT(60)
    <3>4. \A j \in Jobs : tick.at[j] <= occ[j]
      BY <3>1, <2>a
    <3> QED
      BY <3>1, <3>3, <3>4
  <2>2. CASE Limited(s) \/ release_claim(s)
    <3> DEFINE tick == [sch[s] EXCEPT !.pc = "firing", !.job = {}]
    <3>1. tick.due = sch[s].due /\ tick.job = {} /\ tick.pc = "firing" /\ tick.at = sch[s].at
      BY <1>t DEF TickType
    <3>2. sch' = [sch EXCEPT ![s] = tick]
      BY <2>2, ZenonT(60) DEF Limited, release_claim
    <3> HIDE DEF tick
    <3> QED
      BY <3>1, <3>2, OthersKept, ZenonT(60)
  <2>3. CASE NotOurs(s) \/ WakeRaises(s)
    <3> DEFINE tick == [sch[s] EXCEPT !.pc = "releasing"]
    <3>1. /\ tick.due = sch[s].due /\ tick.job = sch[s].job /\ tick.pc = "releasing"
          /\ tick.at = sch[s].at
      BY <1>t DEF TickType
    <3>2. sch' = [sch EXCEPT ![s] = tick] /\ sch[s].pc = "waking"
      BY <2>3 DEF NotOurs, WakeRaises
    <3> HIDE DEF tick
    <3> QED
      BY <3>1, <3>2, OthersKept, ZenonT(60)
  <2>4. CASE TickEnds(s) \/ TickFails(s)
    <3>1. sch' = [sch EXCEPT ![s] = IdleTick]
      BY <2>4 DEF TickEnds, TickFails
    <3>3. sch'[s] = IdleTick /\ \A r \in Schedulers : r # s => sch'[r] = sch[r]
      BY <3>1, OthersKept, ZenonT(60)
    <3>4. \A j \in Jobs : IdleTick.at[j] <= occ[j]
      BY <2>a
    <3> QED
      BY <3>3, <3>4, <2>a
  <2> QED
    BY <2>1, <2>2, <2>3, <2>4, ZenonT(60)
<1>3. UNCHANGED <<occ, fires, excused>>
  BY DEF StartTick, Limited, NotOurs, WakeRaises, release_claim, TickEnds, TickFails
<1>4. \A j \in Jobs : job'[j].last = job[j].last /\ job'[j].next = job[j].next
  <2>1. CASE release_claim(s)
    <3>1. PICK e \in sch[s].job : job' = [job EXCEPT ![e.j].by = Nobody, ![e.j].age = 0]
      BY <2>1, ZenonT(60) DEF release_claim
    <3> QED
      BY <3>1 DEF CronTypeOK, JobType
  <2>2. CASE ~release_claim(s)
    BY <2>2 DEF StartTick, Limited, NotOurs, WakeRaises, TickEnds, TickFails
  <2> QED
    BY <2>1, <2>2
<1>n. \A j \in Jobs : job[j].next \in Nat /\ occ[j] \in Nat
  BY SMTT(60) DEF CronTypeOK, JobType
<1>5. Clocks'
  BY <1>1, <1>3, <1>4, <1>n, ClocksKept, SMTT(60) DEF FireInv
<1>6. ListedOK' /\ FiredOK'
  <2>1. \A r \in Schedulers : sch'[r].due \subseteq sch[r].due /\ sch'[r].job \subseteq sch[r].job
    BY <1>1, ZenonT(60)
  <2>2. \A r \in Schedulers : \/ sch'[r].at = sch[r].at
                              \/ sch'[r].due = {} /\ sch'[r].job = {}
    BY <1>1
  <2>3. \A j \in Jobs : job'[j].last = job[j].last /\ job[j].next <= job'[j].next
    BY <1>4, <1>n, SMTT(60)
  <2> QED
    BY <2>1, <2>2, <2>3, EntriesShrink, ZenonT(60) DEF FireInv
<1>7. OneByOne'
  BY <1>1, SMTT(60) DEF FireInv, OneByOne
<1>8. Counted'
  <2>1. sch[s].pc # "completing"
    BY SMTT(60) DEF StartTick, Limited, NotOurs, WakeRaises, release_claim, TickEnds, TickFails
  <2>2. \A r \in Schedulers, j \in Jobs : Completing(r, j) => Completing(r, j)' /\ sch'[r].at = sch[r].at
    BY <2>1, <1>1, ZenonT(60) DEF Completing
  <2>3. excused' \in [Jobs -> Nat] /\ \A j \in Jobs : excused[j] <= excused'[j]
    BY <1>3 DEF FireInv, Counted
  <2> QED
    BY <2>2, <2>3, <1>3, <1>4, CountsKept, ZenonT(60) DEF FireInv
<1> QED
  BY <1>5, <1>6, <1>7, <1>8 DEF FireInv

(* The rows and the clock move under the ticks: time, occurrences, the      *)
(* owner's edits and the ends of processes.                                 *)
LEMMA RowsMoveFire ==
    ASSUME CronTypeOK, CronTypeOK', FireInv,
           TimePasses \/ \E j \in Jobs : Occurs(j) \/ OwnerStep(j) \/ report_outcome(j)
    PROVE  FireInv'
<1>1. UNCHANGED <<fires, excused>>
  BY ZenonT(60) DEF TimePasses, Occurs, OwnerStep, pause, resume, delete_for_user, report_outcome
<1>n. \A j \in Jobs : /\ job[j].next \in Nat /\ occ[j] \in Nat /\ job[j].next <= occ[j] + 1
  BY DEF CronTypeOK, JobType, FireInv, Clocks
<1>2. \A j \in Jobs : occ[j] <= occ'[j]
  <2>1. CASE \E j \in Jobs : Occurs(j)
    BY <2>1, <1>n DEF Occurs, CronTypeOK
  <2>2. CASE ~ \E j \in Jobs : Occurs(j)
    <3>1. occ' = occ
      BY <2>2, ZenonT(60) DEF TimePasses, OwnerStep, pause, resume, delete_for_user, report_outcome
    <3> QED
      BY <3>1, <1>n
  <2> QED
    BY <2>1, <2>2
<1>3. \A s \in Schedulers : /\ sch'[s].pc = sch[s].pc /\ sch'[s].at = sch[s].at
                            /\ sch'[s].due = sch[s].due /\ sch'[s].job = sch[s].job
  <2>1. CASE TimePasses
    BY <2>1 DEF TimePasses, CronTypeOK, TickType
  <2>2. CASE ~TimePasses
    BY <2>2, ZenonT(60) DEF Occurs, OwnerStep, pause, resume, delete_for_user, report_outcome
  <2> QED
    BY <2>1, <2>2
<1>4. \A j \in Jobs : /\ job'[j].last = job[j].last
                      /\ job'[j].next = job[j].next \/ job'[j].next = occ[j] + 1
  <2>1. CASE TimePasses
    BY <2>1 DEF TimePasses, CronTypeOK, JobType
  <2>2. ASSUME NEW j \in Jobs, resume(j)
        PROVE  \A k \in Jobs : /\ job'[k].last = job[k].last
                               /\ job'[k].next = job[k].next \/ job'[k].next = occ[k] + 1
    <3> DEFINE next == occ[j] + 1
    <3>1. job' = [job EXCEPT ![j].enabled = TRUE, ![j].next = next]
      BY <2>2 DEF resume
    <3>2. next = occ[j] + 1
      OBVIOUS
    <3> HIDE DEF next
    <3>3. ASSUME NEW k \in Jobs
          PROVE  job'[k].last = job[k].last /\ (job'[k].next = job[k].next \/ (k = j /\ job'[k].next = next))
      <4>1. CASE k = j
        <5>1. job'[k] = [job[k] EXCEPT !.enabled = TRUE, !.next = next]
          BY <3>1, <4>1 DEF CronTypeOK
        <5> QED
          BY <5>1, <4>1 DEF CronTypeOK, JobType
      <4>2. CASE k # j
        BY <3>1, <4>2 DEF CronTypeOK
      <4> QED
        BY <4>1, <4>2
    <3> QED
      BY <3>2, <3>3
  <2>3. ASSUME NEW j \in Jobs, Occurs(j) \/ pause(j) \/ delete_for_user(j) \/ report_outcome(j)
        PROVE  \A k \in Jobs : job'[k].last = job[k].last /\ job'[k].next = job[k].next
    <3>1. \/ UNCHANGED job \/ job' = [job EXCEPT ![j].enabled = FALSE]
          \/ job' = [job EXCEPT ![j].there = FALSE]
      BY <2>3, SMTT(60) DEF Occurs, pause, delete_for_user, report_outcome
    <3> QED
      BY <3>1 DEF CronTypeOK, JobType
  <2> QED
    BY <2>1, <2>2, <2>3 DEF OwnerStep
<1>5. Clocks'
  BY <1>2, <1>3, <1>4, ClocksKept, ZenonT(60) DEF FireInv
<1>6. ListedOK' /\ FiredOK'
  <2>1. \A j \in Jobs : job'[j].last = job[j].last /\ job[j].next <= job'[j].next
    BY <1>4, <1>n, SMTT(60)
  <2>2. \A r \in Schedulers : /\ sch'[r].due \subseteq sch[r].due /\ sch'[r].job \subseteq sch[r].job
                              /\ sch'[r].at = sch[r].at
    BY <1>3, SMTT(60)
  <2> QED
    BY <2>1, <2>2, EntriesShrink, SMTT(60) DEF FireInv
<1>7. OneByOne'
  BY <1>3, SMTT(60) DEF FireInv, OneByOne
<1>8. Counted'
  <2>2. \A r \in Schedulers, j \in Jobs : Completing(r, j) => Completing(r, j)' /\ sch'[r].at = sch[r].at
    BY <1>3, SMTT(60) DEF Completing
  <2>3. excused' \in [Jobs -> Nat] /\ \A j \in Jobs : excused[j] <= excused'[j]
    BY <1>1 DEF FireInv, Counted
  <2> QED
    BY <2>2, <2>3, <1>1, <1>4, CountsKept, SMTT(60) DEF FireInv
<1> QED
  BY <1>5, <1>6, <1>7, <1>8, SMTT(60) DEF FireInv

(* A job is listed only while nobody fires it: its lease is free or stale.  *)
LEMMA ListFire ==
    ASSUME CronTypeOK, CronTypeOK', FireInv, LeaseHeld, NEW s \in Schedulers, list_due(s)
    PROVE  FireInv'
<1>1. PICK D \in SUBSET Due(s) :
         sch' = [sch EXCEPT ![s].pc = "firing", ![s].due = {Listed(j) : j \in D}]
  BY SMTT(60) DEF list_due
<1>2. sch[s].pc = "listing" /\ UNCHANGED <<job, occ, fires, excused>>
  BY DEF list_due
<1>3. /\ \A r \in Schedulers : r # s => sch'[r] = sch[r]
      /\ sch'[s].pc = "firing" /\ sch'[s].due = {Listed(j) : j \in D}
      /\ sch'[s].at = sch[s].at /\ sch'[s].job = sch[s].job
  <2> DEFINE due == {Listed(j) : j \in D}
  <2>1. sch' = [sch EXCEPT ![s].pc = "firing", ![s].due = due]
    BY <1>1
  <2> HIDE DEF due
  <2>2. /\ \A r \in Schedulers : r # s => sch'[r] = sch[r]
        /\ sch'[s].pc = "firing" /\ sch'[s].due = due
        /\ sch'[s].at = sch[s].at /\ sch'[s].job = sch[s].job
    BY <2>1 DEF CronTypeOK, TickType
  <2> QED
    BY <2>2 DEF due
<1>4. sch[s].job = {}
  BY <1>2 DEF FireInv, OneByOne
<1>5. \A e \in sch'[s].due : \E j \in Jobs :
         /\ e.j = j /\ e.next = job[j].next /\ e.last = job[j].last
         /\ job[j].next <= sch[s].at[j] /\ _claimable_clause(s, j)
  <2> SUFFICES ASSUME NEW e \in sch'[s].due
               PROVE  \E j \in Jobs :
                         /\ e.j = j /\ e.next = job[j].next /\ e.last = job[j].last
                         /\ job[j].next <= sch[s].at[j] /\ _claimable_clause(s, j)
    OBVIOUS
  <2>1. PICK j \in D : e = Listed(j)
    BY <1>3
  <2>2. j \in Jobs /\ job[j].next <= sch[s].at[j] /\ _claimable_clause(s, j)
    BY <2>1, SMTT(60) DEF Due
  <2>3. e.j = j /\ e.next = job[j].next /\ e.last = job[j].last
    BY <2>1 DEF Listed
  <2> QED
    BY <2>2, <2>3, SMTT(60)
<1>6. ASSUME NEW r \in Schedulers, NEW j \in Jobs, Fires(r, j) PROVE ~_claimable_clause(s, j)
  BY <1>6, CronAssumption, SMTT(60) DEF LeaseHeld, _claimable_clause, CronTypeOK, TickType
<1>n. \A j \in Jobs : /\ job[j].next \in Nat /\ job[j].last < job[j].next
  BY SMTT(60) DEF CronTypeOK, JobType, FireInv, Clocks
<1>7. ListedOK'
  <2> SUFFICES ASSUME NEW r \in Schedulers, NEW e \in sch'[r].due
               PROVE  /\ e.last < e.next /\ e.next <= sch'[r].at[e.j]
                      /\ \/ e.last = job[e.j].last /\ e.next <= job[e.j].next
                         \/ e.next <= job[e.j].last
    BY <1>2, ZenonT(60) DEF ListedOK
  <2>1. CASE r = s
    BY <2>1, <1>3, <1>5, <1>n, SMTT(60)
  <2>2. CASE r # s
    BY <2>2, <1>3, ZenonT(60) DEF FireInv, ListedOK
  <2> QED
    BY <2>1, <2>2, ZenonT(60)
<1>8. FiredOK'
  <2> SUFFICES ASSUME NEW r \in Schedulers, NEW e \in sch'[r].job
               PROVE  /\ e.last = job[e.j].last /\ e.last < e.next /\ e.next <= sch'[r].at[e.j]
                      /\ \A q \in Schedulers : \A d \in sch'[q].due : d.j = e.j => d.next <= e.next
    BY <1>2, SMTT(60) DEF FiredOK
  <2>1. r # s /\ sch'[r] = sch[r] /\ e \in sch[r].job
    BY <1>3, <1>4, SMTT(60)
  <2>2. e.j \in Jobs /\ Fires(r, e.j)
    BY <2>1, SMTT(60) DEF FireInv, OneByOne, Fires, CronTypeOK, TickType, ListedType
  <2>3. \A d \in sch'[s].due : d.j # e.j
    BY <2>2, <1>5, <1>6, ZenonT(60)
  <2> QED
    BY <2>1, <2>3, <1>3, SMTT(60) DEF FireInv, FiredOK
<1>9. OneByOne'
  BY <1>2, <1>3, <1>4, SMTT(60) DEF FireInv, OneByOne
<1>10. Counted'
  <2>1. \A r \in Schedulers, j \in Jobs : Completing(r, j) => Completing(r, j)' /\ sch'[r].at = sch[r].at
    BY <1>2, <1>3, ZenonT(60) DEF Completing
  <2>2. excused' \in [Jobs -> Nat] /\ \A j \in Jobs : excused[j] <= excused'[j]
    BY <1>2, SMTT(60) DEF FireInv, Counted
  <2> QED
    BY <2>1, <2>2, <1>2, CountsKept, SMTT(60) DEF FireInv
<1>11. Clocks'
  BY <1>2, <1>3 DEF FireInv, Clocks
<1> QED
  BY <1>7, <1>8, <1>9, <1>10, <1>11 DEF FireInv
(* A claim that applies finds the job as it was listed, with no later copy  *)
(* of it anywhere; one that does not drops the entry.                       *)
LEMMA ClaimFire ==
    ASSUME CronTypeOK, CronTypeOK', FireInv, LeaseHeld, NEW s \in Schedulers, claim(s)
    PROVE  FireInv'
<1>1. PICK e \in sch[s].due :
         IF ClaimApplies(s, e)
         THEN /\ job' = [job EXCEPT ![e.j].by = s, ![e.j].age = sch[s].age]
              /\ sch' = [sch EXCEPT ![s].pc = "waking", ![s].job = {e}, ![s].due = @ \ {e}]
         ELSE sch' = [sch EXCEPT ![s].due = @ \ {e}] /\ UNCHANGED job
  BY ZenonT(60) DEF claim
<1>2. sch[s].pc = "firing" /\ UNCHANGED <<occ, fires, excused>>
  BY DEF claim
<1>3. sch[s].job = {}
  BY <1>2 DEF FireInv, OneByOne
<1>e. e \in ListedType /\ e.j \in Jobs
  BY SMTT(60) DEF CronTypeOK, TickType, ListedType
<1>4. /\ \A r \in Schedulers : r # s => sch'[r] = sch[r]
      /\ sch'[s].due = sch[s].due \ {e} /\ sch'[s].at = sch[s].at
      /\ IF ClaimApplies(s, e)
         THEN sch'[s].pc = "waking" /\ sch'[s].job = {e}
         ELSE sch'[s].pc = "firing" /\ sch'[s].job = {}
  <2>1. CASE ClaimApplies(s, e)
    <3> DEFINE jobs == {e}
               due == sch[s].due \ {e}
    <3>1. sch' = [sch EXCEPT ![s].pc = "waking", ![s].job = jobs, ![s].due = due]
      BY <1>1, <2>1
    <3> HIDE DEF jobs, due
    <3>2. /\ \A r \in Schedulers : r # s => sch'[r] = sch[r]
          /\ sch'[s].due = due /\ sch'[s].at = sch[s].at
          /\ sch'[s].pc = "waking" /\ sch'[s].job = jobs
      BY <3>1, SMTT(60) DEF CronTypeOK, TickType
    <3> QED
      BY <2>1, <3>2 DEF jobs, due
  <2>2. CASE ~ClaimApplies(s, e)
    <3> DEFINE due == sch[s].due \ {e}
    <3>1. sch' = [sch EXCEPT ![s].due = due]
      BY <1>1, <2>2
    <3> HIDE DEF due
    <3>2. /\ \A r \in Schedulers : r # s => sch'[r] = sch[r]
          /\ sch'[s].due = due /\ sch'[s].at = sch[s].at
          /\ sch'[s].pc = sch[s].pc /\ sch'[s].job = sch[s].job
      BY <3>1, SMTT(60) DEF CronTypeOK, TickType
    <3> QED
      BY <2>2, <3>2, <1>2, <1>3, SMTT(60) DEF due
  <2> QED
    BY <2>1, <2>2, ZenonT(60)
<1>5. \A j \in Jobs : job'[j].last = job[j].last /\ job'[j].next = job[j].next
  <2>1. CASE ClaimApplies(s, e)
    <3> DEFINE age == sch[s].age
    <3>1. job' = [job EXCEPT ![e.j].by = s, ![e.j].age = age]
      BY <1>1, <2>1
    <3> HIDE DEF age
    <3> QED
      BY <3>1, <1>e DEF CronTypeOK, JobType
  <2>2. CASE ~ClaimApplies(s, e)
    BY <1>1, <2>2, SMTT(60)
  <2> QED
    BY <2>1, <2>2
<1>n. \A j \in Jobs : job[j].next \in Nat /\ job[j].last \in Nat /\ job[j].last < job[j].next
  BY DEF CronTypeOK, JobType, FireInv, Clocks
<1>l. \A r \in Schedulers : \A d \in sch[r].due : d \in ListedType
  BY SMTT(60) DEF CronTypeOK, TickType
<1>6. ClaimApplies(s, e) => /\ e.last = job[e.j].last /\ e.next = job[e.j].next
                            /\ e.last < e.next /\ e.next <= sch[s].at[e.j]
  BY <1>e, <1>n, SMTT(60) DEF ClaimApplies, FireInv, ListedOK, ListedType
<1>7. ListedOK'
  <2> SUFFICES ASSUME NEW r \in Schedulers, NEW d \in sch'[r].due
               PROVE  /\ d.last < d.next /\ d.next <= sch'[r].at[d.j]
                      /\ \/ d.last = job'[d.j].last /\ d.next <= job'[d.j].next
                         \/ d.next <= job'[d.j].last
    BY SMTT(60) DEF ListedOK
  <2>1. d \in sch[r].due /\ sch'[r].at = sch[r].at
    BY <1>4
  <2>2. d.j \in Jobs
    BY <2>1, <1>l, SMTT(60) DEF ListedType
  <2> QED
    BY <2>1, <2>2, <1>5, SMTT(60) DEF FireInv, ListedOK
<1>8. FiredOK'
  <2> SUFFICES ASSUME NEW r \in Schedulers, NEW f \in sch'[r].job
               PROVE  /\ f.last = job'[f.j].last /\ f.last < f.next /\ f.next <= sch'[r].at[f.j]
                      /\ \A q \in Schedulers : \A d \in sch'[q].due : d.j = f.j => d.next <= f.next
    BY DEF FiredOK
  <2>0. \A q \in Schedulers : sch'[q].due \subseteq sch[q].due
    BY <1>4, SMTT(60)
  <2>1. CASE r = s
    <3>1. f = e /\ ClaimApplies(s, e) /\ sch'[r].at = sch[s].at
      BY <2>1, <1>4, SMTT(60)
    <3>2. ASSUME NEW q \in Schedulers, NEW d \in sch[q].due, d.j = e.j PROVE d.next <= e.next
      <4>1. \/ d.last = job[e.j].last /\ d.next <= job[e.j].next
            \/ d.next <= job[e.j].last
        BY <3>2 DEF FireInv, ListedOK
      <4>2. d.next \in Nat
        BY <1>l, SMTT(60) DEF ListedType
      <4> QED
        BY <4>1, <4>2, <3>1, <1>6, <1>n, <1>e, SMTT(60)
    <3> QED
      BY <2>0, <3>1, <3>2, <1>5, <1>6, <1>e, ZenonT(60)
  <2>2. CASE r # s
    <3>1. f \in sch[r].job /\ sch'[r].at = sch[r].at
      BY <2>2, <1>4, SMTT(60)
    <3>2. f.j \in Jobs
      BY <3>1, SMTT(60) DEF CronTypeOK, TickType, ListedType
    <3> QED
      BY <2>0, <3>1, <3>2, <1>5, SMTT(60) DEF FireInv, FiredOK
  <2> QED
    BY <2>1, <2>2, SMTT(60)
<1>9. OneByOne'
  BY <1>4, <1>e, SMTT(60) DEF FireInv, OneByOne
<1>10. Counted'
  <2>1. \A r \in Schedulers, j \in Jobs : Completing(r, j) => Completing(r, j)' /\ sch'[r].at = sch[r].at
    BY <1>2, <1>4, SMTT(60) DEF Completing
  <2>2. excused' \in [Jobs -> Nat] /\ \A j \in Jobs : excused[j] <= excused'[j]
    BY <1>2, SMTT(60) DEF FireInv, Counted
  <2> QED
    BY <2>1, <2>2, <1>2, <1>5, CountsKept, ZenonT(60) DEF FireInv
<1>11. Clocks'
  <2>1. \A r \in Schedulers : sch'[r].at = sch[r].at
    BY <1>4, ZenonT(60)
  <2> QED
    BY <2>1, <1>2, <1>5, SMTT(60) DEF FireInv, Clocks
<1> QED
  BY <1>7, <1>8, <1>9, <1>10, <1>11 DEF FireInv

(* What a fire adds to the counts. *)
LEMMA StartedFires ==
    ASSUME Counted, NEW s \in Schedulers, NEW e, e.j \in Jobs, e.last = job[e.j].last,
           sch[s].at[e.j] \in Nat, Started(s, e)
    PROVE  /\ fires' \in [Jobs -> [Occurrences -> Nat]]
           /\ \A j \in Jobs : j # e.j => fires'[j] = fires[j]
           /\ \A o \in Occurrences : fires'[e.j][o] = fires[e.j][o]
                 + IF job[e.j].last < o /\ o <= sch[s].at[e.j] THEN 1 ELSE 0
<1>1. fires \in [Jobs -> [Occurrences -> Nat]]
  BY DEF Counted
<1> DEFINE new == [o \in Occurrences |-> fires[e.j][o]
                      + IF job[e.j].last < o /\ o <= sch[s].at[e.j] THEN 1 ELSE 0]
<1>2. new \in [Occurrences -> Nat]
  BY <1>1
<1>3. fires' = [fires EXCEPT ![e.j] = new]
  BY SMTT(60) DEF Started
<1>4. \A o \in Occurrences : new[o] = fires[e.j][o]
          + IF job[e.j].last < o /\ o <= sch[s].at[e.j] THEN 1 ELSE 0
  OBVIOUS
<1> HIDE DEF new
<1> QED
  BY <1>1, <1>2, <1>3, <1>4, SMTT(60)

(* The fire itself: nobody else is about to record one, so what it adds to  *)
(* was excused, and it covers nothing the last recorded fire covered.       *)
LEMMA DeliveredFire ==
    ASSUME CronTypeOK, CronTypeOK', FireInv, OneFirerPerJob, NEW s \in Schedulers, Delivered(s)
    PROVE  FireInv'
<1>1. PICK e \in sch[s].job : Started(s, e)
  BY DEF Delivered
<1>2. sch[s].pc = "waking" /\ UNCHANGED <<job, occ, excused>>
  BY DEF Delivered
<1>3. /\ \A r \in Schedulers : r # s => sch'[r] = sch[r]
      /\ sch'[s].pc = "completing" /\ sch'[s].job = sch[s].job
      /\ sch'[s].due = sch[s].due /\ sch'[s].at = sch[s].at
  BY SMTT(60) DEF Delivered, CronTypeOK, TickType
<1>4. sch[s].job = {e} /\ e.j \in Jobs /\ e.last \in Nat /\ sch[s].at[e.j] \in Nat
  BY <1>2, SMTT(60) DEF FireInv, OneByOne, CronTypeOK, TickType, ListedType
<1>5. e.last = job[e.j].last
  BY SMTT(60) DEF FireInv, FiredOK
<1>6. \A r \in Schedulers : ~Completing(r, e.j)
  BY <1>2, <1>4, ZenonT(60) DEF OneFirerPerJob, Fires, Completing
<1>7. /\ fires' \in [Jobs -> [Occurrences -> Nat]]
      /\ \A j \in Jobs : j # e.j => fires'[j] = fires[j]
      /\ \A o \in Occurrences : fires'[e.j][o] = fires[e.j][o]
            + IF job[e.j].last < o /\ o <= sch[s].at[e.j] THEN 1 ELSE 0
  BY <1>1, <1>4, <1>5, StartedFires, ZenonT(60) DEF FireInv
<1>8. Counted'
  <2> SUFFICES ASSUME NEW j \in Jobs, NEW o \in Occurrences
               PROVE  /\ fires'[j][o] <= 1 + excused[j]
                      /\ /\ o > job[j].last
                         /\ \A r \in Schedulers : Completing(r, j)' => o > sch'[r].at[j]
                         => fires'[j][o] <= excused[j]
    BY <1>2, <1>7, ZenonT(60) DEF Counted, FireInv
  <2>n. /\ fires[j][o] \in Nat /\ excused[j] \in Nat /\ o \in Nat /\ job[j].last \in Nat
    <3>1. fires[j][o] \in Nat /\ excused[j] \in Nat
      BY ZenonT(60) DEF FireInv, Counted
    <3>2. o \in Nat
      BY CronAssumption, SMTT(60) DEF Occurrences
    <3>3. job[j].last \in Nat
      BY ZenonT(60) DEF CronTypeOK, JobType
    <3> QED
      BY <3>1, <3>2, <3>3, SMTT(60)
  <2>0. /\ fires[j][o] <= 1 + excused[j]
        /\ /\ o > job[j].last
           /\ \A r \in Schedulers : Completing(r, j) => o > sch[r].at[j]
           => fires[j][o] <= excused[j]
    BY ZenonT(60) DEF FireInv, Counted
  <2>1. CASE j = e.j
    <3>1. o > job[j].last => fires[j][o] <= excused[j]
      BY <2>0, <2>1, <1>6, SMTT(60)
    <3>2. Completing(s, j)'
      BY <2>1, <1>3, SMTT(60) DEF Completing
    <3>3. fires'[j][o] = fires[j][o] + IF job[j].last < o /\ o <= sch[s].at[j] THEN 1 ELSE 0
      BY <1>7, <1>5, <2>1, SMTT(60)
    <3>4. sch'[s].at[j] = sch[s].at[j] /\ sch[s].at[j] \in Nat
      BY <1>3, <1>4, <2>1, SMTT(60)
    <3> QED
      BY <3>1, <3>2, <3>3, <3>4, <2>n, <2>0, SMTT(60)
  <2>2. CASE j # e.j
    <3>1. \A r \in Schedulers : Completing(r, j) => Completing(r, j)' /\ sch'[r].at = sch[r].at
      BY <1>2, <1>3, ZenonT(60) DEF Completing
    <3>2. fires'[j] = fires[j]
      BY <1>7, <2>2, ZenonT(60)
    <3> QED
      BY <3>1, <3>2, <2>0, ZenonT(60)
  <2> QED
    BY <2>1, <2>2, ZenonT(60)
<1>9. ListedOK' /\ FiredOK'
  <2>1. \A r \in Schedulers : /\ sch'[r].due = sch[r].due /\ sch'[r].job = sch[r].job
                              /\ sch'[r].at = sch[r].at
    BY <1>3, SMTT(60)
  <2>2. ListedOK'
    BY <2>1, <1>2, ZenonT(60) DEF FireInv, ListedOK
  <2>3. FiredOK'
    BY <2>1, <1>2, ZenonT(60) DEF FireInv, FiredOK
  <2> QED
    BY <2>2, <2>3, ZenonT(60)
<1>10. OneByOne'
  BY <1>2, <1>3, ZenonT(60) DEF FireInv, OneByOne
<1>11. Clocks'
  <2>1. \A r \in Schedulers : sch'[r].at = sch[r].at
    BY <1>3
  <2> QED
    BY <2>1, <1>2 DEF FireInv, Clocks
<1> QED
  BY <1>8, <1>9, <1>10, <1>11 DEF FireInv

(* The record: the schedule moves past every copy of the job that is listed *)
(* anywhere, so none of them can be claimed again.                          *)
LEMMA CompleteFire ==
    ASSUME CronTypeOK, CronTypeOK', FireInv, OneFirerPerJob, NEW s \in Schedulers, complete_fire(s)
    PROVE  FireInv'
<1>1. PICK e \in sch[s].job :
         job' = [job EXCEPT ![e.j].last = sch[s].at[e.j], ![e.j].next = sch[s].at[e.j] + 1,
                            ![e.j].by = Nobody, ![e.j].age = 0]
  BY ZenonT(60) DEF complete_fire
<1>2. sch[s].pc = "completing" /\ UNCHANGED <<occ, fires, excused>>
  BY ZenonT(60) DEF complete_fire
<1>3. /\ \A r \in Schedulers : r # s => sch'[r] = sch[r]
      /\ sch'[s].pc = "firing" /\ sch'[s].job = {}
      /\ sch'[s].due = sch[s].due /\ sch'[s].at = sch[s].at
  BY DEF complete_fire, CronTypeOK, TickType
<1>4. e.j \in Jobs /\ e.last \in Nat /\ e.next \in Nat /\ sch[s].at[e.j] \in Nat
  BY DEF CronTypeOK, TickType, ListedType
<1> DEFINE at == sch[s].at[e.j]
           after == sch[s].at[e.j] + 1
<1>5. /\ \A j \in Jobs : j # e.j => job'[j].last = job[j].last /\ job'[j].next = job[j].next
      /\ job'[e.j].last = at /\ job'[e.j].next = at + 1
  <2>1. job' = [job EXCEPT ![e.j].last = at, ![e.j].next = after,
                            ![e.j].by = Nobody, ![e.j].age = 0]
    BY <1>1, ZenonT(60)
  <2>2. after = at + 1
    BY SMTT(60)
  <2> HIDE DEF at, after
  <2>3. job'[e.j].last = at /\ job'[e.j].next = after
    BY <2>1, <1>4, ZenonT(60) DEF CronTypeOK, JobType
  <2>4. \A j \in Jobs : j # e.j => job'[j] = job[j]
    BY <2>1, SMTT(60) DEF CronTypeOK
  <2> QED
    BY <2>2, <2>3, <2>4, SMTT(60)
<1>6. /\ e.last = job[e.j].last /\ e.last < e.next /\ e.next <= at
      /\ \A r \in Schedulers : \A d \in sch[r].due : d.j = e.j => d.next <= e.next
  BY SMTT(60) DEF FireInv, FiredOK
<1>7. \A r \in Schedulers : r # s => \A f \in sch[r].job : f.j # e.j
  <2> SUFFICES ASSUME NEW r \in Schedulers, r # s, NEW f \in sch[r].job, f.j = e.j PROVE FALSE
    OBVIOUS
  <2>1. sch[r].pc \in {"waking", "releasing", "completing"}
    BY DEF FireInv, OneByOne
  <2>2. Fires(r, e.j) /\ Fires(s, e.j)
    BY <2>1, <1>2, SMTT(60) DEF Fires
  <2> QED
    BY <2>2, <1>4, SMTT(60) DEF OneFirerPerJob
<1>a. \A r \in Schedulers : sch'[r].at = sch[r].at /\ sch'[r].due = sch[r].due
  BY <1>3
<1>l. \A r \in Schedulers : \A d \in sch[r].due \cup sch[r].job : d \in ListedType
  BY SMTT(60) DEF CronTypeOK, TickType
<1>8. ListedOK'
  <2> SUFFICES ASSUME NEW r \in Schedulers, NEW d \in sch[r].due
               PROVE  /\ d.last < d.next /\ d.next <= sch[r].at[d.j]
                      /\ \/ d.last = job'[d.j].last /\ d.next <= job'[d.j].next
                         \/ d.next <= job'[d.j].last
    BY <1>a, ZenonT(60) DEF ListedOK
  <2>1. /\ d.last < d.next /\ d.next <= sch[r].at[d.j]
        /\ \/ d.last = job[d.j].last /\ d.next <= job[d.j].next
           \/ d.next <= job[d.j].last
    BY ZenonT(60) DEF FireInv, ListedOK
  <2>2. d.j \in Jobs /\ d.next \in Nat
    BY <1>l, SMTT(60) DEF ListedType
  <2>3. CASE d.j = e.j
    <3>1. d.next <= e.next
      BY <2>3, <1>6, SMTT(60)
    <3>2. d.next <= job'[d.j].last
      BY <3>1, <2>2, <2>3, <1>4, <1>5, <1>6, SMTT(60)
    <3> QED
      BY <2>1, <3>2, SMTT(60)
  <2>4. CASE d.j # e.j
    BY <2>1, <2>2, <2>4, <1>5, ZenonT(60)
  <2> QED
    BY <2>3, <2>4, SMTT(60)
<1>9. FiredOK'
  <2> SUFFICES ASSUME NEW r \in Schedulers, NEW f \in sch'[r].job
               PROVE  /\ f.last = job'[f.j].last /\ f.last < f.next /\ f.next <= sch'[r].at[f.j]
                      /\ \A q \in Schedulers : \A d \in sch'[q].due : d.j = f.j => d.next <= f.next
    BY ZenonT(60) DEF FiredOK
  <2>1. r # s /\ f \in sch[r].job
    BY <1>3
  <2>2. f.j # e.j /\ f.j \in Jobs
    BY <2>1, <1>7, <1>l, SMTT(60) DEF ListedType
  <2> QED
    BY <2>1, <2>2, <1>5, <1>a, ZenonT(60) DEF FireInv, FiredOK
<1>10. OneByOne'
  BY <1>3, SMTT(60) DEF FireInv, OneByOne
<1>n. \A j \in Jobs : job[j].last \in Nat /\ occ[j] \in Nat
  BY SMTT(60) DEF CronTypeOK, JobType
<1>11. Clocks'
  <2> SUFFICES ASSUME NEW j \in Jobs
               PROVE  /\ job'[j].last < job'[j].next /\ job'[j].last <= occ[j]
                      /\ job'[j].next <= occ[j] + 1
    BY <1>a, <1>2, SMTT(60) DEF FireInv, Clocks
  <2>1. /\ job[j].last < job[j].next /\ job[j].last <= occ[j] /\ job[j].next <= occ[j] + 1
        /\ sch[s].at[j] <= occ[j]
    BY ZenonT(60) DEF FireInv, Clocks
  <2> QED
    BY <2>1, <1>4, <1>5, <1>n, SMTT(60)
<1>12. Counted'
  <2> SUFFICES ASSUME NEW j \in Jobs, NEW o \in Occurrences
               PROVE  /\ o > job'[j].last
                      /\ \A r \in Schedulers : Completing(r, j)' => o > sch'[r].at[j]
                      => fires[j][o] <= excused[j]
    BY <1>2, ZenonT(60) DEF Counted, FireInv
  <2>0. /\ o > job[j].last
        /\ \A r \in Schedulers : Completing(r, j) => o > sch[r].at[j]
        => fires[j][o] <= excused[j]
    BY SMTT(60) DEF FireInv, Counted
  <2>o. o \in Nat
    BY CronAssumption DEF Occurrences
  <2>1. CASE j = e.j
    <3> SUFFICES ASSUME o > at PROVE fires[j][o] <= excused[j]
      BY <1>5, <2>1, SMTT(60)
    <3>1. o > job[j].last
      BY <2>1, <2>o, <1>4, <1>6, SMTT(60)
    <3>2. \A r \in Schedulers : Completing(r, j) => r = s
      BY <2>1, <1>7, ZenonT(60) DEF Completing
    <3>3. \A r \in Schedulers : Completing(r, j) => o > sch[r].at[j]
      BY <3>2, <2>1, SMTT(60)
    <3> QED
      BY <3>1, <3>3, <2>0, SMTT(60)
  <2>2. CASE j # e.j
    <3>1. sch[s].job = {e}
      BY <1>2, SMTT(60) DEF FireInv, OneByOne
    <3>2. \A r \in Schedulers : Completing(r, j) => Completing(r, j)'
      BY <3>1, <2>2, <1>3 DEF Completing
    <3> QED
      BY <3>2, <2>0, <2>2, <1>5, <1>a, ZenonT(60)
  <2> QED
    BY <2>1, <2>2, ZenonT(60)
<1> QED
  BY <1>8, <1>9, <1>10, <1>11, <1>12, SMTT(60) DEF FireInv

(* A fire that is dropped before it is recorded: whatever it had started is *)
(* excused.                                                                 *)
LEMMA DropFire ==
    ASSUME CronTypeOK, CronTypeOK', FireInv, OneFirerPerJob, NEW s \in Schedulers,
           CompleteFails(s) \/ Interrupted(s)
    PROVE  FireInv'
<1>t. sch[s] \in TickType /\ sch \in [Schedulers -> TickType]
  BY SMTT(60) DEF CronTypeOK
<1>1. /\ \A r \in Schedulers : r # s => sch'[r] = sch[r]
      /\ sch'[s].due \subseteq sch[s].due /\ sch'[s].job = {} /\ sch'[s].pc \in {"idle", "firing"}
      /\ \/ sch'[s].at = sch[s].at
         \/ sch'[s].due = {} /\ \A j \in Jobs : sch'[s].at[j] <= occ[j]
  <2>1. CASE CompleteFails(s)
    BY <2>1, SMTT(60) DEF CompleteFails, CronTypeOK, TickType
  <2>2. CASE Interrupted(s)
    <3>a. /\ IdleTick.due = {} /\ IdleTick.job = {} /\ IdleTick.pc = "idle"
          /\ \A j \in Jobs : IdleTick.at[j] = 0 /\ occ[j] \in Nat
      BY ZenonT(60) DEF IdleTick, CronTypeOK
    <3>1. sch' = [sch EXCEPT ![s] = IdleTick]
      BY <2>2, ZenonT(60) DEF Interrupted
    <3>2. sch'[s] = IdleTick /\ \A r \in Schedulers : r # s => sch'[r] = sch[r]
      BY <3>1, OthersKept, ZenonT(60)
    <3>3. \A j \in Jobs : IdleTick.at[j] <= occ[j]
      BY <3>a
    <3> QED
      BY <3>a, <3>2, <3>3, ZenonT(60)
  <2> QED
    BY <2>1, <2>2, ZenonT(60)
<1>2. UNCHANGED <<job, occ>>
  BY DEF CompleteFails, Interrupted
<1>n. \A j \in Jobs : /\ job[j].next \in Nat /\ occ[j] \in Nat /\ job[j].last \in Nat
                      /\ excused[j] \in Nat
  BY ZenonT(60) DEF CronTypeOK, JobType, FireInv, Counted
<1>3. /\ excused' \in [Jobs -> Nat]
      /\ \A j \in Jobs : excused[j] <= excused'[j]
      /\ sch[s].pc \in {"waking", "completing"} =>
            \A e \in sch[s].job : excused[e.j] + 1 <= excused'[e.j]
  <2> DEFINE lost(j) == IF sch[s].pc = "releasing" THEN {} ELSE {e \in sch[s].job : e.j = j}
  <2>1. excused' = [j \in Jobs |-> excused[j] + Cardinality(lost(j))]
    <3>1. CASE CompleteFails(s)
      BY <3>1 DEF CompleteFails
    <3>2. CASE Interrupted(s)
      <4>1. excused' = [j \in Jobs |-> excused[j]
               + Cardinality({e \in sch[s].job : e.j = j /\ sch[s].pc # "releasing"})]
        BY <3>2, ZenonT(60) DEF Interrupted
      <4>2. \A j \in Jobs : {e \in sch[s].job : e.j = j /\ sch[s].pc # "releasing"} = lost(j)
        BY SMTT(60)
      <4> QED
        BY <4>1, <4>2, SMTT(60)
    <3> QED
      BY <3>1, <3>2, SMTT(60)
  <2>2. ASSUME NEW j \in Jobs
        PROVE  /\ Cardinality(lost(j)) \in Nat
               /\ sch[s].pc \in {"waking", "completing"} =>
                     \A e \in sch[s].job : e.j = j => Cardinality(lost(j)) = 1
    <3>1. CASE sch[s].pc \in {"waking", "completing"}
      <4>1. PICK e \in ListedType : sch[s].job = {e}
        BY <3>1 DEF FireInv, OneByOne
      <4>2. lost(j) = {x \in {e} : x.j = j}
        BY <3>1, <4>1, SMTT(60)
      <4>3. /\ e.j = j => Cardinality({x \in {e} : x.j = j}) = 1
            /\ e.j # j => Cardinality({x \in {e} : x.j = j}) = 0
        BY EntryCount, ZenonT(60)
      <4> HIDE DEF lost
      <4>4. (e.j = j => Cardinality(lost(j)) = 1) /\ (e.j # j => Cardinality(lost(j)) = 0)
        BY <4>2, <4>3, ZenonT(60)
      <4> QED
        BY <4>1, <4>4, SMTT(60)
    <3>2. CASE sch[s].pc \notin {"waking", "completing"}
      <4>1. lost(j) = {}
        BY <3>2 DEF FireInv, OneByOne
      <4> HIDE DEF lost
      <4> QED
        BY <3>2, <4>1, FS_EmptySet
    <3> QED
      BY <3>1, <3>2, ZenonT(60)
  <2> HIDE DEF lost
  <2>3. \A j \in Jobs : excused'[j] = excused[j] + Cardinality(lost(j))
    BY <2>1
  <2>4. excused' \in [Jobs -> Nat]
    BY <2>1, <2>2, <1>n, SMTT(60)
  <2>5. \A e \in sch[s].job : e.j \in Jobs
    BY <1>t, SMTT(60) DEF TickType, ListedType
  <2> QED
    BY <2>2, <2>3, <2>4, <2>5, <1>n, SMTT(60)
<1>5. Clocks'
  BY <1>1, <1>2, <1>n, ClocksKept, SMTT(60) DEF FireInv
<1>6. ListedOK' /\ FiredOK'
  <2>1. \A r \in Schedulers : sch'[r].due \subseteq sch[r].due /\ sch'[r].job \subseteq sch[r].job
    BY <1>1, SMTT(60)
  <2>2. \A r \in Schedulers : \/ sch'[r].at = sch[r].at
                              \/ sch'[r].due = {} /\ sch'[r].job = {}
    BY <1>1
  <2>3. \A j \in Jobs : job'[j].last = job[j].last /\ job[j].next <= job'[j].next
    BY <1>2, <1>n, SMTT(60)
  <2> QED
    BY <2>1, <2>2, <2>3, EntriesShrink, SMTT(60) DEF FireInv
<1>7. OneByOne'
  BY <1>1, ZenonT(60) DEF FireInv, OneByOne
<1>8. Counted'
  <2>1. CASE UNCHANGED fires
    <3>1. \A j \in Jobs : \/ \A r \in Schedulers :
                                Completing(r, j) => Completing(r, j)' /\ sch'[r].at = sch[r].at
                          \/ excused[j] + 1 <= excused'[j]
      <4> SUFFICES ASSUME NEW j \in Jobs, ~(excused[j] + 1 <= excused'[j]),
                          NEW r \in Schedulers, Completing(r, j)
                   PROVE  Completing(r, j)' /\ sch'[r].at = sch[r].at
        BY ZenonT(60)
      <4>1. r # s
        BY <1>3, SMTT(60) DEF Completing
      <4> QED
        BY <4>1, <1>1, ZenonT(60) DEF Completing
    <3> QED
      BY <2>1, <3>1, <1>2, <1>3, CountsKept, ZenonT(60) DEF FireInv
  <2>2. CASE ~UNCHANGED fires
    <3>1. sch[s].pc = "waking"
      BY <2>2 DEF CompleteFails, Interrupted
    <3>2. PICK e \in sch[s].job : Started(s, e)
      BY <2>2, SMTT(60) DEF CompleteFails, Interrupted
    <3>3. e.j \in Jobs /\ e.last = job[e.j].last /\ sch[s].at[e.j] \in Nat
      BY <1>t, ZenonT(60) DEF TickType, ListedType, FireInv, FiredOK
    <3>4. \A r \in Schedulers : ~Completing(r, e.j)
      BY <3>1, <3>3, SMTT(60) DEF OneFirerPerJob, Fires, Completing
    <3>5. /\ fires' \in [Jobs -> [Occurrences -> Nat]]
          /\ \A j \in Jobs : j # e.j => fires'[j] = fires[j]
          /\ \A o \in Occurrences : fires'[e.j][o] = fires[e.j][o]
                + IF job[e.j].last < o /\ o <= sch[s].at[e.j] THEN 1 ELSE 0
      BY <3>2, <3>3, StartedFires, ZenonT(60) DEF FireInv
    <3> SUFFICES ASSUME NEW j \in Jobs, NEW o \in Occurrences
                 PROVE  /\ fires'[j][o] <= 1 + excused'[j]
                        /\ /\ o > job[j].last
                           /\ \A r \in Schedulers : Completing(r, j)' => o > sch'[r].at[j]
                           => fires'[j][o] <= excused'[j]
      BY <1>2, <1>3, <3>5, ZenonT(60) DEF Counted
    <3>c. Counted
      BY ZenonT(60) DEF FireInv
    <3>6. /\ fires[j][o] <= 1 + excused[j]
          /\ /\ o > job[j].last
             /\ \A r \in Schedulers : Completing(r, j) => o > sch[r].at[j]
             => fires[j][o] <= excused[j]
      BY <3>c, ZenonT(60) DEF Counted
    <3>7. fires[j][o] \in Nat /\ excused[j] \in Nat /\ excused'[j] \in Nat /\ o \in Nat
      BY <1>3, <3>c, CronAssumption, SMTT(60) DEF Counted, Occurrences
    <3>8. CASE j = e.j
      <4>1. o > job[j].last => fires[j][o] <= excused[j]
        BY <3>6, <3>4, <3>8, ZenonT(60)
      <4>2. excused[j] + 1 <= excused'[j]
        BY <1>3, <3>1, <3>8, SMTT(60)
      <4>3. fires'[j][o] = fires[j][o] + IF job[j].last < o /\ o <= sch[s].at[j] THEN 1 ELSE 0
        BY <3>5, <3>8, ZenonT(60)
      <4> QED
        BY <4>1, <4>2, <4>3, <3>6, <3>7, <1>n, SMTT(60)
    <3>9. CASE j # e.j
      <4>1. \A r \in Schedulers : Completing(r, j) => Completing(r, j)' /\ sch'[r].at = sch[r].at
        BY <3>1, <1>1, ZenonT(60) DEF Completing
      <4>2. fires'[j][o] = fires[j][o] /\ excused[j] <= excused'[j]
        BY <3>5, <3>9, <1>3, ZenonT(60)
      <4> QED
        BY <4>1, <4>2, <3>6, <3>7, SMTT(60)
    <3> QED
      BY <3>8, <3>9, ZenonT(60)
  <2> QED
    BY <2>1, <2>2, SMTT(60)
<1> QED
  BY <1>5, <1>6, <1>7, <1>8, SMTT(60) DEF FireInv

LEMMA FireStep ==
    CronTypeOK /\ CronTypeOK' /\ LeaseHeld /\ OneFirerPerJob /\ FireInv /\ [Next]_vars => FireInv'
<1> SUFFICES ASSUME CronTypeOK, CronTypeOK', LeaseHeld, OneFirerPerJob, FireInv, [Next]_vars
             PROVE  FireInv'
  OBVIOUS
<1>1. ASSUME NEW s \in Schedulers, SchedulerStep(s) \/ TickFails(s) \/ Interrupted(s)
      PROVE  FireInv'
  <2>1. CASE \/ StartTick(s) \/ Limited(s) \/ NotOurs(s) \/ WakeRaises(s) \/ release_claim(s)
             \/ TickEnds(s) \/ TickFails(s)
    BY <2>1, TickMovesFire
  <2>2. CASE list_due(s)
    BY <2>2, ListFire
  <2>3. CASE claim(s)
    BY <2>3, ClaimFire
  <2>4. CASE Delivered(s)
    BY <2>4, DeliveredFire
  <2>5. CASE complete_fire(s)
    BY <2>5, CompleteFire
  <2>6. CASE CompleteFails(s) \/ Interrupted(s)
    BY <2>6, DropFire
  <2> QED
    BY <1>1, <2>1, <2>2, <2>3, <2>4, <2>5, <2>6, SMTT(60) DEF SchedulerStep
<1>2. CASE TimePasses \/ \E j \in Jobs : Occurs(j) \/ OwnerStep(j) \/ report_outcome(j)
  BY <1>2, RowsMoveFire, SMTT(60)
<1>3. CASE UNCHANGED vars
  <2>1. UNCHANGED <<job, occ, sch, fires, excused>>
    BY <1>3 DEF vars
  <2>2. Clocks' /\ OneByOne'
    BY <2>1, ZenonT(60) DEF FireInv, Clocks, OneByOne
  <2>3. ListedOK' /\ FiredOK'
    BY <2>1, ZenonT(60) DEF FireInv, ListedOK, FiredOK
  <2>4. Counted'
    BY <2>1, ZenonT(60) DEF FireInv, Counted, Completing
  <2> QED
    BY <2>2, <2>3, <2>4 DEF FireInv
<1> QED
  BY <1>1, <1>2, <1>3 DEF Next

(* An occurrence fires once: whatever ticks overlap, time out or die and    *)
(* whatever the owner edits, no occurrence of a job starts more processes   *)
(* than one and those whose record was lost, which claim's comparison of    *)
(* next_fire_at with the listed one and complete_fire's record ensure.      *)
THEOREM EachOccurrenceOnce == Spec => []FiredOnce
<1>0. Init => LeaseHeld
  BY DEF Init, LeaseHeld, Fires, IdleTick
<1>1. Init => CronTypeOK /\ LeaseHeld /\ FireInv
  BY <1>0, CronInitTypes, FireInit
<1>2. LeaseHeld => OneFirerPerJob
  BY DEF LeaseHeld, OneFirerPerJob
<1>3. CronTypeOK /\ LeaseHeld /\ FireInv /\ [Next]_vars => CronTypeOK' /\ LeaseHeld' /\ FireInv'
  BY CronTypeStep, LeaseStep, FireStep, <1>2, SMTT(60)
<1>4. FireInv => FiredOnce
  BY ZenonT(60) DEF FireInv, Counted, FiredOnce
<1> QED
  BY <1>1, <1>3, <1>4, PTL DEF Spec

=============================================================================
