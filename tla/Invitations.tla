------------------------------ MODULE Invitations ------------------------------
(***************************************************************************)
(* The invite gate of the Telegram surface (TelegramMembership in          *)
(* poller.py), the tables behind it (invites/store.py) and the operator's  *)
(* admin tool (admin.py), which revokes an invite together with the cron   *)
(* jobs of whoever claimed it and restores both.  The operator's chores    *)
(* are sequences of store calls: the member's own agent edits the same     *)
(* jobs in between, and the process may die in the middle.                 *)
(***************************************************************************)
EXTENDS Naturals, FiniteSets

CONSTANTS Accounts, Invites, Jobs,
          Member,     \* the account whose cron jobs Jobs are
          OpenRegistration,
          Named,      \* the invites the operator names
          Started,    \* the states the jobs may be in at the start
          MaxChores, MaxEdits

VARIABLES invite,    \* InviteRow by id
          referral,  \* referral[a]: who brought a (ReferralClaimRow), None
          job,       \* job[j]: "on", "off" or "gone"
          chore,     \* the admin tool's call in flight
          welcomed,  \* accounts the gate welcomed and nobody ever revoked
          past       \* chores and edits so far; what became of the jobs

invitationVars == <<invite, referral, job, chore, welcomed, past>>

None == "none"
InviteRow == [status |-> None, stale |-> FALSE, by |-> None, disabled |-> {}]
NoChore == [pc |-> "idle", invite |-> None, left |-> {}, done |-> {}]

Init ==
  /\ invite = [i \in Invites |-> InviteRow]
  /\ referral = [a \in Accounts |-> None]
  /\ job \in Started
  /\ chore = NoChore /\ welcomed = {}
  /\ past = [chores |-> 0, edits |-> 0, edited |-> {}, paused |-> {},
             on |-> {}, of |-> None, revokes |-> 0, torn |-> FALSE]

On == {j \in Jobs : job[j] = "on"}

(* get_by_user takes the first row of an unordered select: with several    *)
(* rows any of them may answer.                                            *)
get_by_user(a) == {i \in Invites : invite[i].by = a}

_is_member(a) ==
  IF get_by_user(a) = {} THEN {referral[a] # None}
  ELSE {invite[i].status = "claimed" \/ referral[a] # None : i \in get_by_user(a)}

-----------------------------------------------------------------------------
create(i) ==
  /\ invite[i].status = None
  /\ invite' = [invite EXCEPT ![i].status = "pending"]
  /\ UNCHANGED <<referral, job, chore, welcomed, past>>

(* The TTL of a pending code runs out.                                     *)
Expire(i) ==
  /\ invite[i].status = "pending" /\ ~invite[i].stale
  /\ invite' = [invite EXCEPT ![i].stale = TRUE]
  /\ UNCHANGED <<referral, job, chore, welcomed, past>>

Revoked(a) == \E i \in get_by_user(a) : invite[i].status = "revoked"
Welcome(a) == welcomed' = IF Revoked(a) THEN welcomed ELSE welcomed \union {a}

(* Mutant: a revoked code can be claimed again. *)
ClaimRevokedToo(i, a) ==
  /\ invite[i].status \in {"pending", "revoked"} /\ ~invite[i].stale
  /\ invite' = [invite EXCEPT ![i].status = "claimed", ![i].by = a]

(* claim: one conditional update; a used, revoked or expired code changes  *)
(* nothing.                                                                *)
claim(i, a) ==
  /\ invite[i].status = "pending" /\ ~invite[i].stale
  /\ invite' = [invite EXCEPT ![i].status = "claimed", ![i].by = a]

(* "/start <code>": claimed and welcomed, or refused with no trace.        *)
_claim(a, i) ==
  /\ claim(i, a) /\ Welcome(a)
  /\ UNCHANGED <<referral, job, chore, past>>

(* record_claim: the first attribution stands.                             *)
record_claim(a, owner) ==
  referral' = IF referral[a] # None THEN referral ELSE [referral EXCEPT ![a] = owner]

(* "/start ref_<code>" of another account's link: a member just passes.    *)
_claim_referral(a, owner) ==
  /\ owner # a
  /\ FALSE \in _is_member(a)
  /\ record_claim(a, owner) /\ Welcome(a)
  /\ UNCHANGED <<invite, job, chore, past>>

(* check for a message without a code: what the gate may answer.           *)
check(a) == IF OpenRegistration THEN {TRUE} ELSE _is_member(a)

-----------------------------------------------------------------------------
(* The member's own agent toggles or deletes a job (cron_manage).          *)
EditJob(j) ==
  /\ past.edits < MaxEdits /\ job[j] # "gone"
  /\ \E s \in {"on", "off", "gone"} \ {job[j]} : job' = [job EXCEPT ![j] = s]
  /\ past' = [past EXCEPT !.edits = @ + 1, !.edited = @ \union {j}]
  /\ UNCHANGED <<invite, referral, chore, welcomed>>

(* The invite the operator names, by id or by account.                     *)
_find_invite == {i \in Named : invite[i].status # None}

Begin(pc, i, left) == chore' = [pc |-> pc, invite |-> i, left |-> left, done |-> {}]

(* _revoke: the row first; a claimed one goes on to its member's jobs.     *)
_revoke(i) ==
  /\ chore = NoChore /\ past.chores < MaxChores /\ i \in _find_invite
  /\ invite' = [invite EXCEPT ![i].status = "revoked"]
  /\ IF invite[i].by = Member THEN Begin("list", i, {}) ELSE UNCHANGED chore
  /\ welcomed' = welcomed \ {invite[i].by}
  /\ past' = [past EXCEPT !.chores = @ + 1, !.revokes = @ + 1,
                          !.on = On, !.of = i]
  /\ UNCHANGED <<referral, job>>

(* _disable_cron_jobs: list the enabled jobs, ...                          *)
ListJobs ==
  /\ chore.pc = "list"
  /\ chore' = [chore EXCEPT !.pc = "disable", !.left = On]
  /\ UNCHANGED <<invite, referral, job, welcomed, past>>

(* A chore cut short; a revocation leaves jobs off that nothing remembers. *)
Abandon == chore' = NoChore /\ past' = [past EXCEPT !.torn = @ \/ chore.pc # "enable"]

SetEnabled(j, state) ==
  IF job[j] = "gone"
  THEN Abandon /\ UNCHANGED job
  ELSE /\ job' = [job EXCEPT ![j] = state]
       /\ chore' = [chore EXCEPT !.left = @ \ {j}, !.done = @ \union {j}]
       /\ past' = [past EXCEPT !.paused = IF state = "off" THEN @ \union {j} ELSE @]

(* ... switch them off one by one (a job deleted meanwhile raises and ends *)
(* the call), ...                                                          *)
DisableNext ==
  /\ chore.pc = "disable" /\ chore.left # {}
  /\ \E j \in chore.left : SetEnabled(j, "off")
  /\ UNCHANGED <<invite, referral, welcomed>>

(* Mutant: every job is remembered as switched off. *)
SaveEveryJob ==
  /\ chore.pc = "disable" /\ chore.left = {}
  /\ invite' = [invite EXCEPT ![chore.invite].disabled = Jobs]
  /\ chore' = NoChore
  /\ UNCHANGED <<referral, job, welcomed, past>>

(* ... and remember on the invite which ones this revocation switched off. *)
set_disabled_cron_jobs ==
  /\ chore.pc = "disable" /\ chore.left = {}
  /\ invite' = [invite EXCEPT ![chore.invite].disabled = chore.done]
  /\ chore' = NoChore
  /\ UNCHANGED <<referral, job, welcomed, past>>

(* _restore: the row back to claimed, whatever it was, then its jobs.      *)
_restore(i) ==
  /\ chore = NoChore /\ past.chores < MaxChores /\ i \in _find_invite
  /\ invite' = [invite EXCEPT ![i].status = "claimed"]
  /\ Begin("enable", i, IF invite[i].by = Member THEN invite[i].disabled ELSE {})
  /\ past' = [past EXCEPT !.chores = @ + 1]
  /\ UNCHANGED <<referral, job, welcomed>>

EnableNext ==
  /\ chore.pc = "enable" /\ chore.left # {}
  /\ \E j \in chore.left : SetEnabled(j, "on")
  /\ UNCHANGED <<invite, referral, welcomed>>

ClearDisabled ==
  /\ chore.pc = "enable" /\ chore.left = {}
  /\ invite' = [invite EXCEPT ![chore.invite].disabled = {}]
  /\ chore' = [NoChore EXCEPT !.pc = "restored", !.invite = chore.invite]
  /\ UNCHANGED <<referral, job, welcomed, past>>

(* The restore has been reported; this step only ends the chore.           *)
Reported ==
  /\ chore.pc = "restored" /\ chore' = NoChore
  /\ UNCHANGED <<invite, referral, job, welcomed, past>>

(* The process dies in the middle of a chore; nothing resumes it.          *)
Die ==
  /\ chore.pc \in {"list", "disable", "enable"} /\ Abandon
  /\ UNCHANGED <<invite, referral, job, welcomed>>

Next ==
  \/ \E i \in Invites : create(i) \/ Expire(i) \/ _revoke(i) \/ _restore(i)
  \/ \E a \in Accounts : \/ \E i \in Invites : _claim(a, i)
                         \/ \E o \in Accounts : _claim_referral(a, o)
  \/ \E j \in Jobs : EditJob(j)
  \/ ListJobs \/ DisableNext \/ set_disabled_cron_jobs
  \/ EnableNext \/ ClearDisabled \/ Reported \/ Die

Spec == Init /\ [][Next]_invitationVars

-----------------------------------------------------------------------------
(* Rows keep their shape and a chore works on existing jobs.               *)
InvitationsTypeOK ==
  /\ \A i \in Invites : /\ invite[i].status \in {None, "pending", "claimed", "revoked"}
                        /\ invite[i].by \in Accounts \union {None}
                        /\ invite[i].disabled \subseteq Jobs
  /\ job \in [Jobs -> {"on", "off", "gone"}]
  /\ chore.pc \in {"idle", "list", "disable", "enable", "restored"}
  /\ chore.left \subseteq Jobs /\ chore.done \subseteq Jobs

(* What each step owes FirstClaimStands.                                  *)
FirstClaimStandsStep ==
    /\ \A i \in Invites : invite[i].by # None => invite'[i].by = invite[i].by
    /\ \A a \in Accounts : referral[a] # None => referral'[a] = referral[a]

(* "only the first concurrent claim succeeds", "one attribution, written   *)
(* at first entry, never rewritten": no later message, revocation or       *)
(* restore changes who claimed a code or who brought whom.                 *)
FirstClaimStands == [][FirstClaimStandsStep]_invitationVars

(* Whoever was welcomed at the gate passes it from then on, until the      *)
(* operator revokes an invite of theirs; with a revoked invite on file,    *)
(* which of two rows get_by_user returns is left to the database.          *)
WelcomeHolds == \A a \in welcomed : check(a) = {TRUE}

(* "Store which cron jobs this revocation disabled (for a precise          *)
(* restore)": an invite remembers, and a restore switches on, only jobs a  *)
(* revocation switched off, whatever died, was edited or revoked again;    *)
(* and when the one revocation ran to its end, a restore, also one that    *)
(* had died halfway before, leaves every job the member did not edit as it *)
(* was.  A revocation that dies or is repeated forgets what it paused.     *)
PreciseRestore ==
  /\ \A i \in Invites : invite[i].disabled \subseteq past.paused
  /\ chore.pc = "enable" => chore.left \subseteq past.paused
  /\ chore.pc = "restored" /\ chore.invite = past.of /\ past.revokes = 1 /\ ~past.torn =>
       \A j \in Jobs \ past.edited : job[j] = "on" <=> j \in past.on
=============================================================================
