------------------------------- MODULE Tariffs -------------------------------
(***************************************************************************)
(* Plans, bindings and the usage ledger (tariffs/): the operator edits the *)
(* catalog, the nodes meter what one user spends, and one node's           *)
(* LimitService checks the day's budgets before a run.  It caches the      *)
(* totals of the day for a few seconds.  The ledger only grows, so what a  *)
(* reader saw of it is the length of a prefix.                             *)
(***************************************************************************)
EXTENDS Naturals, Sequences, FiniteSets, FiniteSetsExt

CONSTANTS Codes, Starter,          \* plan codes; the limits of the starter plans among them
          Limits,                  \* [messages, answers, tokens] caps, NoCap = unlimited
          totals_ttl, DayLength,   \* in ticks
          MaxTime, MaxEvents, MaxEdits

VARIABLES tariffs, binding, now, ledger, cache, check, pops,
          verdict,    \* of the step just taken
          edits       \* changes of the catalog

tariffVars == <<tariffs, binding, now, ledger, cache, check, pops, verdict, edits>>

here == "here"
NoCap == 99
NoLimits == [messages |-> NoCap, answers |-> NoCap, tokens |-> NoCap]
Absent == [live |-> FALSE, default |-> FALSE, limits |-> NoLimits]
NoTotals == [until |-> 0, day |-> 0, seen |-> 0, raced |-> FALSE, slow |-> FALSE]
NoCheck == [pc |-> "idle", limits |-> NoLimits, day |-> 0, at |-> 0, seen |-> 0, raced |-> FALSE]
NoVerdict == [allowed |-> TRUE, limits |-> NoLimits, day |-> 0, at |-> 0, seen |-> 0, slow |-> FALSE]

Seeded(c) == [live |-> TRUE, default |-> FALSE, limits |-> Starter[c]]

(* The catalogue of an installation: empty, before the first seed, or its  *)
(* starter plans, of which the operator made none or one the default.      *)
Init ==
  /\ \/ tariffs = [c \in Codes |-> Absent]
     \/ \E d \in DOMAIN Starter \union {"none"} :
          tariffs = [c \in Codes |-> IF c \in DOMAIN Starter THEN [Seeded(c) EXCEPT !.default = c = d] ELSE Absent]
  /\ binding = "none" /\ now = 0 /\ ledger = <<>>
  /\ cache = NoTotals /\ check = NoCheck
  /\ pops = FALSE /\ verdict = NoVerdict /\ edits = 0

Day(t) == t \div DayLength
Catalog == UNCHANGED <<tariffs, binding, edits>>
Quiet == verdict' = NoVerdict

-----------------------------------------------------------------------------
(* put: create or replace; a new default demotes every other plan.         *)
put(c, limits, default) ==
  tariffs' = [d \in Codes |->
                IF d = c THEN [live |-> TRUE, default |-> default, limits |-> limits]
                ELSE IF default THEN [tariffs[d] EXCEPT !.default = FALSE] ELSE tariffs[d]]

(* delete: refused while the plan is assigned.                             *)
delete(c) == tariffs[c].live /\ binding # c /\ tariffs' = [tariffs EXCEPT ![c] = Absent]

(* assign: bind the user to an existing plan, or unbind.                   *)
assign(c) == c \in {"none"} \union {d \in Codes : tariffs[d].live} /\ binding' = c

(* seed_starter_tariffs: the missing starter plans, neither default.       *)
seed_starter_tariffs ==
  /\ \E c \in DOMAIN Starter : ~tariffs[c].live
  /\ tariffs' = [c \in Codes |-> IF c \in DOMAIN Starter /\ ~tariffs[c].live THEN Seeded(c) ELSE tariffs[c]]

Operator ==
  /\ \/ \E c \in Codes, l \in Limits, d \in BOOLEAN : put(c, l, d) /\ UNCHANGED binding
     \/ \E c \in Codes : delete(c) /\ UNCHANGED binding
     \/ \E c \in Codes \union {"none"} : assign(c) /\ UNCHANGED tariffs
     \/ seed_starter_tariffs /\ UNCHANGED binding
  /\ edits < MaxEdits /\ edits' = edits + 1
  /\ Quiet /\ UNCHANGED <<now, ledger, cache, check, pops>>

(* tariff_for_user: the binding, else the default plan, else no limits.    *)
tariff_for_user ==
  LET defaults == {c \in Codes : tariffs[c].default}
  IN IF binding # "none" THEN {tariffs[binding].limits}
     ELSE IF defaults # {} THEN {tariffs[c].limits : c \in defaults} ELSE {NoLimits}

-----------------------------------------------------------------------------
(* record: the event is written (a write that fails is logged and leaves   *)
(* the ledger and the cache as they are: no step)...                       *)
record(node, kind) ==
  /\ Len(ledger) < MaxEvents /\ ~pops
  /\ ledger' = Append(ledger, [node |-> node, kind |-> kind, at |-> now])
  /\ pops' = (node = here)
  /\ Catalog /\ Quiet /\ UNCHANGED <<now, cache, check>>

(* Mutant: the writer's node keeps its cached totals. *)
KeepTotals ==
  /\ pops /\ pops' = FALSE
  /\ Catalog /\ Quiet /\ UNCHANGED <<now, ledger, cache, check>>

(* ... and the node's cached totals are dropped when the writer resumes.   *)
PopTotals ==
  /\ pops /\ pops' = FALSE
  /\ cache' = NoTotals
  /\ Catalog /\ Quiet /\ UNCHANGED <<now, ledger, check>>

(* totals_since: the events of the prefix at or after the day's start.     *)
totals_since(seen, day) ==
  LET of(kinds) == Cardinality({i \in 1..seen : ledger[i].kind \in kinds /\ Day(ledger[i].at) >= day})
  IN [messages |-> of({"message"}), answers |-> of({"answer"}), tokens |-> of({"answer", "routing"})]

(* check_run_budget: the message being answered is already counted.        *)
WithinBudget(limits, totals) ==
  /\ limits.messages # NoCap => totals.messages <= limits.messages
  /\ limits.answers # NoCap => totals.answers < limits.answers
  /\ limits.tokens # NoCap => totals.tokens < limits.tokens

Verdict(limits, totals) ==
  /\ verdict' = [allowed |-> WithinBudget(limits, totals_since(totals.seen, totals.day)), limits |-> limits,
                 at |-> now, day |-> totals.day, seen |-> totals.seen, slow |-> totals.slow]
  /\ check' = NoCheck

(* resolve, awaited; an unlimited user is allowed at once.                 *)
resolve ==
  /\ check.pc = "idle"
  /\ \E limits \in tariff_for_user :
       /\ limits # NoLimits
       /\ check' = [NoCheck EXCEPT !.pc = "totals", !.limits = limits]
  /\ Catalog /\ Quiet /\ UNCHANGED <<now, ledger, cache, pops>>

(* _totals_today: fresh enough and of this day.                            *)
CachedToday == cache.until > now /\ cache.day = Day(now)

FromCache ==
  /\ check.pc = "totals" /\ CachedToday
  /\ Verdict(check.limits, cache)
  /\ Catalog /\ UNCHANGED <<now, ledger, cache, pops>>

(* ... else the sum over the day is read, ...                              *)
ReadTotals ==
  /\ check.pc = "totals" /\ ~CachedToday
  /\ check' = [check EXCEPT !.pc = "store", !.day = Day(now), !.at = now, !.seen = Len(ledger)]
  /\ Catalog /\ Quiet /\ UNCHANGED <<now, ledger, cache, pops>>

(* ... stored, and judged.                                                 *)
StoreTotals ==
  LET c == check
      entry == [until |-> now + totals_ttl, day |-> c.day, seen |-> c.seen, slow |-> c.at # now,
                raced |-> \E i \in (c.seen + 1)..Len(ledger) : ledger[i].node = here]
  IN /\ c.pc = "store"
     /\ cache' = entry
     /\ Verdict(c.limits, entry)
     /\ Catalog /\ UNCHANGED <<now, ledger, pops>>

Tick == now < MaxTime /\ now' = now + 1
        /\ Catalog /\ Quiet /\ UNCHANGED <<ledger, cache, check, pops>>

Next ==
  \/ Operator \/ Tick
  \/ \E node \in {here, "elsewhere"}, kind \in {"message", "answer", "routing"} : record(node, kind)
  \/ PopTotals \/ resolve \/ FromCache \/ ReadTotals \/ StoreTotals

Spec == Init /\ [][Next]_tariffVars

-----------------------------------------------------------------------------
(* Rows, cached prefixes and the check are well formed.                     *)
TariffsTypeOK ==
  /\ binding \in Codes \union {"none"} /\ now \in 0..MaxTime
  /\ cache.seen <= Len(ledger) /\ check.seen <= Len(ledger)
  /\ \A c \in Codes : tariffs[c].limits \in Limits \union {NoLimits}

(* "at most one row ever carries the flag", and a plan that binds a user   *)
(* is never deleted under them: every user resolves to one plan.           *)
OnePlan == Cardinality({c \in Codes : tariffs[c].default}) <= 1 /\ (binding # "none" => tariffs[binding].live)

(* A refused run has a budget that the day's ledger really exhausts: "the  *)
(* N-th message under a limit of N still gets its run", and no spend of    *)
(* another day, cached or summed, counts against today.                    *)
RefusalIsEarned ==
  LET spent(kinds) == Cardinality({i \in DOMAIN ledger : ledger[i].kind \in kinds /\ Day(ledger[i].at) = verdict.day})
  IN ~verdict.allowed =>
       \/ spent({"message"}) > verdict.limits.messages
       \/ spent({"answer"}) >= verdict.limits.answers
       \/ spent({"answer", "routing"}) >= verdict.limits.tokens

(* "invalidated by the node's own metering": live cached totals miss no    *)
(* spend of their own node that was metered before they were stored, but   *)
(* for an event written while they were being read.                        *)
OwnSpendCounted ==
  CachedToday /\ ~cache.raced /\ ~pops =>
                     \A i \in (cache.seen + 1)..Len(ledger) : ledger[i].node # here

(* "cross-node spend converges within the TTL": the totals behind a        *)
(* verdict miss nothing recorded a TTL before it, by any node, where the   *)
(* reading itself took no time.                                            *)
SpendConverges ==
  ~verdict.slow => \A i \in DOMAIN ledger : ledger[i].at + totals_ttl <= verdict.at => i <= verdict.seen
=============================================================================
