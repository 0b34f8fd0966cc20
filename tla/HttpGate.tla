------------------------------ MODULE HttpGate ------------------------------
(***************************************************************************)
(* The guard in front of the HTTP service: the cross-site check, the open  *)
(* paths, the failure budget of a client, the caches of verified           *)
(* credentials and the password check that runs off the event loop, so     *)
(* that other requests are answered between its start and its end.         *)
(***************************************************************************)
EXTENDS Naturals, Sequences, SequencesExt, FiniteSets

CONSTANTS
    Requests,                 \* requests in flight
    Clients,                  \* client addresses
    Paths,                    \* among "open", "dialog", "operator" and "console"
    Headers,                  \* Authorization headers
    Knows,                    \* header -> "operator", "service", "wrong" or "garbled"
    MAX_FAILED_ATTEMPTS,
    ATTEMPT_COOLDOWN_SECONDS,
    MAX_TRACKED_CLIENTS,
    CREDENTIAL_CACHE_SECONDS,
    MAX_CACHED_CREDENTIALS,
    MaxTime

VARIABLES
    req,            \* the requests: where they are, path, header, client, stage
    _failures,      \* AttemptLimiter: [client, count, last], oldest first
    cache,          \* operator credentials verified: [header, expires]
    service_cache,  \* the same for the service credential
    now,
    verified,       \* header -> when the password was last checked and right, 0: never
    burnt           \* client -> wrong answers since it last got a fresh budget

gateVars == <<req, _failures, cache, service_cache, now, verified, burnt>>

(* What the guard tells apart in a path: an open one, one the service       *)
(* credential may open, an operator's, and the console, whose router asks   *)
(* the gate again.  What it tells apart in a request: the method, the       *)
(* browser's Sec-Fetch-Site and Origin, if it sent any.                     *)
Sent == [mutating : BOOLEAN, fetch_site : {"", "same-origin", "none", "cross-site"},
         origin : {"", "own", "other"}]
None == "none"
Idle == [pc |-> "idle", path |-> None, header |-> None, client |-> None, stage |-> 0]

GateInit ==
    /\ req = [r \in Requests |-> Idle]
    /\ _failures = <<>>
    /\ cache = <<>> /\ service_cache = <<>>
    /\ now = 1
    /\ verified = [h \in Headers |-> 0]
    /\ burnt = [c \in Clients |-> 0]

-----------------------------------------------------------------------------
(* AttemptLimiter *)

Entry(c) == {i \in DOMAIN _failures : _failures[i].client = c}
CountOf(c) == IF Entry(c) = {} THEN 0 ELSE _failures[CHOOSE i \in Entry(c) : TRUE].count
LastOf(c) == IF Entry(c) = {} THEN now ELSE _failures[CHOOSE i \in Entry(c) : TRUE].last
Without(c) == SelectSeq(_failures, LAMBDA e : e.client # c)
CooledDown(c) == now - LastOf(c) >= ATTEMPT_COOLDOWN_SECONDS

blocked(c) == ~CooledDown(c) /\ CountOf(c) >= MAX_FAILED_ATTEMPTS

(* blocked forgets a client whose cooldown is over. *)
Looked(c) == IF CooledDown(c) THEN Without(c) ELSE _failures

Newest(entries, most) ==
    IF Len(entries) > most THEN SubSeq(entries, Len(entries) - most + 1, Len(entries)) ELSE entries

(* One more failure, moved to the end; the oldest clients beyond the bound  *)
(* are forgotten.                                                           *)
record_failure(c) ==
    Newest(Append(Without(c), [client |-> c,
                               count |-> 1 + (IF CooledDown(c) THEN 0 ELSE CountOf(c)),
                               last |-> now]), MAX_TRACKED_CLIENTS)

record_success(c) == Without(c)

(* CredentialCache *)

valid(entries, h) == \E i \in DOMAIN entries : entries[i].header = h /\ entries[i].expires > now

(* valid drops an entry it finds expired. *)
Fresh(entries, h) == SelectSeq(entries, LAMBDA e : ~(e.header = h /\ e.expires <= now))

remember(entries, h) ==
    LET entry == [header |-> h, expires |-> now + CREDENTIAL_CACHE_SECONDS]
        at == {i \in DOMAIN entries : entries[i].header = h}
    IN IF at = {} THEN Newest(Append(entries, entry), MAX_CACHED_CREDENTIALS)
       ELSE [i \in DOMAIN entries |-> IF i \in at THEN entry ELSE entries[i]]

-----------------------------------------------------------------------------
(* AuthGate.authenticate *)

allows_service_credential(path) == path = "dialog"

CachedFor(path, h) ==
    valid(cache, h) \/ (allows_service_credential(path) /\ valid(service_cache, h))

(* The console asks twice; whoever is refused has its answer. *)
Admitted(q) == IF q.path = "console" /\ q.stage = 1 THEN [q EXCEPT !.pc = "again"]
               ELSE [Idle EXCEPT !.pc = "in", !.path = q.path,
                                 !.header = IF q.path = "open" THEN None ELSE q.header]
Refused(q) == Idle

(* The failures of this stretch, for the budget's sake: a fresh one for c,  *)
(* one more wrong answer of c, a fresh one for whoever c's record pushed    *)
(* out.                                                                     *)
Burnt(c, fresh, wrong) ==
    [d \in Clients |->
        IF d = c THEN (IF fresh THEN 0 ELSE burnt[c]) + (IF wrong THEN 1 ELSE 0)
        ELSE IF wrong /\ Entry(d) # {} /\ \A i \in DOMAIN record_failure(c) :
                                               record_failure(c)[i].client # d
             THEN 0
        ELSE burnt[d]]

(* Up to the password check: the caches, the budget, the decoding. *)
Ask(r, q) ==
    LET hit == CachedFor(q.path, q.header)
        c == q.client
        refused == ~hit /\ blocked(c)
        garbled == ~hit /\ ~refused /\ Knows[q.header] = "garbled"
    IN /\ req' = [req EXCEPT ![r] = IF hit THEN Admitted(q)
                                    ELSE IF refused \/ garbled THEN Refused(q)
                                    ELSE [q EXCEPT !.pc = "hash"]]
       /\ cache' = Fresh(cache, q.header)
       /\ service_cache' = IF ~valid(cache, q.header) /\ allows_service_credential(q.path)
                           THEN Fresh(service_cache, q.header) ELSE service_cache
       /\ _failures' = IF hit THEN _failures
                       ELSE IF garbled THEN record_failure(c) ELSE Looked(c)
       /\ burnt' = Burnt(c, ~hit /\ CooledDown(c), garbled)

is_open_path(path) == path = "open"

(* The browser's own account of where the request comes from; without any   *)
(* it is not a browser's.                                                   *)
is_cross_site_mutation(m) ==
    /\ m.mutating
    /\ IF m.fetch_site # "" THEN m.fetch_site \notin {"same-origin", "none"}
       ELSE m.origin = "other"

(* The middleware: an open path is let through, anything else is            *)
(* authenticated; no header at all is refused before the budget is looked   *)
(* at.                                                                      *)
authenticate(r, path, h, c) ==
    /\ req[r] = Idle
    /\ LET q == [pc |-> "new", path |-> path, header |-> h, client |-> c, stage |-> 1]
       IN IF is_open_path(path) \/ h = None
          THEN /\ req' = [req EXCEPT ![r] = IF is_open_path(path) THEN Admitted(q) ELSE Refused(q)]
               /\ UNCHANGED <<_failures, cache, service_cache, burnt>>
          ELSE Ask(r, q)
    /\ UNCHANGED <<now, verified>>

(* A state-changing request from another site is refused before that,       *)
(* whatever its path and header.                                            *)
RefuseForeign(r, m) ==
    /\ req[r] = Idle /\ is_cross_site_mutation(m)
    /\ UNCHANGED gateVars

(* The console's own dependency: the same gate, without the service         *)
(* credential.                                                              *)
require_admin(r) ==
    /\ req[r].pc = "again"
    /\ Ask(r, [req[r] EXCEPT !.stage = 2])
    /\ UNCHANGED <<now, verified>>

(* The service credential is compared only where it is allowed; elsewhere   *)
(* its user name is not the operator's.                                     *)
AsService(q) == allows_service_credential(q.path) /\ Knows[q.header] = "service"
verify_password(q) == AsService(q) \/ Knows[q.header] = "operator"

(* The worker thread answers. *)
Verified(r) ==
    /\ req[r].pc = "hash"
    /\ LET q == req[r]
           c == q.client
           ok == verify_password(q)
       IN /\ req' = [req EXCEPT ![r] = IF ok THEN Admitted(q) ELSE Refused(q)]
          /\ _failures' = IF ok THEN record_success(c) ELSE record_failure(c)
          /\ cache' = IF ok /\ ~AsService(q) THEN remember(cache, q.header) ELSE cache
          /\ service_cache' = IF ok /\ AsService(q) THEN remember(service_cache, q.header)
                              ELSE service_cache
          /\ verified' = IF ok THEN [verified EXCEPT ![q.header] = now] ELSE verified
          /\ burnt' = Burnt(c, ok \/ CooledDown(c), ~ok)
    /\ UNCHANGED now

Answered(r) ==
    /\ req[r].pc = "in"
    /\ req' = [req EXCEPT ![r] = Idle]
    /\ UNCHANGED <<_failures, cache, service_cache, now, verified, burnt>>

Tick ==
    /\ now < MaxTime
    /\ now' = now + 1
    /\ UNCHANGED <<req, _failures, cache, service_cache, verified, burnt>>

GateNext ==
    \/ \E r \in Requests :
          \/ \E path \in Paths, h \in Headers \cup {None}, c \in Clients : authenticate(r, path, h, c)
          \/ \E m \in Sent : RefuseForeign(r, m)
          \/ require_admin(r) \/ Verified(r) \/ Answered(r)
    \/ Tick

GateSpec == GateInit /\ [][GateNext]_gateVars

-----------------------------------------------------------------------------
GateTypeOK ==
    /\ \A r \in Requests : req[r].pc \in {"idle", "hash", "again", "in"}
    /\ Len(_failures) <= MAX_TRACKED_CLIENTS
    /\ Len(cache) <= MAX_CACHED_CREDENTIALS /\ Len(service_cache) <= MAX_CACHED_CREDENTIALS
    /\ \A i, j \in DOMAIN _failures : _failures[i].client = _failures[j].client => i = j

(* A request is let in on a password that was checked for it, or no longer  *)
(* ago than the cache remembers; the operator's paths only on the           *)
(* operator's.                                                              *)
LetInIsProven ==
    \A r \in Requests :
        req[r].pc = "in" /\ req[r].path # "open" =>
            /\ Knows[req[r].header] \in (IF req[r].path = "dialog" THEN {"operator", "service"}
                                         ELSE {"operator"})
            /\ verified[req[r].header] > 0

(* Between two fresh budgets (a right password, a cooldown without          *)
(* failures, a record pushed out by other clients') a client never has more *)
(* wrong passwords checked than its budget and the checks that were already *)
(* running when it ran out.                                                 *)
BudgetHolds ==
    \A c \in Clients : burnt[c] < MAX_FAILED_ATTEMPTS + Cardinality(Requests)

(* What each step owes CacheRunsOut.                                      *)
CacheRunsOutStep ==
    \A r \in Requests :
       req[r].pc \in {"idle", "again"} /\ req'[r] # req[r] /\ req'[r].pc \in {"in", "again"} /\ req'[r].path # "open"
           => now - verified[req'[r].header] < CREDENTIAL_CACHE_SECONDS

(* An answer from a cache is never older than its lifetime: a cached        *)
(* credential is checked again in time, used or not.                        *)
CacheRunsOut == [][CacheRunsOutStep]_gateVars
=============================================================================
