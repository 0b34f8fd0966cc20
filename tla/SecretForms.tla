------------------------------ MODULE SecretForms ------------------------------
(***************************************************************************)
(* The secrets form: links (server/secret_links.py, secrets/link_store.py),*)
(* the form's endpoints (server/api/secrets.py) and what the agent then    *)
(* finds (secrets/store.py).  A surface mints a stateless token that names *)
(* an ACCOUNT; the agent's secret_link tool mints a stored code that names *)
(* a PERSON.  A request awaits between redeeming, saying why it refused,   *)
(* resolving the person and writing; other requests, the clock, the        *)
(* cleanup inside issue and a change of OF_SECRETS_KEY come in between.    *)
(***************************************************************************)
EXTENDS Naturals, FiniteSets

CONSTANTS Accounts, Requests,
          Known,               \* the sets of accounts that may have a person at the start
          ttl,                 \* TOKEN_TTL_SECONDS in clock ticks
          MaxLinks,
          MaxEvents            \* bound: ticks and changes of the key

VARIABLES person,   \* account -> the person it is linked to, or None
          links,    \* every link ever issued, by number: what it names, when, how
          codes,    \* rows of secret_form_links: numbers of live or expired codes
          row,      \* person -> the stored secret, or None
          req,      \* the form requests
          clock, key

formVars == <<person, links, codes, row, req, clock, key>>

None == "none"
NoRow == [by |-> None, key |-> 0]
Bogus == 0                       \* a link nobody issued
Number == Cardinality(links)
Link(n) == CHOOSE l \in links : l.n = n
Holders == Accounts              \* a person is named for the account it was minted for

Idle == [pc |-> "idle", link |-> Bogus, user |-> None, answer |-> None]

Init ==
  /\ person \in {[a \in Accounts |-> IF a \in known THEN a ELSE None] : known \in Known}
  /\ links = {} /\ codes = {} /\ clock = 0 /\ key = 1
  /\ row = [p \in Holders |-> NoRow]
  /\ req = [r \in Requests |-> Idle]

(* SecretLinkService.issue for an account: nothing is stored.              *)
issue(a) ==
  /\ Number < MaxLinks
  /\ links' = links \union {[n |-> Number + 1, kind |-> "token", names |-> a, at |-> clock, key |-> key]}
  /\ UNCHANGED <<person, codes, row, req, clock, key>>

(* issue_code for a person, with the opportunistic cleanup.                *)
issue_code(p) ==
  LET n == Number + 1
  IN /\ Number < MaxLinks /\ \E a \in Accounts : person[a] = p
     /\ links' = links \union {[n |-> n, kind |-> "code", names |-> p, at |-> clock, key |-> key]}
     /\ codes' = {c \in codes : Link(c).at + ttl >= clock} \union {n}
     /\ UNCHANGED <<person, row, req, clock, key>>

Submit(r, n) ==
  /\ req[r].pc = "idle"
  /\ req' = [req EXCEPT ![r] = [Idle EXCEPT !.pc = "code", !.link = n]]
  /\ UNCHANGED <<person, links, codes, row, clock, key>>

To(r, pc) == req' = [req EXCEPT ![r].pc = pc]
Answer(r, what) == req' = [req EXCEPT ![r] = [Idle EXCEPT !.pc = "done", !.answer = what]]

(* redeem_any, the stored code first: expires_at <= now is dead.           *)
redeem_code(r) ==
  LET n == req[r].link
  IN /\ req[r].pc = "code"
     /\ IF n \in codes /\ Link(n).at + ttl > clock
        THEN req' = [req EXCEPT ![r].pc = "act", ![r].user = Link(n).names]
        ELSE To(r, "token")
     /\ UNCHANGED <<person, links, codes, row, clock, key>>

(* redeem: the Fernet token, its own timestamp against the ttl.            *)
IsToken(n) == n # Bogus /\ Link(n).kind = "token" /\ Link(n).key = key
redeem(r) ==
  /\ req[r].pc = "token"
  /\ IF IsToken(req[r].link) /\ clock <= Link(req[r].link).at + ttl
     THEN To(r, "resolve") ELSE To(r, "refused")
  /\ UNCHANGED <<person, links, codes, row, clock, key>>

(* expired: a stored row past due, or a token of whatever age.             *)
expired(r) ==
  LET n == req[r].link
  IN /\ req[r].pc = "refused"
     /\ IF (n \in codes /\ Link(n).at + ttl <= clock) \/ IsToken(n)
        THEN Answer(r, "expired") ELSE Answer(r, "unknown")
     /\ UNCHANGED <<person, links, codes, row, clock, key>>

(* _authorize: resolve_or_create turns the account into the person.        *)
_authorize(r) ==
  /\ req[r].pc = "resolve"
  /\ LET a == Link(req[r].link).names
         p == IF person[a] = None THEN a ELSE person[a]
     IN /\ person' = [person EXCEPT ![a] = p]
        /\ req' = [req EXCEPT ![r].pc = "act", ![r].user = p]
  /\ UNCHANGED <<links, codes, row, clock, key>>

(* set_secret: put under the person, in the key of this process.           *)
set_secret(r) ==
  /\ req[r].pc = "act"
  /\ row' = [row EXCEPT ![req[r].user] = [by |-> r, key |-> key]]
  /\ Answer(r, "stored")
  /\ UNCHANGED <<person, links, codes, clock, key>>

delete_secret(r) ==
  /\ req[r].pc = "act"
  /\ row' = [row EXCEPT ![req[r].user] = NoRow]
  /\ Answer(r, IF row[req[r].user] = NoRow THEN "missing" ELSE "deleted")
  /\ UNCHANGED <<person, links, codes, clock, key>>

session(r) ==
  /\ req[r].pc = "act"
  /\ Answer(r, "listed")
  /\ UNCHANGED <<person, links, codes, row, clock, key>>

Tick ==
  /\ clock + key <= MaxEvents /\ clock' = clock + 1
  /\ UNCHANGED <<person, links, codes, row, req, key>>

(* The service restarts under another OF_SECRETS_KEY; requests in flight   *)
(* are gone with the process.                                              *)
ChangeKey ==
  /\ clock + key <= MaxEvents /\ key' = key + 1
  /\ req' = [r \in Requests |-> IF req[r].pc \in {"idle", "done"} THEN req[r] ELSE Idle]
  /\ UNCHANGED <<person, links, codes, row, clock>>

Handle(r) ==
  \/ redeem_code(r) \/ redeem(r) \/ expired(r) \/ _authorize(r)
  \/ set_secret(r) \/ delete_secret(r) \/ session(r)

Next ==
  \/ \E a \in Accounts : issue(a)
  \/ \E p \in Holders : issue_code(p)
  \/ \E r \in Requests, n \in 0..Number : Submit(r, n)
  \/ \E r \in Requests : Handle(r)
  \/ Tick \/ ChangeKey

Spec == Init /\ [][Next]_formVars

-----------------------------------------------------------------------------
(* resolve, as the agent of account a calls it.                            *)
resolve(a) ==
  IF person[a] # None /\ row[person[a]].key = key THEN row[person[a]].by ELSE None

(* People, links, codes and requests keep their shape; a stored code names *)
(* an issued link.                                                         *)
FormsTypeOK ==
  /\ person \in [Accounts -> Holders \union {None}]
  /\ codes \subseteq {l.n : l \in {k \in links : k.kind = "code"}}
  /\ \A r \in Requests :
       /\ req[r].pc \in {"idle", "code", "token", "refused", "resolve", "act", "done"}
       /\ req[r].pc = "act" => req[r].user \in Holders

(* What each step owes StoredIsFound.                                     *)
StoredIsFoundStep ==
    \A r \in Requests :
      req[r].pc = "act" /\ req'[r].pc = "done" /\ req'[r].answer = "stored" =>
        \E a \in Accounts :
          /\ resolve(a)' = r
          /\ LET l == Link(req[r].link)
             IN IF l.kind = "token" THEN a = l.names ELSE person[a] = l.names

(* "it wrote secrets under tg:<account>, the agent looked for them under   *)
(* the person": a secret stored through any link is the one the agent of   *)
(* the account that link was made for finds, until a later request         *)
(* replaces or deletes it or the key changes.                              *)
StoredIsFound == [][StoredIsFoundStep]_formVars

(* A link that still has its time when the answer is given is never        *)
(* refused, whatever issue cleaned up meanwhile (unless the key changed).  *)
LiveLinkHonoured ==
  \A r \in Requests :
    req[r].pc = "refused" /\ req[r].link # Bogus =>
      LET l == Link(req[r].link) IN l.at + ttl <= clock \/ l.key # key

(* What each step owes RefusalIsHonest.                                   *)
RefusalIsHonestStep ==
    \A r \in Requests :
      req[r].pc = "refused" /\ req'[r].answer = "expired" =>
        req[r].link # Bogus /\ Link(req[r].link).at + ttl <= clock

(* "a message that sends them looking in the wrong place": "expired" is    *)
(* said only of a link that was issued and whose time is up.               *)
RefusalIsHonest == [][RefusalIsHonestStep]_formVars
=============================================================================
