---------------------------- MODULE UserMigrations ----------------------------
(***************************************************************************)
(* The data migrations that moved a running installation's people, in the  *)
(* order of the chain (db/migrations/versions): records get owners         *)
(* (revision 1, e5f8a2c1d394), people get ids of their own (revision 2,    *)
(* b6d4f2a91c85), the starter plans arrive (revision 3, b6c39d5e0f27).     *)
(* Between two of them the release of that revision serves: it files rows, *)
(* links and moves accounts, edits plans.  A migration is one transaction  *)
(* that nobody writes beside, up or down.                                  *)
(***************************************************************************)
EXTENDS Naturals, FiniteSets, Functions

CONSTANTS OWNER_COLUMNS,  \* the columns that name a user, "instructions" one of them
          WebIds,         \* handles of the web surface
          TelegramId,     \* TelegramId[h]: what follows the prefix in a Telegram handle
          Titles, PlanCodes,
          Persons, MaxRows, MaxMoves

VARIABLES revision,
          rows,        \* [id, column, title, at, owner] of the owning tables
          users, identities,
          plans, bindings,
          filed,       \* the handle each row had at the identity migration, by id
          moved,       \* rows of people whose account was changed since
          moves        \* what the releases did between the migrations

migrationVars == <<revision, rows, users, identities, plans, bindings, filed, moved, moves>>

NoOwner == "public"
Records == {r \in rows : r.column = "instructions"}
Handles == {<<"web", w>> : w \in WebIds} \union {<<"telegram", e>> : e \in Range(TelegramId)}
AccountOf(i) == <<i.surface, i.external_id>>
Serving == moves < MaxMoves /\ moves' = moves + 1

Init ==
  /\ revision = 0 /\ rows = {} /\ users = {} /\ identities = {}
  /\ plans = {} /\ bindings = {}
  /\ filed = <<>> /\ moved = {} /\ moves = 0

-----------------------------------------------------------------------------
(* ROW_NUMBER = 1: the newest of its title, by id among equals.            *)
KeepNewest(r) ==
  \A q \in Records \ {r} : q.title = r.title => (r.at > q.at \/ (r.at = q.at /\ r.id < q.id))

(* e5f8a2c1d394: every record there is becomes public...                   *)
OwnerUpgrade ==
  /\ revision = 0 /\ revision' = 1
  /\ rows' = (rows \ Records) \union {[r EXCEPT !.owner = NoOwner] : r \in Records}
  /\ UNCHANGED <<users, identities, plans, bindings, filed, moved, moves>>

(* ... and back: titles are unique again, so one of each is kept.          *)
OwnerDowngrade ==
  /\ revision = 1 /\ revision' = 0
  /\ rows' = (rows \ Records) \union {[r EXCEPT !.owner = NoOwner] : r \in {q \in Records : KeepNewest(q)}}
  /\ filed' = <<>> /\ moved' = {}
  /\ UNCHANGED <<users, identities, plans, bindings, moves>>

-----------------------------------------------------------------------------
_existing_handles == {r.owner : r \in rows} \ {NoOwner}

(* _split: the surface a handle came from and its name there.              *)
_split(handle) ==
  IF handle \in DOMAIN TelegramId THEN <<"telegram", TelegramId[handle]>> ELSE <<"web", handle>>

(* _renumber: every owning row points at the person.                       *)
_renumber(mapping) ==
  rows' = {[r EXCEPT !.owner = IF r.owner = NoOwner THEN @ ELSE mapping[@]] : r \in rows}

(* b6d4f2a91c85: a person with a fresh id for each handle in use.          *)
IdentityUpgrade ==
  /\ revision = 1 /\ revision' = 2
  /\ \E mapping \in Injection(_existing_handles, Persons) :
       /\ users' = Range(mapping)
       /\ identities' = {[user |-> mapping[h], surface |-> _split(h)[1], external_id |-> _split(h)[2],
                          created |-> 0] : h \in _existing_handles}
       /\ _renumber(mapping)
  /\ filed' = [n \in {r.id : r \in rows} |-> (CHOOSE r \in rows : r.id = n).owner]
  /\ moved' = {} /\ UNCHANGED <<plans, bindings, moves>>

(* The first account recorded for a person wins.                           *)
FirstIdentity(p) ==
  CHOOSE i \in identities : i.user = p /\ \A j \in identities : j.user = p => i.created <= j.created

Handle(i) ==
  IF i.surface = "telegram" THEN CHOOSE h \in DOMAIN TelegramId : TelegramId[h] = i.external_id
  ELSE i.external_id

(* The way back; the tables of plans, younger than people, are gone too.   *)
IdentityDowngrade ==
  /\ revision = 2 /\ revision' = 1
  /\ rows' = {[r EXCEPT !.owner = IF @ = NoOwner THEN @ ELSE Handle(FirstIdentity(@))] : r \in rows}
  /\ users' = {} /\ identities' = {} /\ plans' = {} /\ bindings' = {}
  /\ UNCHANGED <<filed, moved, moves>>

-----------------------------------------------------------------------------
UNLIMITED_CODE == "unlimited"
FREEMIUM_CODE == "freemium"
Starters == {UNLIMITED_CODE, FREEMIUM_CODE}

(* _seed_plans: the missing ones; freemium the default if nobody else is.  *)
_seed_plans(freemium_by_default) ==
  plans \union
    {[code |-> c, default |-> c = FREEMIUM_CODE /\ freemium_by_default /\ ~\E p \in plans : p.default]
       : c \in Starters \ {p.code : p \in plans}}

(* Whoever is here without a plan of their own.                            *)
Grandfathered == users \ {b[1] : b \in bindings}

(* b6c39d5e0f27: seed, and bind everyone here to the unlimited plan.       *)
PlansUpgrade ==
  /\ revision = 2 /\ revision' = 3
  /\ plans' = _seed_plans(users # {})
  /\ bindings' = bindings \union (Grandfathered \X {UNLIMITED_CODE})
  /\ UNCHANGED <<rows, users, identities, filed, moved, moves>>

Unbound == {b \in bindings : b[2] \notin Starters}

(* ... and back: the bindings to the two plans, then the plans.            *)
PlansDowngrade ==
  /\ revision = 3 /\ revision' = 2
  /\ bindings' = Unbound /\ plans' = {p \in plans : p.code \notin Starters}
  /\ UNCHANGED <<rows, users, identities, filed, moved, moves>>

-----------------------------------------------------------------------------
(* What the releases do in between: a row is filed under a handle, and     *)
(* from revision 2 under a person; a record has a title of its owner's.    *)
Owners(column) ==
  IF revision >= 2 THEN users ELSE IF column # "instructions" THEN WebIds \union DOMAIN TelegramId
  ELSE IF revision = 0 THEN {NoOwner} ELSE WebIds \union DOMAIN TelegramId

FileRow ==
  /\ Serving
  /\ \E n \in {Cardinality(rows) + 1} \intersect (1..MaxRows), column \in OWNER_COLUMNS, title \in Titles, at \in 1..2 :
       \E owner \in Owners(column) :
         /\ column # "instructions" => title = (CHOOSE t \in Titles : TRUE) /\ at = 1
         /\ column = "instructions" => ~\E r \in Records : r.title = title /\ r.owner = owner
         /\ \A r \in rows : r.id # n
         /\ rows' = rows \union {[id |-> n, column |-> column, title |-> title, at |-> at, owner |-> owner]}
  /\ UNCHANGED <<revision, users, identities, plans, bindings, filed, moved>>

Free(account) == \A i \in identities : AccountOf(i) # account

(* resolve_or_create of a newcomer, link of a second account, ...          *)
link(p, account) ==
  /\ revision >= 2 /\ Serving /\ Free(account)
  /\ p \notin users => p = CHOOSE q \in Persons : q \notin users
  /\ users' = users \union {p}
  /\ identities' = identities \union
       {[user |-> p, surface |-> account[1], external_id |-> account[2], created |-> moves + 1]}
  /\ UNCHANGED <<revision, rows, plans, bindings, filed, moved>>

(* ... and reseat, to an account that is nobody's.                         *)
reseat(i, external_id) ==
  /\ revision >= 2 /\ Serving /\ Free(<<i.surface, external_id>>) /\ <<i.surface, external_id>> \in Handles
  /\ identities' = (identities \ {i}) \union {[i EXCEPT !.external_id = external_id]}
  /\ moved' = moved \union {r.id : r \in {q \in rows : q.owner = i.user}}
  /\ UNCHANGED <<revision, rows, users, plans, bindings, filed>>

(* The operator puts a plan (a new default demotes the others)...          *)
put(code, default) ==
  /\ revision >= 2 /\ Serving
  /\ plans' = {[p EXCEPT !.default = @ /\ ~default] : p \in {q \in plans : q.code # code}}
                \union {[code |-> code, default |-> default]}
  /\ UNCHANGED <<revision, rows, users, identities, bindings, filed, moved>>

(* ... and assigns one.                                                    *)
assign(p, code) ==
  /\ revision >= 2 /\ Serving /\ \E plan \in plans : plan.code = code
  /\ bindings' = {b \in bindings : b[1] # p} \union {<<p, code>>}
  /\ UNCHANGED <<revision, rows, users, identities, plans, filed, moved>>

Next ==
  \/ OwnerUpgrade \/ OwnerDowngrade
  \/ IdentityUpgrade \/ IdentityDowngrade
  \/ PlansUpgrade \/ PlansDowngrade
  \/ FileRow
  \/ \E p \in Persons, a \in Handles : link(p, a)
  \/ \E i \in identities, a \in Handles : reseat(i, a[2])
  \/ \E c \in PlanCodes, d \in BOOLEAN : put(c, d)
  \/ \E p \in users, c \in PlanCodes : assign(p, c)

Spec == Init /\ [][Next]_migrationVars

-----------------------------------------------------------------------------
MigrationTypeOK ==
  /\ revision \in 0..3 /\ moves \in 0..MaxMoves
  /\ users \subseteq Persons /\ {i.user : i \in identities} \subseteq users
  /\ \A r \in rows : r.id \in 1..MaxRows /\ r.column \in OWNER_COLUMNS
       /\ r.owner \in {NoOwner} \union WebIds \union DOMAIN TelegramId \union Persons
  /\ \A p \in plans : p.default \in BOOLEAN

(* The identity migration neither merges nor splits people: two rows       *)
(* belong to one person exactly when they had been filed under one handle, *)
(* whichever tables they are in.                                           *)
SamePersonSameHandle ==
  revision >= 2 => \A r, q \in {x \in rows : x.id \in DOMAIN filed} :
    (r.owner = q.owner) <=> (filed[r.id] = filed[q.id])

(* "An account belongs to at most one person" (uq_identity_account): the   *)
(* rows the migration inserts never break the constraint, although a       *)
(* Telegram account and a web user may have the same number.               *)
AccountNamesOne ==
  \A i, j \in identities : AccountOf(i) = AccountOf(j) => i = j

(* "Lossless for anything this migration created": down again, a row is    *)
(* under the handle it had, unless its person changed accounts; accounts   *)
(* linked since do not matter.                                             *)
DowngradeRestores ==
  revision = 1 => \A r \in rows : r.id \in DOMAIN filed /\ r.id \notin moved => r.owner = filed[r.id]

(* A seed "must not take" the default flag "from a plan somebody chose on  *)
(* purpose", and the store never has two.                                  *)
OneDefault == Cardinality({p \in plans : p.default}) <= 1

(* "Bindings first": taking the starter plans out leaves nobody bound to a *)
(* plan that is gone.                                                      *)
BindingsLead == \A b \in bindings : \E p \in plans : p.code = b[2]

PlanOf(p) ==
  {b[2] : b \in {c \in bindings : c[1] = p}}

Default == {p.code : p \in {q \in plans : q.default}}

(* What each step owes NobodyCapped.                                       *)
NobodyCappedStep ==
  revision = 2 /\ revision' = 3 =>
    /\ \A p \in users : PlanOf(p)' = IF PlanOf(p) = {} THEN {UNLIMITED_CODE} ELSE PlanOf(p)
    /\ Default' = IF Default = {} /\ users # {} /\ ~\E p \in plans : p.code = FREEMIUM_CODE
                  THEN {FREEMIUM_CODE} ELSE Default

(* The plans arrive without capping anyone here: a person keeps the plan   *)
(* bound to them and everyone else gets the unlimited one, while a default *)
(* appears only where people already were, and replaces none.              *)
NobodyCapped == [][NobodyCappedStep]_migrationVars

(* What each step owes NewestKept.                                         *)
NewestKeptStep ==
  revision = 1 /\ revision' = 0 =>
    \A r \in Records : /\ \E q \in Records' : q.title = r.title /\ q.at >= r.at
                       /\ Cardinality({q \in Records' : q.title = r.title}) = 1

(* Taking ownership out again keeps one record of each title, the one that *)
(* was edited last.                                                        *)
NewestKept == [][NewestKeptStep]_migrationVars
===============================================================================
