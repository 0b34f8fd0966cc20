---------------------------- MODULE AccessProofs ----------------------------
(***************************************************************************)
(* Who gets in and what goes out, proved for every value of the constants. *)
(*                                                                         *)
(* Admission: the cap is kept, one account is one person, and only the     *)
(* operator lifts a ban. EndpointCalls: where requests and secret values   *)
(* go, for any documents, hosts, parameters, number of pages and edits.    *)
(* DialogClaims: who may answer in a dialog, for any number of instances.  *)
(***************************************************************************)
EXTENDS Admission, EndpointCalls, DialogClaims, FiniteSetTheorems, TLAPS

-----------------------------------------------------------------------------
(* Admission *)

Statuses == {Nobody, "waiting", "active", "banned"}
Request == [pc : {"idle", "resolve", "create", "link", "admit", "cap", "activate", "answered"},
            account : Accounts \union {Nobody}, person : Persons \union {0}, cap : Nat]
Past == [knocks : Nat, orders : Nat, highest : Nat, forced : BOOLEAN]
Resolved == {"admit", "cap", "activate", "answered"}

(* Where each request stands: it has an account, the person it minted, the *)
(* person its account is linked to, and no cap above the highest.          *)
RequestOK(q, ids, highest) ==
  /\ q.pc # "idle" => q.account \in Accounts
  /\ q.pc = "link" => q.person # 0
  /\ q.pc \in Resolved => q.person # 0 /\ q.person = ids[q.account]
  /\ q.cap <= highest

(* People are minted in order, so the next id is nobody's.                 *)
Minted == \E k \in Nat : Known = 1..k

AdmissionShapes ==
  /\ users \in [Persons -> Statuses]
  /\ identity \in [Accounts -> Persons \union {0}]
  /\ request \in [Requests -> Request]
  /\ cap \in Caps /\ past \in Past

Admitted ==
  /\ AdmissionShapes
  /\ \A r \in Requests : RequestOK(request[r], identity, past.highest)
  /\ cap <= past.highest
  /\ Minted
  /\ CapKept

-----------------------------------------------------------------------------
LEMMA PersonsNumbered == \E n \in Nat : Persons = 1..n
BY AdmissionAssumption, FS_CardinalityType

LEMMA NobodyMore ==
    ASSUME Active' \subseteq Active
    PROVE  Cardinality(Active') <= Cardinality(Active)
<1>1. IsFiniteSet(Persons)
    BY FS_Interval, AdmissionAssumption, PersonsNumbered
<1>2. Active \subseteq Persons
    BY DEF Active
<1>3. IsFiniteSet(Active)
    BY <1>1, <1>2, FS_Subset
<1> QED BY <1>3, FS_Subset

LEMMA ActiveCounted ==
    IsFiniteSet(Active) /\ Cardinality(Active) \in Nat
<1>1. IsFiniteSet(Persons)
    BY FS_Interval, AdmissionAssumption, PersonsNumbered
<1>2. Active \subseteq Persons
    BY DEF Active
<1>3. IsFiniteSet(Active)
    BY <1>1, <1>2, FS_Subset
<1> QED BY <1>3, FS_CardinalityType

(* The id create_user takes is nobody's, and minting keeps them in order. *)
LEMMA NextIsNew ==
    ASSUME Minted
    PROVE  \E k \in Nat : Known = 1..k /\ Cardinality(Known) = k
<1>1. PICK k \in Nat : Known = 1..k
    BY DEF Minted
<1>2. Cardinality(1..k) = k
    BY FS_Interval
<1> QED BY <1>1, <1>2

(* A step after which the same people are active or fewer, and no fewer were *)
(* activated by hand or allowed, keeps the cap.                              *)
LEMMA StillWithin ==
    ASSUME CapKept, Active' \subseteq Active,
           past \in Past, past' \in Past,
           past.forced => past'.forced, past'.highest >= past.highest
    PROVE  CapKept'
<1>1. Cardinality(Active') <= Cardinality(Active)
    BY NobodyMore
<1>2. Cardinality(Active) \in Nat /\ IsFiniteSet(Active)
    BY ActiveCounted
<1>3. Cardinality(Active') \in Nat
    BY <1>2, FS_Subset, FS_CardinalityType
<1>4. past.highest \in Nat /\ past'.highest \in Nat
    BY DEF Past
<1> QED BY <1>1, <1>2, <1>3, <1>4 DEF CapKept

-----------------------------------------------------------------------------
LEMMA AdmittedInit ==
    AdmissionInit => Admitted
<1> SUFFICES ASSUME AdmissionInit PROVE Admitted
    OBVIOUS
<1>1. Caps \subseteq Nat
    BY AdmissionAssumption, PersonsNumbered
<1>2. NoRequest \in Request
    BY DEF NoRequest, Request, Nobody
<1>3. AdmissionShapes
    BY <1>1, <1>2 DEF AdmissionInit, AdmissionShapes, Statuses, Past
<1>4. \A r \in Requests : RequestOK(request[r], identity, past.highest)
    BY <1>1 DEF AdmissionInit, NoRequest, RequestOK, Resolved
<1>5. cap <= past.highest
    BY <1>1 DEF AdmissionInit
<1>6. Known = {} /\ Active = {}
    BY DEF AdmissionInit, Known, Active, Nobody
<1>7. Minted
    <2>1. Known = 1..0
        BY <1>6
    <2> QED BY <2>1 DEF Minted
<1>8. CapKept
    BY <1>1, <1>6, FS_EmptySet DEF CapKept, AdmissionInit
<1> QED BY <1>3, <1>4, <1>5, <1>7, <1>8 DEF Admitted

(* A step of one request that touches nobody's status keeps everything. *)
LEMMA RequestMoves ==
    ASSUME Admitted, NEW r \in Requests, NEW q \in Request,
           request' = [request EXCEPT ![r] = q], RequestOK(q, identity', past'.highest),
           UNCHANGED <<users, identity, cap>>,
           past' \in Past, past'.forced = past.forced, past'.highest = past.highest
    PROVE  Admitted'
<1>1. AdmissionShapes'
    BY DEF Admitted, AdmissionShapes
<1>2. \A s \in Requests : RequestOK(request'[s], identity', past'.highest)
    BY DEF Admitted, AdmissionShapes, RequestOK
<1>3. cap' <= past'.highest
    BY DEF Admitted
<1>4. Known' = Known /\ Active' = Active
    BY DEF Known, Active
<1>5. Minted'
    BY <1>4 DEF Admitted, Minted
<1>6. CapKept'
    BY <1>4 DEF Admitted, CapKept
<1> QED BY <1>1, <1>2, <1>3, <1>5, <1>6 DEF Admitted

LEMMA AdmittedNext ==
    Admitted /\ [AdmissionNext]_admissionVars => Admitted'
<1> SUFFICES ASSUME Admitted, [AdmissionNext]_admissionVars PROVE Admitted'
    OBVIOUS
<1>t. /\ users \in [Persons -> Statuses]
      /\ identity \in [Accounts -> Persons \union {0}]
      /\ request \in [Requests -> Request]
      /\ cap \in Caps /\ past \in Past
    BY DEF Admitted, AdmissionShapes
<1>q. \A r \in Requests : RequestOK(request[r], identity, past.highest)
    BY DEF Admitted
<1>c. cap \in Nat /\ past.highest \in Nat /\ cap <= past.highest
    BY <1>t, AdmissionAssumption, PersonsNumbered DEF Admitted, Past
<1>p. 0 \notin Persons
    BY AdmissionAssumption, PersonsNumbered
<1>0. CASE UNCHANGED admissionVars
    <2>1. Known' = Known /\ Active' = Active
        BY <1>0 DEF admissionVars, Known, Active
    <2> QED BY <1>0, <2>1 DEF admissionVars, Admitted, AdmissionShapes, RequestOK, Minted, CapKept
<1>1. ASSUME NEW r \in Requests, NEW a \in Accounts, get_user_id(r, a) PROVE Admitted'
    <2> DEFINE q == [NoRequest EXCEPT !.pc = "resolve", !.account = a]
    <2>1. q \in Request /\ q.pc = "resolve" /\ q.account = a /\ q.cap = 0
        BY ZenonT(60) DEF NoRequest, Request
    <2>2. /\ request' = [request EXCEPT ![r] = q] /\ UNCHANGED <<users, identity, cap>>
          /\ past' = [past EXCEPT !.knocks = @ + 1]
        BY <1>1 DEF get_user_id
    <2>3. past' \in Past /\ past'.forced = past.forced /\ past'.highest = past.highest
        BY <1>t, <2>2 DEF Past
    <2> HIDE DEF q
    <2>4. RequestOK(q, identity', past'.highest)
        BY <1>c, <2>1, <2>3 DEF RequestOK, Resolved
    <2> QED BY <2>1, <2>2, <2>3, <2>4, RequestMoves, ZenonT(60)
<1>2. ASSUME NEW r \in Requests, resolve(r) PROVE Admitted'
    <2> DEFINE found == identity[request[r].account]
               q == [request[r] EXCEPT !.person = found,
                                       !.pc = IF found = 0 THEN "create" ELSE "admit"]
    <2>1. request[r] \in Request /\ request[r].account \in Accounts
        BY <1>2, <1>t, <1>q DEF resolve, RequestOK
    <2>2. /\ q \in Request /\ q.account = request[r].account /\ q.cap = request[r].cap
          /\ q.person = found /\ q.pc = IF found = 0 THEN "create" ELSE "admit"
        BY <1>t, <2>1, ZenonT(60) DEF Request
    <2>3. request' = [request EXCEPT ![r] = q] /\ UNCHANGED <<users, identity, cap, past>>
        BY <1>2, <1>t, ZenonT(60) DEF resolve
    <2> HIDE DEF q
    <2>4. RequestOK(q, identity', past'.highest)
        BY <1>q, <2>1, <2>2, <2>3 DEF RequestOK, Resolved
    <2> QED BY <1>t, <2>2, <2>3, <2>4, RequestMoves, ZenonT(60)
<1>3. ASSUME NEW r \in Requests, create_user(r) PROVE Admitted'
    <2>1. PICK k \in Nat : Known = 1..k /\ Cardinality(Known) = k
        BY NextIsNew DEF Admitted
    <2> DEFINE p == k + 1
               q == [request[r] EXCEPT !.person = p, !.pc = "link"]
    <2>2. /\ p \in Persons /\ p \notin Known /\ users' = [users EXCEPT ![p] = "waiting"]
          /\ request' = [request EXCEPT ![r] = q] /\ UNCHANGED <<identity, cap, past>>
        <3>1. p \notin Known /\ p = Cardinality(Known) + 1
            BY <2>1
        <3>2. /\ p \in Persons /\ users' = [users EXCEPT ![p] = "waiting"]
              /\ request' = [request EXCEPT ![r].person = p, ![r].pc = "link"]
              /\ UNCHANGED <<identity, cap, past>>
            BY <1>3, <3>1, ZenonT(60) DEF create_user
        <3> HIDE DEF p
        <3>3. request' = [request EXCEPT ![r] = q]
            BY <1>t, <3>2, ZenonT(60)
        <3> QED BY <3>1, <3>2, <3>3, ZenonT(60)
    <2>3. /\ request[r] \in Request /\ request[r].account \in Accounts
        BY <1>3, <1>t, <1>q DEF create_user, RequestOK
    <2>4. /\ q \in Request /\ q.account = request[r].account /\ q.cap = request[r].cap
          /\ q.person = p /\ q.pc = "link"
        BY <2>2, <2>3, ZenonT(60) DEF Request
    <2>5. Known' = Known \union {p} /\ Active' \subseteq Active
        BY <1>t, <2>2 DEF Known, Active, Nobody
    <2>6. Minted'
        <3>1. Known' = 1..p
            BY <2>1, <2>5
        <3> QED BY <3>1, <2>1 DEF Minted
    <2> HIDE DEF q, p
    <2>7. CapKept'
        BY <1>t, <1>c, <2>2, <2>5, StillWithin DEF Admitted
    <2>8. AdmissionShapes'
        BY <1>t, <2>2, <2>4 DEF AdmissionShapes, Statuses
    <2>9. RequestOK(q, identity', past'.highest)
        BY <1>p, <1>q, <2>2, <2>3, <2>4 DEF RequestOK, Resolved
    <2>10. \A s \in Requests : RequestOK(request'[s], identity', past'.highest)
        BY <1>t, <1>q, <2>2, <2>9 DEF RequestOK
    <2> QED BY <1>c, <2>2, <2>6, <2>7, <2>8, <2>10 DEF Admitted
<1>4. ASSUME NEW r \in Requests, resolve_or_create(r) PROVE Admitted'
    <2> DEFINE a == request[r].account
               q == [request[r] EXCEPT !.person = IF identity[a] = 0 THEN @ ELSE identity[a],
                                       !.pc = "admit"]
    <2>1. /\ request[r] \in Request /\ a \in Accounts
          /\ request[r].person \in Persons /\ request[r].person # 0
        BY <1>4, <1>t, <1>q DEF resolve_or_create, RequestOK, Request
    <2>2. /\ identity' = IF identity[a] = 0 THEN [identity EXCEPT ![a] = request[r].person]
                         ELSE identity
          /\ request' = [request EXCEPT ![r] = q] /\ UNCHANGED <<users, cap, past>>
        BY <1>4, <1>t, ZenonT(60) DEF resolve_or_create, link
    <2>3. identity' \in [Accounts -> Persons \union {0}] /\ identity'[a] # 0
        BY <1>t, <2>1, <2>2
    <2>4. \A b \in Accounts : identity[b] # 0 => identity'[b] = identity[b]
        BY <1>t, <2>1, <2>2
    <2>5. /\ q \in Request /\ q.account = a /\ q.cap = request[r].cap
          /\ q.person = identity'[a] /\ q.pc = "admit"
        BY <1>t, <2>1, <2>2, ZenonT(60) DEF Request
    <2> HIDE DEF q
    <2>6. RequestOK(q, identity', past'.highest)
        BY <1>q, <2>1, <2>2, <2>3, <2>5 DEF RequestOK, Resolved
    <2>7. \A s \in Requests : s # r => RequestOK(request'[s], identity', past'.highest)
        BY <1>t, <1>q, <2>2, <2>4 DEF RequestOK, Resolved
    <2>8. Known' = Known /\ Active' = Active
        BY <2>2 DEF Known, Active
    <2>9. AdmissionShapes'
        BY <1>t, <2>2, <2>3, <2>5 DEF AdmissionShapes
    <2>10. Minted' /\ CapKept'
        BY <2>2, <2>8 DEF Admitted, Minted, CapKept
    <2>11. \A s \in Requests : RequestOK(request'[s], identity', past'.highest)
        BY <1>t, <2>2, <2>6, <2>7, ZenonT(60)
    <2> QED BY <1>c, <2>2, <2>9, <2>10, <2>11, ZenonT(60) DEF Admitted
<1>5. ASSUME NEW r \in Requests, NEW pc \in {"cap", "answered"},
             request[r].pc \in Resolved, Goto(r, pc),
             UNCHANGED <<users, identity, cap, past>>
      PROVE  Admitted'
    <2> DEFINE q == [request[r] EXCEPT !.pc = pc]
    <2>1. request[r] \in Request
        BY <1>t
    <2>2. /\ q \in Request /\ q.account = request[r].account /\ q.cap = request[r].cap
          /\ q.person = request[r].person /\ q.pc = pc
        BY <1>5, <2>1 DEF Request
    <2>3. request' = [request EXCEPT ![r] = q]
        BY <1>5, <1>t DEF Goto
    <2> HIDE DEF q
    <2>4. RequestOK(q, identity', past'.highest)
        BY <1>5, <1>q, <2>2 DEF RequestOK, Resolved
    <2> QED BY <1>5, <1>t, <2>2, <2>3, <2>4, RequestMoves, ZenonT(60)
<1>6. ASSUME NEW r \in Requests, admit(r) PROVE Admitted'
    BY <1>5, <1>6 DEF admit, Resolved
<1>7. ASSUME NEW r \in Requests, ReadCap(r) PROVE Admitted'
    <2> DEFINE q == [request[r] EXCEPT !.cap = cap, !.pc = "activate"]
    <2>1. request[r] \in Request /\ request[r].pc = "cap"
        BY <1>7, <1>t DEF ReadCap
    <2>2. /\ q \in Request /\ q.account = request[r].account /\ q.cap = cap
          /\ q.person = request[r].person /\ q.pc = "activate"
        BY <1>c, <2>1, ZenonT(60) DEF Request
    <2>3. request' = [request EXCEPT ![r] = q] /\ UNCHANGED <<users, identity, cap, past>>
        BY <1>7, <1>t, ZenonT(60) DEF ReadCap
    <2> HIDE DEF q
    <2>4. RequestOK(q, identity', past'.highest)
        BY <1>c, <1>q, <2>1, <2>2, <2>3 DEF RequestOK, Resolved
    <2> QED BY <1>t, <2>2, <2>3, <2>4, RequestMoves, ZenonT(60)
<1>8. ASSUME NEW r \in Requests, try_activate(r) PROVE Admitted'
    <2> DEFINE p == request[r].person
               q == [request[r] EXCEPT !.pc = "answered"]
    <2>1. /\ request[r] \in Request /\ request[r].pc = "activate"
          /\ p \in Persons /\ request[r].cap \in Nat /\ request[r].cap <= past.highest
        BY <1>8, <1>t, <1>q DEF try_activate, RequestOK, Resolved, Request
    <2>2. /\ users' = IF users[p] = "waiting" /\ Cardinality(Active) < request[r].cap
                      THEN [users EXCEPT ![p] = "active"] ELSE users
          /\ request' = [request EXCEPT ![r] = q] /\ UNCHANGED <<identity, cap, past>>
        BY <1>8, <1>t DEF try_activate, Goto
    <2>3. CASE users' = users
        BY <1>5, <1>8, <2>1, <2>3 DEF try_activate, Resolved
    <2>4. CASE users' # users
        <3>1. /\ users[p] = "waiting" /\ Cardinality(Active) < request[r].cap
              /\ users' = [users EXCEPT ![p] = "active"]
            BY <2>2, <2>4
        <3>2. Active' = Active \union {p} /\ Known' = Known /\ p \notin Active
            BY <1>t, <2>1, <3>1 DEF Active, Known, Nobody
        <3>3. Cardinality(Active') = Cardinality(Active) + 1 /\ Cardinality(Active) \in Nat
            BY <3>2, ActiveCounted, FS_AddElement, SMTT(60)
        <3>4. CapKept'
            BY <1>c, <2>1, <2>2, <3>1, <3>3 DEF CapKept
        <3>5. Minted'
            BY <3>2 DEF Admitted, Minted
        <3>6. /\ q \in Request /\ q.account = request[r].account /\ q.cap = request[r].cap
              /\ q.person = p /\ q.pc = "answered"
            BY <2>1 DEF Request
        <3> HIDE DEF q
        <3>7. AdmissionShapes'
            BY <1>t, <2>1, <2>2, <3>1, <3>6 DEF AdmissionShapes, Statuses
        <3>8. RequestOK(q, identity', past'.highest)
            BY <1>q, <2>1, <2>2, <3>6 DEF RequestOK, Resolved
        <3>9. \A s \in Requests : RequestOK(request'[s], identity', past'.highest)
            BY <1>t, <1>q, <2>2, <3>8 DEF RequestOK
        <3> QED BY <1>c, <2>2, <3>4, <3>5, <3>7, <3>9 DEF Admitted
    <2> QED BY <2>3, <2>4
<1>9. ASSUME NEW r \in Requests, Answer(r) PROVE Admitted'
    <2>1. NoRequest \in Request
        BY DEF NoRequest, Request, Nobody
    <2>2. request' = [request EXCEPT ![r] = NoRequest] /\ UNCHANGED <<users, identity, cap, past>>
        BY <1>9 DEF Answer
    <2>3. RequestOK(NoRequest, identity', past'.highest)
        BY <1>c, <2>2 DEF RequestOK, NoRequest, Resolved
    <2> QED BY <1>t, <2>1, <2>2, <2>3, RequestMoves, ZenonT(60)
<1>10. ASSUME NEW n \in Caps, set_setting(n) PROVE Admitted'
    <2>1. /\ cap' = n /\ UNCHANGED <<users, identity, request>>
          /\ past' = [past EXCEPT !.orders = @ + 1, !.highest = IF n > @ THEN n ELSE @]
        BY <1>10 DEF set_setting
    <2>2. n \in Nat
        BY AdmissionAssumption, PersonsNumbered
    <2>3. /\ past' \in Past /\ past'.forced = past.forced
          /\ past'.highest >= past.highest /\ past'.highest >= n
        <3> DEFINE o == past.orders + 1
                   h == IF n > past.highest THEN n ELSE past.highest
        <3>1. o \in Nat /\ h \in Nat /\ h >= past.highest /\ h >= n
            BY <1>t, <1>c, <2>2 DEF Past
        <3>2. past' = [past EXCEPT !.orders = o, !.highest = h]
            BY <2>1
        <3> HIDE DEF o, h
        <3>3. past' \in Past /\ past'.forced = past.forced /\ past'.highest = h
            BY <1>t, <3>1, <3>2, ZenonT(60) DEF Past
        <3> QED BY <3>1, <3>3
    <2>4. past'.highest \in Nat
        BY <2>3 DEF Past
    <2>5. \A r \in Requests : RequestOK(request'[r], identity', past'.highest)
        <3>1. \A r \in Requests : request[r].cap \in Nat
            BY <1>t DEF Request
        <3> QED BY <1>c, <1>q, <2>1, <2>3, <2>4, <3>1 DEF RequestOK
    <2>6. Known' = Known /\ Active' = Active
        BY <2>1 DEF Known, Active
    <2>7. CapKept'
        BY <1>t, <2>3, <2>6, StillWithin DEF Admitted
    <2>8. Minted' /\ AdmissionShapes'
        BY <1>t, <2>1, <2>3, <2>6 DEF Admitted, Minted, AdmissionShapes
    <2> QED BY <2>1, <2>2, <2>3, <2>4, <2>5, <2>7, <2>8 DEF Admitted
<1>11. ASSUME NEW p \in Persons, NEW status \in {"waiting", "active", "banned"},
              set_user_status(p, status)
       PROVE  Admitted'
    <2>1. /\ users' = [users EXCEPT ![p] = status] /\ p \in Known
          /\ past' = [past EXCEPT !.orders = @ + 1, !.forced = @ \/ status = "active"]
          /\ UNCHANGED <<identity, request, cap>>
        BY <1>11 DEF set_user_status, set_status
    <2>2. /\ past' \in Past /\ past'.highest = past.highest
          /\ past'.forced = (past.forced \/ status = "active")
        <3>1. past.knocks \in Nat /\ past.orders + 1 \in Nat /\ past.highest \in Nat
            BY <1>t DEF Past
        <3> DEFINE o == past.orders + 1
        <3>2. past' = [past EXCEPT !.orders = o, !.forced = @ \/ status = "active"] /\ o \in Nat
            BY <2>1, <3>1
        <3> HIDE DEF o
        <3> QED BY <1>t, <3>2, ZenonT(60) DEF Past
    <2>3. Known' = Known
        BY <1>t, <2>1 DEF Known, Nobody
    <2>4. CapKept'
        <3>1. CASE status = "active"
            BY <2>2, <3>1, ZenonT(60) DEF CapKept
        <3>2. CASE status # "active"
            <4>1. Active' \subseteq Active
                BY <1>t, <2>1, <3>2 DEF Active
            <4>2. past.forced => past'.forced
                BY <2>2, ZenonT(60)
            <4>3. past' \in Past /\ past'.highest >= past.highest
                BY <1>c, <2>2
            <4>4. CapKept
                BY DEF Admitted
            <4> QED BY <1>t, <4>1, <4>2, <4>3, <4>4, StillWithin
        <3> QED BY <3>1, <3>2
    <2>5. Minted' /\ AdmissionShapes'
        BY <1>t, <2>1, <2>2, <2>3 DEF Admitted, Minted, AdmissionShapes, Statuses
    <2>6. \A r \in Requests : RequestOK(request'[r], identity', past'.highest)
        BY <1>q, <2>1, <2>2 DEF RequestOK
    <2> QED BY <1>c, <2>1, <2>2, <2>4, <2>5, <2>6 DEF Admitted
<1>12. ASSUME PauseJobs PROVE Admitted'
    <2>1. UNCHANGED <<users, identity, request, cap, past>>
        BY <1>12 DEF PauseJobs
    <2>2. Known' = Known /\ Active' = Active
        BY <2>1 DEF Known, Active
    <2> QED BY <2>1, <2>2, ZenonT(60) DEF Admitted, AdmissionShapes, RequestOK, Minted, CapKept
<1> QED
    BY <1>0, <1>1, <1>2, <1>3, <1>4, <1>6, <1>7, <1>8, <1>9, <1>10, <1>11, <1>12 DEF AdmissionNext

(* What each step owes BanStands: minting takes a new id, an activation     *)
(* looks at the row again, and the operator's orders are counted.           *)
LEMMA BanKept ==
    ASSUME Admitted, [AdmissionNext]_admissionVars
    PROVE  BanStandsStep
<1> SUFFICES ASSUME NEW p \in Persons, users[p] = "banned", users'[p] # "banned"
             PROVE  past'.orders > past.orders
    BY DEF BanStandsStep
<1>t. users \in [Persons -> Statuses] /\ past \in Past
    BY DEF Admitted, AdmissionShapes
<1>1. ASSUME NEW r \in Requests, create_user(r) PROVE FALSE
    <2>1. PICK k \in Nat : Known = 1..k /\ Cardinality(Known) = k
        BY NextIsNew DEF Admitted
    <2>2. users' = [users EXCEPT ![k + 1] = "waiting"] /\ p \in Known
        BY <1>1, <2>1 DEF create_user, Known, Nobody
    <2>3. p # k + 1
        BY <2>1, <2>2
    <2> QED BY <1>t, <2>2, <2>3
<1>2. ASSUME NEW r \in Requests, try_activate(r) PROVE FALSE
    BY <1>2, <1>t DEF try_activate
<1>3. ASSUME NEW o \in Persons, NEW status, set_user_status(o, status)
      PROVE  past'.orders > past.orders
    <2>1. past'.orders = past.orders + 1 /\ past.orders \in Nat
        BY <1>3, <1>t DEF set_user_status, Past
    <2> QED BY <2>1
<1>4. users' # users
    OBVIOUS
<1> QED
    BY <1>1, <1>2, <1>3, <1>4, ZenonT(60)
       DEF AdmissionNext, admissionVars, get_user_id, resolve, resolve_or_create,
       admit, ReadCap, Answer, set_setting, PauseJobs

-----------------------------------------------------------------------------
(* try_activate's cap is a promise: with any number of requests between      *)
(* reading the cap and the activation, no more people are active than the    *)
(* highest cap that was set, unless the operator activated somebody by hand. *)
THEOREM CapIsAPromise ==
    AdmissionSpec => []CapKept
<1>1. Admitted => CapKept
    BY DEF Admitted
<1> QED BY AdmittedInit, AdmittedNext, <1>1, PTL DEF AdmissionSpec

(* resolve_or_create: however many first messages of one account race, every *)
(* request past resolution acts for the person the account is linked to.     *)
THEOREM OneAccountOnePerson ==
    AdmissionSpec => []OnePersonPerAccount
<1>1. Admitted => OnePersonPerAccount
    BY DEF Admitted, RequestOK, OnePersonPerAccount, Resolved
<1> QED BY AdmittedInit, AdmittedNext, <1>1, PTL DEF AdmissionSpec

(* Only set_user_status lifts a ban: no admission under way undoes it.       *)
THEOREM OnlyOperatorLiftsBan ==
    AdmissionSpec => BanStands
<1>1. Admitted /\ [AdmissionNext]_admissionVars => BanStandsStep
    BY BanKept
<1> QED BY AdmittedInit, AdmittedNext, <1>1, PTL DEF AdmissionSpec, BanStands

-----------------------------------------------------------------------------
(* EndpointCalls *)

Call ==
  [pc : {"idle", "page", "user", "guard", "resolve", "render", "done"},
   doc : Documents, collect : BOOLEAN, given : [Params -> Values], page : Nat,
   user : BOOLEAN, dest : Public \union {Text}, secret : written \union {NoSecret}]

(* The request parts that carry the secret. *)
Carrying(d) == {part \in Parts : Secret \in d.refs[part]}

(* A row allows a destination and the parts of a document. *)
Allows(stored, dest, parts) == dest \in stored.hosts /\ parts \subseteq stored.placements

(* What holds between the steps of a call: the destination was guarded      *)
(* before the secret is looked up; the value held while rendering came from *)
(* a row that was stored and allows this destination and these parts, and   *)
(* no other step holds a value.                                             *)
Bound ==
  /\ call \in Call /\ secret \in written \union {NoSecret}
  /\ call.pc \in {"resolve", "render"} => call.dest \in Public
  /\ call.pc \in {"idle", "page", "user", "guard", "resolve"} => call.secret = NoSecret
  /\ call.pc = "render" /\ call.secret # NoSecret =>
       Allows(call.secret, call.dest, Carrying(call.doc))
  /\ EveryPageGuarded /\ SecretStaysBound

-----------------------------------------------------------------------------
LEMMA BoundInit == EndpointInit => Bound
<1> SUFFICES ASSUME EndpointInit PROVE Bound
    OBVIOUS
<1>1. PICK d \in Documents : call = Unstarted(d)
    BY DEF EndpointInit
<1>2. call \in Call /\ call.pc = "idle" /\ call.secret = NoSecret
    <2>1. Unstarted(d).given \in [Params -> Values]
        BY DEF Unstarted, Values
    <2> QED BY <1>1, <2>1 DEF Call, Unstarted
<1>3. secret \in written \union {NoSecret}
    BY DEF EndpointInit
<1>4. EveryPageGuarded /\ SecretStaysBound
    BY DEF EndpointInit, Unsent, EveryPageGuarded, SecretStaysBound
<1> QED BY <1>2, <1>3, <1>4 DEF Bound

(* A step of the call that sends nothing and ends without a value. *)
LEMMA CallMoves ==
    ASSUME Bound, call' \in Call, UNCHANGED <<secret, written, sent>>,
           call'.pc \in {"resolve", "render"} => call'.dest \in Public,
           call'.pc # "done" => call'.secret = NoSecret
    PROVE  Bound'
<1>1. call' \in Call'
    BY DEF Call
<1> QED BY <1>1 DEF Bound, EveryPageGuarded, SecretStaysBound

(* A step of the operator or of the user. *)
LEMMA EditMoves ==
    ASSUME Bound, UNCHANGED <<call, sent>>, written \subseteq written',
           secret' \in written' \union {NoSecret}
    PROVE  Bound'
<1>1. call' \in Call'
    BY DEF Bound, Call
<1> QED BY <1>1 DEF Bound, EveryPageGuarded, SecretStaysBound

LEMMA BoundNext == Bound /\ [EndpointNext]_callVars => Bound'
<1> SUFFICES ASSUME Bound, [EndpointNext]_callVars PROVE Bound'
    OBVIOUS
<1>t. call \in Call /\ secret \in written \union {NoSecret}
    BY DEF Bound
<1>0. CASE UNCHANGED callVars
    BY <1>0, EditMoves, <1>t DEF callVars
<1>f. ASSUME Fail, UNCHANGED <<secret, written, sent>> PROVE Bound'
    <2>1. call' \in Call /\ call'.pc = "done"
        BY <1>f, <1>t DEF Fail, Done, Call
    <2> QED BY <1>f, <2>1, CallMoves
<1>1. ASSUME NEW given \in [Params -> Values], NEW collect \in BOOLEAN, execute(given, collect)
      PROVE  Bound'
    <2> DEFINE d == call.doc
               filled == IF collect /\ d.paging # "none" /\ given[d.paging] = Absent
                         THEN [given EXCEPT ![d.paging] = Text] ELSE given
    <2>1. filled \in [Params -> Values]
        BY ZenonT(60) DEF Values
    <2>2. call.pc = "idle" /\ UNCHANGED <<secret, written, sent>>
        BY <1>1 DEF execute
    <2>3. CASE call' = [call EXCEPT !.pc = "page", !.collect = collect, !.given = filled]
        <3> HIDE DEF filled
        <3>1. call' \in Call /\ call'.pc = "page" /\ call'.secret = call.secret
            BY <1>t, <2>1, <2>3, ZenonT(60) DEF Call
        <3> QED BY <2>2, <3>1, CallMoves, ZenonT(60) DEF Bound
    <2>4. CASE Fail
        BY <1>f, <2>2, <2>4
    <2> QED BY <1>1, <2>3, <2>4 DEF execute
<1>2. ASSUME NextPage PROVE Bound'
    <2>1. call.pc = "page" /\ UNCHANGED <<secret, written, sent>>
        BY <1>2, ZenonT(60) DEF NextPage
    <2>2. call' \in Call /\ call'.pc = "user" /\ call'.secret = call.secret
        <3>1. CASE call' = [call EXCEPT !.pc = "user"]
            BY <1>t, <3>1 DEF Call
        <3>2. ASSUME NEW v \in Hosts \union {Text},
                     call' = [call EXCEPT !.pc = "user", !.given[call.doc.paging] = v]
              PROVE  call' \in Call /\ call'.pc = "user" /\ call'.secret = call.secret
            <4> DEFINE g == [call.given EXCEPT ![call.doc.paging] = v]
            <4>1. g \in [Params -> Values]
                BY <1>t, ZenonT(60) DEF Call, Values
            <4>2. call' = [call EXCEPT !.pc = "user", !.given = g]
                BY <3>2, <1>t DEF Call
            <4> HIDE DEF g
            <4> QED BY <1>t, <4>1, <4>2, ZenonT(60) DEF Call
        <3> QED BY <1>2, <3>1, <3>2, ZenonT(60) DEF NextPage
    <2> QED BY <2>1, <2>2, CallMoves, ZenonT(60) DEF Bound
<1>3. ASSUME _user_values PROVE Bound'
    <2>1. call.pc = "user" /\ UNCHANGED <<secret, written, sent>>
        BY <1>3 DEF _user_values
    <2>2. CASE Fail
        BY <1>f, <2>1, <2>2
    <2>3. CASE ~Fail
        <3> DEFINE u == User \in AllRefs(call.doc)
        <3>1. call' = [call EXCEPT !.pc = "guard", !.user = u] /\ u \in BOOLEAN
            BY <1>3, <2>3 DEF _user_values
        <3> HIDE DEF u
        <3>2. call' \in Call /\ call'.pc = "guard" /\ call'.secret = call.secret
            BY <1>t, <3>1, ZenonT(60) DEF Call
        <3> QED BY <2>1, <3>2, CallMoves, ZenonT(60) DEF Bound
    <2> QED BY <2>2, <2>3
<1>4. ASSUME check PROVE Bound'
    <2>1. call.pc = "guard" /\ UNCHANGED <<secret, written, sent>>
        BY <1>4 DEF check
    <2>2. CASE Fail
        BY <1>f, <2>1, <2>2
    <2>3. CASE ~Fail
        <3>1. PICK h \in Public : call' = [call EXCEPT !.pc = "resolve", !.dest = h]
            BY <1>4, <2>3, ZenonT(60) DEF check
        <3>2. /\ call' \in Call /\ call'.pc = "resolve" /\ call'.dest = h
              /\ call'.secret = call.secret
            BY <1>t, <3>1, ZenonT(60) DEF Call
        <3> QED BY <2>1, <3>2, CallMoves, ZenonT(60) DEF Bound
    <2> QED BY <2>2, <2>3
<1>5. ASSUME _resolve_secrets PROVE Bound'
    <2>1. /\ call.pc = "resolve" /\ UNCHANGED <<secret, written, sent>>
          /\ call.dest \in Public /\ call.secret = NoSecret
        BY <1>5 DEF _resolve_secrets, Bound
    <2>2. CASE Fail
        BY <1>f, <2>1, <2>2
    <2>3. CASE call' = [call EXCEPT !.pc = "render"]
        <3>1. /\ call' \in Call /\ call'.pc = "render" /\ call'.dest = call.dest
              /\ call'.secret = call.secret
            BY <1>t, <2>3 DEF Call
        <3> QED BY <2>1, <3>1, CallMoves, ZenonT(60)
    <2>4. CASE /\ call' = [call EXCEPT !.pc = "render", !.secret = secret]
               /\ ResolveSecret(call.dest) /\ _enforce_placements(call.doc, secret)
        <3>1. /\ call' \in Call /\ call'.pc = "render" /\ call'.dest = call.dest
              /\ call'.secret = secret /\ call'.doc = call.doc
            BY <1>t, <2>4, ZenonT(60) DEF Call
        <3>2. Allows(secret, call.dest, Carrying(call.doc))
            BY <2>4 DEF ResolveSecret, _enforce_placements, Allows, Carrying
        <3>3. call' \in Call'
            BY <2>1, <3>1 DEF Call
        <3> QED BY <2>1, <3>1, <3>2, <3>3, ZenonT(60) DEF Bound, EveryPageGuarded, SecretStaysBound
    <2> QED BY <1>5, <2>2, <2>3, <2>4 DEF _resolve_secrets
<1>6. ASSUME _request_once PROVE Bound'
    <2>1. /\ call.pc = "render" /\ UNCHANGED <<secret, written>> /\ call.dest \in Public
          /\ sent' = [dest |-> call.dest, secret |-> call.secret, parts |-> Carrying(call.doc)]
        BY <1>6 DEF _request_once, Bound, Carrying
    <2>2. EveryPageGuarded' /\ SecretStaysBound'
        <3>1. call.secret # NoSecret => /\ call.secret \in written
                                        /\ Allows(call.secret, call.dest, Carrying(call.doc))
            BY <1>t, <2>1, ZenonT(60) DEF Bound, Call
        <3> QED BY <2>1, <3>1, ZenonT(60) DEF EveryPageGuarded, SecretStaysBound, Allows
    <2>3. CASE call' = Done
        <3>1. call' \in Call /\ call'.pc = "done"
            BY <1>t, <2>3 DEF Done, Call
        <3>2. call' \in Call'
            BY <2>1, <3>1 DEF Call
        <3> QED BY <1>t, <2>1, <2>2, <3>1, <3>2, ZenonT(60) DEF Bound
    <2>4. CASE call' = [call EXCEPT !.pc = "page", !.page = @ + 1, !.secret = NoSecret]
        <3> DEFINE n == call.page + 1
        <3>1. n \in Nat /\ call' = [call EXCEPT !.pc = "page", !.page = n, !.secret = NoSecret]
            BY <1>t, <2>4 DEF Call
        <3> HIDE DEF n
        <3>2. call' \in Call /\ call'.pc = "page" /\ call'.secret = NoSecret
            BY <1>t, <3>1, ZenonT(60) DEF Call
        <3>3. call' \in Call'
            BY <2>1, <3>2, ZenonT(60) DEF Call
        <3> QED BY <1>t, <2>1, <2>2, <3>2, <3>3, ZenonT(60) DEF Bound
    <2> QED BY <1>6, <2>3, <2>4 DEF _request_once
<1>7. ASSUME NEW hosts, NEW placements, put(hosts, placements) PROVE Bound'
    BY <1>7, EditMoves DEF put
<1>8. CASE delete
    BY <1>8, EditMoves DEF delete
<1>9. CASE put_param \/ delete_param
    BY <1>9, <1>t, EditMoves DEF put_param, delete_param
<1> QED BY <1>0, <1>1, <1>2, <1>3, <1>4, <1>5, <1>6, <1>7, <1>8, <1>9 DEF EndpointNext

-----------------------------------------------------------------------------
(* The guard judges the rendered URL of every page: no request of a plain    *)
(* call or of a collect goes where the guard does not pass.                  *)
THEOREM GuardSeesEveryPage == EndpointSpec => []EveryPageGuarded
<1>1. Bound => EveryPageGuarded
    BY DEF Bound
<1> QED BY BoundInit, BoundNext, <1>1, PTL DEF EndpointSpec

(* resolve reads binding and value together: a value goes only where, and    *)
(* only in the request parts, the very row it came from allows, however the  *)
(* row is edited around the call.                                            *)
THEOREM BindingHolds == EndpointSpec => []SecretStaysBound
<1>1. Bound => SecretStaysBound
    BY DEF Bound
<1> QED BY BoundInit, BoundNext, <1>1, PTL DEF EndpointSpec

-----------------------------------------------------------------------------
(* DialogClaims *)

(* The generation of a claim fences its dialog: no actor that may still    *)
(* answer is another than the one the claim row names.                     *)

Row == [owner : Nodes \cup {"nobody"}, generation : Nat, fresh : BOOLEAN]
Actor == [owner : Nodes, generation : Nat, state : {"running", "preempted", "down"}]
Build == [phase : {"none", "load", "recover", "done"}, generation : Nat, actor : Nat]
Used == [contacts : Nat, mishaps : Nat, released : BOOLEAN]

(* A claim that was taken is no newer than the row, and the row's own claim *)
(* is its owner's.                                                          *)
Behind(r, n, g) == g >= 1 /\ g <= r.generation /\ (g = r.generation => r.owner = n)

(* Every claim in memory, an actor's or that of a build under way, is       *)
(* behind the row.  This is what _claim_upsert's increment keeps.           *)
AllBehind(r, xs, bs) ==
    /\ \A a \in DOMAIN xs : Behind(r, xs[a].owner, xs[a].generation)
    /\ \A n \in Nodes : bs[n].phase = "load" => Behind(r, n, bs[n].generation)

Fenced ==
    /\ row \in Row /\ actor \in Seq(Actor) /\ build \in [Nodes -> Build] /\ spending \in Used
    /\ ~spending.released => AllBehind(row, actor, build)

-----------------------------------------------------------------------------
LEMMA FunctionIsSeq ==
    ASSUME NEW S, NEW n \in Nat, NEW f \in [1..n -> S]
    PROVE  f \in Seq(S)
BY SMTT(60)

(* Changing the state of an actor leaves every claim as it was. *)
LEMMA StateOnly ==
    ASSUME NEW xs \in Seq(Actor), NEW a, NEW s \in {"preempted", "down"}
    PROVE  LET bs == [xs EXCEPT ![a].state = s] IN
           /\ bs \in Seq(Actor) /\ DOMAIN bs = DOMAIN xs
           /\ \A b \in DOMAIN xs : bs[b].owner = xs[b].owner
                                   /\ bs[b].generation = xs[b].generation
<1>1. xs \in [1..Len(xs) -> Actor] /\ Len(xs) \in Nat
    BY SMTT(60)
<1> DEFINE bs == [xs EXCEPT ![a].state = s]
<1>2. \A b \in 1..Len(xs) : /\ bs[b] \in Actor
                             /\ bs[b].owner = xs[b].owner
                             /\ bs[b].generation = xs[b].generation
    BY <1>1, ZenonT(60) DEF Actor
<1>3. bs \in [1..Len(xs) -> Actor]
    BY <1>1, <1>2, ZenonT(60)
<1>4. bs \in Seq(Actor)
    <2> HIDE DEF bs
    <2> QED BY <1>1, <1>3, FunctionIsSeq, ZenonT(60)
<1> QED BY <1>1, <1>2, <1>3, <1>4, ZenonT(60)

(* Taking a claim puts every older one strictly behind and the new one level. *)
LEMMA ClaimFences ==
    ASSUME Fenced, NEW n \in Nodes, get_or_create_runner(n)
    PROVE  /\ row' \in Row /\ build' \in [Nodes -> Build]
           /\ ~spending.released => AllBehind(row', actor, build')
<1>1. CASE build[n].phase # "none"
    BY <1>1 DEF get_or_create_runner, Fenced
<1>2. CASE build[n].phase = "none"
    <2>1. /\ row' = _claim_upsert(n)
          /\ build' = [build EXCEPT ![n] =
                 [phase |-> "load", generation |-> row'.generation, actor |-> None]]
        BY <1>2 DEF get_or_create_runner
    <2>0. row \in Row
        BY SMTT(60) DEF Fenced
    <2>2. row' \in Row /\ row'.generation = row.generation + 1 /\ row'.owner = n
        BY <2>0, <2>1, SMTT(60) DEF _claim_upsert, Claimed, NoRow, Row
    <2>3. build' \in [Nodes -> Build]
        BY <2>1, <2>2, SMTT(60) DEF Row, Build, None, Fenced
    <2>4. ASSUME ~spending.released PROVE AllBehind(row', actor, build')
        <3>1. \A a \in DOMAIN actor : actor[a].generation \in Nat
            <4>1. actor \in Seq(Actor)
                BY DEF Fenced
            <4>2. actor \in [1..Len(actor) -> Actor]
                BY <4>1, SMTT(60)
            <4> QED BY <4>2 DEF Actor
        <3>2. row.generation \in Nat /\ \A m \in Nodes : build[m].generation \in Nat
            BY DEF Fenced, Row, Build
        <3>3. AllBehind(row, actor, build)
            BY <2>4, SMTT(60) DEF Fenced
        <3>4. \A a \in DOMAIN actor : Behind(row', actor[a].owner, actor[a].generation)
            BY <2>2, <3>1, <3>2, <3>3, SMTT(60) DEF AllBehind, Behind
        <3>5. \A m \in Nodes : build'[m].phase = "load" => Behind(row', m, build'[m].generation)
            BY <2>1, <2>2, <3>2, <3>3, SMTT(60) DEF AllBehind, Behind, Fenced, Row
        <3> QED BY <3>4, <3>5 DEF AllBehind
    <2> QED BY <2>2, <2>3, <2>4, SMTT(60)
<1> QED BY <1>1, <1>2, ZenonT(60)

(* A step that forgets builds, changes states of actors or refreshes the row *)
(* keeps the fence.                                                          *)
LEMMA Forgetting ==
    ASSUME Fenced, row' \in Row, spending' \in Used, actor' \in Seq(Actor),
           build' \in [Nodes -> Build],
           spending.released => spending'.released,
           ~spending'.released => row'.owner = row.owner /\ row'.generation = row.generation,
           DOMAIN actor' = DOMAIN actor,
           \A a \in DOMAIN actor : actor'[a].owner = actor[a].owner
                                   /\ actor'[a].generation = actor[a].generation,
           \A n \in Nodes : build'[n].phase = "load" => build'[n] = build[n]
    PROVE  Fenced'
BY ZenonT(60) DEF Fenced, AllBehind, Behind

-----------------------------------------------------------------------------
LEMMA FencedInit ==
    ClaimsInit => Fenced
<1> SUFFICES ASSUME ClaimsInit PROVE Fenced
    OBVIOUS
<1>1. row \in Row /\ spending \in Used /\ actor \in Seq(Actor)
    BY SMTT(60) DEF ClaimsInit, NoRow, Row, Used
<1>2. build \in [Nodes -> Build]
    BY SMTT(60) DEF ClaimsInit, NoBuild, Build, None
<1>3. DOMAIN actor = {} /\ \A n \in Nodes : build[n].phase = "none"
    BY SMTT(60) DEF ClaimsInit, NoBuild
<1> QED BY <1>1, <1>2, <1>3, ZenonT(60) DEF Fenced, AllBehind

LEMMA FencedNext ==
    Fenced /\ [ClaimsNext]_claimVars => Fenced'
<1> SUFFICES ASSUME Fenced, [ClaimsNext]_claimVars PROVE Fenced'
    OBVIOUS
<1>0. CASE UNCHANGED claimVars
    BY <1>0 DEF claimVars, Fenced
<1>t. /\ row \in Row /\ actor \in Seq(Actor) /\ build \in [Nodes -> Build] /\ spending \in Used
    BY DEF Fenced
<1>n. NoBuild \in Build
    BY DEF NoBuild, Build, None
<1>m. Mishap => spending' \in Used /\ spending'.released = spending.released
    BY <1>t DEF Mishap, Used
<1>1. ASSUME NEW n \in Nodes, NEW t, _replace_retired(n, t),
             spending' \in Used, spending'.released = spending.released
      PROVE  Fenced'
    <2>1. actor' = actor
        BY <1>1, ZenonT(60) DEF _replace_retired
    <2>2. CASE build[n].phase = "done"
        BY <1>1, <1>t, <2>1, <2>2, Forgetting, ZenonT(60) DEF _replace_retired
    <2>3. CASE build[n].phase # "done"
        <3>1. get_or_create_runner(n)
            BY <1>1, <2>3 DEF _replace_retired
        <3> QED BY <1>1, <1>t, <2>1, <3>1, ClaimFences, ZenonT(60) DEF Fenced
    <2> QED BY <2>2, <2>3, SMTT(60)
<1>2. ASSUME NEW n \in Nodes, Contact(n) PROVE Fenced'
    <2>1. spending' \in Used /\ spending'.released = spending.released
        BY <1>2, <1>t, SMTT(60) DEF Contact, Used
    <2> QED BY <1>1, <1>2, <2>1 DEF Contact
<1>3. ASSUME NEW n \in Nodes, _runner_for_background(n) PROVE Fenced'
    <2>1. spending' = spending
        BY <1>3, SMTT(60) DEF _runner_for_background
    <2> QED BY <1>1, <1>3, <1>t, <2>1, SMTT(60) DEF _runner_for_background
<1>4. ASSUME NEW n \in Nodes, _beat_once(n) PROVE Fenced'
    <2>1. row' \in Row /\ row'.owner = row.owner /\ row'.generation = row.generation
        BY <1>4, <1>t, ZenonT(60) DEF _beat_once, Keep, Lose, Row
    <2> QED BY <1>4, <1>t, <2>1, Forgetting DEF _beat_once
<1>5. ASSUME NEW n \in Nodes, NEW t \in Threads, _drop_preempted(n, t) PROVE Fenced'
    <2> DEFINE a == todo[n][t].a
    <2>1. /\ actor' = [actor EXCEPT ![a].state = "down"]
          /\ build' = [build EXCEPT ![n] =
                 IF @.phase = "done" /\ @.actor = a THEN NoBuild ELSE @]
          /\ UNCHANGED <<row, spending>>
        BY <1>5 DEF _drop_preempted
    <2>2. /\ build' \in [Nodes -> Build]
          /\ \A m \in Nodes : build'[m].phase = "load" => build'[m] = build[m]
        BY <1>n, <1>t, <2>1, ZenonT(60) DEF NoBuild
    <2> HIDE DEF a
    <2> QED BY <1>t, <2>1, <2>2, StateOnly, Forgetting, ZenonT(60)
<1>6. ASSUME NEW n \in Nodes, NEW t \in Threads, Rebuild(n, t) PROVE Fenced'
    BY <1>6, <1>t, ClaimFences, ZenonT(60) DEF Rebuild, Fenced
<1>7. ASSUME NEW n \in Nodes, _build_runner(n) PROVE Fenced'
    <2> DEFINE x == [owner |-> n, generation |-> build[n].generation, state |-> "running"]
    <2>1. /\ build[n].phase = "load" /\ actor' = Append(actor, x)
          /\ build' = [build EXCEPT ![n].phase = "recover", ![n].actor = Len(actor')]
          /\ UNCHANGED <<row, spending>>
        BY <1>7 DEF _build_runner
    <2>2. x \in Actor
        BY <1>t DEF Actor, Build
    <2>3. /\ actor' \in Seq(Actor) /\ Len(actor') \in Nat
          /\ \A a \in DOMAIN actor' : (a \in DOMAIN actor /\ actor'[a] = actor[a]) \/ actor'[a] = x
        <3> HIDE DEF x
        <3> QED BY <1>t, <2>1, <2>2
    <2>4. build' \in [Nodes -> Build]
        BY <1>t, <2>1, <2>3, ZenonT(60) DEF Build
    <2>5. \A m \in Nodes : build'[m].phase = "load" => build'[m] = build[m]
        BY <1>t, <2>1 DEF Build
    <2>6. ~spending.released => AllBehind(row, actor', build')
        <3>1. ~spending.released => Behind(row, x.owner, x.generation)
            BY <2>1 DEF Fenced, AllBehind
        <3>2. ~spending.released => \A a \in DOMAIN actor : Behind(row, actor[a].owner, actor[a].generation)
            BY DEF Fenced, AllBehind
        <3>3. ~spending.released => \A a \in DOMAIN actor' : Behind(row, actor'[a].owner, actor'[a].generation)
            <4> HIDE DEF x
            <4> QED BY <2>3, <3>1, <3>2, ZenonT(60)
        <3>4. ~spending.released => \A m \in Nodes : build'[m].phase = "load" => Behind(row, m, build'[m].generation)
            BY <2>5, ZenonT(60) DEF Fenced, AllBehind
        <3> QED BY <3>3, <3>4, ZenonT(60) DEF AllBehind
    <2> QED BY <1>t, <2>1, <2>3, <2>4, <2>6, SMTT(60) DEF Fenced
<1>8. ASSUME NEW n \in Nodes, _recover_dialog(n) PROVE Fenced'
    <2>1. /\ build' \in [Nodes -> Build]
          /\ \A m \in Nodes : build'[m].phase = "load" => build'[m] = build[m]
        BY <1>8, <1>t, SMTT(60) DEF _recover_dialog, Build
    <2> QED BY <1>8, <1>t, <2>1, Forgetting, SMTT(60) DEF _recover_dialog
<1>9. ASSUME NEW n \in Nodes, BuildFails(n) PROVE Fenced'
    <2>1. /\ build' \in [Nodes -> Build]
          /\ \A m \in Nodes : build'[m].phase = "load" => build'[m] = build[m]
        BY <1>9, <1>t, <1>n, ZenonT(60) DEF BuildFails, NoBuild
    <2> QED BY <1>9, <1>t, <1>m, <2>1, Forgetting DEF BuildFails
<1>10. ASSUME NEW n \in Nodes, evict(n) PROVE Fenced'
    <2>1. /\ build' \in [Nodes -> Build]
          /\ \A m \in Nodes : build'[m].phase = "load" => build'[m] = build[m]
        BY <1>10, <1>t, <1>n, SMTT(60) DEF evict, NoBuild
    <2>2. /\ actor' \in Seq(Actor) /\ DOMAIN actor' = DOMAIN actor
          /\ \A b \in DOMAIN actor : actor'[b].owner = actor[b].owner
                                     /\ actor'[b].generation = actor[b].generation
        <3>1. CASE build[n].phase = "done"
            <4> DEFINE a == build[n].actor
            <4>1. actor' = [actor EXCEPT ![a].state = "down"]
                BY <1>10, <3>1 DEF evict
            <4>2. actor \in Seq(Actor)
                BY <1>t
            <4> HIDE DEF a
            <4> QED BY <4>1, <4>2, StateOnly, ZenonT(60)
        <3>2. CASE build[n].phase # "done"
            BY <1>10, <1>t, <3>2 DEF evict
        <3> QED BY <3>1, <3>2, ZenonT(60)
    <2> QED BY <1>10, <1>t, <1>m, <2>1, <2>2, Forgetting, SMTT(60) DEF evict
<1>r. NoRow \in Row
    BY DEF NoRow, Row
<1>11. ASSUME NEW n \in Nodes, EvictReleases(n) PROVE Fenced'
    <2>1. row' \in Row
        BY <1>11, <1>t, <1>r DEF EvictReleases, Released
    <2>2. spending' \in Used /\ spending'.released
        BY <1>11, <1>t, ZenonT(60) DEF EvictReleases, Used
    <2> QED BY <1>11, <1>t, <2>1, <2>2 DEF EvictReleases, Fenced
<1>d. ASSUME NEW n \in Nodes, Die(n)
      PROVE  /\ build' \in [Nodes -> Build]
             /\ \A m \in Nodes : build'[m].phase = "load" => build'[m] = build[m]
             /\ actor' \in Seq(Actor) /\ DOMAIN actor' = DOMAIN actor
             /\ \A b \in DOMAIN actor : actor'[b].owner = actor[b].owner
                                        /\ actor'[b].generation = actor[b].generation
    <2>1. /\ build' \in [Nodes -> Build]
          /\ \A m \in Nodes : build'[m].phase = "load" => build'[m] = build[m]
        BY <1>d, <1>t, <1>n DEF Die, NoBuild
    <2>2. DOMAIN actor = 1..Len(actor) /\ Len(actor) \in Nat /\ \A b \in DOMAIN actor : actor[b] \in Actor
        BY <1>t
    <2>3. /\ actor' = [b \in 1..Len(actor) |-> actor'[b]] /\ DOMAIN actor' = DOMAIN actor
          /\ \A b \in DOMAIN actor :
                actor'[b] = actor[b] \/ actor'[b] = [actor[b] EXCEPT !.state = "down"]
        BY <1>d, <2>2 DEF Die
    <2>4. \A b \in DOMAIN actor : actor'[b] \in Actor /\ actor'[b].owner = actor[b].owner
                                  /\ actor'[b].generation = actor[b].generation
        BY <2>2, <2>3 DEF Actor
    <2>5. actor' \in [1..Len(actor) -> Actor]
        BY <2>2, <2>3, <2>4
    <2>6. actor' \in Seq(Actor)
        BY <2>2, <2>5, FunctionIsSeq
    <2> QED BY <2>1, <2>3, <2>4, <2>6
<1>12. ASSUME NEW n \in Nodes, stop_all(n) PROVE Fenced'
    <2>1. row' \in Row
        BY <1>12, <1>t, <1>r, SMTT(60) DEF stop_all, Released
    <2>2. spending' \in Used /\ spending'.released
        <3>1. spending' = [spending EXCEPT !.mishaps = @ + 1, !.released = TRUE]
            BY <1>12 DEF stop_all
        <3>2. spending.contacts \in Nat /\ spending.mishaps + 1 \in Nat
            BY <1>t DEF Used
        <3>3. spending' = [contacts |-> spending.contacts, mishaps |-> spending.mishaps + 1,
                       released |-> TRUE]
            BY <1>t, <3>1, ZenonT(60) DEF Used
        <3> DEFINE k == spending.mishaps + 1
        <3>4. k \in Nat /\ spending' = [contacts |-> spending.contacts, mishaps |-> k, released |-> TRUE]
            BY <3>2, <3>3
        <3> HIDE DEF k
        <3> QED BY <3>2, <3>4, ZenonT(60) DEF Used
    <2> QED BY <1>12, <1>d, <2>1, <2>2 DEF stop_all, Fenced
<1>13. ASSUME NEW n \in Nodes, Crash(n) PROVE Fenced'
    BY <1>13, <1>d, <1>t, <1>m, Forgetting, ZenonT(60) DEF Crash
<1>14. ASSUME NEW n \in Nodes, Restart(n) PROVE Fenced'
    BY <1>14 DEF Restart, Fenced
<1>15. ASSUME NEW a \in DOMAIN actor, _start_answer(a) PROVE Fenced'
    BY <1>15, <1>t, StateOnly, Forgetting, ZenonT(60) DEF _start_answer
<1>16. ASSUME GoesStale PROVE Fenced'
    <2>1. row' \in Row /\ row'.owner = row.owner /\ row'.generation = row.generation
        BY <1>16, <1>t, ZenonT(60) DEF GoesStale, Row
    <2> QED BY <1>16, <1>t, <2>1, Forgetting DEF GoesStale
<1> QED
    BY <1>0, <1>2, <1>3, <1>4, <1>5, <1>6, <1>7, <1>8, <1>9, <1>10, <1>11, <1>12, <1>13,
       <1>14, <1>15, <1>16, SMTT(60) DEF ClaimsNext

(* As long as no claim was released, an actor whose look at the claim lets it *)
(* answer is the one the row names (_claim_upsert, _still_owns_dialog), for   *)
(* any nodes and bounds.                                                      *)
THEOREM ClaimIsAFence ==
    ClaimsSpec => []OnlyOwnerAnswers
<1>1. Fenced => OnlyOwnerAnswers
    BY DEF Fenced, AllBehind, Behind, OnlyOwnerAnswers, can_still_answer, retired,
           _still_owns_dialog, Holds
<1> QED BY FencedInit, FencedNext, <1>1, PTL DEF ClaimsSpec

=============================================================================
