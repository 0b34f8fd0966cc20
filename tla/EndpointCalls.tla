----------------------------- MODULE EndpointCalls -----------------------------
(***************************************************************************)
(* One endpoint record from its document to the request: the parser        *)
(* (net/tool_spec.py), parameter checks, {user.*} values, the guard        *)
(* (net/guard.py), {secret.*} values (secrets/store.py) and rendering      *)
(* (net/external.py _request_once), once for a plain call and once per     *)
(* page of a collect.  Operator and user edit the stored params and the    *)
(* secret between any two steps.                                           *)
(***************************************************************************)
EXTENDS Naturals, FiniteSets

CONSTANTS Params,     \* names of declarable parameters
          Hosts,
          Public,     \* the hosts the guard lets through
          Documents,  \* endpoint documents, a subset of ToolSpec
          MaxPages, MaxEdits

VARIABLES call,     \* the call in flight
          secret,   \* the SecretRow of code "secret", or NoSecret
          user,     \* whether the operator set the {user.user} value
          written,  \* every SecretRow ever stored
          sent,     \* the last request that went out
          edits      \* edits so far

callVars == <<call, secret, user, written, sent, edits>>

User == "user"
Secret == "secret"
Parts == {"url", "header", "body"}
NoSecret == [version |-> 0, hosts |-> {}, placements |-> {}]

(* A document: what it declares of each parameter (kind "none": nothing),  *)
(* the references of each template part, the host it writes itself, the    *)
(* hosts a host parameter may take, and the parameter a collect advances.  *)
ToolSpec == [params : [Params -> [kind : {"none", "string", "host"}, required : BOOLEAN]],
             authority : SUBSET (Params \union {User, Secret}), refs : [Parts -> SUBSET (Params \union {User, Secret})],
             hosts : SUBSET Hosts, paging : Params \union {"none"}]

ToolParamSpec(kind, required) == [kind |-> kind, required |-> required]
Undeclared == ToolParamSpec("none", FALSE)
Declared(d) == {p \in Params : d.params[p] # Undeclared}

-----------------------------------------------------------------------------
(* _validate_template_fields: a referenced parameter is declared and       *)
(* required, or a render could miss it.                                    *)
_validate_template_fields(d, refs) ==
  \A p \in refs \intersect Params : p \in Declared(d) /\ d.params[p].required

(* _validate_url_authority: no secret decides where the request goes, and  *)
(* a parameter does only as a host one.                                    *)
_validate_url_authority(d) ==
  /\ Secret \notin d.authority
  /\ \A p \in d.authority \intersect Params : d.params[p].kind \in {"none", "host"}

(* _parse_pagination_spec: the advanced parameter is a declared one.       *)
_parse_pagination_spec(d) == d.paging = "none" \/ d.paging \in Declared(d)

(* _parse_param_hosts: a host parameter names where it may go.             *)
_parse_param_hosts(d) == \A p \in Declared(d) : d.params[p].kind = "host" => d.hosts # {}

parse_tool_spec(d) ==
  /\ _parse_param_hosts(d)
  /\ \A part \in Parts : _validate_template_fields(d, d.refs[part])
  /\ _validate_template_fields(d, d.authority)
  /\ _validate_url_authority(d)
  /\ _parse_pagination_spec(d)

-----------------------------------------------------------------------------
Absent == "absent"
Text == "text"     \* a string that is no host
Values == Hosts \union {Text, Absent}

(* _validate_value by kind: a host parameter takes a host of the record's  *)
(* list, the others any text (a path is checked for what leaves it).       *)
_validate_value(d, p, v) == d.params[p].kind = "host" => v \in d.hosts

(* _validate_params: nothing undeclared, nothing required missing.         *)
_validate_params(d, given) ==
  \A p \in Params :
    /\ given[p] # Absent => p \in Declared(d) /\ _validate_value(d, p, given[p])
    /\ d.params[p].required => given[p] # Absent

Unstarted(d) ==
  [pc |-> "idle", doc |-> d, collect |-> FALSE, given |-> [p \in Params |-> Absent],
   page |-> 0, user |-> FALSE, dest |-> Text, secret |-> NoSecret]

Unsent == [dest |-> Text, secret |-> NoSecret, parts |-> {}]

EndpointInit ==
  /\ call \in {Unstarted(d) : d \in Documents}
  /\ secret = NoSecret /\ user = FALSE /\ written = {}
  /\ sent = Unsent /\ edits = 0

Done == [call EXCEPT !.pc = "done"]
Fail == call' = Done

(* _collect_prerequisites: only a record that declares pagination.         *)
_collect_prerequisites(d, collect) == collect => d.paging # "none"

(* execute: parse, put the placeholder where the walk will put its cursor, *)
(* validate.  A record that declares a kind goes to a delegate before any  *)
(* of this, with no document of this form, and is not a call of this       *)
(* module.                                                                 *)
execute(given, collect) ==
  LET d == call.doc
      filled == IF collect /\ d.paging # "none" /\ given[d.paging] = Absent
                THEN [given EXCEPT ![d.paging] = Text] ELSE given
  IN /\ call.pc = "idle"
     /\ IF parse_tool_spec(d) /\ _validate_params(d, filled) /\ _collect_prerequisites(d, collect)
        THEN call' = [call EXCEPT !.pc = "page", !.collect = collect, !.given = filled]
        ELSE Fail
     /\ UNCHANGED <<secret, user, written, sent, edits>>

(* A turn of the walk: the cursor, or what the last answer said, replaces  *)
(* the advanced parameter, unchecked.                                      *)
NextPage ==
  /\ call.pc = "page"
  /\ IF call.collect
     THEN \E v \in Hosts \union {Text} :
            call' = [call EXCEPT !.pc = "user", !.given[call.doc.paging] = v]
     ELSE call' = [call EXCEPT !.pc = "user"]
  /\ UNCHANGED <<secret, user, written, sent, edits>>

(* _collect_plan: every reference of every part.                          *)
AllRefs(d) == d.authority \union UNION {d.refs[part] : part \in Parts}

(* _user_values: a missing value ends the call.                            *)
_user_values ==
  /\ call.pc = "user"
  /\ IF User \in AllRefs(call.doc) /\ ~user THEN Fail
     ELSE call' = [call EXCEPT !.pc = "guard", !.user = User \in AllRefs(call.doc)]
  /\ UNCHANGED <<secret, user, written, sent, edits>>

(* _render_url: where the request goes, by the host parameter or the       *)
(* operator's value in the authority, else as the record writes it.        *)
_render_url ==
  LET named == call.doc.authority \intersect Params
  IN IF named # {} THEN {call.given[p] : p \in named}
     ELSE IF User \in call.doc.authority THEN Hosts ELSE call.doc.hosts

(* Mutant: only the first page is judged. *)
GuardFirstPage ==
  /\ call.pc = "guard"
  /\ \E h \in _render_url :
       IF h \in Public \/ (call.page > 0 /\ h \in Hosts)
       THEN call' = [call EXCEPT !.pc = "resolve", !.dest = h] ELSE Fail
  /\ UNCHANGED <<secret, user, written, sent, edits>>

(* SsrfGuard.check on the rendered URL of this page.                       *)
check ==
  /\ call.pc = "guard"
  /\ \E h \in _render_url :
       IF h \in Public THEN call' = [call EXCEPT !.pc = "resolve", !.dest = h] ELSE Fail
  /\ UNCHANGED <<secret, user, written, sent, edits>>

(* resolve: row, host binding and value in one transaction.                *)
ResolveSecret(h) == secret # NoSecret /\ h \in secret.hosts

(* Mutant: only the URL is compared with the allowed parts. *)
EnforceUrlOnly(d, row) == Secret \in d.refs["url"] => "url" \in row.placements

(* _enforce_placements: the parts that reference it are parts it allows.   *)
_enforce_placements(d, row) ==
  \A part \in Parts : Secret \in d.refs[part] => part \in row.placements

_resolve_secrets ==
  /\ call.pc = "resolve"
  /\ IF Secret \notin AllRefs(call.doc) THEN call' = [call EXCEPT !.pc = "render"]
     ELSE IF ResolveSecret(call.dest) /\ _enforce_placements(call.doc, secret)
     THEN call' = [call EXCEPT !.pc = "render", !.secret = secret]
     ELSE Fail
  /\ UNCHANGED <<secret, user, written, sent, edits>>

(* render_values: what the templates can be filled with.                   *)
RenderValues ==
  {p \in Params : call.given[p] # Absent}
    \union {r \in {User} : call.user} \union {r \in {Secret} : call.secret # NoSecret}

(* The request goes out; a collect asks for the next page.                 *)
_request_once ==
  /\ call.pc = "render"
  /\ sent' = [dest |-> call.dest, secret |-> call.secret,
              parts |-> {part \in Parts : Secret \in call.doc.refs[part]}]
  /\ call' = IF call.collect /\ call.page < MaxPages
             THEN [call EXCEPT !.pc = "page", !.page = @ + 1, !.secret = NoSecret] ELSE Done
  /\ UNCHANGED <<secret, user, written, edits>>

-----------------------------------------------------------------------------
Edit == call.pc # "done" /\ edits < MaxEdits /\ edits' = edits + 1

(* The user stores or replaces the secret (put), or deletes it.            *)
put(hosts, placements) ==
  LET row == [version |-> Cardinality(written) + 1, hosts |-> hosts, placements |-> placements]
  IN /\ Edit
     /\ secret' = row /\ written' = written \union {row}
     /\ UNCHANGED <<call, user, sent>>

delete ==
  /\ Edit /\ secret # NoSecret
  /\ secret' = NoSecret
  /\ UNCHANGED <<call, user, written, sent>>

(* The operator sets or deletes the user's param.                          *)
put_param ==
  /\ Edit /\ user' = TRUE
  /\ UNCHANGED <<call, secret, written, sent>>

delete_param ==
  /\ Edit /\ user /\ user' = FALSE
  /\ UNCHANGED <<call, secret, written, sent>>

EndpointNext ==
  \/ \E given \in [Params -> Values], collect \in BOOLEAN : execute(given, collect)
  \/ NextPage \/ _user_values \/ check \/ _resolve_secrets \/ _request_once
  \/ \E hosts \in SUBSET Hosts \ {{}}, placements \in SUBSET Parts \ {{}} : put(hosts, placements)
  \/ delete \/ put_param \/ delete_param

EndpointSpec == EndpointInit /\ [][EndpointNext]_callVars

-----------------------------------------------------------------------------
(* The call, the stored secret and the requests keep their shape.          *)
EndpointTypeOK ==
  /\ call.pc \in {"idle", "page", "user", "guard", "resolve", "render", "done"}
  /\ (call.pc # "idle" => call.doc \in ToolSpec) /\ call.given \in [Params -> Values] /\ call.page \in 0..MaxPages
  /\ secret \in written \union {NoSecret}
  /\ sent.dest \in Hosts \union {Text} /\ sent.parts \subseteq Parts

(* "Every referenced field must be present: collect_refs + the callers'    *)
(* validation guarantee that": when a request is rendered, every           *)
(* placeholder of an accepted record has a value, whatever the caller gave *)
(* and whatever operator and user edited since the call began.             *)
RenderComplete == call.pc = "render" => AllRefs(call.doc) \subseteq RenderValues

(* "the SSRF guard and the host binding judge every page's destination,    *)
(* not just the first one's": every request of every page went to a host   *)
(* the guard passes.                                                       *)
EveryPageGuarded == sent # Unsent => sent.dest \in Public

(* A value that left the store went only to a host, and only in request    *)
(* parts, that the very row it was read from allows, however the row was   *)
(* edited around the call.                                                 *)
SecretStaysBound ==
  sent.secret # NoSecret =>
    /\ sent.secret \in written
    /\ sent.dest \in sent.secret.hosts /\ sent.parts \subseteq sent.secret.placements
=============================================================================
