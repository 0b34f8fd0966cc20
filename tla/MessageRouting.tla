---------------------------- MODULE MessageRouting ----------------------------
(***************************************************************************)
(* The message router (agent/router.py) and what the dialog's actor does   *)
(* with its decision (agent/runner.py: _route, _apply_route, _retitle,     *)
(* _nudge_stale_exchanges): the model is shown the live exchanges, one     *)
(* line each, and its tool call, usable or not, becomes a decision.  Runs  *)
(* settle and ask while the model thinks.  A title is the number of lines  *)
(* it takes in the prompt; the preview of collected material is left out.  *)
(***************************************************************************)
EXTENDS Naturals, FiniteSets

CONSTANTS
  Ids,        \* exchanges of the dialog
  Unknown,    \* an identifier the model made up
  MaxTurns    \* bound: messages routed

NoTitle == 0
LIVE == {"COLLECTING", "OPEN", "IN_PROGRESS", "AWAITING_USER"}
ROUTE_ACTIONS == {"new", "continue", "command"}

VARIABLES
  exch,    \* ExchangeRow: status, lines of its title, touched long ago?, renamed by the router?
  turn,    \* the message in hand: what was listed for it and what was decided
  asked,   \* the shown exchanges the model named for cancelling
  nudged,  \* the exchanges whose question this message's intake repeated
  turns    \* messages routed so far

vars == <<exch, turn, asked, nudged, turns>>

Idle == [pc |-> "idle", listed |-> [e \in {} |-> 0], action |-> "new", exchange_id |-> Unknown,
         cancel_ids |-> {}, title |-> NoTitle]

Shown == DOMAIN turn.listed

Init ==
  /\ exch \in [Ids -> [status : {"absent", "OPEN", "AWAITING_USER"}, lines : {1}, stale : {TRUE}, renamed : {FALSE}]
                     \cup [status : {"COLLECTING"}, lines : {1}, stale : {FALSE}, renamed : {FALSE}]]
  /\ Cardinality({e \in Ids : exch[e].status = "COLLECTING"}) <= 1
  /\ turn = Idle /\ asked = {} /\ nudged = {} /\ turns = 0

(* A collection the user forwarded just now, with nothing else live. *)
_sole_fresh_collection(live) ==
  {e \in live : live = {e} /\ exch[e].status = "COLLECTING" /\ ~exch[e].stale}

(* The one read of the live exchanges that serves the decision and the     *)
(* reminder.  The model is not asked where a reply names a live exchange,  *)
(* where nothing is live, or where the message follows a forward.          *)
_route ==
  /\ turn.pc = "idle" /\ turns < MaxTurns
  /\ turns' = turns + 1
  /\ LET live == {e \in Ids : exch[e].status \in LIVE}
         read == [Idle EXCEPT !.pc = "decided", !.listed = [e \in live |-> exch[e]]]
     IN  \/ \E e \in live : turn' = [read EXCEPT !.action = "continue", !.exchange_id = e]
         \/ live = {} /\ turn' = read
         \/ /\ live # {}
            /\ LET sole == _sole_fresh_collection(live)
               IN  turn' = IF sole = {} THEN [read EXCEPT !.pc = "routing"]
                           ELSE [read EXCEPT !.action = "continue", !.exchange_id = CHOOSE e \in sole : TRUE]
  /\ asked' = {} /\ nudged' = {}
  /\ UNCHANGED exch

(* The lines a candidate takes in the router's prompt. *)
_describe(e) == turn.listed[e].lines

(* A title is collapsed to one line; a blank one (as many lines as it may  *)
(* have, no words) is none.                                                *)
_clean_title(lines) == IF lines = NoTitle THEN NoTitle ELSE 1

Known(ids) == ids \cap Shown
New(call) == [Idle EXCEPT !.cancel_ids = Known(call.cancel_exchange_ids)]

(* Anything unusable degrades to a new exchange, cancellations kept. *)
_parse_decision(call) ==
  CASE call.action \notin ROUTE_ACTIONS -> New(call)
    [] call.action = "continue" /\ call.exchange_id \notin Shown -> New(call)
    [] call.action = "continue" -> [New(call) EXCEPT !.action = "continue", !.exchange_id = call.exchange_id,
                                                    !.title = _clean_title(call.title)]
    [] OTHER -> [New(call) EXCEPT !.action = call.action]

Decided(decision) == turn' = [decision EXCEPT !.pc = "decided", !.listed = turn.listed]

(* The calls of the tool, with whatever arguments; a target and a title    *)
(* are read with "continue" alone.                                         *)
Calls ==
  LET Cancels == SUBSET Ids \cup {{Unknown}}
  IN  [action : {"continue"}, exchange_id : Ids \cup {Unknown}, cancel_exchange_ids : Cancels, title : 0..2]
        \cup [action : {"new", "command", "junk"}, exchange_id : {Unknown}, cancel_exchange_ids : Cancels,
              title : {NoTitle}]

route ==
  /\ turn.pc = "routing"
  /\ \E call \in Calls :
        asked' = Known(call.cancel_exchange_ids) /\ Decided(_parse_decision(call))
  /\ UNCHANGED <<exch, nudged, turns>>

(* The call fails, times out, or carries no tool call: a new exchange. *)
RouteFails ==
  /\ turn.pc = "routing"
  /\ Decided(Idle)
  /\ UNCHANGED <<exch, asked, nudged, turns>>

(* A run asks its question, or settles, while the message is routed. *)
RunAsks(e) ==
  /\ exch[e].status \in {"OPEN", "IN_PROGRESS"}
  /\ exch' = [exch EXCEPT ![e].status = "AWAITING_USER", ![e].stale = FALSE]
  /\ UNCHANGED <<turn, asked, nudged, turns>>

RunSettles(e) ==
  /\ exch[e].status \in LIVE \ {"COLLECTING"}
  /\ exch' = [exch EXCEPT ![e].status = "ANSWERED"]
  /\ UNCHANGED <<turn, asked, nudged, turns>>

TimePasses(e) ==
  /\ exch[e].status \in {"COLLECTING", "AWAITING_USER"} /\ ~exch[e].stale
  /\ exch' = [exch EXCEPT ![e].stale = TRUE]
  /\ UNCHANGED <<turn, asked, nudged, turns>>

(* The actor promotes a collection that settled: it is owed an answer, or  *)
(* its material moves into another exchange and the shell is dropped.      *)
_handle_promote(e) ==
  /\ turn.pc = "idle" /\ exch[e].status = "COLLECTING" /\ exch[e].stale
  /\ \/ exch' = [exch EXCEPT ![e].status = "OPEN"]
     \/ \E f \in Ids : /\ exch[f].status \in LIVE \ {"COLLECTING"}
                       /\ exch' = [exch EXCEPT ![e].status = "CANCELLED",
                                               ![f].status = IF @ = "IN_PROGRESS" THEN @ ELSE "OPEN"]
  /\ UNCHANGED <<turn, asked, nudged, turns>>

(* The cancellations, then the exchange the message joins or opens; a name *)
(* that cannot be written is not worth the answer.  An exchange is named   *)
(* after the message that opens it, lines and all.                         *)
Cancelled(rows) == [e \in Ids |-> IF e \in turn.cancel_ids THEN [rows[e] EXCEPT !.status = "CANCELLED"] ELSE rows[e]]

_retitle(rows, written) ==
  IF turn.title = NoTitle \/ ~written THEN rows
  ELSE [rows EXCEPT ![turn.exchange_id].lines = turn.title, ![turn.exchange_id].renamed = TRUE]

_apply_route ==
  /\ turn.pc = "decided"
  /\ CASE turn.action = "continue" ->
            \E written, started \in BOOLEAN : exch' = [_retitle(Cancelled(exch), written) EXCEPT
                ![turn.exchange_id].status = IF started THEN "IN_PROGRESS" ELSE @]
       [] turn.action = "new" /\ (\E e \in Ids : exch[e].status = "absent") ->
            \E lines \in 1..2 : LET e == CHOOSE e \in Ids : exch[e].status = "absent"
                                IN  exch' = [Cancelled(exch) EXCEPT ![e].status = "OPEN", ![e].lines = lines]
       [] OTHER -> exch' = Cancelled(exch)
  /\ turn' = [turn EXCEPT !.pc = "nudging", !.title = NoTitle]
  /\ asked' = {}
  /\ UNCHANGED <<nudged, turns>>

(* Reminders from the same read: a question that waited long when the      *)
(* message came, of another exchange than the message's own or cancelled.  *)
ToNudge == {e \in Shown : /\ e # turn.exchange_id /\ e \notin turn.cancel_ids
                          /\ turn.listed[e].status = "AWAITING_USER" /\ turn.listed[e].stale}

_nudge_stale_exchanges ==
  /\ turn.pc = "nudging"
  /\ nudged' = ToNudge
  /\ turn' = [turn EXCEPT !.pc = "idle", !.listed = Idle.listed, !.action = "new"]
  /\ UNCHANGED <<exch, asked, turns>>

Next ==
  \/ _route \/ route \/ RouteFails \/ _apply_route \/ _nudge_stale_exchanges
  \/ \E e \in Ids : RunAsks(e) \/ RunSettles(e) \/ TimePasses(e) \/ _handle_promote(e)

Spec == Init /\ [][Next]_vars

-----------------------------------------------------------------------------
(* Properties *)

RoutingTypeOK ==
  /\ exch \in [Ids -> [status : LIVE \cup {"absent", "ANSWERED", "CANCELLED"}, lines : 1..2,
                       stale : BOOLEAN, renamed : BOOLEAN]]
  /\ turn.pc \in {"idle", "routing", "decided", "nudging"} /\ turn.action \in ROUTE_ACTIONS
  /\ Shown \subseteq Ids /\ asked \subseteq Ids /\ nudged \subseteq Ids /\ turns \in 0..MaxTurns

(* router.py _parse_decision: whatever the model calls the tool with, a     *)
(* message only ever joins an exchange the model was shown, and only such   *)
(* exchanges are cancelled.                                                 *)
OnlyShown ==
  /\ turn.action = "continue" => turn.exchange_id \in Shown
  /\ turn.pc # "idle" => turn.cancel_ids \subseteq Shown

(* router.py _parse_decision: an unusable action or target never costs the  *)
(* user a stop they asked for.  Every shown exchange the model named for    *)
(* cancelling is in the decision, until that is carried out.                *)
StopSurvives == asked \subseteq turn.cancel_ids

(* runner.py _nudge_stale_exchanges: the user is not reminded of a question *)
(* of the exchange their message just joined, nor of one it cancelled.      *)
ReminderIsOfAnother ==
  \A e \in nudged : e # turn.exchange_id /\ e \notin turn.cancel_ids

(* router.py _clean_title: a name the router gave takes one line among the  *)
(* candidates of every later decision (the name an exchange is opened with, *)
(* the message itself, may take several).                                   *)
NameIsOneLine == turn.pc = "routing" => \A e \in Shown : turn.listed[e].renamed => _describe(e) = 1

=============================================================================
