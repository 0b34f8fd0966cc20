------------------------------ MODULE McpWire ------------------------------
(***************************************************************************)
(* The MCP client on the wire: one operation is the handshake and then the *)
(* request, or the pages of tools/list, each a guarded POST answered with  *)
(* plain JSON or with an event stream.  The server answers anything.       *)
(***************************************************************************)
EXTENDS Naturals, Sequences, FiniteSets, SequencesExt

CONSTANTS
    Sessions,         \* Mcp-Session-Id values a server may hand out
    MAX_LIST_PAGES,
    MaxEvents         \* events of one stream

VARIABLES
    op,       \* the operation: method, where it is, session, pages so far
    given,    \* the session id initialize answered with
    answer,   \* the last response
    sent      \* the requests sent: method and session header

wireVars == <<op, given, answer, sent>>

None == "none"
Methods == {"tools/list", "tools/call"}

(* What a JSON-RPC message may be: a notification, a result (with or        *)
(* without the member the method needs), an error, or no message at all.    *)
Messages == {"note", "result", "bare", "error", "junk"}

Response == [refused : BOOLEAN,       \* the guard, the transport or HTTP >= 400
             truncated : BOOLEAN,
             sse : BOOLEAN,
             events : BoundedSeq(Messages, MaxEvents),
             session : Sessions \cup {None},
             more : BOOLEAN]          \* result.nextCursor

(* The responses worth telling apart: only a full answer carries a body. *)
Responses ==
    {r \in Response : /\ r.refused \/ r.truncated => r.events = <<>> /\ ~r.more
                      /\ ~r.sse /\ ~r.refused /\ ~r.truncated => Len(r.events) = 1}

NoAnswer == [refused |-> TRUE, truncated |-> FALSE, sse |-> FALSE, events |-> <<>>,
             session |-> None, more |-> FALSE]

WireInit ==
    /\ op \in [method : Methods, pc : {"initialize"}, session : {None}, pages : {0}]
    /\ given = None
    /\ answer = NoAnswer
    /\ sent = <<>>

-----------------------------------------------------------------------------
(* The last message with a result or an error, past any notifications. *)
_last_sse_message(events) ==
    LET at == {i \in DOMAIN events : events[i] \in {"result", "bare", "error"}}
    IN IF at = {} THEN None ELSE events[CHOOSE i \in at : \A j \in at : i >= j]

_parse_json(events) == IF events[1] = "junk" THEN None ELSE events[1]

(* One POST: None stands for the McpError it raises. *)
_post(r) ==
    IF r.refused \/ r.truncated THEN None
    ELSE IF r.sse THEN _last_sse_message(r.events) ELSE _parse_json(r.events)

(* Neither an error nor a message without a result is a result. *)
_expect_result(message) == message \in {"result", "bare"}

_rpc_request(method, session) == [method |-> method, session |-> session]

Fail == op' = [op EXCEPT !.pc = "failed"]

(* initialize; the session is the one the answer carried. *)
initialize(r) ==
    /\ op.pc = "initialize"
    /\ answer' = r
    /\ sent' = Append(sent, _rpc_request("initialize", None))
    /\ given' = r.session
    /\ IF _expect_result(_post(r))
       THEN op' = [op EXCEPT !.pc = "notify", !.session = r.session]
       ELSE Fail

(* notifications/initialized expects no body, only that it is not refused. *)
initialized(r) ==
    /\ op.pc = "notify"
    /\ answer' = r
    /\ sent' = Append(sent, _rpc_request("initialized", op.session))
    /\ IF r.refused \/ r.truncated THEN Fail ELSE op' = [op EXCEPT !.pc = "request"]
    /\ UNCHANGED given

(* The next page while there is a cursor and the limit is not reached. *)
NextPage(r) ==
    IF r.more /\ op.pages + 1 < MAX_LIST_PAGES THEN [op EXCEPT !.pages = @ + 1]
    ELSE [op EXCEPT !.pages = @ + 1, !.pc = "done"]

list_tools(r) ==
    /\ op.pc = "request" /\ op.method = "tools/list"
    /\ answer' = r
    /\ sent' = Append(sent, _rpc_request(op.method, op.session))
    /\ IF _post(r) = "result" THEN op' = NextPage(r) ELSE Fail
    /\ UNCHANGED given

(* A result without content blocks is an empty text. *)
call_tool(r) ==
    /\ op.pc = "request" /\ op.method = "tools/call"
    /\ answer' = r
    /\ sent' = Append(sent, _rpc_request(op.method, op.session))
    /\ IF _expect_result(_post(r)) THEN op' = [op EXCEPT !.pc = "done"] ELSE Fail
    /\ UNCHANGED given

(* Only initialize reads the session of an answer. *)
WireNext ==
    \/ op.pc = "initialize" /\ \E r \in Responses : initialize(r)
    \/ op.pc # "initialize" /\ \E r \in {r \in Responses : r.session = None} :
           initialized(r) \/ list_tools(r) \/ call_tool(r)

WireSpec == WireInit /\ [][WireNext]_wireVars

-----------------------------------------------------------------------------
WireTypeOK ==
    /\ op.pc \in {"initialize", "notify", "request", "done", "failed"}
    /\ op.pages \in Nat
    /\ answer \in Response

(* Every request after the handshake names the session the server opened    *)
(* for this operation, on every page of a listing.                          *)
OneSession ==
    \A i \in DOMAIN sent : sent[i].session = (IF i = 1 THEN None ELSE given)

(* An operation that succeeds got a whole answer whose last word is a       *)
(* result: a cut stream, a late error or stray messages never pass for one. *)
SuccessIsAnswered ==
    op.pc = "done" =>
        /\ ~answer.refused /\ ~answer.truncated
        /\ \E i \in DOMAIN answer.events :
              /\ answer.events[i] \in {"result", "bare"}
              /\ \A j \in DOMAIN answer.events : j > i => answer.events[j] # "error"

(* A server that hands out cursors forever does not hold the client: the    *)
(* handshake and MAX_LIST_PAGES requests are all it ever sends.             *)
ListingEnds == Len(sent) <= 2 + MAX_LIST_PAGES
=============================================================================
