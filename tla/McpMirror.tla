----------------------------- MODULE McpMirror -----------------------------
(***************************************************************************)
(* MCP servers: registering one (deduplicated by URL), mirroring its tool  *)
(* list into public endpoint records, the usage skill written from it, and *)
(* the call of a mirrored tool.  A user's mcp_add and the hourly loop sync *)
(* the same server in overlapping steps; the server's list may change and  *)
(* its answers may fail at any time.                                       *)
(*                                                                         *)
(* A tool is its name and a version of its description; a list is a        *)
(* function from the tools to versions, 0 where the tool is absent.        *)
(***************************************************************************)
EXTENDS Naturals, FiniteSets

CONSTANTS
    Urls,
    Authenticated,          \* the URLs whose server answers only with a token
    Names,
    Users,
    TokenHolders,           \* who may have stored a token: sets of users
    Tools,                  \* an initial segment of 1, 2, ...: the listing order
    Revised,                \* the tools a server may change
    MAX_TOOLS_PER_SERVER,
    MAX_LIST_PAGES,
    PageSizes,              \* tools a server may put on one page
    MaxChanges,             \* changes of an upstream list
    Earlier,                \* the rows an installation may start with, never yet mirrored
    MaxStarts               \* mcp_add calls and sweeps

VARIABLES
    upstream,   \* what each server lists now, and its page size
    servers,    \* McpServerRow by URL: name, tools_fingerprint
    links,      \* McpServerLinkRow: <<url, user>>
    tokens,     \* the users who stored a token for the servers
    mirror,     \* the endpoint records mcp/{server}/{tool} by server name
    skill,      \* the list the skill mcp/{server} was written from, by URL
    ruling,     \* the lists the generator has ruled on, by URL
    workers,    \* the mcp_add calls and the loop
    report,     \* what the step just taken completed
    used

mcpVars == <<upstream, servers, links, tokens, mirror, skill, ruling, workers, report, used>>

Workers == Users \cup {"loop"}
None == "none"
Lists == [Tools -> 0..2]
Nothing == [x \in Tools |-> 0]
NoServer == [name |-> None, fp |-> Nothing]
NoReport == [type |-> None, url |-> None, raced |-> FALSE, list |-> Nothing,
             user |-> None, token |-> None]
Off == [pc |-> "off", url |-> None, name |-> None, fp |-> Nothing, list |-> Nothing,
        todo |-> {}, raced |-> FALSE, rest |-> {}]

Registered == {url \in Urls : servers[url] # NoServer}
Taken(name) == \E url \in Registered : servers[url].name = name
Size(list) == Cardinality({x \in Tools : list[x] # 0})

McpInit ==
    /\ \E size \in PageSizes :
          upstream = [url \in Urls |-> [list |-> [x \in Tools |-> 1], page |-> size]]
    /\ \E names \in Earlier :
          servers = [url \in Urls |-> [name |-> names[url], fp |-> Nothing]]
    /\ links = {<<url, u>> \in Urls \X Users : servers[url] # NoServer}
    /\ tokens \in TokenHolders
    /\ mirror = [name \in Names |-> Nothing]
    /\ skill = [url \in Urls |-> Nothing]
    /\ ruling = [url \in Urls |-> {}]
    /\ workers = [w \in Workers |-> Off]
    /\ report = NoReport
    /\ used = [changes |-> 0, starts |-> 0]

-----------------------------------------------------------------------------
(* The listing *)

(* The pages are followed to the last one or to MAX_LIST_PAGES. *)
list_tools(url) ==
    LET reach == MAX_LIST_PAGES * upstream[url].page
        place(x) == Cardinality({y \in Tools : y <= x /\ upstream[url].list[y] # 0})
    IN [x \in Tools |-> IF place(x) <= reach THEN upstream[url].list[x] ELSE 0]

Whole(url) == Size(upstream[url].list) <= MAX_LIST_PAGES * upstream[url].page

(* The server drops a tool or describes it anew; a sync that has its list   *)
(* already is overtaken.                                                    *)
Upstream(url, x, v) ==
    /\ used.changes < MaxChanges
    /\ v # upstream[url].list[x]
    /\ used' = [used EXCEPT !.changes = @ + 1]
    /\ upstream' = [upstream EXCEPT ![url].list[x] = v]
    /\ workers' = [w \in Workers |-> IF workers[w].url = url /\ workers[w].pc \in {"diff", "write"}
                                     THEN [workers[w] EXCEPT !.raced = TRUE] ELSE workers[w]]
    /\ report' = NoReport
    /\ UNCHANGED <<servers, links, tokens, mirror, skill, ruling>>

-----------------------------------------------------------------------------
(* mcp_add: register, then sync *)

(* The slug and the normalised URL are the inputs; the row is looked up. *)
execute_add(u, url, name) ==
    /\ workers[u] = Off
    /\ used.starts < MaxStarts
    /\ used' = [used EXCEPT !.starts = @ + 1]
    /\ workers' = [workers EXCEPT ![u] =
          [Off EXCEPT !.pc = IF url \in Registered THEN "link" ELSE "insert",
                      !.url = url, !.name = name]]
    /\ report' = NoReport
    /\ UNCHANGED <<upstream, servers, links, tokens, mirror, skill, ruling>>

(* The insert; a unique violation is resolved by looking for the URL again, *)
(* and otherwise the name belongs to another URL.                           *)
add(u) ==
    /\ workers[u].pc = "insert"
    /\ LET url == workers[u].url
           clash == url \in Registered \/ Taken(workers[u].name)
       IN /\ servers' = IF clash THEN servers
                        ELSE [servers EXCEPT ![url] = [name |-> workers[u].name, fp |-> Nothing]]
          /\ workers' = [workers EXCEPT ![u] =
                IF clash /\ url \notin Registered THEN Off ELSE [@ EXCEPT !.pc = "link"]]
    /\ report' = NoReport
    /\ UNCHANGED <<upstream, links, tokens, mirror, skill, ruling, used>>

(* The link, then the row as it is now goes to the sync. *)
_link(u) ==
    /\ workers[u].pc = "link"
    /\ links' = links \cup {<<workers[u].url, u>>}
    /\ workers' = [workers EXCEPT ![u] =
          [@ EXCEPT !.pc = "list", !.name = servers[workers[u].url].name,
                    !.fp = servers[workers[u].url].fp]]
    /\ report' = NoReport
    /\ UNCHANGED <<upstream, servers, tokens, mirror, skill, ruling, used>>

-----------------------------------------------------------------------------
(* The loop *)

(* list_all is read once; the sweep walks it. *)
sync_all ==
    /\ workers["loop"] = Off
    /\ used.starts < MaxStarts
    /\ Registered # {}
    /\ used' = [used EXCEPT !.starts = @ + 1]
    /\ \E url \in Registered :
          workers' = [workers EXCEPT !["loop"] =
             [Off EXCEPT !.pc = "list", !.url = url, !.name = servers[url].name,
                         !.fp = servers[url].fp,
                         !.rest = {<<other, servers[other].fp>> : other \in Registered \ {url}}]]
    /\ report' = NoReport
    /\ UNCHANGED <<upstream, servers, links, tokens, mirror, skill, ruling>>

(* What is left of a worker after one server: the loop goes on with the     *)
(* next one, on the row it read when the sweep began.                       *)
Onward(w) ==
    IF w # "loop" \/ workers[w].rest = {} THEN {Off}
    ELSE {[Off EXCEPT !.pc = "list", !.url = row[1], !.name = servers[row[1]].name, !.fp = row[2],
                      !.rest = workers[w].rest \ {row}] : row \in workers[w].rest}

-----------------------------------------------------------------------------
(* sync_server *)

(* Whose token the listing carries: the adding user's own, or for the loop  *)
(* that of a linked user who has one.                                       *)
_callers_secret(u) == {u} \cap tokens
_subscriber_secret(url) == {u \in tokens : <<url, u>> \in links}

Admitted(w, url) ==
    url \in Authenticated =>
        (IF w = "loop" THEN _subscriber_secret(url) ELSE _callers_secret(w)) # {}

(* The listing fails (transport, a refused token, over the cap): the error  *)
(* lands on the row and the worker is done with this server.                *)
ListFails(w) ==
    /\ workers[w].pc = "list"
    /\ \E next \in Onward(w) : workers' = [workers EXCEPT ![w] = next]
    /\ report' = NoReport
    /\ UNCHANGED <<upstream, servers, links, tokens, mirror, skill, ruling, used>>

ListAnswers(w) ==
    /\ workers[w].pc = "list"
    /\ LET url == workers[w].url
           list == list_tools(url)
       IN /\ Admitted(w, url)
          /\ Size(list) <= MAX_TOOLS_PER_SERVER
          /\ workers' = [workers EXCEPT ![w] =
                [@ EXCEPT !.pc = "diff", !.list = list]]
    /\ report' = NoReport
    /\ UNCHANGED <<upstream, servers, links, tokens, mirror, skill, ruling, used>>

(* The records to write and to delete. *)
Delta(have, want) == {x \in Tools : have[x] # want[x]}

ReadMirror(w) ==
    /\ workers[w].pc = "diff"
    /\ workers' = [workers EXCEPT ![w] =
          [@ EXCEPT !.pc = "write", !.todo = Delta(mirror[workers[w].name], workers[w].list)]]
    /\ report' = NoReport
    /\ UNCHANGED <<upstream, servers, links, tokens, mirror, skill, ruling, used>>

(* One record saved or deleted; whoever is writing the same slice has been  *)
(* raced.                                                                   *)
WriteRecord(w, x) ==
    /\ workers[w].pc = "write"
    /\ x \in workers[w].todo
    /\ mirror' = [mirror EXCEPT ![workers[w].name][x] = workers[w].list[x]]
    /\ workers' = [v \in Workers |->
          IF v = w THEN [workers[w] EXCEPT !.todo = @ \ {x}]
          ELSE IF workers[v].pc = "write" /\ workers[v].name = workers[w].name
               THEN [workers[v] EXCEPT !.raced = TRUE]
          ELSE workers[v]]
    /\ report' = NoReport
    /\ UNCHANGED <<upstream, servers, links, tokens, skill, ruling, used>>

RulingDue(w) == workers[w].list # Nothing /\ workers[w].list # workers[w].fp

(* mark_synced, and on to the skill when the list is a new one. *)
MirrorDone(w) ==
    /\ workers[w].pc = "write"
    /\ workers[w].todo = {}
    /\ \E next \in Onward(w) :
          workers' = [workers EXCEPT ![w] =
             IF RulingDue(w) THEN [@ EXCEPT !.pc = "skill"] ELSE next]
    /\ report' = [NoReport EXCEPT !.type = "sync", !.url = workers[w].url,
                                  !.raced = workers[w].raced,
                                  !.list = workers[w].list]
    /\ UNCHANGED <<upstream, servers, links, tokens, mirror, skill, ruling, used>>

(* The generator recognizes a pattern and writes the skill, or does not. *)
refresh(w, recognized) ==
    /\ workers[w].pc = "skill"
    /\ ruling' = [ruling EXCEPT ![workers[w].url] = @ \cup {workers[w].list}]
    /\ skill' = IF recognized THEN [skill EXCEPT ![workers[w].url] = workers[w].list] ELSE skill
    /\ workers' = [workers EXCEPT ![w].pc = "fingerprint"]
    /\ report' = NoReport
    /\ UNCHANGED <<upstream, servers, links, tokens, mirror, used>>

(* The model fails or answers off-format: no fingerprint, the next sweep    *)
(* asks again.                                                              *)
refresh_fails(w) ==
    /\ workers[w].pc = "skill"
    /\ \E next \in Onward(w) : workers' = [workers EXCEPT ![w] = next]
    /\ report' = NoReport
    /\ UNCHANGED <<upstream, servers, links, tokens, mirror, skill, ruling, used>>

set_tools_fingerprint(w) ==
    /\ workers[w].pc = "fingerprint"
    /\ servers' = [servers EXCEPT ![workers[w].url].fp = workers[w].list]
    /\ \E next \in Onward(w) : workers' = [workers EXCEPT ![w] = next]
    /\ report' = NoReport
    /\ UNCHANGED <<upstream, links, tokens, mirror, skill, ruling, used>>

-----------------------------------------------------------------------------
(* The call of a mirrored tool *)

(* The caller's own token; none stored is a refusal. *)
_resolve_secret(u, url) == IF url \in Authenticated THEN {u} \cap tokens ELSE {None}

(* The record names its server; the server is found by name and called with *)
(* the caller's token.                                                      *)
execute(u, name, x) ==
    /\ mirror[name][x] # 0
    /\ \E url \in Registered :
          /\ servers[url].name = name
          /\ \E token \in _resolve_secret(u, url) :
                report' = [NoReport EXCEPT !.type = "call", !.url = url, !.user = u, !.token = token]
    /\ UNCHANGED <<upstream, servers, links, tokens, mirror, skill, ruling, workers, used>>

McpNext ==
    \/ \E url \in Registered, x \in Revised, v \in {0, 2} : Upstream(url, x, v)
    \/ \E u \in Users, url \in Urls, name \in Names : execute_add(u, url, name)
    \/ \E u \in Users : add(u) \/ _link(u)
    \/ sync_all
    \/ \E w \in Workers : \/ ListFails(w) \/ ListAnswers(w) \/ ReadMirror(w) \/ MirrorDone(w)
                          \/ \E x \in Tools : WriteRecord(w, x)
                          \/ \E recognized \in BOOLEAN : refresh(w, recognized)
                          \/ refresh_fails(w) \/ set_tools_fingerprint(w)
    \/ \E u \in Users, name \in Names, x \in Tools : execute(u, name, x)

McpSpec == McpInit /\ [][McpNext]_mcpVars

-----------------------------------------------------------------------------
McpTypeOK ==
    /\ servers \in [Urls -> [name : Names \cup {None}, fp : Lists]]
    /\ links \subseteq Urls \X Users
    /\ mirror \in [Names -> Lists]
    /\ skill \in [Urls -> Lists] /\ ruling \in [Urls -> SUBSET Lists]
    /\ \A w \in Workers : workers[w].todo \subseteq Tools

(* A name leads to one server: two first adds of one URL share a row, and a *)
(* name taken by another URL is refused, so a mirrored record is never      *)
(* executed against a server other than the one it was listed by.           *)
OneServerPerName ==
    \A url, other \in Registered : servers[url].name = servers[other].name => url = other

(* A sync that nothing overtook (no other sync wrote into its slice, the    *)
(* server did not change) leaves exactly the tools the server offers, or    *)
(* the ones on the first MAX_LIST_PAGES pages where it has more: no record  *)
(* of a tool that is gone, none missing, whatever was mirrored before.      *)
MirrorExact ==
    report.type = "sync" /\ ~report.raced =>
        mirror[servers[report.url].name] =
            IF Whole(report.url) THEN upstream[report.url].list ELSE report.list

(* The recorded fingerprint is of a list the generator ruled on: a failing  *)
(* model never silences the next attempt.                                   *)
FingerprintIsRuled ==
    \A url \in Registered : servers[url].fp \in ruling[url] \cup {Nothing}

(* A call carries the caller's own token, never a borrowed one. *)
OwnToken ==
    report.type = "call" /\ report.url \in Authenticated => report.token = report.user
=============================================================================
