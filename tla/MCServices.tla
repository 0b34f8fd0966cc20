----------------------------- MODULE MCServices -----------------------------
(***************************************************************************)
(* The services around a conversation, checked side by side: a behaviour   *)
(* is a behaviour of the one component "part" names. Admission,            *)
(* EmbeddingCache, EndpointCalls and Outbox, about which there are proofs, *)
(* have their own variables; the others share s1, s2, ... in the order     *)
(* they declare their variables. The components do not interact here, and  *)
(* all but one stand still. The values of the constants are chosen so that *)
(* the cases each component is about happen.                               *)
(***************************************************************************)
EXTENDS Integers, TLC, Admission, EmbeddingCache, EndpointCalls, Outbox

VARIABLES part,  \* the component of this behaviour
          s1, s2, s3, s4, s5, s6, s7, s8, s9, s10, s11

ownVars == <<admissionVars, cacheVars, callVars, outboxVars>>
slots == <<s1, s2, s3, s4, s5, s6, s7, s8, s9, s10, s11>>
familyVars == <<part, ownVars, slots>>

(* AdminViews: the pages a console asks for; -1 leaves the default. *)
PageLimits == {-1, 0, 9}
PageOffsets == {-1, 1}

(* Collections: pages that stop at the ceiling, that repeat, that fail, that *)
(* hold more than the cap, that the wire limit cuts.                         *)
Page(status, n, next, cut) == [status |-> status, n |-> n, next |-> next, cut |-> cut]
Servers == {
  [pages |-> <<Page("ok", 1, -1, FALSE), Page("ok", 1, -1, FALSE), Page("ok", 1, -1, FALSE)>>, total |-> 0],
  [pages |-> <<Page("ok", 1, 2, FALSE), Page("ok", 1, 1, FALSE)>>, total |-> 0],
  [pages |-> <<Page("ok", 2, 2, FALSE), Page("error", 1, 0, FALSE)>>, total |-> 3],
  [pages |-> <<Page("ok", 3, 0, FALSE)>>, total |-> 3],
  [pages |-> <<Page("ok", 2, 0, TRUE)>>, total |-> 0]}

(* CollectionQuery: records with a missing field (0), a JSON null (1) and    *)
(* numbers whose order as text is another; queries of every operation.       *)
Records == {[f |-> v, g |-> w, source |-> "s"] : v \in {0, 1, 9, 10}, w \in {0, 2}} \cup {[f |-> 9, g |-> 3, source |-> "t"]}
Filters == {<<"none", "none">>, <<"gt", "9">>, <<"lte", "9">>, <<"ne", "'9'">>, <<"gt", "'9'">>, <<"eq", "null">>, <<"gt", "null">>}
Query(op, filter, group, join, limit, offset, source) ==
  [op |-> op, field |-> IF op \in {"pluck", "distinct", "sum", "max"} THEN "f" ELSE "none",
   filter |-> filter[1], value |-> filter[2], group |-> group, join |-> join,
   source |-> source, limit |-> limit, offset |-> offset]
Queries ==
  {Query(op, f, FALSE, FALSE, l, o, "none") : op \in {"get", "distinct"}, f \in Filters, l \in {0, 9}, o \in {0, 1}}
  \cup {Query(op, <<"none", "none">>, TRUE, FALSE, l, o, "none") : op \in {"count", "sum", "max", "get"}, l \in {1, 9}, o \in {0, 1}}
  \cup {Query(op, <<"ne", "'9'">>, FALSE, FALSE, 1, 0, "s") : op \in {"pluck", "count", "sum", "max"}}
  \cup {Query(op, <<"none", "none">>, FALSE, TRUE, l, 0, "none") : op \in {"get", "count", "max"}, l \in {1, 9}}

Schemas == {[type |-> "integer", required |-> TRUE], [type |-> "boolean", required |-> FALSE]}

(* Datasets: no dataset, or more records than a scan reads, on both sides of *)
(* a midnight (times are half days).                                         *)
StoredRecords == {<<>>, <<[at |-> 1, payload |-> "int"], [at |-> 2, payload |-> "null"], [at |-> 3, payload |-> "int"]>>}

(* EmbeddingCache: one text, and a request that repeats one. *)
EmbeddedTexts == {<<"x">>, <<"x", "y", "x">>}

(* EndpointCalls: endpoint documents over one parameter, legal and not. *)
ToolParam(kind, required) == [p |-> [kind |-> kind, required |-> required]]
RequiredParam == ToolParam("string", TRUE)
OptionalParam == ToolParam("string", FALSE)
HostParam == ToolParam("host", TRUE)
NoParam == ToolParam("none", FALSE)
Document(params, authority, url, header, body, hosts, paging) ==
  [params |-> params, authority |-> authority, refs |-> [url |-> url, header |-> header, body |-> body],
   hosts |-> hosts, paging |-> paging]
EndpointDocuments == {
  Document(RequiredParam, {}, {"p"}, {"secret"}, {}, {"h"}, "p"), Document(OptionalParam, {}, {"p"}, {}, {}, {"h"}, "p"),
  Document(NoParam, {}, {}, {"secret"}, {"p"}, {"h"}, "none"), Document(HostParam, {"p"}, {}, {"secret"}, {"user"}, {"h"}, "p"),
  Document(HostParam, {"p"}, {}, {"secret"}, {"secret"}, {"h", "g"}, "none"), Document(HostParam, {"p"}, {}, {}, {}, {}, "none"),
  Document(RequiredParam, {"p"}, {}, {}, {}, {"h"}, "none"), Document(OptionalParam, {"secret"}, {}, {}, {}, {"h"}, "none"),
  Document(OptionalParam, {"user"}, {"secret"}, {}, {"user"}, {"h"}, "none"), Document(NoParam, {}, {}, {}, {}, {"h"}, "p")}

(* HttpGate: each header proves what it is called. *)
Knows == [h \in {"operator", "service", "wrong", "garbled"} |-> h]

(* HistorySearch: two dialogs whose seqs collide, and dates with and without *)
(* a time of day (-1: no date).                                              *)
Archived(dialog, seq, at, word, weight) == [dialog |-> dialog, seq |-> seq, at |-> at, word |-> word, weight |-> weight]
Archive == <<Archived("d", 1, 2, "w", 1), Archived("o", 1, 2, "w", 3), Archived("d", 2, 3, "w", 2),
             Archived("o", 2, 3, "v", 1), Archived("d", 3, 4, "w", 3)>>
Day(d) == [day |-> d, half |-> 0, dateOnly |-> TRUE]
Noon(d) == [day |-> d, half |-> 1, dateOnly |-> FALSE]
NoDate == Day(-1)
Asked(word, short, topic, from, to, limit) ==
  [word |-> word, short |-> short, topic |-> topic, from |-> from, to |-> to, limit |-> limit]
SearchArguments ==
  {Asked("w", FALSE, "", Day(1), to, l) : to \in {Day(1), Noon(1)}, l \in {-1, 1}}
  \cup {Asked("w", FALSE, "t", NoDate, Day(1), -1), Asked("", FALSE, "", NoDate, NoDate, 1),
        Asked("w", TRUE, "", NoDate, Day(1), 1), Asked("w", FALSE, "", NoDate, NoDate, 4)}

(* Invitations: both jobs on, or one that was off before anything happened. *)
JobStates == {[x |-> "on", y |-> s] : s \in {"on", "off"}}

(* LlmBackends: a Retry-After of nothing, of seconds, past the ceiling; a    *)
(* value names in its last digit the index it was computed for.              *)
RetryHints == {0, 5, 400}
Items == UNION {{[index |-> k, value |-> 10 + k], [index |-> k, value |-> 20 + k]} : k \in 0..2}
BackendAnswers == UNION {[1..n -> Items] : n \in 1..3}

(* MediaIntake: a length nobody knows, and lengths about the bounds. *)
Lengths == {-1, 0, 3, 4}

(* MessageLog: three writers among a submit, a closing unit, a salvage and a *)
(* unit that writes before it appends, and a unit that spawns a child task.  *)
Program(unit, calls, key, spawns) == [unit |-> unit, calls |-> calls, key |-> key, spawns |-> spawns]
Submit == Program(FALSE, <<"append">>, "k", FALSE)
Closing(spawns) == Program(TRUE, <<"append", "write">>, "none", spawns)
Programs == <<Submit, Closing(FALSE), Program(TRUE, <<"append_pair", "write">>, "none", FALSE),
              Program(TRUE, <<"write", "append_pair">>, "none", FALSE)>>
Casts == {[w \in {"a", "b", "c"} |-> Programs[IF w = "a" THEN i ELSE IF w = "b" THEN j ELSE k]] :
             <<i, j, k>> \in {t \in (1..4) \X (1..4) \X (1..4) : t[1] <= t[2] /\ t[2] <= t[3]}}
         \cup {[w \in {"a", "b", "c"} |-> IF w = "a" THEN Closing(TRUE) ELSE Submit]}

(* McpMirror: one of two servers was connected before. *)
Earlier == {[url \in {"U", "V"} |-> IF url = "U" THEN "n" ELSE "none"]}

(* Retention: no limit, one, all but one, all.                               *)
LimitedTables == {{}, {"messages"}, {"exchanges"}, {"exchanges", "tasks", "usage"}, {"messages", "exchanges", "tasks", "usage"}}

(* RecordHunt: every JSON tree of up to four nodes, and sheets of rows. *)
Shapes == {[kind |-> "object", size |-> 0], [kind |-> "records", size |-> 1],
           [kind |-> "records", size |-> 3], [kind |-> "list", size |-> 2]}
TreeNode(shape, parent) == [kind |-> shape.kind, size |-> shape.size, parent |-> parent]
Roots == {<<TreeNode([kind |-> k, size |-> n], 1)>> : <<k, n>> \in {<<"object", 0>>, <<"records", 3>>, <<"list", 0>>}}
Grown(trees) == {Append(t, TreeNode(shape, p)) : t \in trees, shape \in Shapes, p \in 1..4}
Valid(trees) == {t \in trees : \A i \in 2..Len(t) : t[i].parent < i /\ t[t[i].parent].kind = "object"}
Twos == Valid(Grown(Roots))
Threes == Valid(Grown(Twos))
Bodies == Roots \cup Twos \cup Threes \cup Valid(Grown(Threes))
Sheets == {<<2>>, <<2, 2>>, <<2, 3, 1>>, <<1, 1, 1, 1>>}

(* Ranking: four records in an order their ids do not follow. *)
RecordTypes == <<"skill", "skill", "skill", "memory">>
RecordIds == <<3, 1, 4, 2>>
LexicalAnswers == {<<>>, <<1>>, <<4, 3>>}

(* SkillRegistry: two nodes that were deployed with different overlays. *)
OverlayEntry(key, usable, content, append) == [key |-> key, usable |-> usable, content |-> content, append |-> append]
Registry == [n \in {"a", "b"} |-> IF n = "a" THEN <<1, 2>> ELSE <<2>>]
Overlay == [n \in {"a", "b"} |->
  IF n = "a" THEN <<OverlayEntry(2, TRUE, "none", "more"), OverlayEntry(3, TRUE, "none", "typo"), OverlayEntry(1, FALSE, "x", "none")>>
  ELSE <<OverlayEntry(3, TRUE, "house", "none")>>]

(* Tariffs: one starter plan, with the smallest budgets. *)
Budgets == [messages |-> 1, answers |-> 1, tokens |-> 2]

(* UserMigrations: a web user is called what a Telegram account is. *)
TelegramIds == [h \in {"tg:1", "tg:2"} |-> IF h = "tg:1" THEN "1" ELSE "2"]

AdminViews == INSTANCE AdminViews WITH
  view <- s1, table <- s2, page <- s3, shown <- s4, changes <- s5,
  MaxRows <- 3, Times <- {0, 1}, Names <- {1, 2}, Limits <- PageLimits,
  Offsets <- PageOffsets, DEFAULT_PAGE_SIZE <- 2, MAX_PAGE_SIZE <- 3,
  MaxChanges <- 1

CollectionQuery == INSTANCE CollectionQuery WITH
  records <- s1, numeric <- s2, known <- s3, call <- s4, disturbed <- s5,
  Records <- Records, MaxRecords <- 2, Queries <- Queries,
  query_max_limit <- 4

Collections == INSTANCE Collections WITH
  row <- s1, recs <- s2, lru <- s3, call <- s4, past <- s5,
  Calls <- Requests, Cols <- {1, 2, 3}, Servers <- Servers, Ceiling <- 2,
  MaxRecords <- 2, MaxPerUser <- 2, MaxBytes <- 2, MaxExpiries <- 1

Compaction == INSTANCE Compaction WITH
  archive <- s1, summary <- s2, narrative <- s3, pending <- s4, asm <- s5,
  tasks <- s6, branch <- s7, watermark <- s8, Pumps <- {1}, Tasks <- {1, 2},
  hot_max_chars <- 2, compact_target_chars <- 2, SEGMENT_FETCH_LIMIT <- 3,
  MaxMessages <- 3

Datasets == INSTANCE Datasets WITH
  datasets <- s1, records <- s2, calls <- s3, overlapped <- s4,
  Calls <- Requests, Names <- {"a", "b"}, Schemas <- Schemas,
  Payloads <- {"int", "null"}, Cap <- 1, MAX_SCAN_ROWS <- 2, Limits <- {1, 2},
  Stored <- StoredRecords, MaxDatasets <- 2, MaxRecords <- 2, Times <- {3}

HistorySearch == INSTANCE HistorySearch WITH
  store <- s1, arrived <- s2, deleted <- s3, summaries <- s4, call <- s5,
  Archive <- Archive, Arguments <- SearchArguments,
  Stores <- {"portable", "postgres", "sqlite"}, MaxLimit <- 3,
  DefaultLimit <- 3

HttpGate == INSTANCE HttpGate WITH
  req <- s1, _failures <- s2, cache <- s3, service_cache <- s4, now <- s5,
  verified <- s6, burnt <- s7, Requests <- Requests, Clients <- {"c", "d"},
  Paths <- {"open", "dialog", "operator", "console"},
  Headers <- {"operator", "service", "wrong", "garbled"}, Knows <- Knows,
  MAX_FAILED_ATTEMPTS <- 2, ATTEMPT_COOLDOWN_SECONDS <- 1,
  MAX_TRACKED_CLIENTS <- 1, CREDENTIAL_CACHE_SECONDS <- 1,
  MAX_CACHED_CREDENTIALS <- 1, MaxTime <- 2

Instructions == INSTANCE Instructions WITH
  rows <- s1, op <- s2, sweep <- s3, past <- s4, Users <- {"u"},
  Workers <- Requests, Kinds <- {"skill", "memory"}, MaxContents <- 1,
  MaxCalls <- 3, MaxIds <- 2, MaxSweeps <- 1

Invitations == INSTANCE Invitations WITH
  invite <- s1, referral <- s2, job <- s3, chore <- s4, welcomed <- s5,
  past <- s6, Accounts <- {"a","b"}, Invites <- {"i","k"}, Jobs <- {"x","y"},
  Member <- "a", OpenRegistration <- FALSE, Named <- {"i"}, Started <- JobStates,
  MaxChores <- 3, MaxEdits <- 1

Lifecycle == INSTANCE Lifecycle WITH
  db <- s1, stage <- s2, surface <- s3, build <- s4, caller <- s5,
  runner <- s6, attached <- s7, claimed <- s8, todo <- s9, stop <- s10,
  past <- s11, Dialogs <- {"d","e"}, MaxContacts <- 2, MaxFaults <- 1

LlmBackends == INSTANCE LlmBackends WITH
  req <- s1, attempt <- s2, calls <- s3, error <- s4, fatal <- s5,
  slept <- s6, reply <- s7, items <- s8, Hints <- RetryHints,
  Answers <- BackendAnswers, MaxRetries <- 3, Base <- 1, MaxDelay <- 3

McpMirror == INSTANCE McpMirror WITH
  upstream <- s1, servers <- s2, links <- s3, tokens <- s4, mirror <- s5,
  skill <- s6, ruling <- s7, workers <- s8, report <- s9, used <- s10,
  Urls <- {"U", "V"}, Authenticated <- {"U", "V"}, Names <- {"n", "m"},
  Users <- {"a", "b"}, TokenHolders <- {{"a"}}, Tools <- {1, 2},
  Revised <- {2}, MAX_TOOLS_PER_SERVER <- 2, MAX_LIST_PAGES <- 1,
  PageSizes <- {1, 2}, MaxChanges <- 1, Earlier <- Earlier, MaxStarts <- 2

McpWire == INSTANCE McpWire WITH
  op <- s1, given <- s2, answer <- s3, sent <- s4, Sessions <- {"s", "t"},
  MAX_LIST_PAGES <- 2, MaxEvents <- 2

MediaIntake == INSTANCE MediaIntake WITH
  able <- s1, plan <- s2, call <- s3, ref <- s4, told <- s5, narrative <- s6,
  used <- s7, MaxPictures <- 3, MAX_REFS <- 2, MAX_LOOK_IMAGES <- 2,
  MinSeconds <- 1, MaxSeconds <- 3, Lengths <- Lengths, MaxCalls <- 2,
  MaxMishaps <- 1

MessageLog == INSTANCE MessageLog WITH
  dialect <- s1, does <- s2, log <- s3, marks <- s4, writer <- s5,
  aborts <- s6, Writers <- {"a", "b", "c"}, Casts <- Casts,
  MESSAGE_SEQ_RETRY_ATTEMPTS <- 2, Dialects <- {"sqlite", "postgresql"},
  MaxAborts <- 1

MessageRouting == INSTANCE MessageRouting WITH
  exch <- s1, turn <- s2, asked <- s3, nudged <- s4, turns <- s5,
  Ids <- {1, 2}, Unknown <- 0, MaxTurns <- 2

PlanCaps == INSTANCE PlanCaps WITH
  max_memory_chars <- s1, max_cron_jobs <- s2, memories <- s3, jobs <- s4,
  calls <- s5, stored <- s6, answer <- s7, Calls <- Requests,
  Keys <- {"k", "l"}, Lengths <- {1, 2}, Drafts <- {"d", "e"},
  MemoryCaps <- {2, 3}, JobCaps <- {1}, MaxStored <- 3

Ranking == INSTANCE Ranking WITH
  cosine <- s1, cross <- s2, lexical <- s3, query <- s4, k <- s5,
  mixed <- s6, store <- s7, reranker <- s8, stage <- s9, shortlist <- s10,
  hits <- s11, IdOrder <- RecordIds, TypeOf <- RecordTypes,
  Cosines <- {0, 1}, Queries <- {0, 2}, Lexicals <- LexicalAnswers,
  Ks <- {1, 3}, rerank_candidates <- 3

RecordHunt == INSTANCE RecordHunt WITH
  body <- s1, tiers <- s2, hunt <- s3, parsed <- s4, out <- s5,
  Bodies <- Bodies, Sheets <- Sheets, MAX_UNWRAP_DEPTH <- 2,
  MAX_UNWRAP_NODES <- 2, MAX_RECORDS <- 2, Mishaps <- TRUE

Retention == INSTANCE Retention WITH
  fk <- s1, env <- s2, messages <- s3, boundary <- s4, exchanges <- s5,
  tasks <- s6, usage <- s7, last <- s8, pc <- s9, elsewhere <- s10,
  Exchanges <- {1}, Tasks <- {1}, Limited <- LimitedTables, MaxMessages <- 3, MaxElsewhere <- 2

SearchBackends == INSTANCE SearchBackends WITH
  db <- s1, rows <- s2, index <- s3, node <- s4, used <- s5, Ids <- {1, 2},
  MaxVersion <- 2, MaxBoots <- 2, MaxMishaps <- 2

SecretForms == INSTANCE SecretForms WITH
  person <- s1, links <- s2, codes <- s3, row <- s4, req <- s5, clock <- s6,
  key <- s7, Accounts <- {"a", "b"}, Requests <- Requests,
  Known <- {{"a"}}, ttl <- 1, MaxLinks <- 2, MaxEvents <- 2

SkillRegistry == INSTANCE SkillRegistry WITH
  rows <- s1, node <- s2, acts <- s3, Nodes <- {"a", "b"}, Keys <- {1, 2, 3},
  Registry <- Registry, Overlay <- Overlay, MaxUserActs <- 1

Tariffs == INSTANCE Tariffs WITH
  tariffs <- s1, binding <- s2, now <- s3, ledger <- s4, cache <- s5,
  check <- s6, pops <- s7, verdict <- s8, edits <- s9, Codes <- {"p", "q"},
  Starter <- [c \in {"q"} |-> Budgets], Limits <- {Budgets}, totals_ttl <- 1,
  DayLength <- 2, MaxTime <- 2, MaxEvents <- 2, MaxEdits <- 1

TelegramBridge == INSTANCE TelegramBridge WITH
  chat <- s1, draft <- s2, timer <- s3, fwd <- s4, flush <- s5, store <- s6,
  run <- s7, seen <- s8, MaxPieces <- 3, Limit <- 2, MaxRuns <- 2,
  MaxFailures <- 1

TelegramClient == INSTANCE TelegramClient WITH
  call <- s1, server <- s2, result <- s3, updates <- s4,
  RetryAfters <- {1, 6, 20}, MaxLost <- 2, MaxChunks <- 4

UserMigrations == INSTANCE UserMigrations WITH
  revision <- s1, rows <- s2, users <- s3, identities <- s4, plans <- s5,
  bindings <- s6, filed <- s7, moved <- s8, moves <- s9,
  OWNER_COLUMNS <- {"dialogs", "instructions"}, WebIds <- {"1"},
  TelegramId <- TelegramIds, Titles <- {"t"},
  PlanCodes <- {"own", "unlimited"}, Persons <- {"p", "q", "r"},
  MaxRows <- 3, MaxMoves <- 3

-----------------------------------------------------------------------------
(* The slots a component leaves unused. *)
Blank11 == s11 = 0
Blank10 == s10 = 0 /\ Blank11
Blank9 == s9 = 0 /\ Blank10
Blank8 == s8 = 0 /\ Blank9
Blank7 == s7 = 0 /\ Blank8
Blank6 == s6 = 0 /\ Blank7
Blank5 == s5 = 0 /\ Blank6
Blank4 == s4 = 0 /\ Blank5
Blank == s1 = 0 /\ s2 = 0 /\ s3 = 0 /\ Blank4

Still == UNCHANGED <<part, ownVars>>
Still11 == Still /\ UNCHANGED s11
Still10 == Still11 /\ UNCHANGED s10
Still9 == Still10 /\ UNCHANGED s9
Still8 == Still9 /\ UNCHANGED s8
Still7 == Still8 /\ UNCHANGED s7
Still6 == Still7 /\ UNCHANGED s6
Still5 == Still6 /\ UNCHANGED s5
Still4 == Still5 /\ UNCHANGED s4

(* Two requests, calls or workers of one component are interchangeable. *)
Symmetry == Permutations(Requests)

(* What stands still starts in one of its initial states. *)
OwnInit == AdmissionInit /\ CacheInit /\ EndpointInit /\ OutboxInit
AdmissionAtRest == cap = CHOOSE n \in Caps : TRUE
EndpointAtRest == call.doc = CHOOSE d \in Documents : TRUE
OutboxAtRest == live = Tasks /\ Attached = {}

Init ==
  \/ part = "admission" /\ OwnInit /\ EndpointAtRest /\ OutboxAtRest /\ Blank
  \/ part = "embeddingCache" /\ OwnInit /\ AdmissionAtRest /\ EndpointAtRest /\ OutboxAtRest /\ Blank
  \/ part = "endpointCalls" /\ OwnInit /\ AdmissionAtRest /\ OutboxAtRest /\ Blank
  \/ part = "outbox" /\ OwnInit /\ AdmissionAtRest /\ EndpointAtRest /\ Blank
  \/ /\ OwnInit /\ AdmissionAtRest /\ EndpointAtRest /\ OutboxAtRest
     /\ \/ part = "adminViews" /\ AdminViews!Init /\ Blank6
        \/ part = "collectionQuery" /\ CollectionQuery!Init /\ Blank6
        \/ part = "collections" /\ Collections!Init /\ Blank6
        \/ part = "compaction" /\ Compaction!Init /\ Blank9
        \/ part = "datasets" /\ Datasets!Init /\ Blank5
        \/ part = "historySearch" /\ HistorySearch!Init /\ Blank6
        \/ part = "httpGate" /\ HttpGate!GateInit /\ Blank8
        \/ part = "instructions" /\ Instructions!Init /\ Blank5
        \/ part = "invitations" /\ Invitations!Init /\ Blank7
        \/ part = "lifecycle" /\ Lifecycle!Init
        \/ part = "llmBackends" /\ LlmBackends!Init /\ Blank9
        \/ part = "mcpMirror" /\ McpMirror!McpInit /\ Blank11
        \/ part = "mcpWire" /\ McpWire!WireInit /\ Blank5
        \/ part = "mediaIntake" /\ MediaIntake!Init /\ Blank8
        \/ part = "messageLog" /\ MessageLog!LogInit /\ Blank7
        \/ part = "messageRouting" /\ MessageRouting!Init /\ Blank6
        \/ part = "planCaps" /\ PlanCaps!Init /\ Blank8
        \/ part = "ranking" /\ Ranking!Init
        \/ part = "recordHunt" /\ RecordHunt!Init /\ Blank6
        \/ part = "retention" /\ Retention!Init /\ Blank11
        \/ part = "searchBackends" /\ SearchBackends!Init /\ Blank6
        \/ part = "secretForms" /\ SecretForms!Init /\ Blank8
        \/ part = "skillRegistry" /\ SkillRegistry!Init /\ Blank4
        \/ part = "tariffs" /\ Tariffs!Init /\ Blank10
        \/ part = "telegramBridge" /\ TelegramBridge!Init /\ Blank9
        \/ part = "telegramClient" /\ TelegramClient!Init /\ Blank5
        \/ part = "userMigrations" /\ UserMigrations!Init /\ Blank10

Next ==
  \/ part = "admission" /\ UNCHANGED <<part, cacheVars, callVars, outboxVars, slots>> /\ AdmissionNext
  \/ part = "embeddingCache" /\ UNCHANGED <<part, admissionVars, callVars, outboxVars, slots>> /\ CacheNext
  \/ part = "endpointCalls" /\ UNCHANGED <<part, admissionVars, cacheVars, outboxVars, slots>> /\ EndpointNext
  \/ part = "outbox" /\ UNCHANGED <<part, admissionVars, cacheVars, callVars, slots>> /\ OutboxNext
  \/ part = "adminViews" /\ Still6 /\ AdminViews!Next
  \/ part = "collectionQuery" /\ Still6 /\ CollectionQuery!Next
  \/ part = "collections" /\ Still6 /\ Collections!Next
  \/ part = "compaction" /\ Still9 /\ Compaction!Next
  \/ part = "datasets" /\ Still5 /\ Datasets!Next
  \/ part = "historySearch" /\ Still6 /\ HistorySearch!Next
  \/ part = "httpGate" /\ Still8 /\ HttpGate!GateNext
  \/ part = "instructions" /\ Still5 /\ Instructions!Next
  \/ part = "invitations" /\ Still7 /\ Invitations!Next
  \/ part = "lifecycle" /\ Still /\ Lifecycle!Next
  \/ part = "llmBackends" /\ Still9 /\ LlmBackends!Next
  \/ part = "mcpMirror" /\ Still11 /\ McpMirror!McpNext
  \/ part = "mcpWire" /\ Still5 /\ McpWire!WireNext
  \/ part = "mediaIntake" /\ Still8 /\ MediaIntake!Next
  \/ part = "messageLog" /\ Still7 /\ MessageLog!LogNext
  \/ part = "messageRouting" /\ Still6 /\ MessageRouting!Next
  \/ part = "planCaps" /\ Still8 /\ PlanCaps!Next
  \/ part = "ranking" /\ Still /\ Ranking!Next
  \/ part = "recordHunt" /\ Still6 /\ RecordHunt!Next
  \/ part = "retention" /\ Still11 /\ Retention!Next
  \/ part = "searchBackends" /\ Still6 /\ SearchBackends!Next
  \/ part = "secretForms" /\ Still8 /\ SecretForms!Next
  \/ part = "skillRegistry" /\ Still4 /\ SkillRegistry!Next
  \/ part = "tariffs" /\ Still10 /\ Tariffs!Next
  \/ part = "telegramBridge" /\ Still9 /\ TelegramBridge!Next
  \/ part = "telegramClient" /\ Still5 /\ TelegramClient!Next
  \/ part = "userMigrations" /\ Still10 /\ UserMigrations!Next

Spec == Init /\ [][Next]_familyVars

-----------------------------------------------------------------------------
(* What is written into a dialog stays readable as it was written:         *)
(* whatever writers raced, retried or rolled back the log is contiguous,   *)
(* pairs and units are whole, and an append gives up only to another       *)
(* writer (MessageLog); a sweep takes nothing the narrative still shows    *)
(* and keeps everything where no limit is set (Retention); a search stays  *)
(* in its dialog and sees a whole day (HistorySearch).                     *)
LogIsWhole ==
  /\ part = "messageLog" =>
       /\ MessageLog!LogTypeOK
       /\ MessageLog!SeqContiguous
       /\ MessageLog!PairIndivisible
       /\ MessageLog!AllOrNothing
       /\ MessageLog!ChildIsStored
       /\ MessageLog!LosesOnlyToOthers
  /\ part = "retention" =>
       /\ Retention!RetentionTypeOK
       /\ Retention!NarrativeWhole
       /\ Retention!UnsetKeepsAll
       /\ Retention!DoneMeansSwept
       /\ Retention!RefusalIsReferenced
  /\ part = "historySearch" =>
       /\ HistorySearch!HistoryTypeOK
       /\ HistorySearch!ScopeKept
       /\ HistorySearch!WholeDayCovered

(* What the model is shown of a dialog is true to it: the rolling summary  *)
(* covers the archive from its first message, splits no salvaged pair,     *)
(* leaves no gap and stays above the watermark (Compaction); the router's  *)
(* answer touches only exchanges it was shown, keeps its stop, names an    *)
(* exchange in one line and reminds the user only of another exchange      *)
(* (MessageRouting).                                                       *)
ContextIsWhole ==
  /\ part = "compaction" =>
       /\ Compaction!CompactionTypeOK
       /\ Compaction!SummaryWhole
       /\ Compaction!PairsTogether
       /\ Compaction!NoGapUndisturbed
       /\ Compaction!UnseenPastWatermark
  /\ part = "messageRouting" =>
       /\ MessageRouting!RoutingTypeOK
       /\ MessageRouting!OnlyShown
       /\ MessageRouting!StopSurvives
       /\ MessageRouting!ReminderIsOfAnother
       /\ MessageRouting!NameIsOneLine

(* What a call fetched is told as it is: a passport never takes a cut for  *)
(* the whole and counts agree with the records (Collections); totals,      *)
(* filters and groups mean what their words say (CollectionQuery); the     *)
(* records are the nearest array and a cut is told (RecordHunt); a dataset *)
(* is one per name, within its cap, with records that fit its schema, and  *)
(* a query answers exactly (Datasets).                                     *)
FetchedDataIsTrue ==
  /\ part = "collections" =>
       /\ Collections!CollectionsTypeOK
       /\ Collections!HonestPassport
       /\ Collections!CountsAgree
       /\ Collections!WithinQuota
  /\ part = "collectionQuery" =>
       /\ CollectionQuery!QueryTypeOK
       /\ CollectionQuery!TotalIsTrue
       /\ CollectionQuery!FilterKeepsItsWord
       /\ CollectionQuery!GroupsAddUp
  /\ part = "recordHunt" =>
       /\ RecordHunt!HuntTypeOK
       /\ RecordHunt!NearestRecords
       /\ RecordHunt!CutIsTold
       /\ RecordHunt!HomeFitsShape
  /\ part = "datasets" =>
       /\ Datasets!DatasetsTypeOK
       /\ Datasets!OneDataset
       /\ Datasets!WithinCap
       /\ Datasets!RecordsFitSchema
       /\ Datasets!NoOrphans
       /\ Datasets!QueryIsExact

(* What the agent knows is current and its owner's: memories stay private  *)
(* and a vector is of the content it stands beside (Instructions); after a *)
(* sync the registry holds, and a start dies only by a race                *)
(* (SkillRegistry); a start dies or raises only where the database lacks   *)
(* what it needs, and the lexical mirror is true (SearchBackends); an      *)
(* exact title comes first, a cap starves nobody, similarity decides       *)
(* (Ranking); a mirrored server is what the server lists, under one name,  *)
(* called with the caller's own token (McpMirror).                         *)
KnowledgeIsTrue ==
  /\ part = "instructions" =>
       /\ Instructions!InstructionsTypeOK
       /\ Instructions!MemoryStaysPrivate
       /\ Instructions!VectorOfContent
  /\ part = "skillRegistry" =>
       /\ SkillRegistry!RegistryTypeOK
       /\ SkillRegistry!SyncTakesHold
       /\ SkillRegistry!DiesOnlyRaced
  /\ part = "searchBackends" =>
       /\ SearchBackends!BackendsTypeOK
       /\ SearchBackends!RaisesOnlyHalfEquipped
       /\ SearchBackends!DiesOnlyWithoutVector
       /\ SearchBackends!MirrorIsTrue
  /\ part = "ranking" =>
       /\ Ranking!RankingTypeOK
       /\ Ranking!ExactTitleFirst
       /\ Ranking!CapNeverStarves
       /\ Ranking!SimilarityDecides
  /\ part = "mcpMirror" =>
       /\ McpMirror!McpTypeOK
       /\ McpMirror!OneServerPerName
       /\ McpMirror!MirrorExact
       /\ McpMirror!FingerprintIsRuled
       /\ McpMirror!OwnToken

(* Every limit is kept and only it refuses: a call creates within the cap  *)
(* it read, a shrinking rewrite and a duplicate pass (PlanCaps); one plan  *)
(* binds, a refusal is earned and spend is counted (Tariffs); wrong        *)
(* passwords are budgeted and nobody is let in unproven (HttpGate);        *)
(* retries keep their budget, their hint and their order (LlmBackends); a  *)
(* listing ends and a session is one (McpWire).                            *)
LimitsHold ==
  /\ part = "planCaps" =>
       /\ PlanCaps!CapsTypeOK
       /\ PlanCaps!CreatedWithinCap
       /\ PlanCaps!ShrinkingPasses
       /\ PlanCaps!DuplicatesAnswered
  /\ part = "tariffs" =>
       /\ Tariffs!TariffsTypeOK
       /\ Tariffs!OnePlan
       /\ Tariffs!RefusalIsEarned
       /\ Tariffs!OwnSpendCounted
       /\ Tariffs!SpendConverges
  /\ part = "httpGate" =>
       /\ HttpGate!GateTypeOK
       /\ HttpGate!LetInIsProven
       /\ HttpGate!BudgetHolds
  /\ part = "llmBackends" =>
       /\ LlmBackends!BackendTypeOK
       /\ LlmBackends!FatalEndsIt
       /\ LlmBackends!BudgetedCalls
       /\ LlmBackends!HintIsFloor
       /\ LlmBackends!ItemsAligned
  /\ part = "mcpWire" =>
       /\ McpWire!WireTypeOK
       /\ McpWire!OneSession
       /\ McpWire!SuccessIsAnswered
       /\ McpWire!ListingEnds

(* People keep what is theirs: whoever was welcomed passes from then on    *)
(* and gets back exactly the jobs a revocation paused (Invitations);       *)
(* through the identity and plan migrations a person keeps one handle and  *)
(* one account, the plan order holds, a downgrade restores the rows        *)
(* (UserMigrations); a live link is honoured (SecretForms).                *)
PeopleKeepTheirs ==
  /\ part = "invitations" =>
       /\ Invitations!InvitationsTypeOK
       /\ Invitations!WelcomeHolds
       /\ Invitations!PreciseRestore
  /\ part = "userMigrations" =>
       /\ UserMigrations!MigrationTypeOK
       /\ UserMigrations!SamePersonSameHandle
       /\ UserMigrations!AccountNamesOne
       /\ UserMigrations!DowngradeRestores
       /\ UserMigrations!OneDefault
       /\ UserMigrations!BindingsLead
  /\ part = "secretForms" =>
       /\ SecretForms!FormsTypeOK
       /\ SecretForms!LiveLinkHonoured


(* What is decided is not taken back by a later step: a boundary only      *)
(* moves forward (Compaction); a cached answer is not used past its        *)
(* lifetime (HttpGate); authorship is never cleared and a user's save      *)
(* never overwrites a system record (Instructions); the first claim of an  *)
(* invitation stands (Invitations); the plan is answered before the length *)
(* (MediaIntake); an accepted event stays in its queue until it is taken   *)
(* (Outbox); an owed outcome is not swept (Retention); a form answers by   *)
(* the account it was issued for, and refuses honestly (SecretForms); a    *)
(* sync leaves users' records alone (SkillRegistry); a migration caps      *)
(* nobody and keeps the newest row (UserMigrations).                       *)
NothingIsTakenBack ==
  [][/\ AcceptedStaysStep
     /\ part = "compaction" => Compaction!BoundaryForwardStep
     /\ part = "httpGate" => HttpGate!CacheRunsOutStep
     /\ part = "instructions" => Instructions!AuthorshipKeptStep
     /\ part = "instructions" => Instructions!SystemRefusesSavesStep
     /\ part = "invitations" => Invitations!FirstClaimStandsStep
     /\ part = "mediaIntake" => MediaIntake!PlanBeforeLengthStep
     /\ part = "retention" => Retention!OwedKeptStep
     /\ part = "secretForms" => SecretForms!StoredIsFoundStep
     /\ part = "secretForms" => SecretForms!RefusalIsHonestStep
     /\ part = "skillRegistry" => SkillRegistry!UsersKeepTheirsStep
     /\ part = "userMigrations" => UserMigrations!NobodyCappedStep
     /\ part = "userMigrations" => UserMigrations!NewestKeptStep]_familyVars

=============================================================================
