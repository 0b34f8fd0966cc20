------------------------------ MODULE Collections ------------------------------
(***************************************************************************)
(* Fetched data that is too big for the context: the paths of              *)
(* net/external.py that end in a collection (a plain call's spill, into,   *)
(* the collect walk over a paged endpoint), CollectionSink and             *)
(* ResponseSpill (collections/ingest.py) and the store behind them         *)
(* (collections/store.py).  The calls of one owner run concurrently in     *)
(* several processes.  A transaction of the store is two steps on          *)
(* Postgres, its reads and its commit.                                     *)
(***************************************************************************)
EXTENDS Integers, FiniteSets, Sequences, SequencesExt

CONSTANTS Calls,
          Cols,       \* ids of collections, 1..n in the order they are created
          Servers,    \* what the far side may be: see Page
          Ceiling,    \* collect_max_pages
          MaxRecords, MaxPerUser, MaxBytes, MaxExpiries

VARIABLES row,    \* CollectionRow by id; a record is one byte here
          recs,   \* recs[c]: CollectionRecordRows as [pos, of]
          lru,    \* existing ids, least recently updated first
          call,   \* the external calls
          past    \* expiries and collections so far; whether two transactions ever overlapped

collectionVars == <<row, recs, lru, call, past>>

(* A page: its status, how many records it holds, the page its cursor      *)
(* leads to (0: none, -1: pages are numbered), whether the wire limit cuts *)
(* it.  A server is [pages, total], the total 0 when it declares none.     *)
Page(status, n, next, cut) == [status |-> status, n |-> n, next |-> next, cut |-> cut]

None == 0
CollectionRow == [n |-> 0, bytes |-> 0, truncated |-> FALSE, expired |-> FALSE]
Idle == [pc |-> "idle", kind |-> "plain", server |-> [pages |-> <<>>, total |-> 0],
         col |-> None, at |-> 1, seen |-> {1}, pages |-> 0, stored |-> 0, capped |-> FALSE,
         read |-> 0, doc |-> FALSE, base |-> 0, doomed |-> {}, answer |-> "none", kept |-> 0]

Init ==
  /\ row = [c \in Cols |-> CollectionRow] /\ recs = [c \in Cols |-> {}]
  /\ lru = <<>> /\ call = [x \in Calls |-> Idle]
  /\ past = [expiries |-> 0, created |-> 0, raced |-> FALSE]

Live == Range(lru)
Smaller(m, n) == IF m < n THEN m ELSE n

_live_row(c) == c \in Live /\ ~row[c].expired
BytesOf(cs) == MapThenSumSet(LAMBDA c : row[c].bytes, cs)

(* A transaction is open; the collection it locks (only append locks).     *)
Open(x) == call[x].pc = "commit"
_lock_collection(x, c) == \A y \in Calls \ {x} : ~(Open(y) /\ call[y].col = c)
Race(x) == past' = [past EXCEPT !.raced = @ \/ \E y \in Calls \ {x} : Open(y)]

Goto(x, pc) == call' = [call EXCEPT ![x].pc = pc]
Answer(x, answer) == call' = [call EXCEPT ![x].pc = "done", ![x].answer = answer]

-----------------------------------------------------------------------------
(* The page of the request in flight: past the last one it is empty.       *)
PageOf(x) == IF call[x].at \in DOMAIN call[x].server.pages THEN call[x].server.pages[call[x].at]
             ELSE Page("ok", 0, 0, FALSE)

(* parse_structured and _take_apart: records up to MAX_RECORDS; a body cut *)
(* on the wire no longer parses as JSON (Unparsed), or parses short as CSV.*)
Unparsed == -1
parse_structured(p) ==
  IF p.cut THEN {Unparsed, Smaller(p.n, 1)} ELSE {Smaller(p.n, MaxRecords)}
record_truncated(p) == p.n > MaxRecords

(* execute: the call starts; collect needs a store, a pagination section   *)
(* and a user (_collect_prerequisites), all given here.                    *)
execute(x, kind, into, server) ==
  /\ call[x].pc = "idle"
  /\ into # None => into \in Live /\ kind # "plain"
  /\ kind = "pour" => into # None
  /\ call' = [call EXCEPT ![x] = [Idle EXCEPT !.pc = "request", !.kind = kind,
                                  !.server = server, !.col = into]]
  /\ UNCHANGED <<row, recs, lru, past>>

(* _request_once: the page arrives, or the transport fails and the call    *)
(* raises, leaving whatever earlier pages stored.                          *)
_request_once(x) ==
  /\ call[x].pc = "request"
  /\ Goto(x, "page") \/ Answer(x, "error")
  /\ UNCHANGED <<row, recs, lru, past>>

(* An error status: the first page is answered as it is, a later one ends  *)
(* the walk as cut.                                                        *)
ErrorStatus(x) ==
  /\ call[x].pc = "page" /\ call[x].kind = "collect" /\ PageOf(x).status = "error"
  /\ IF call[x].pages = 0 THEN Answer(x, "inline")
     ELSE call' = [call EXCEPT ![x].pc = "finish", ![x].capped = TRUE]
  /\ UNCHANGED <<row, recs, lru, past>>

(* _store_page up to the store: a page without records ends the walk.      *)
_store_page(x) ==
  /\ call[x].pc = "page" /\ call[x].kind = "collect" /\ PageOf(x).status # "error"
  /\ \E n \in parse_structured(PageOf(x)) :
       IF n > 0 THEN call' = [call EXCEPT ![x].pc = "add", ![x].read = n] ELSE Goto(x, "finish")
  /\ UNCHANGED <<row, recs, lru, past>>

(* _pour_into up to the store: without records there is nothing to add.    *)
_pour_into(x) ==
  /\ call[x].pc = "page" /\ call[x].kind = "pour"
  /\ \E n \in parse_structured(PageOf(x)) :
       IF n > 0 THEN call' = [call EXCEPT ![x].pc = "add", ![x].read = n] ELSE Answer(x, "error")
  /\ UNCHANGED <<row, recs, lru, past>>

(* park: a document is stored as one record.                               *)
park(x) == call' = [call EXCEPT ![x].pc = "add", ![x].read = 1, ![x].doc = TRUE]

(* No passport: the body itself, cut at truncate_chars.                    *)
_spill_or_truncate(x) == Answer(x, "inline")

(* _route for a plain call: text that does not parse is parked whole as a  *)
(* one-record document, an empty array stays inline.                       *)
_route(x) ==
  /\ call[x].pc = "page" /\ call[x].kind = "plain"
  /\ \E n \in parse_structured(PageOf(x)) :
       CASE n > 0 -> call' = [call EXCEPT ![x].pc = "add", ![x].read = n]
         [] n = 0 -> _spill_or_truncate(x)
         [] n = Unparsed -> park(x)
  /\ UNCHANGED <<row, recs, lru, past>>

-----------------------------------------------------------------------------
(* _evict_for: the least recently updated go until both quotas hold; a     *)
(* newcomer bigger than the quota evicts everything and is stored anyway.  *)
_evict_for(n) ==
  LET Fits(k) == /\ Len(lru) - k < MaxPerUser
                 /\ BytesOf({lru[i] : i \in (k + 1)..Len(lru)}) + n <= MaxBytes
      k == CHOOSE k \in 0..Len(lru) :
             /\ Fits(k) \/ k = Len(lru)
             /\ \A j \in 0..(k - 1) : ~Fits(j)
  IN {lru[i] : i \in 1..k}

(* create, its reads: what is to be evicted.                               *)
BeginCreate(x) ==
  /\ call[x].pc = "add" /\ call[x].col = None
  /\ call' = [call EXCEPT ![x].pc = "commit", ![x].doomed = _evict_for(call[x].read)]
  /\ Race(x)
  /\ UNCHANGED <<row, recs, lru>>

(* append, its reads under the collection's lock: refused over the byte    *)
(* quota (which ends a walk as cut), not found when evicted or expired.    *)
BeginAppend(x) ==
  /\ call[x].pc = "add" /\ call[x].col # None /\ _lock_collection(x, call[x].col)
  /\ IF BytesOf(Live) + call[x].read > MaxBytes
     THEN IF call[x].kind = "collect"
          THEN call' = [call EXCEPT ![x].pc = "finish", ![x].capped = TRUE]
          ELSE Answer(x, "error")
     ELSE IF _live_row(call[x].col)
          THEN call' = [call EXCEPT ![x].pc = "commit", ![x].base = row[call[x].col].n]
          ELSE Answer(x, "error")
  /\ Race(x)
  /\ UNCHANGED <<row, recs, lru>>

(* The next page of the walk: page numbers and offsets grow, a cursor is   *)
(* what the page says, and 0 is its end.                                   *)
advance(x) ==
  LET next == PageOf(x).next
  IN IF next = -1 THEN call[x].at + 1
     ELSE IF next \in call[x].seen THEN 0 ELSE next

_reached_declared_total(x, stored) ==
  call[x].server.total # 0 /\ stored >= call[x].server.total

(* Mutant: the page ceiling is taken for the end of the data. *)
CeilingUnmarked(x) ==
  LET was == [call[x] EXCEPT !.pages = @ + 1]
      next == advance(x)
  IN IF record_truncated(PageOf(x)) THEN [was EXCEPT !.pc = "finish", !.capped = TRUE]
     ELSE IF next = 0 \/ _reached_declared_total(x, call[x].stored) \/ was.pages = Ceiling
     THEN [was EXCEPT !.pc = "finish"]
     ELSE [was EXCEPT !.pc = "request", !.at = next, !.seen = @ \union {next}]

(* _collect_pages after a stored page: a page over MAX_RECORDS ends the    *)
(* walk as cut; no further cursor, or one already presented, and the       *)
(* declared total are the end of the data; the page ceiling cuts it.       *)
_collect_pages(x) ==
  LET was == [call[x] EXCEPT !.pages = @ + 1]
      next == advance(x)
  IN IF record_truncated(PageOf(x)) THEN [was EXCEPT !.pc = "finish", !.capped = TRUE]
     ELSE IF next = 0 \/ _reached_declared_total(x, call[x].stored + call[x].read)
     THEN [was EXCEPT !.pc = "finish"]
     ELSE IF was.pages = Ceiling THEN [was EXCEPT !.pc = "finish", !.capped = TRUE]
     ELSE [was EXCEPT !.pc = "request", !.at = next, !.seen = @ \union {next}]

(* _add_records: positions from the record count the transaction read.     *)
_add_records(x, c, from) ==
  recs' = [d \in Cols |->
            IF d = c THEN recs[d] \union {[pos |-> from + k, of |-> <<x, call[x].at, k>>] :
                                            k \in 0..(call[x].read - 1)}
            ELSE IF d \in call[x].doomed THEN {} ELSE recs[d]]

Cut(x) == PageOf(x).cut \/ record_truncated(PageOf(x))

(* sink.add has stored the batch of call x in c: what the call does next.  *)
(* A plain call answers with the passport create returned.                 *)
Added(x, c) ==
  LET next == CASE call[x].kind = "collect" -> _collect_pages(x)
                [] call[x].kind = "pour" -> [call[x] EXCEPT !.pc = "finish", !.capped = Cut(x)]
                [] OTHER -> [call[x] EXCEPT !.pc = "done", !.kept = call[x].read,
                               !.answer = IF call[x].doc THEN "document"
                                          ELSE IF Cut(x) THEN "cut" ELSE "complete"]
  IN call' = [call EXCEPT ![x] = [next EXCEPT !.col = c, !.stored = @ + call[x].read,
                                              !.base = 0, !.doomed = {}]]

(* create, its commit: the evicted rows and their records go, the new row  *)
(* and its first batch are there, in one transaction.                      *)
create(x) ==
  LET c == past.created + 1 IN
  /\ Open(x) /\ call[x].col = None /\ c \in Cols
  /\ row' = [d \in Cols |->
       IF d = c THEN [CollectionRow EXCEPT !.n = call[x].read, !.bytes = call[x].read,
                        !.truncated = call[x].kind = "plain" /\ ~call[x].doc /\ Cut(x)]
       ELSE IF d \in call[x].doomed THEN CollectionRow ELSE row[d]]
  /\ lru' = Append(SelectSeq(lru, LAMBDA d : d \notin call[x].doomed), c)
  /\ _add_records(x, c, 0)
  /\ Added(x, c)
  /\ past' = [past EXCEPT !.created = c]

(* append, its commit: the counters the transaction read grow by the batch *)
(* and the row moves to the end of the queue; a row evicted meanwhile      *)
(* fails the flush and nothing is stored.                                  *)
append(x) ==
  LET c == call[x].col IN
  /\ Open(x) /\ c # None
  /\ IF c \in Live
     THEN /\ row' = [row EXCEPT ![c].n = call[x].base + call[x].read,
                                ![c].bytes = @ + call[x].read, ![c].expired = FALSE]
          /\ lru' = Append(SelectSeq(lru, LAMBDA d : d # c), c)
          /\ _add_records(x, c, call[x].base)
          /\ Added(x, c)
     ELSE Answer(x, "error") /\ UNCHANGED <<row, recs, lru>>
  /\ UNCHANGED past

mark_truncated(c) == row' = [row EXCEPT ![c].truncated = TRUE]

(* finish: a cut walk is marked on the row, ...                            *)
finish(x) ==
  LET c == call[x].col IN
  /\ call[x].pc = "finish"
  /\ IF c = None THEN Answer(x, "empty") /\ UNCHANGED row
     ELSE IF ~call[x].capped THEN Goto(x, "passport") /\ UNCHANGED row
     ELSE IF _live_row(c)
     THEN mark_truncated(c) /\ Goto(x, "passport")
     ELSE Answer(x, "error") /\ UNCHANGED row
  /\ UNCHANGED <<recs, lru, past>>

(* ... and the passport answers the call: what it says of the counts.      *)
passport(x) ==
  LET c == call[x].col IN
  /\ call[x].pc = "passport"
  /\ IF _live_row(c)
     THEN call' = [call EXCEPT ![x].pc = "done",
                     ![x].answer = IF row[c].truncated THEN "cut" ELSE "complete",
                     ![x].kept = Cardinality({r \in recs[c] : r.of[1] = x})]
     ELSE Answer(x, "error")
  /\ UNCHANGED <<row, recs, lru, past>>

(* The TTL of a collection runs out, and the sweeper deletes what expired. *)
Expire(c) ==
  /\ past.expiries < MaxExpiries /\ c \in Live /\ ~row[c].expired
  /\ row' = [row EXCEPT ![c].expired = TRUE]
  /\ past' = [past EXCEPT !.expiries = @ + 1]
  /\ UNCHANGED <<recs, lru, call>>

delete_expired ==
  LET gone == {c \in Live : row[c].expired} IN
  /\ gone # {}
  /\ recs' = [c \in Cols |-> IF c \in gone THEN {} ELSE recs[c]]
  /\ row' = [c \in Cols |-> IF c \in gone THEN CollectionRow ELSE row[c]]
  /\ lru' = SelectSeq(lru, LAMBDA c : c \notin gone)
  /\ UNCHANGED <<call, past>>

Next ==
  \/ \E x \in Calls :
       \/ \E kind \in {"plain", "pour", "collect"}, into \in Cols \union {None}, s \in Servers :
            execute(x, kind, into, s)
       \/ _request_once(x) \/ ErrorStatus(x) \/ _store_page(x) \/ _pour_into(x) \/ _route(x)
       \/ BeginCreate(x) \/ BeginAppend(x) \/ create(x) \/ append(x)
       \/ finish(x) \/ passport(x)
  \/ \E c \in Cols : Expire(c)
  \/ delete_expired

Spec == Init /\ [][Next]_collectionVars

-----------------------------------------------------------------------------
(* Rows, queue and calls keep their shape.                                 *)
CollectionsTypeOK ==
  /\ \A c \in Cols : row[c].n \in Nat /\ row[c].bytes \in Nat /\ row[c].truncated \in BOOLEAN
  /\ Live \subseteq Cols /\ Cardinality(Live) = Len(lru)
  /\ \A c \in Cols \ Live : row[c] = CollectionRow
  /\ \A x \in Calls :
       /\ call[x].pc \in {"idle", "request", "page", "add", "commit", "finish", "passport", "done"}
       /\ call[x].col \in Cols \union {None} /\ call[x].doomed \subseteq Cols

(* What the far side holds for a call: one page, or every page a walk can  *)
(* reach.                                                                  *)
Held(x) ==
  LET pages == call[x].server.pages
      step(i) == IF pages[i].next = -1 THEN i + 1 ELSE pages[i].next
      reach == {i \in DOMAIN pages : i = 1 \/ \E j \in DOMAIN pages : step(j) = i}
  IN IF call[x].kind # "collect" THEN pages[1].n
     ELSE MapThenSumSet(LAMBDA i : pages[i].n, reach)

(* "counts that silently reflect a cap read as the whole truth": a         *)
(* passport that does not say SOURCE CUT counts every record the far side  *)
(* held, whichever of quota, page ceiling, record limit, error status,     *)
(* eviction or a concurrent writer of the same collection got in the way.  *)
(* A page the wire limit cut during a walk is the exception:               *)
(* _collect_pages never looks at it, although mark_truncated says it is    *)
(* for "page or wire limit".                                               *)
HonestPassport ==
  \A x \in Calls :
    /\ call[x].answer = "complete"
    /\ call[x].kind = "collect" => \A i \in DOMAIN call[x].server.pages : ~call[x].server.pages[i].cut
    => call[x].kept = Held(x)

(* "without it two appends read the same record_count, write records at    *)
(* colliding positions and lose one update": the count of a collection is  *)
(* the number of its records and no two share a position.                  *)
CountsAgree ==
  \A c \in Cols : /\ row[c].n = Cardinality(recs[c])
                  /\ {r.pos : r \in recs[c]} = 0..(row[c].n - 1)

(* Both quotas of an owner hold whenever their transactions did not        *)
(* overlap: create evicts (and stores a lone oversized newcomer anyway),   *)
(* append refuses.  Only append locks, and only its own collection, so     *)
(* overlapping writers may pass a quota together.                          *)
WithinQuota ==
  ~past.raced => /\ Cardinality(Live) <= MaxPerUser
                 /\ BytesOf(Live) <= MaxBytes \/ Cardinality(Live) = 1
=============================================================================
