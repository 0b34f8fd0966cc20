---------------------------- MODULE HistorySearch ----------------------------
(***************************************************************************)
(* The history_search tool over the message archive (context/tools.py) in  *)
(* its three stores: the portable one, in one statement and by position    *)
(* (context/store.py), Postgres, in one statement and by relevance         *)
(* (context/pg_store.py), and SQLite, which asks the FTS5 mirror for seqs  *)
(* and then reads the rows (context/sqlite_store.py).  Messages arrive,    *)
(* compaction summarises and merges, retention deletes, while a search     *)
(* waits between its reads.  A day has HalfDays moments; a message is of   *)
(* one word, with a relevance to the queries for it.                       *)
(***************************************************************************)
EXTENDS Integers, Sequences, FiniteSets, SequencesExt

CONSTANTS
  Archive,    \* sequence of messages of all dialogs that may arrive, in order
  Arguments,  \* calls of the tool
  Stores,     \* of "portable", "postgres", "sqlite"
  MaxLimit,   \* the tool's max_limit
  DefaultLimit

VARIABLES
  store,      \* which store the process built
  arrived,    \* messages of Archive that arrived
  deleted,    \* indices of those swept away
  summaries,  \* summaries of the dialog: [from, to, topics]
  call        \* the call of the tool

vars == <<store, arrived, deleted, summaries, call>>

HalfDays == 2
None == -1
Dialog == "d"
NoCall == [pc |-> "idle", ranges |-> {}, topical |-> FALSE, seqs |-> <<>>, hits |-> <<>>, answer |-> "none", torn |-> FALSE, seen |-> 0]

Init ==
  /\ store \in Stores /\ arrived = Len(Archive) \div 2 /\ deleted = {}
  /\ summaries = {}
  /\ call \in [args : Arguments, c : {NoCall}]

Live == (1..arrived) \ deleted
Msg(i) == Archive[i]

-----------------------------------------------------------------------------
(* Arguments.  A bound given as a date covers its whole day: as an upper   *)
(* bound, which the stores exclude, it moves to the next midnight.         *)
_parse_date(d, end) ==
  IF d.day = None THEN None
  ELSE HalfDays * d.day + d.half + (IF end /\ d.dateOnly THEN HalfDays ELSE 0)

LimitOK(l) == l = None \/ l \in 1..MaxLimit
_limit(l) == IF l = None THEN DefaultLimit ELSE l

InRanges(i, ranges, topical) == topical => \E r \in ranges : Msg(i).seq \in r[1]..r[2]
InDates(i, a) ==
  LET from == _parse_date(a.from, FALSE) to == _parse_date(a.to, TRUE)
  IN  (from # None => Msg(i).at >= from) /\ (to # None => Msg(i).at < to)

(* What the store's own query keeps: the dialog, the words, the filters.   *)
(* The mirror knows no token of fewer than three characters.               *)
Matches(i) ==
  /\ Msg(i).dialog = Dialog /\ Msg(i).word = call.args.word
  /\ InRanges(i, call.c.ranges, call.c.topical) /\ InDates(i, call.args)
match_expression == ~call.args.short

Best(ids) == SetToSortSeq(ids, LAMBDA i, j : Msg(i).weight > Msg(j).weight \/ (Msg(i).weight = Msg(j).weight /\ i < j))
First(ids) == SetToSortSeq(ids, LAMBDA i, j : Msg(i).seq < Msg(j).seq)
Cut(s) == SubSeq(s, 1, IF Len(s) < _limit(call.args.limit) THEN Len(s) ELSE _limit(call.args.limit))

To(c) == call' = [call EXCEPT !.c = c]
Answer(hits) == To([call.c EXCEPT !.pc = "done", !.hits = hits, !.answer = IF hits = <<>> THEN "no hits" ELSE "hits",
                                             !.seen = IF call.c.pc = "rows" THEN @ ELSE arrived])

-----------------------------------------------------------------------------
(* The tool refuses what it cannot read; a topic is looked up first, and   *)
(* one that no summary carries ends the call.                              *)
find_by_topic == {<<s.from, s.to>> : s \in {s \in summaries : call.args.topic \in s.topics}}

execute ==
  /\ call.c.pc = "idle"
  /\ IF call.args.word = "" \/ ~LimitOK(call.args.limit) THEN To([call.c EXCEPT !.pc = "done", !.answer = "refused"])
     ELSE IF call.args.topic = "" THEN To([call.c EXCEPT !.pc = "search"])
     ELSE IF find_by_topic = {} THEN Answer(<<>>)
     ELSE To([call.c EXCEPT !.pc = "search", !.topical = TRUE, !.ranges = find_by_topic])
  /\ UNCHANGED <<store, arrived, deleted, summaries>>

(* The portable store: a substring match in the order of the dialog.       *)
search ==
  /\ call.c.pc = "search" /\ store = "portable"
  /\ Answer(Cut(First({i \in Live : Matches(i)})))
  /\ UNCHANGED <<store, arrived, deleted, summaries>>

search_postgres ==
  /\ call.c.pc = "search" /\ store = "postgres"
  /\ Answer(Cut(Best({i \in Live : Matches(i)})))
  /\ UNCHANGED <<store, arrived, deleted, summaries>>

_matching_seqs ==
  /\ call.c.pc = "search" /\ store = "sqlite"
  /\ LET found == IF match_expression THEN Cut(Best({i \in Live : Matches(i)})) ELSE <<>>
     IN  IF found = <<>> THEN Answer(<<>>)
         ELSE To([call.c EXCEPT !.pc = "rows", !.seen = arrived, !.seqs = [k \in DOMAIN found |-> Msg(found[k]).seq]])
  /\ UNCHANGED <<store, arrived, deleted, summaries>>

(* The rows of those seqs, in the order of the first query; a row that     *)
(* went meanwhile is left out.                                             *)
BySeq(q) == {i \in Live : Msg(i).seq = q /\ Msg(i).dialog = Dialog}
search_sqlite ==
  /\ call.c.pc = "rows"
  /\ LET kept == SelectSeq(call.c.seqs, LAMBDA q : BySeq(q) # {})
     IN  Answer([k \in DOMAIN kept |-> CHOOSE i \in BySeq(kept[k]) : TRUE])
  /\ UNCHANGED <<store, arrived, deleted, summaries>>

-----------------------------------------------------------------------------
(* Meanwhile: a message is appended, a segment is summarised, the          *)
(* summaries are merged into one, retention deletes the oldest message.    *)
Torn == call' = [call EXCEPT !.c.torn = @ \/ call.c.pc = "rows"]
Arrive == arrived < Len(Archive) /\ arrived' = arrived + 1 /\ UNCHANGED <<store, deleted, summaries, call>>

Covered == IF summaries = {} THEN 0 ELSE CHOOSE q \in {s.to : s \in summaries} : \A s \in summaries : s.to <= q
Newest == IF \E i \in Live : Msg(i).dialog = Dialog
          THEN CHOOSE q \in {Msg(i).seq : i \in Live} : \E i \in Live : Msg(i).dialog = Dialog /\ Msg(i).seq = q
                 /\ \A j \in Live : Msg(j).dialog = Dialog => Msg(j).seq <= q
          ELSE 0
create(topic) ==
  /\ Newest > Covered
  /\ summaries' = summaries \cup {[from |-> Covered + 1, to |-> Newest, topics |-> {topic}]}
  /\ UNCHANGED <<store, arrived, deleted, call>>

replace_for_dialog(topics) ==
  /\ Cardinality(summaries) > 1
  /\ summaries' = {[from |-> 1, to |-> Covered, topics |-> topics]}
  /\ UNCHANGED <<store, arrived, deleted, call>>

Sweep(i) ==
  /\ i \in Live /\ Msg(i).dialog = Dialog /\ Msg(i).seq <= Covered /\ \A j \in Live : Msg(j).dialog = Dialog => i <= j
  /\ deleted' = deleted \cup {i} /\ Torn /\ UNCHANGED <<store, arrived, summaries>>

Next ==
  \/ execute \/ search \/ search_postgres \/ _matching_seqs \/ search_sqlite \/ Arrive
  \/ \E t \in {"t", "u"} : create(t) \/ replace_for_dialog({t})
  \/ \E i \in DOMAIN Archive : Sweep(i)

Spec == Init /\ [][Next]_vars
-----------------------------------------------------------------------------
HistoryTypeOK ==
  /\ store \in Stores /\ arrived \in 0..Len(Archive) /\ deleted \subseteq 1..arrived
  /\ call.c.pc \in {"idle", "search", "rows", "done"} /\ call.c.answer \in {"none", "refused", "no hits", "hits"}

Hits == {call.c.hits[k] : k \in DOMAIN call.c.hits}

(* Whatever the store, and whatever was written between its reads, a hit   *)
(* is a message of this dialog with the word, within the filters, never    *)
(* twice and never more than the limit allows.                             *)
ScopeKept ==
  call.c.pc = "done" =>
    /\ \A i \in Hits : Matches(i)
    /\ Cardinality(Hits) = Len(call.c.hits) /\ Len(call.c.hits) <= _limit(call.args.limit)

(* Asked for one day by its date alone, from and to, the tool sees every   *)
(* moment of that day: a search that stayed below its limit returned every *)
(* message of the word and day that stayed throughout, except where the    *)
(* mirror cannot look for so short a word.                                 *)
WholeDayCovered ==
  LET a == call.args
  IN  (/\ call.c.pc = "done" /\ call.c.answer # "refused" /\ a.topic = ""
       /\ a.from.dateOnly /\ a.to.dateOnly /\ a.from.day # None /\ a.from.day = a.to.day
       /\ Len(call.c.hits) < _limit(a.limit) /\ ~(store = "sqlite" /\ a.short) /\ ~call.c.torn)
      => \A i \in Live :
           (i <= call.c.seen /\ Msg(i).dialog = Dialog /\ Msg(i).word = a.word /\ Msg(i).at \div HalfDays = a.from.day)
             => i \in Hits
=============================================================================
