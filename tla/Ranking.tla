------------------------------- MODULE Ranking -------------------------------
(***************************************************************************)
(* One recall: instructions/local.py _search over instructions/ranking.py. *)
(* The candidates are ranked by similarity (or fused from two rankings),   *)
(* re-scored by the cross-encoder when there is one, and, in a search that *)
(* names no kind, capped per type.  A candidate has a title, a type and a  *)
(* score in each stage; the query is a title.                              *)
(***************************************************************************)
EXTENDS Integers, Sequences, SequencesExt, FiniteSets, FiniteSetsExt

CONSTANTS IdOrder,     \* the titles (small numbers), ordered by record id
          TypeOf,      \* the type of each title's record
          Cosines,     \* similarities and cross-encoder scores
          Queries,     \* the titles a query may equal
          Lexicals,    \* orderings BM25 may return
          Ks, rerank_candidates

VARIABLES cosine, cross,   \* title -> score, in each stage
          lexical,         \* the titles that match the words, best first
          query, k, mixed, \* the arguments; mixed: no kind was named
          store, reranker, \* "plain", "sqlite" or "postgres"; "none", "up" or "down"
          stage, shortlist, hits

rankVars == <<cosine, cross, lexical, query, k, mixed, store, reranker, stage, shortlist, hits>>
given == <<cosine, cross, lexical, query, k, mixed, store, reranker>>

Titles == {IdOrder[i] : i \in DOMAIN IdOrder}
SearchHit(t, s) == [title |-> t, score |-> s]
Better(a, b) == a.score > b.score \/ (a.score = b.score /\ a.title < b.title)
Take(s, n) == SubSeq(s, 1, Min({n, Len(s)}))
Ordered(set) == SetToSortSeq(set, Better)
TitlesOf(s) == {s[i].title : i \in DOMAIN s}
EXACT_TITLE_BOOST == 2
Exact(t) == IF t = query THEN EXACT_TITLE_BOOST ELSE 0

Init ==
  /\ cosine \in [Titles -> Cosines] /\ cross \in [Titles -> Cosines]
  /\ store \in {"plain", "sqlite", "postgres"} /\ reranker \in {"none", "up", "down"}
  /\ lexical \in Lexicals /\ (store = "plain" => lexical = <<>>)
  /\ query \in Queries /\ k \in Ks /\ mixed \in BOOLEAN
  /\ reranker # "up" => \A t \in Titles : cross[t] = Min(Cosines)
  /\ stage = "shortlist" /\ shortlist = <<>> /\ hits = <<>>

(* _vector_candidates: Postgres orders and cuts by distance, the portable  *)
(* stores hand over every row in the order of the ids.                     *)
_vector_candidates(fetch) ==
  IF store = "postgres"
  THEN LET near == Ordered({SearchHit(t, cosine[t]) : t \in Titles})
       IN [i \in DOMAIN Take(near, fetch) |-> near[i].title]
  ELSE IdOrder

(* rank: similarity, the exact title boosted.                              *)
rank(candidates) == {SearchHit(t, cosine[t] + Exact(t)) : t \in candidates}

(* fuse: 1/(60 + position) over the rankings, in units of 1/(61*62*63*64). *)
Unit == 61 * 62 * 63 * 64
_reciprocal_rank_scores(ranking, t) ==
  LET at == {i \in DOMAIN ranking : ranking[i] = t}
  IN IF at = {} THEN 0 ELSE Unit \div (60 + Min(at))
fuse(vector, words) ==
  {SearchHit(t, _reciprocal_rank_scores(vector, t) + _reciprocal_rank_scores(words, t) + Exact(t) * Unit)
   : t \in Range(vector) \union Range(words)}

_shortlist_size == IF reranker = "none" THEN k ELSE Max({k, rerank_candidates})

Fetch == IF mixed /\ reranker = "none" THEN Max({_shortlist_size, k * 3}) ELSE _shortlist_size

_shortlist ==
  LET fetch == Fetch
      vector == _vector_candidates(fetch)
      scored == IF store = "plain" THEN rank(Range(vector)) ELSE fuse(vector, Take(lexical, fetch))
  IN /\ stage = "shortlist" /\ stage' = "rerank"
     /\ shortlist' = Take(Ordered(scored), fetch)
     /\ UNCHANGED <<given, hits>>

Rescored == Ordered({SearchHit(t, cross[t]) : t \in TitlesOf(shortlist)})
(* rerank: the cross-encoder's order, the exact title first regardless.    *)
rerank(n) ==
  Take(SelectSeq(Rescored, LAMBDA h : h.title = query)
         \o SelectSeq(Rescored, LAMBDA h : h.title # query), n)

(* _apply_reranker: no reranker leaves the shortlist whole, an outage cuts *)
(* it.                                                                     *)
_apply_reranker ==
  LET n == IF mixed THEN Len(shortlist) ELSE k
  IN /\ stage = "rerank" /\ stage' = "cap"
     /\ hits' = IF reranker = "none" \/ shortlist = <<>> THEN shortlist
                ELSE IF reranker = "down" THEN Take(shortlist, n) ELSE rerank(n)
     /\ UNCHANGED <<given, shortlist>>

(* _cap_types: at most ceil(k/2) of a type, unless nothing else is left;   *)
(* a ranking that had to be filled up is sorted by score again.            *)
_cap_types(hs, n) ==
  LET cap == Max({1, (n + 1) \div 2})
      turn(acc, h) ==
        IF Len(acc.taken) = n THEN acc
        ELSE IF Cardinality({i \in DOMAIN acc.taken : TypeOf[acc.taken[i].title] = TypeOf[h.title]}) = cap
        THEN [acc EXCEPT !.skipped = Append(@, h), !.seen = @ + 1]
        ELSE [acc EXCEPT !.taken = Append(@, h), !.seen = @ + 1]
      end == FoldLeft(turn, [taken |-> <<>>, skipped |-> <<>>, seen |-> 0], hs)
      filled == end.taken \o Take(end.skipped, n - Len(end.taken))
  IN IF end.seen < Len(hs) THEN end.taken ELSE SortSeq(filled, Better)

Cap ==
  /\ stage = "cap" /\ stage' = "done"
  /\ hits' = IF mixed THEN _cap_types(hits, k) ELSE hits
  /\ UNCHANGED <<given, shortlist>>

Next == _shortlist \/ _apply_reranker \/ Cap

Spec == Init /\ [][Next]_rankVars

-----------------------------------------------------------------------------
(* The hits of every stage are records of the store, each once.            *)
RankingTypeOK ==
  /\ stage \in {"shortlist", "rerank", "cap", "done"}
  /\ TitlesOf(shortlist) \subseteq Titles /\ TitlesOf(hits) \subseteq TitlesOf(shortlist)
  /\ Cardinality(TitlesOf(hits)) = Len(hits) /\ Cardinality(TitlesOf(shortlist)) = Len(shortlist)

(* What a retriever returned: the portable stores hand over every row,     *)
(* Postgres the nearest and the best matches only.                         *)
Retrieved == Range(_vector_candidates(Fetch)) \union Range(Take(lexical, Fetch))

(* "The exact-title guarantee survives": a record either retriever         *)
(* returned whose title is the query is the first hit, whatever the        *)
(* vectors, the words and the fusion say, and is never cut from the        *)
(* shortlist.  A mixed search behind a live reranker is left out: there    *)
(* _cap_types may sort by the cross-encoder's score alone and move it.     *)
ExactTitleFirst ==
  (stage = "done" /\ query \in Retrieved /\ ~(mixed /\ reranker = "up")) =>
    hits # <<>> /\ hits[1].title = query

(* "a cap must diversify, never starve the result": a mixed search returns *)
(* as many hits as the shortlist gives, and a type goes over its share     *)
(* only when no record of a type below its share was left out.             *)
CapNeverStarves ==
  (stage = "done" /\ mixed) =>
    LET cap == Max({1, (k + 1) \div 2})
        of(t) == Cardinality({x \in TitlesOf(hits) : TypeOf[x] = t})
    IN /\ Len(hits) = Min({k, Len(shortlist)})
       /\ \A x \in TitlesOf(shortlist) \ TitlesOf(hits), y \in TitlesOf(hits) :
            of(TypeOf[x]) < cap => of(TypeOf[y]) <= cap

(* "the rest hand over the visible rows for brute-force cosine": with no   *)
(* word of the query in any record, similarity orders the hits of a        *)
(* search.  The SQLite store is left out: it fuses the word ranking with   *)
(* rows that come in the order of their ids.                               *)
SimilarityDecides ==
  (store # "sqlite" /\ stage = "done" /\ lexical = <<>> /\ query \notin Titles /\ reranker = "none" /\ ~mixed) =>
    \A i, j \in DOMAIN hits : i < j => cosine[hits[i].title] >= cosine[hits[j].title]
=============================================================================
