---------------------------- MODULE EmbeddingCache ----------------------------
(***************************************************************************)
(* CachingEmbeddingClient (llm/embedding_cache.py): concurrent calls of    *)
(* embed() over a small LRU cache and the futures of the computations in   *)
(* flight.  A call runs without interruption between its awaits (turn);    *)
(* at an await it may be cancelled, and cancelling a call that waits on a  *)
(* future cancels the future itself.                                       *)
(***************************************************************************)
EXTENDS Integers, Sequences, FiniteSets, Functions

CONSTANTS
  Callers,      \* concurrent callers
  TextLists,    \* the tuples of texts they embed
  MaxEntries,   \* capacity of the cache
  MaxCalls,     \* bound on the calls made
  MaxCacheMishaps    \* bound on backend failures and cancellations

VARIABLES
  _cache,      \* texts in the cache, least recently used first
  _in_flight,  \* text -> the caller whose future is registered for it
  future,      \* <<caller, text>> -> "pending", "cancelled" or "none"
  embedding,   \* caller -> its call
  turn,        \* the caller running between two awaits
  spent        \* calls made and mishaps so far

cacheVars == <<_cache, _in_flight, future, embedding, turn, spent>>

None == "none"
Texts == UNION {Range(r) : r \in TextLists}

(* Requests are tuples of texts, and no caller is called None. *)
ASSUME CacheAssumption == TextLists \subseteq Seq(Texts) /\ None \notin Callers

NoCall == [pc |-> "idle", texts |-> <<>>, missing |-> {}, n |-> 0, on |-> None]

CacheInit ==
  /\ _cache = <<>> /\ _in_flight = [t \in Texts |-> None]
  /\ future = [f \in Callers \X Texts |-> None]
  /\ embedding = [c \in Callers |-> NoCall] /\ turn = None
  /\ spent = [calls |-> 0, mishaps |-> 0]

(* The text becomes the most recent entry; the oldest fall out. *)
_remember(text, cache) ==
  LET moved == Append(SelectSeq(cache, LAMBDA t : t # text), text)
  IN  IF Len(moved) > MaxEntries THEN SubSeq(moved, Len(moved) - MaxEntries + 1, Len(moved)) ELSE moved

Cached(text) == text \in Range(_cache)
Missed(texts) == {t \in Range(texts) : ~Cached(t)}

(* embed() up to its first await: the texts neither cached nor in flight   *)
(* get a future and go to the backend as one request.                      *)
embed(c, texts) ==
  /\ turn = None /\ embedding[c].pc = "idle" /\ spent.calls < MaxCalls
  /\ spent' = [spent EXCEPT !.calls = @ + 1]
  /\ LET missing == {t \in Missed(texts) : _in_flight[t] = None}
     IN  /\ embedding' = [embedding EXCEPT ![c] = [NoCall EXCEPT !.pc = IF missing = {} THEN "resolving" ELSE "computing",
                                                     !.texts = texts, !.missing = missing]]
         /\ _in_flight' = [t \in Texts |-> IF t \in missing THEN c ELSE _in_flight[t]]
         /\ future' = [f \in DOMAIN future |-> IF f[1] = c /\ f[2] \in missing THEN "pending" ELSE future[f]]
         /\ turn' = IF missing = {} THEN c ELSE None
  /\ UNCHANGED _cache

(* A settled future wakes its waiters: with the vector, or with the error. *)
Woken(c, k, ok) ==
  LET mine == k.pc = "waiting" /\ k.on \in {<<c, t>> : t \in embedding[c].missing}
  IN  IF ~mine THEN k
      ELSE IF ok THEN [k EXCEPT !.pc = "woken", !.n = @ + 1, !.on = None]
                 ELSE [k EXCEPT !.pc = "failed", !.on = None]

Release(c) ==
  /\ _in_flight' = [t \in Texts |-> IF t \in embedding[c].missing THEN None ELSE _in_flight[t]]
  /\ future' = [f \in DOMAIN future |-> IF f[1] = c THEN None ELSE future[f]]

(* The backend answers: every text is remembered and published. *)
Publish(c) ==
  /\ turn = None /\ embedding[c].pc = "computing"
  /\ _cache' = FoldFunction(_remember, _cache, [t \in embedding[c].missing |-> t])
  /\ Release(c)
  /\ embedding' = [d \in Callers |-> IF d = c THEN [embedding[c] EXCEPT !.pc = "resolving", !.missing = {}]
                                          ELSE Woken(c, embedding[d], TRUE)]
  /\ turn' = c
  /\ UNCHANGED spent

(* Mutant: a cancelled call leaves its futures behind. *)
FailOnError(c, cancelled) ==
  /\ turn = None /\ embedding[c].pc = "computing" /\ spent.mishaps < MaxCacheMishaps
  /\ spent' = [spent EXCEPT !.mishaps = @ + 1]
  /\ IF cancelled THEN UNCHANGED <<_in_flight, future>> ELSE Release(c)
  /\ embedding' = [d \in Callers |-> IF d = c THEN [embedding[c] EXCEPT !.pc = "failed", !.missing = {}]
                                ELSE IF cancelled THEN embedding[d] ELSE Woken(c, embedding[d], FALSE)]
  /\ UNCHANGED <<_cache, turn>>

(* The backend fails, or the call is cancelled while it computes. *)
_compute(c, cancelled) ==
  /\ turn = None /\ embedding[c].pc = "computing" /\ spent.mishaps < MaxCacheMishaps
  /\ spent' = [spent EXCEPT !.mishaps = @ + 1]
  /\ Release(c)
  /\ embedding' = [d \in Callers |-> IF d = c THEN [embedding[c] EXCEPT !.pc = "failed", !.missing = {}]
                                ELSE Woken(c, embedding[d], FALSE)]
  /\ UNCHANGED <<_cache, turn>>

-----------------------------------------------------------------------------
Wanted(c) == embedding[c].texts[embedding[c].n + 1]
More(c) == embedding[c].n < Len(embedding[c].texts)

(* _resolve() of the next text: from the cache, from a future in flight,   *)
(* or, when it is in neither, from the backend on its own.                 *)
_resolve(c) ==
  /\ turn = c /\ embedding[c].pc = "resolving" /\ More(c)
  /\ LET text == Wanted(c)
         owner == _in_flight[text]
     IN  \/ /\ Cached(text)
            /\ _cache' = _remember(text, _cache)
            /\ embedding' = [embedding EXCEPT ![c].n = @ + 1]
            /\ UNCHANGED turn
         \/ /\ ~Cached(text) /\ owner # None
            /\ embedding' = [embedding EXCEPT ![c].pc = IF future[<<owner, text>>] = "cancelled" THEN "failed" ELSE "waiting",
                                    ![c].on = <<owner, text>>]
            /\ turn' = None /\ UNCHANGED _cache
         \/ /\ ~Cached(text) /\ owner = None
            /\ embedding' = [embedding EXCEPT ![c].pc = "alone"] /\ turn' = None /\ UNCHANGED _cache
  /\ UNCHANGED <<_in_flight, future, spent>>

(* A woken call goes on with its next text. *)
Wake(c) ==
  /\ turn = None /\ embedding[c].pc = "woken"
  /\ embedding' = [embedding EXCEPT ![c].pc = "resolving"] /\ turn' = c
  /\ UNCHANGED <<_cache, _in_flight, future, spent>>

(* The lone request answers, or fails. *)
AloneAnswers(c) ==
  /\ turn = None /\ embedding[c].pc = "alone"
  /\ _cache' = _remember(Wanted(c), _cache)
  /\ embedding' = [embedding EXCEPT ![c].pc = "resolving", ![c].n = @ + 1]
  /\ turn' = c
  /\ UNCHANGED <<_in_flight, future, spent>>

AloneFails(c) ==
  /\ turn = None /\ embedding[c].pc = "alone" /\ spent.mishaps < MaxCacheMishaps
  /\ spent' = [spent EXCEPT !.mishaps = @ + 1]
  /\ embedding' = [embedding EXCEPT ![c].pc = "failed"]
  /\ UNCHANGED <<_cache, _in_flight, future, turn>>

(* A waiting call is cancelled, and with it the future it awaits: every    *)
(* other waiter of that future ends with the same CancelledError.          *)
CancelWaiting(c) ==
  /\ turn = None /\ embedding[c].pc = "waiting" /\ spent.mishaps < MaxCacheMishaps
  /\ spent' = [spent EXCEPT !.mishaps = @ + 1]
  /\ future' = [future EXCEPT ![embedding[c].on] = "cancelled"]
  /\ embedding' = [d \in Callers |-> IF embedding[d].pc = "waiting" /\ embedding[d].on = embedding[c].on
                                  THEN [embedding[d] EXCEPT !.pc = "failed"] ELSE embedding[d]]
  /\ UNCHANGED <<_cache, _in_flight, turn>>

(* The call returns its tuple, or raised. *)
Return(c) ==
  /\ \/ turn = c /\ embedding[c].pc = "resolving" /\ ~More(c)
     \/ turn = None /\ embedding[c].pc = "failed"
  /\ embedding' = [embedding EXCEPT ![c] = NoCall] /\ turn' = None
  /\ UNCHANGED <<_cache, _in_flight, future, spent>>

CacheNext ==
  \E c \in Callers :
    \/ \E r \in TextLists : embed(c, r)
    \/ Publish(c) \/ (\E cancelled \in BOOLEAN : _compute(c, cancelled))
    \/ _resolve(c) \/ Wake(c) \/ AloneAnswers(c) \/ AloneFails(c) \/ CancelWaiting(c)
    \/ Return(c)

CacheSpec == CacheInit /\ [][CacheNext]_cacheVars
-----------------------------------------------------------------------------
(* Types. *)
CacheTypeOK ==
  /\ Range(_cache) \subseteq Texts /\ Len(_cache) <= MaxEntries /\ IsInjective(_cache)
  /\ _in_flight \in [Texts -> Callers \cup {None}] /\ turn \in Callers \cup {None}

(* Every future in flight has a call that is still computing it, whether   *)
(* the backend failed or the computing call was cancelled: no text stays   *)
(* registered with nobody left to publish it, and every waiter is woken.   *)
NoOrphanFuture ==
  /\ \A t \in Texts : _in_flight[t] # None => embedding[_in_flight[t]].pc = "computing" /\ t \in embedding[_in_flight[t]].missing
  /\ \A c \in Callers : embedding[c].pc = "waiting" => _in_flight[embedding[c].on[2]] = embedding[c].on[1]

(* Two calls never have the backend compute the same text as part of a     *)
(* registered request: the second one waits for the first.                 *)
OneComputation ==
  \A c, d \in Callers : c # d /\ embedding[c].pc = "computing" /\ embedding[d].pc = "computing" =>
    embedding[c].missing \cap embedding[d].missing = {}

(* What callers share is computed once and settled: nobody waits for a     *)
(* computation that no call carries out, and none is carried out twice     *)
(* (embed, _compute, _resolve).                                            *)
SharedOnce == NoOrphanFuture /\ OneComputation
=============================================================================
