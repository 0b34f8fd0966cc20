--------------------------- MODULE CollectionQuery ---------------------------
(***************************************************************************)
(* collection_query: the tool (net/collections/tools.py) and the engine    *)
(* that compiles a query to SQL over jsonb (engine.py). A call reads the   *)
(* schema, runs the main statement and sometimes a count, one after the    *)
(* other; the collection may grow or go in between.                        *)
(*                                                                         *)
(* A record has a field f, a field g to group by and a source tag. Values  *)
(* of f are 9 and 10, which sort one way as numbers and the other as text, *)
(* a JSON null, or nothing; both of the last read as SQL NULL through #>>, *)
(* and only the last does through #>.                                      *)
(***************************************************************************)
EXTENDS Integers, Sequences, FiniteSets, SequencesExt, FiniteSetsExt

CONSTANTS
    Records,            \* what a record may be: [f, g, source]
    MaxRecords,
    Queries,            \* what the model may ask for
    query_max_limit

Missing == 0            \* SQL NULL
JsonNull == 1
None == "none"

VARIABLES
    records,    \* the collection's rows by position; Gone when it is evicted
    numeric,    \* the schema calls f a number (else a string)
    known,      \* the fields of the schema
    call,       \* [pc, query, rows, total]
    disturbed   \* the collection changed while the call ran

vars == <<records, numeric, known, call, disturbed>>

NoQuery == [op |-> None, field |-> None, filter |-> None, value |-> None, group |-> FALSE,
            join |-> FALSE, source |-> None, limit |-> 1, offset |-> 0]
Idle == [pc |-> "idle", query |-> NoQuery, rows |-> << >>, total |-> 0]

-----------------------------------------------------------------------------
(* SQL *)

Text(v) == IF v \in {Missing, JsonNull} THEN Missing ELSE v     \* payload #>> path
Lexical(v) == IF v = 10 THEN 1 ELSE v                           \* '10' < '9'
NotNull(S) == S \ {Missing}
Paged(s, limit, offset) ==
    SubSeq(s, offset + 1, IF offset + limit < Len(s) THEN offset + limit ELSE Len(s))

Compare(op, a, b) ==
    CASE op = "eq" -> a = b
      [] op = "ne" -> a # b
      [] op = "gt" -> a > b
      [] op = "lte" -> a <= b

(* The only constant filtered by is 9, as a number or as text. *)
_predicate_sql(q, r) ==
    LET v == Text(r.f) IN
    CASE q.filter = None -> TRUE
      [] q.filter # None /\ q.value = "null" -> (q.filter = "eq") = (v = Missing)
      [] q.filter # None /\ q.value = "9" /\ numeric -> v # Missing /\ Compare(q.filter, v, 9)
      [] OTHER -> v # Missing /\ Compare(q.filter, Lexical(v), Lexical(9))

_where(q) ==
    SelectSeq(records, LAMBDA r : (q.source # None => r.source = q.source) /\ _predicate_sql(q, r))

Order(v) == IF numeric THEN v ELSE Lexical(v)
Rank(v) == CASE v = Missing -> 99 [] v = JsonNull -> 0 [] OTHER -> Order(v)      \* NULLs last

(* Over the values that are there; NULL over none. *)
_aggregate_sql(q, rows) ==
    LET vs == {i \in DOMAIN rows : Text(rows[i].f) # Missing}
    IN  CASE q.op = "count" -> Len(rows)
          [] q.op # "count" /\ vs = {} -> Missing
          [] q.op = "sum" /\ vs # {} -> MapThenSumSet(LAMBDA i : rows[i].f, vs)
          [] q.op = "max" /\ vs # {} ->
               rows[CHOOSE i \in vs : \A j \in vs : Order(rows[j].f) <= Order(rows[i].f)].f

GroupBy(q, rows) == {rows[i].g : i \in DOMAIN rows}
InGroup(rows, g) == SelectSeq(rows, LAMBDA r : r.g = g)

(* The pairs of matching records, by the left's position and then the right's. *)
_join_clause(rows) ==
    FlattenSeq([i \in DOMAIN rows |->
        LET right == SelectSeq(records, LAMBDA r : /\ Text(r.f) # Missing
                                                   /\ Text(r.f) = Text(rows[i].f))
        IN  [j \in DOMAIN right |-> <<rows[i], right[j]>>]])

(* Everything the main statement returns without paging, in any order the    *)
(* statement leaves open: groups are ordered by their value alone.           *)
_compile(q) ==
    LET rows == _where(q) IN
    CASE q.join /\ q.op = "get" -> {_join_clause(rows)}
      [] q.join /\ q.op = "count" -> {<<Len(_join_clause(rows))>>}
      [] ~q.join /\ q.op = "get" -> {rows}
      [] ~q.join /\ q.op = "pluck" -> {[i \in DOMAIN rows |-> rows[i].f]}
      [] ~q.join /\ q.op = "distinct" ->
           {SetToSortSeq({rows[i].f : i \in DOMAIN rows}, LAMBDA a, b : Rank(a) < Rank(b))}
      [] ~q.join /\ q.group ->
           LET value(g) == _aggregate_sql(q, InGroup(rows, g))
           IN  {[i \in DOMAIN s |-> [group |-> s[i], value |-> value(s[i])]] :
                   s \in {t \in SetToSeqs(GroupBy(q, rows)) : \A i, j \in DOMAIN t :
                            i < j => \/ value(t[j]) = Missing
                                     \/ value(t[i]) # Missing /\ value(t[i]) >= value(t[j])}}
      [] OTHER -> {<<_aggregate_sql(q, rows)>>}

Aggregates == {"count", "sum", "max"}

(* The count counts what is not NULL. *)
_compile_count(q) ==
    LET rows == _where(q) IN
    CASE q.join -> Len(_join_clause(rows))
      [] ~q.join /\ q.op = "distinct" -> Cardinality(NotNull({rows[i].f : i \in DOMAIN rows}))
      [] ~q.join /\ q.group -> Cardinality(NotNull({rows[i].g : i \in DOMAIN rows}))
      [] OTHER -> Len(rows)

-----------------------------------------------------------------------------
(* The call *)

Init ==
    /\ \E n \in 1..MaxRecords : records \in [1..n -> Records]
    /\ numeric \in BOOLEAN
    /\ known = (IF \A i \in DOMAIN records : records[i].f = Missing THEN {} ELSE {"f"})
               \cup (IF \A i \in DOMAIN records : records[i].g = Missing THEN {} ELSE {"g"})
    /\ call = Idle
    /\ disturbed = FALSE

_require_field(field) == field \in known

Lesser(a, b) == IF a < b THEN a ELSE b
Greater(a, b) == IF a < b THEN b ELSE a
Clamp(q) == [q EXCEPT !.limit = Lesser(Greater(@, 1), query_max_limit), !.offset = Greater(@, 0)]

FieldOps == {"pluck", "distinct", "sum", "max"}
_validate(q) ==
    /\ q.op \in FieldOps => q.field = "f" /\ _require_field("f") /\ (q.op = "sum" => numeric)
    /\ q.group => q.op \in Aggregates /\ _require_field("g")
    /\ q.join => q.op \in {"get", "count"} /\ _require_field("f")
    /\ q.filter # None => /\ _require_field("f")
                          /\ q.value = "null" => q.filter \in {"eq", "ne"}

Gone == << >>

(* The collection is looked up, and the query checked against its schema. *)
execute(q) ==
    /\ call.pc = "idle"
    /\ call' = IF records # Gone /\ _validate(q)
                 THEN [Idle EXCEPT !.pc = "main", !.query = Clamp(q)]
                 ELSE [Idle EXCEPT !.pc = "refused"]
    /\ UNCHANGED <<records, numeric, known, disturbed>>

MainStatement ==
    /\ call.pc = "main"
    /\ \E s \in _compile(call.query) :
          call' = [call EXCEPT !.pc = "total",
                      !.rows = IF call.query.op \in Aggregates /\ ~call.query.group THEN s
                               ELSE Paged(s, call.query.limit, call.query.offset)]
    /\ UNCHANGED <<records, numeric, known, disturbed>>

(* Aggregates answer one row; a first page that is not full is everything. *)
_total ==
    /\ call.pc = "total"
    /\ LET q == call.query
       IN  call' = [call EXCEPT !.pc = "done", !.total =
               CASE q.op \in Aggregates /\ ~q.group -> 1
                 [] ~(q.op \in Aggregates /\ ~q.group) /\ q.offset = 0 /\ Len(call.rows) < q.limit ->
                      Len(call.rows)
                 [] OTHER -> _compile_count(q)]
    /\ UNCHANGED <<records, numeric, known, disturbed>>

(* Another call appends, or the collection is evicted with its records. *)
Disturb ==
    /\ call.pc \in {"main", "total"} /\ ~disturbed
    /\ \/ records' = Append(records, Head(records))
       \/ records' = Gone
    /\ disturbed' = TRUE
    /\ UNCHANGED <<numeric, known, call>>

Next == (\E q \in Queries : execute(q)) \/ MainStatement \/ _total \/ Disturb
Spec == Init /\ [][Next]_vars

-----------------------------------------------------------------------------
QueryTypeOK ==
    /\ Len(records) <= MaxRecords + 1
    /\ numeric \in BOOLEAN /\ known \subseteq {"f", "g"} /\ disturbed \in BOOLEAN
    /\ call.pc \in {"idle", "main", "total", "done", "refused"}
    /\ call.query.limit \in 1..query_max_limit /\ call.query.offset \in Nat
    /\ call.total \in Nat

Answered == call.pc = "done" /\ ~disturbed
Q == call.query
FieldEverywhere ==
    /\ Q.op = "distinct" => \A i \in DOMAIN records : records[i].f # Missing
    /\ Q.group => \A i \in DOMAIN records : records[i].g # Missing

(* The total is what the docstring of _total says: how many rows matched     *)
(* regardless of limit and offset. For distinct and group_by this takes that *)
(* no record lacks the field, since the count leaves the NULL row out that   *)
(* the page includes.                                                        *)
TotalIsTrue ==
    Answered /\ FieldEverywhere =>
        \A s \in _compile(Q) : call.total = Len(s)

(* What a filter keeps is what its words say, for a number among numbers:    *)
(* 10 is greater than 9. Records without the field satisfy no comparison,    *)
(* only eq null.                                                             *)
FilterKeepsItsWord ==
    Answered /\ numeric /\ Q.op = "get" /\ ~Q.join /\ Q.filter # None /\ Q.value = "9" =>
        \A i \in DOMAIN call.rows :
            /\ call.rows[i].f \notin {Missing, JsonNull}
            /\ Q.filter = "gt" => call.rows[i].f = 10
            /\ Q.filter = "lte" => call.rows[i].f = 9

Total(s) == FoldLeft(LAMBDA a, b : a + b, 0, s)

(* Groups lose nothing: over one page that holds them all, grouped counts    *)
(* add up to the number of matching records, and sums to the plain sum.      *)
GroupsAddUp ==
    Answered /\ Q.group /\ Q.op \in {"count", "sum"} /\ Q.offset = 0 /\ Len(call.rows) < Q.limit =>
        Total([i \in DOMAIN call.rows |-> call.rows[i].value]) = _aggregate_sql(Q, _where(Q))
=============================================================================
