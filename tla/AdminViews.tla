----------------------------- MODULE AdminViews -----------------------------
(***************************************************************************)
(* The console's listings (admin/store.py): an operator walks one of them  *)
(* page by page while rows come and go. A page is two statements on one    *)
(* session, the rows and then the count behind the pager, and nothing      *)
(* freezes the table between them or between two pages.                    *)
(*                                                                         *)
(* A row is what the filters and the sort keys of the listings tell apart: *)
(* `at' is the time (or seq) it is sorted by, 0 for none; `name' the text  *)
(* keys (owner, title, code); `kind' the value the listing filters on;     *)
(* `joined' whether its dialog exists.                                     *)
(***************************************************************************)
EXTENDS Naturals, Integers, Sequences, FiniteSets, SequencesExt

CONSTANTS
    MaxRows, Times, Names,
    Limits, Offsets,        \* what the query string may say; None for nothing
    DEFAULT_PAGE_SIZE, MAX_PAGE_SIZE,
    MaxChanges              \* bound: rows that come or go during a walk

None == -1
Ids == 1..MaxRows

VARIABLES
    view,       \* the listing that is open, with its filter
    table,      \* the rows it is about
    page,       \* the page being read: [pc, start, limit, offset, items, total]
    shown,      \* ids of the rows shown so far, in order
    changes     \* how often the table changed since the walk began

vars == <<view, table, page, shown, changes>>

Row == [id : Ids, at : Times, name : Names, kind : {"memory", "skill"}, joined : BOOLEAN]
Kinds == {"memory", "skill", "any"}
Passes(r, kind) == kind = "any" \/ r.kind = kind

-----------------------------------------------------------------------------
(* The listings: which rows, which of them are counted, in which order.      *)
(* Orders are sequences of numbers compared position by position.            *)

Listing(rows, counted, keys) == [rows |-> rows, counted |-> counted, keys |-> keys]
Newest(r) == <<0 - r.at, r.id>>

(* Most recent message first, dialogs without any last. *)
list_dialogs(t, kind) == Listing(t, t, [r \in t |-> Newest(r)])
list_messages(t, kind) == Listing(t, t, [r \in t |-> <<r.at>>])

(* The rows are joined with their dialog, the count is not. *)
list_tasks(t, kind) ==
    LET matched == {r \in t : Passes(r, kind)}
    IN  Listing({r \in matched : r.joined}, matched, [r \in t |-> Newest(r)])

list_cron_jobs(t, kind) == Listing(t, t, [r \in t |-> <<r.at>>])

(* Memories share the table and have a tab of their own. *)
list_instructions(t, kind) ==
    LET rest == {r \in t : r.kind # "memory"}
    IN  Listing(rest, rest, [r \in t |-> <<r.name>>])

list_memories(t, kind) ==
    LET memories == {r \in t : r.kind = "memory"}
    IN  Listing(memories, memories, [r \in t |-> <<0 - r.at, r.name>>])

list_datasets(t, kind) == Listing(t, t, [r \in t |-> <<r.name>>])
list_dataset_records(t, kind) == Listing(t, t, [r \in t |-> Newest(r)])
list_summaries(t, kind) == Listing(t, t, [r \in t |-> Newest(r)])

list_exchanges(t, kind) ==
    LET matched == {r \in t : Passes(r, kind) /\ r.joined}
    IN  Listing(matched, matched, [r \in t |-> Newest(r)])

list_user_params(t, kind) == Listing(t, t, [r \in t |-> <<r.name>>])
list_usage_events(t, kind) == Listing(t, t, [r \in t |-> <<0 - r.at>>])
list_secrets(t, kind) == Listing(t, t, [r \in t |-> <<r.name>>])

Views == {"dialogs", "messages", "tasks", "cron_jobs", "instructions", "memories", "datasets",
          "records", "summaries", "exchanges", "user_params", "usage_events", "secrets"}

read_model(v, t) ==
    CASE v.name = "dialogs" -> list_dialogs(t, v.kind)
      [] v.name = "messages" -> list_messages(t, v.kind)
      [] v.name = "tasks" -> list_tasks(t, v.kind)
      [] v.name = "cron_jobs" -> list_cron_jobs(t, v.kind)
      [] v.name = "instructions" -> list_instructions(t, v.kind)
      [] v.name = "memories" -> list_memories(t, v.kind)
      [] v.name = "datasets" -> list_datasets(t, v.kind)
      [] v.name = "records" -> list_dataset_records(t, v.kind)
      [] v.name = "summaries" -> list_summaries(t, v.kind)
      [] v.name = "exchanges" -> list_exchanges(t, v.kind)
      [] v.name = "user_params" -> list_user_params(t, v.kind)
      [] v.name = "usage_events" -> list_usage_events(t, v.kind)
      [] v.name = "secrets" -> list_secrets(t, v.kind)

-----------------------------------------------------------------------------
Before(a, b) ==
    \/ a[1] < b[1]
    \/ Len(a) = 2 /\ a[1] = b[1] /\ a[2] <= b[2]
    \/ Len(a) = 1 /\ a[1] = b[1]

(* ORDER BY leaves rows with equal keys in any order, and another statement  *)
(* may order them differently.                                               *)
OrderBy(l) == {s \in SetToSeqs(l.rows) : \A i, j \in 1..Len(s) :
                   i < j => Before(l.keys[s[i]], l.keys[s[j]])}

Slice(s, limit, offset) ==
    SubSeq(s, offset + 1, IF offset + limit < Len(s) THEN offset + limit ELSE Len(s))

Lesser(a, b) == IF a < b THEN a ELSE b
Greater(a, b) == IF a < b THEN b ELSE a

clamp_page(limit, offset) ==
    [limit |-> IF limit = None THEN DEFAULT_PAGE_SIZE ELSE Greater(1, Lesser(limit, MAX_PAGE_SIZE)),
     offset |-> Greater(0, offset)]

(* Tables the constraints of the schema allow: a message has a seq, unique   *)
(* in its dialog; owner and name are unique for datasets, params, secrets.   *)
Allowed(v, t) ==
    /\ \A r, q \in t : r.id = q.id => r = q
    /\ v.name = "messages" => \A r, q \in t : r.at = q.at => r = q
    /\ v.name \in {"datasets", "user_params", "secrets"} => \A r, q \in t : r.name = q.name => r = q

(* Only the columns a listing looks at vary. *)
Plain(v, r) ==
    /\ v.name \in {"datasets", "user_params", "secrets", "instructions"} => r.at = 1
    /\ v.name \notin {"datasets", "user_params", "secrets", "instructions", "memories"} => r.name = 1
    /\ v.name \notin {"tasks", "exchanges", "instructions", "memories"} => r.kind = "skill"
    /\ v.name \notin {"tasks", "exchanges"} => r.joined
    /\ v.name # "dialogs" => r.at # 0

Idle == [pc |-> "idle", start |-> 0, limit |-> 1, offset |-> 0, items |-> << >>, total |-> 0]

Init ==
    /\ view \in [name : Views, kind : Kinds]
    /\ view.name \notin {"tasks", "exchanges"} => view.kind = "any"
    /\ \E n \in Ids \cup {0} : \E f \in [1..n -> {r \in Row : r.id = 1 /\ Plain(view, r)}] :
          table = {[f[i] EXCEPT !.id = i] : i \in 1..n}
    /\ Allowed(view, table)
    /\ page = Idle
    /\ shown = << >>
    /\ changes = 0

(* The operator opens the listing. *)
Open(limit, offset) ==
    /\ page.pc = "idle"
    /\ LET c == clamp_page(limit, offset)
       IN  page' = [Idle EXCEPT !.pc = "rows", !.start = c.offset, !.limit = c.limit,
                                !.offset = c.offset]
    /\ UNCHANGED <<view, table, shown, changes>>

SelectRows ==
    /\ page.pc = "rows"
    /\ \E s \in OrderBy(read_model(view, table)) :
          page' = [page EXCEPT !.pc = "count", !.items = Slice(s, page.limit, page.offset)]
    /\ UNCHANGED <<view, table, shown, changes>>

_count ==
    /\ page.pc = "count"
    /\ page' = [page EXCEPT !.pc = "page", !.total = Cardinality(read_model(view, table).counted)]
    /\ shown' = shown \o [i \in DOMAIN page.items |-> page.items[i].id]
    /\ UNCHANGED <<view, table, changes>>

More == page.offset + page.limit < page.total

(* The pager's button, which is off on the last page. *)
NextPage ==
    /\ page.pc = "page" /\ More
    /\ page' = [page EXCEPT !.pc = "rows", !.offset = @ + page.limit, !.items = << >>, !.total = 0]
    /\ UNCHANGED <<view, table, shown, changes>>

(* Somebody else's write between two statements. *)
Change ==
    /\ page.pc # "idle" /\ changes < MaxChanges
    /\ \/ \E r \in table : table' = table \ {r}
       \/ \E r \in {q \in Row : Plain(view, q) /\ q \notin table} :
             Allowed(view, table \cup {r}) /\ table' = table \cup {r}
    /\ changes' = changes + 1
    /\ UNCHANGED <<view, page, shown>>

Next == (\E l \in Limits, o \in Offsets : Open(l, o)) \/ SelectRows \/ _count \/ NextPage \/ Change
Spec == Init /\ [][Next]_vars

-----------------------------------------------------------------------------
ViewsTypeOK ==
    /\ view \in [name : Views, kind : Kinds]
    /\ table \subseteq Row
    /\ page.pc \in {"idle", "rows", "count", "page"}
    /\ page.limit \in 1..MAX_PAGE_SIZE /\ page.offset \in Nat /\ page.total \in Nat
    /\ shown \in Seq(Ids)
    /\ changes \in 0..MaxChanges

(* Listings whose order can leave two rows tied. *)
MayTie == view.name \in {"cron_jobs", "usage_events", "instructions", "memories"}
Tied == \E r, q \in read_model(view, table).rows :
            r # q /\ read_model(view, table).keys[r] = read_model(view, table).keys[q]
Orphans == view.name = "tasks" /\ \E r \in table : ~r.joined

(* An operator who walks a listing from its start to the last page has seen  *)
(* every row of it exactly once; every write meanwhile costs at most one row *)
(* seen twice and one missed. Four listings sort by keys that can tie; for   *)
(* them this takes that nobody writes and no two rows do.                    *)
WalkSeesEachOnce ==
    page.pc = "page" /\ ~More /\ page.start = 0 /\ (MayTie => changes = 0 /\ ~Tied) =>
        LET seen == ToSet(shown)
            there == {r.id : r \in read_model(view, table).rows}
        IN  /\ Len(shown) - Cardinality(seen) <= changes
            /\ Cardinality(there \ seen) <= changes

(* The pager's total is the number of rows the pages can show, so no page    *)
(* it leads to is empty, but for the writes since the walk began. The tasks  *)
(* tab counts tasks without a dialog too, and shows none of them.            *)
TotalIsReachable ==
    page.pc = "page" /\ ~Orphans =>
        LET expected == Greater(0, Lesser(page.limit, page.total - page.offset))
        IN  Len(page.items) - expected \in (0 - changes)..changes
=============================================================================
