------------------------------ MODULE RecordHunt ------------------------------
(***************************************************************************)
(* How an oversized response becomes records (net/collections/ingest.py):  *)
(* the breadth-first hunt for the array of objects nearest the root, the   *)
(* declared path, CSV, the record cap, and the tier each shape goes to.    *)
(* A JSON body is a tree: node 1 is the root, a member's parent comes      *)
(* before it, and members keep their order.                                *)
(***************************************************************************)
EXTENDS Integers, Sequences, FiniteSets, SequencesExt

CONSTANTS
  Bodies,             \* the JSON trees of the instance
  Sheets,             \* the CSV bodies: sequences of row lengths
  MAX_UNWRAP_DEPTH,
  MAX_UNWRAP_NODES,
  MAX_RECORDS,
  Mishaps             \* whether the tiers may fail

VARIABLES
  body,      \* the response: its form and content
  tiers,     \* [store, home]: whether a database tier and a document home exist
  hunt,      \* the descent: frontier, depth, visited nodes, and what it found
  parsed,    \* what was taken apart: records, their node, the flags
  out        \* "none", "body" (kept inline, truncated), "document", "collection"

vars == <<body, tiers, hunt, parsed, out>>

NoHunt == [frontier |-> <<>>, depth |-> 0, visited |-> 0, found |-> 0, over |-> FALSE]
Unparsed == [records |-> 0, node |-> 0, single |-> FALSE, truncated |-> FALSE]

Init ==
  /\ body \in [form : {"json"}, tree : Bodies, path : {0, 2, 3}] \cup [form : {"csv"}, rows : Sheets] \cup [form : {"text", "short"}]
  /\ tiers \in [store : BOOLEAN, home : BOOLEAN]
  /\ hunt = NoHunt /\ parsed = Unparsed /\ out = "none"

Tree == body.tree
Members(n) == SelectSeq([i \in 1..Len(Tree) |-> i], LAMBDA i : i > 1 /\ Tree[i].parent = n)
_is_object_array(i) == Tree[i].kind = "records"
IsList(i) == Tree[i].kind \in {"records", "list"}
Smaller(a, b) == IF a < b THEN a ELSE b

(* At most MAX_RECORDS elements become records, and the rest is told of. *)
_as_records(size, node, single) ==
  [records |-> Smaller(size, MAX_RECORDS), node |-> node, single |-> single, truncated |-> size > MAX_RECORDS]

Parsed(p) == parsed' = p /\ hunt' = [NoHunt EXCEPT !.depth = -1] /\ UNCHANGED <<body, tiers, out>>
Keep(o) == out' = o /\ UNCHANGED <<body, tiers, hunt, parsed>>
Fresh == out = "none" /\ hunt = NoHunt

-----------------------------------------------------------------------------
(* Below the inline threshold the body itself is the answer. *)
spill == Fresh /\ body.form = "short" /\ Keep("body")

(* Unstructured text is a document, when a home is wired. *)
_park(may_fail) == out' \in (IF tiers.home THEN {"document"} ELSE {"body"}) \cup (IF may_fail THEN {"body"} ELSE {})

TextBody == Fresh /\ body.form = "text" /\ _park(Mishaps) /\ UNCHANGED <<body, tiers, hunt, parsed>>

(* Header first; a header alone is not data. *)
_parse_csv ==
  /\ Fresh /\ body.form = "csv"
  /\ IF Len(body.rows) < 2
       THEN /\ _park(Mishaps) /\ UNCHANGED <<body, tiers, hunt, parsed>>
       ELSE Parsed(_as_records(Len(body.rows) - 1, 0, FALSE))

(* The declared path decides, or misses. *)
ItemsPath ==
  /\ Fresh /\ body.form = "json" /\ body.path # 0
  /\ IF body.path \in DOMAIN Tree /\ IsList(body.path)
       THEN Parsed(_as_records(Tree[body.path].size, body.path, FALSE))
       ELSE /\ _park(Mishaps) /\ UNCHANGED <<body, tiers, hunt, parsed>>

(* A top-level array is the records; a top-level object starts the hunt. *)
_unwrap ==
  /\ Fresh /\ body.form = "json" /\ body.path = 0
  /\ IF IsList(1)
       THEN Parsed(_as_records(Tree[1].size, 1, FALSE))
       ELSE /\ hunt' = [NoHunt EXCEPT !.frontier = <<1>>, !.depth = 1]
            /\ UNCHANGED <<body, tiers, parsed, out>>

(* One level of the descent: the nodes within the budget, their arrays of  *)
(* objects as candidates and their member objects as the next frontier.    *)
Level == SubSeq(hunt.frontier, 1, Smaller(Len(hunt.frontier), MAX_UNWRAP_NODES - hunt.visited))
LevelMembers == FlattenSeq([k \in 1..Len(Level) |-> Members(Level[k])])
Candidates == SelectSeq(LevelMembers, LAMBDA i : _is_object_array(i))
Deeper == SelectSeq(LevelMembers, LAMBDA i : Tree[i].kind = "object")
Largest(c) == CHOOSE k \in DOMAIN c : \A j \in DOMAIN c : Tree[c[j]].size < Tree[c[k]].size \/ (Tree[c[j]].size = Tree[c[k]].size /\ k <= j)

_locate_records ==
  /\ hunt.depth \in 1..MAX_UNWRAP_DEPTH
  /\ LET over == hunt.visited + Len(hunt.frontier) > MAX_UNWRAP_NODES
         found == Candidates[Largest(Candidates)]
         whole == _as_records(1, 1, TRUE)
     IN  IF Candidates # <<>> \/ over \/ Deeper = <<>> \/ hunt.depth = MAX_UNWRAP_DEPTH
           THEN /\ parsed' = IF Candidates # <<>> THEN _as_records(Tree[found].size, found, FALSE) ELSE whole
                /\ hunt' = [NoHunt EXCEPT !.depth = -1, !.over = over]
           ELSE /\ hunt' = [hunt EXCEPT !.frontier = Deeper, !.depth = @ + 1, !.visited = @ + Len(Level)]
                /\ UNCHANGED parsed
  /\ UNCHANGED <<body, tiers, out>>

(* The tier of the shape: nothing to store keeps the body; a single        *)
(* document goes to its home, records to the database, and each falls back *)
(* to the other where its own is missing; a failure keeps the body.        *)
_route ==
  /\ out = "none" /\ hunt.depth = -1
  /\ \/ /\ parsed.records = 0 /\ out' = "body"
     \/ /\ parsed.records > 0 /\ ((parsed.single /\ tiers.home) \/ ~tiers.store) /\ _park(Mishaps)
     \/ /\ parsed.records > 0 /\ ~(parsed.single /\ tiers.home) /\ tiers.store
        /\ out' \in {"collection"} \cup (IF Mishaps THEN {"body"} ELSE {})
  /\ UNCHANGED <<body, tiers, hunt, parsed>>

Next == spill \/ TextBody \/ _parse_csv \/ ItemsPath \/ _unwrap \/ _locate_records \/ _route

Spec == Init /\ [][Next]_vars
-----------------------------------------------------------------------------
(* Reference: the depth of a node, counted in objects above it, and        *)
(* whether only objects are above it.                                      *)
DepthOf(i) == Cardinality({a \in 1..i - 1 : a = Tree[i].parent \/ a = Tree[Tree[i].parent].parent
                                            \/ a = Tree[Tree[Tree[i].parent].parent].parent})
Nearest ==
  LET found == {i \in 2..Len(Tree) : _is_object_array(i) /\ DepthOf(i) <= MAX_UNWRAP_DEPTH}
      level == {i \in found : \A j \in found : DepthOf(i) <= DepthOf(j)}
  IN  {i \in level : \A j \in level : Tree[j].size < Tree[i].size \/ (Tree[j].size = Tree[i].size /\ i <= j)}
Total ==
  CASE body.form = "csv" -> Len(body.rows) - 1
    [] body.form = "json" /\ parsed.node > 0 /\ ~parsed.single -> Tree[parsed.node].size
    [] OTHER -> parsed.records

(* Types. *)
HuntTypeOK ==
  /\ out \in {"none", "body", "document", "collection"} /\ hunt.visited \in 0..MAX_UNWRAP_NODES
  /\ parsed.records \in 0..MAX_RECORDS

(* The records are the array of objects nearest the root, the largest of   *)
(* its level and the first of equals; a body is taken whole only when no   *)
(* level within reach holds one.  A descent that ran out of its node       *)
(* budget may miss one, and then only at the level it stopped in.          *)
NearestRecords ==
  hunt.depth = -1 /\ body.form = "json" /\ body.path = 0 /\ Tree[1].kind = "object" /\ ~hunt.over =>
    IF Nearest = {} THEN parsed.single ELSE parsed.node \in Nearest

(* Whatever form the records came in, a passport claims a complete count   *)
(* exactly when nothing was dropped at the cap.                            *)
CutIsTold == hunt.depth = -1 => (parsed.truncated <=> Total > parsed.records)

(* A body whose shape has a tier is stored there: records only in the      *)
(* database when there is one, a single document only in its home.         *)
HomeFitsShape ==
  /\ out = "collection" => tiers.store /\ parsed.records > 0 /\ ~(parsed.single /\ tiers.home)
  /\ out = "document" => tiers.home /\ (hunt.depth = -1 => parsed.single \/ ~tiers.store)
=============================================================================
