--------------------------- MODULE SearchBackends ---------------------------
(***************************************************************************)
(* What the database can search with, from the schema bootstrap to the     *)
(* first search: the optional Postgres extensions and BM25 indexes         *)
(* (db/search_extensions.py), the FTS5 mirrors of SQLite and the triggers  *)
(* that keep them true (db/sqlite_fts.py), the probes of the starting      *)
(* process and the store classes it builds from them (composition.py).     *)
(* The rows of the last mirrored table, datasets, stand for all three; the *)
(* text of a row is a version number.                                      *)
(***************************************************************************)
EXTENDS Naturals, FiniteSets

CONSTANTS
  Ids,         \* rows of a mirrored table
  MaxVersion,  \* texts a row is given
  MaxBoots,    \* starts of the process
  MaxMishaps   \* statements and probes that fail

VARIABLES
  db,     \* the database: dialect, what its role may create, what it holds
  rows,   \* id -> version, 0 when there is no such row
  index,  \* <<id, version>> entries of the row's mirror
  node,   \* the process: step, probe results, store classes, what a search did
  used    \* [boots, mishaps]

vars == <<db, rows, index, node, used>>

VECTOR == "vector"
UNACCENT == "unaccent"
PG_TEXTSEARCH == "pg_textsearch"
OPTIONAL_EXTENSIONS == {VECTOR, UNACCENT, PG_TEXTSEARCH}

(* A mirror is five statements: its table, three triggers, the backfill.   *)
Statements == 5
Mirrors == 3
Table(m) == Statements * (m - 1) + 1
Trigger(m, n) == Table(m) + n
Whole(m) == Statements * m

Off == [pc |-> "off", ext |-> {}, lexical |-> "none", instructions |-> "plain", summaries |-> "plain",
        raised |-> FALSE]

Init ==
  /\ db \in [dialect : {"sqlite", "postgres"}, may : SUBSET OPTIONAL_EXTENSIONS, ext : {{}},
             config : {FALSE}, stamped : {FALSE}, bm25 : {FALSE}, built : {0}]
  /\ db.dialect = "sqlite" => db.may = {}
  /\ rows \in [Ids -> 0..1] /\ (db.dialect = "postgres" => rows = [i \in Ids |-> 0])
  /\ index = {} /\ node = Off /\ used = [boots |-> 0, mishaps |-> 0]

Present == {i \in Ids : rows[i] > 0}
MayFail == used.mishaps < MaxMishaps
Mishap == MayFail /\ used' = [used EXCEPT !.mishaps = @ + 1]

-----------------------------------------------------------------------------
(* Each extension in a savepoint of its own: a refusal stops nothing.      *)
_create_extension(e) == e \in db.may \/ e \in db.ext

ensure_search_extensions == {e \in OPTIONAL_EXTENSIONS : _create_extension(e)}
_create_russian_unaccent(ext, fails) == db.config \/ (UNACCENT \in ext /\ ~fails)
ensure_bm25_indexes(ext, fails) == PG_TEXTSEARCH \in ext /\ ~fails

(* A fresh Postgres: extensions, tables, indexes, in one transaction.  The *)
(* instructions table needs the vector type; without it everything is      *)
(* rolled back, and create_all, which is tried next, needs it too.         *)
_create_and_stamp(fails) ==
  LET ext == ensure_search_extensions
  IN  /\ node.pc = "bootstrap" /\ db.dialect = "postgres" /\ ~db.stamped
      /\ IF fails THEN Mishap ELSE UNCHANGED used
      /\ IF VECTOR \in ext
           THEN /\ db' = [db EXCEPT !.ext = ext, !.stamped = TRUE, !.bm25 = ensure_bm25_indexes(ext, fails),
                                    !.config = _create_russian_unaccent(ext, fails)]
                /\ node' = [node EXCEPT !.pc = "probe"]
           ELSE node' = [node EXCEPT !.pc = "dead"] /\ UNCHANGED db
      /\ UNCHANGED <<rows, index>>

AlreadyManaged ==
  /\ node.pc = "bootstrap" /\ db.stamped
  /\ node' = [node EXCEPT !.pc = "probe"] /\ UNCHANGED <<db, rows, index, used>>

(* The mirrors of a SQLite file, once, by the migration: the first         *)
(* statement that fails ends it, and what was created stays.               *)
Backfill(k) == IF k = Whole(Mirrors) THEN {<<i, rows[i]>> : i \in Present} ELSE index

ensure_sqlite_fts(k) ==
  /\ node.pc = "bootstrap" /\ db.dialect = "sqlite" /\ ~db.stamped
  /\ IF k < Whole(Mirrors) THEN Mishap ELSE UNCHANGED used
  /\ db' = [db EXCEPT !.built = k, !.stamped = TRUE]
  /\ index' = Backfill(k)
  /\ node' = [node EXCEPT !.pc = "probe"] /\ UNCHANGED rows

-----------------------------------------------------------------------------
has_sqlite_fts == db.dialect = "sqlite" /\ \A m \in 1..Mirrors : db.built >= Table(m)
_probe_search_extensions(fails) == IF fails \/ db.dialect # "postgres" THEN {} ELSE db.ext
_probe_lexical_backend(fails) ==
  IF PG_TEXTSEARCH \in node.ext THEN "postgres" ELSE IF ~fails /\ has_sqlite_fts THEN "sqlite" ELSE "none"

ProbeExtensions(fails) ==
  /\ node.pc = "probe" /\ IF fails THEN Mishap ELSE UNCHANGED used
  /\ node' = [node EXCEPT !.pc = "probe lexical", !.ext = _probe_search_extensions(fails)]
  /\ UNCHANGED <<db, rows, index>>

ProbeLexical(fails) ==
  /\ node.pc = "probe lexical" /\ IF fails THEN Mishap ELSE UNCHANGED used
  /\ node' = [node EXCEPT !.pc = "build", !.lexical = _probe_lexical_backend(fails)]
  /\ UNCHANGED <<db, rows, index>>

(* The store classes.  The deployment passes the instruction store what    *)
(* the probe said of vectors and leaves its lexical backend at the default.*)
build_instruction_store(vector, lexical) ==
  IF vector \/ lexical = "postgres" THEN "postgres" ELSE IF lexical = "sqlite" THEN "sqlite" ELSE "plain"
build_summary_store(lexical) == IF lexical = "none" THEN "plain" ELSE lexical

Build ==
  /\ node.pc = "build"
  /\ node' = [node EXCEPT !.pc = "serving", !.instructions = build_instruction_store(VECTOR \in node.ext, "none"),
                          !.summaries = build_summary_store(node.lexical)]
  /\ UNCHANGED <<db, rows, index, used>>

(* What a search of the store needs of the database; isinstance is all the *)
(* services ask before they call it.                                       *)
InstructionVectorSearch == node.instructions = "postgres"
InstructionLexicalSearch == node.instructions \in {"postgres", "sqlite"}
Lexical(class) == CASE class = "postgres" -> PG_TEXTSEARCH \in db.ext /\ db.bm25
                    [] class = "sqlite" -> has_sqlite_fts
                    [] OTHER -> TRUE

recall ==
  /\ node.pc = "serving"
  /\ node' = [node EXCEPT !.raised = \/ InstructionVectorSearch /\ VECTOR \notin db.ext
                                     \/ InstructionLexicalSearch /\ ~Lexical(node.instructions)]
  /\ UNCHANGED <<db, rows, index, used>>

history_search ==
  /\ node.pc = "serving"
  /\ node' = [node EXCEPT !.raised = ~Lexical(node.summaries)]
  /\ UNCHANGED <<db, rows, index, used>>

-----------------------------------------------------------------------------
(* The triggers of the mirror, each effective once created.                *)
Has(n) == db.built >= Trigger(Mirrors, n)
AfterInsert(ix, i, v) == IF Has(1) THEN ix \cup {<<i, v>>} ELSE ix
AfterDelete(ix, i, v) == IF Has(2) THEN ix \ {<<i, v>>} ELSE ix
AfterUpdate(ix, i, old, new) == IF Has(3) THEN (ix \ {<<i, old>>}) \cup {<<i, new>>} ELSE ix

(* Writers of the table: services of this process and of any other.        *)
Write(i, v) ==
  /\ node.pc = "serving" /\ db.dialect = "sqlite" /\ v # rows[i]
  /\ rows' = [rows EXCEPT ![i] = v]
  /\ index' = CASE rows[i] = 0 -> AfterInsert(index, i, v)
                [] v = 0 -> AfterDelete(index, i, rows[i])
                [] OTHER -> AfterUpdate(index, i, rows[i], v)
  /\ UNCHANGED <<db, node, used>>

Start ==
  /\ node.pc \in {"off", "serving", "dead"} /\ used.boots < MaxBoots
  /\ used' = [used EXCEPT !.boots = @ + 1] /\ node' = [Off EXCEPT !.pc = "bootstrap"]
  /\ UNCHANGED <<db, rows, index>>

Next ==
  \/ Start \/ AlreadyManaged \/ Build \/ recall \/ history_search
  \/ \E fails \in BOOLEAN : _create_and_stamp(fails) \/ ProbeExtensions(fails) \/ ProbeLexical(fails)
  \/ \E k \in 0..Whole(Mirrors) : ensure_sqlite_fts(k)
  \/ \E i \in Ids, v \in 0..MaxVersion : Write(i, v)

Spec == Init /\ [][Next]_vars
-----------------------------------------------------------------------------
(* Types; a database that is not Postgres has no extension.                *)
BackendsTypeOK ==
  /\ rows \in [Ids -> 0..MaxVersion] /\ index \subseteq Ids \X (1..MaxVersion)
  /\ db.ext \subseteq db.may /\ db.built \in 0..Whole(Mirrors) /\ used.mishaps <= MaxMishaps
  /\ node.lexical \in {"none", "sqlite", "postgres"}

(* A search fails only on a Postgres that has vectors without a BM25       *)
(* index; on every other database, and after probes that failed, it        *)
(* degrades to what is there.                                              *)
RaisesOnlyHalfEquipped ==
  node.raised => db.dialect = "postgres" /\ VECTOR \in db.ext /\ ~db.bm25

(* A start fails only where the vector extension cannot be had: refused    *)
(* optional extensions, failed indexes and failed probes never stop it.    *)
DiesOnlyWithoutVector == node.pc = "dead" => db.dialect = "postgres" /\ VECTOR \notin db.may

(* A mirror whose statements were all run holds exactly the rows of its    *)
(* table, the ones older than its triggers included, whatever is written   *)
(* and however often the process restarts.                                 *)
MirrorIsTrue ==
  db.built = Whole(Mirrors) => index = {<<i, rows[i]>> : i \in Present}
=============================================================================
