---------------------------- MODULE SkillRegistry ----------------------------
(***************************************************************************)
(* The start-up sync of the system-skill registry: the built-in registry   *)
(* of a release with the installation's overlay file applied               *)
(* (skill_overlay.py), written record by record into the public rows of    *)
(* the instructions table (instructions/registry.py), by several nodes     *)
(* that may start at once, from different releases or overlay files.       *)
(* A content is the sequence of its parts; a record is known by its key,   *)
(* the pair of its kind and title.                                         *)
(***************************************************************************)
EXTENDS Naturals, Sequences, FiniteSets, SequencesExt

CONSTANTS
  Nodes,        \* processes that start
  Keys,         \* (kind, title) pairs
  Registry,     \* node -> the keys its release ships, in order
  Overlay,      \* node -> the entries of its overlay file
  MaxUserActs   \* bound on what users publish and remove

VARIABLES
  rows,   \* key -> the public record of that key
  node,   \* node -> its start
  acts    \* user steps taken

vars == <<rows, node, acts>>

None == "none"
BuiltIn == <<"built-in">>
Record(content, system) == [content |-> content, system |-> system]
Down == [pc |-> "down", i |-> 1, todo |-> {}, alone |-> TRUE, raced |-> {}]

Init ==
  /\ rows \in {<<>>, [k \in Keys |-> Record(BuiltIn, TRUE)]}
  /\ node = [n \in Nodes |-> Down] /\ acts = 0

-----------------------------------------------------------------------------
(* An entry without a title, of an unknown kind or without a usable body   *)
(* is dropped; the rest of the file stands.                                *)
_parse_body(e) == e.content # None \/ e.append # None
_parse_entry(e) == e.usable /\ _parse_body(e)
load_overlay(file) == SelectSeq(file, LAMBDA e : _parse_entry(e))

(* The last patch of a key is the one that counts. *)
by_key(patches, k) == LET of == SelectSeq(patches, LAMBDA e : e.key = k) IN of[Len(of)]
IsPatched(patches, k) == \E i \in DOMAIN patches : patches[i].key = k

_patched(k, patches) ==
  LET e == by_key(patches, k)
      base == IF e.content # None THEN <<e.content>> ELSE BuiltIn
  IN  IF ~IsPatched(patches, k) THEN BuiltIn
      ELSE IF e.append # None THEN Append(base, e.append) ELSE base

(* The built-in records with their patches, then the records the file      *)
(* adds; a patch that only appends to an unknown record adds none.         *)
apply_overlay(registry, patches) ==
  LET created == {k \in {patches[i].key : i \in DOMAIN patches} \ ToSet(registry) : by_key(patches, k).content # None}
      new == SetToSeq(created)
  IN  [i \in DOMAIN registry |-> [key |-> registry[i], content |-> _patched(registry[i], patches)]]
      \o [i \in DOMAIN new |-> [key |-> new[i], content |-> <<by_key(patches, new[i]).content>>]]

_system_registry(n) == apply_overlay(Registry[n], load_overlay(Overlay[n]))

-----------------------------------------------------------------------------
(* A write of one node is seen by the starts of the others. *)
Noticed(n, k) ==
  [m \in Nodes |-> IF m = n \/ node[m].pc \in {"down", "up", "dead"} THEN node[m]
                   ELSE [node[m] EXCEPT !.alone = FALSE, !.raced = @ \cup {k}]]
Put(k, r) == rows' = [x \in DOMAIN rows \cup {k} |-> IF x = k THEN r ELSE rows[x]]
Gone(k) == rows' = [x \in DOMAIN rows \ {k} |-> rows[x]]

(* The start; a backend that is not configured, or fails midway, as the    *)
(* database may, lets the node serve without the rest of the sync.         *)
_sync_system_skills(n) ==
  /\ node[n].pc = "down"
  /\ node' = [node EXCEPT ![n].pc = "save"]
  /\ UNCHANGED <<rows, acts>>

BackendFails(n) ==
  /\ node[n].pc \in {"save", "write", "delete"}
  /\ node' = [node EXCEPT ![n] = [Down EXCEPT !.pc = "up", !.alone = FALSE]]
  /\ UNCHANGED <<rows, acts>>

(* save_system: an unchanged record is left as it is, any other is embedded *)
(* and then written, adopting a public record of the key.                  *)
save_system(n) ==
  LET entries == _system_registry(n)
      e == entries[node[n].i]
      same == e.key \in DOMAIN rows /\ rows[e.key] = Record(e.content, TRUE)
  IN  /\ node[n].pc = "save" /\ node[n].i <= Len(entries)
      /\ node' = [node EXCEPT ![n].pc = IF same THEN "save" ELSE "write", ![n].i = IF same THEN @ + 1 ELSE @]
      /\ UNCHANGED <<rows, acts>>

upsert(n) ==
  LET e == _system_registry(n)[node[n].i]
  IN  /\ node[n].pc = "write"
      /\ Put(e.key, Record(e.content, TRUE))
      /\ node' = [Noticed(n, e.key) EXCEPT ![n].pc = "save", ![n].i = @ + 1]
      /\ UNCHANGED acts

(* list_system: the records the registry no longer declares. *)
list_system(n) ==
  LET entries == _system_registry(n)
      keep == {entries[i].key : i \in DOMAIN entries}
  IN  /\ node[n].pc = "save" /\ node[n].i > Len(entries)
      /\ node' = [node EXCEPT ![n].pc = "delete", ![n].raced = {},
                              ![n].todo = {k \in DOMAIN rows : rows[k].system} \ keep]
      /\ UNCHANGED <<rows, acts>>

(* delete_system, by key whatever the record has become; a record that is  *)
(* gone raises out of the start.                                           *)
delete_system(n, k) ==
  /\ node[n].pc = "delete" /\ k \in node[n].todo
  /\ IF k \in DOMAIN rows
       THEN Gone(k) /\ node' = [Noticed(n, k) EXCEPT ![n].todo = @ \ {k}]
       ELSE UNCHANGED rows /\ node' = [node EXCEPT ![n].pc = "dead"]
  /\ UNCHANGED acts

sync_system_registry(n) ==
  /\ node[n].pc = "delete" /\ node[n].todo = {}
  /\ node' = [node EXCEPT ![n].pc = "up"]
  /\ UNCHANGED <<rows, acts>>

(* Users publish a record of their own and operators remove one. *)
UserActs == acts < MaxUserActs /\ acts' = acts + 1
Publish(k) ==
  /\ UserActs /\ k \notin DOMAIN rows
  /\ Put(k, Record(<<"user">>, FALSE)) /\ node' = Noticed("user", k)
Unpublish(k) ==
  /\ UserActs /\ k \in DOMAIN rows /\ ~rows[k].system
  /\ Gone(k) /\ node' = Noticed("user", k)

Next ==
  \/ \E n \in Nodes :
       \/ _sync_system_skills(n) \/ BackendFails(n) \/ save_system(n) \/ upsert(n)
       \/ list_system(n) \/ sync_system_registry(n) \/ \E k \in Keys : delete_system(n, k)
  \/ \E k \in Keys : Publish(k) \/ Unpublish(k)

Spec == Init /\ [][Next]_vars
-----------------------------------------------------------------------------
(* Types. *)
RegistryTypeOK ==
  /\ DOMAIN rows \subseteq Keys /\ acts \in 0..MaxUserActs
  /\ \A n \in Nodes : node[n].pc \in {"down", "save", "write", "delete", "up", "dead"} /\ node[n].todo \subseteq Keys

(* A start nobody wrote beside leaves exactly the registry it declares in  *)
(* the system slice of the table: every built-in record, with its text     *)
(* unless the file replaces it, the file's own records, and no stub of a   *)
(* record the file only meant to extend.                                   *)
SyncTakesHold ==
  \A n \in Nodes : node[n].pc = "delete" /\ node[n].todo = {} /\ node[n].alone =>
    LET Replaced(k) == \E i \in DOMAIN Overlay[n] :
                         LET e == Overlay[n][i] IN e.key = k /\ e.usable /\ e.content # None
    IN  \A k \in Keys :
          /\ (k \in DOMAIN rows /\ rows[k].system) <=> (k \in ToSet(Registry[n]) \/ Replaced(k))
          /\ k \in ToSet(Registry[n]) /\ ~Replaced(k) => Head(rows[k].content) = "built-in"

(* A start dies only when another node, or a user, removed a record        *)
(* between its listing and its deletion of that record.                    *)
DiesOnlyRaced ==
  \A n \in Nodes : node[n].pc = "dead" => \E k \in node[n].todo : k \in node[n].raced

(* What each step owes UsersKeepTheirs.                                   *)
UsersKeepTheirsStep ==
    \A n \in Nodes, k \in DOMAIN rows :
      (node[n].pc = "delete" /\ node'[n].todo # node[n].todo /\ ~rows[k].system /\ k \notin DOMAIN rows')
        => k \in node[n].raced

(* The sync takes no record that is a user's: a step that removes a record *)
(* published by a user is a deletion the record's key was already listed   *)
(* for, as a system record another node removed meanwhile.                 *)
UsersKeepTheirs == [][UsersKeepTheirsStep]_vars
=============================================================================
