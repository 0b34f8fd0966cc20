----------------------------- MODULE Instructions -----------------------------
(***************************************************************************)
(* The instructions table under its writers (instructions/local.py over    *)
(* instructions/store.py): agent saves, integration syncs, the start-up    *)
(* registry sync and re-embedding sweep, publication and deletion, for one *)
(* title of each kind.  Every service call awaits between its lookup, the  *)
(* embedding backend and its transaction; workers interleave there.        *)
(* A content is a number, an embedding is the content it was computed from *)
(* (0: none, the backend was down or has not run).                         *)
(***************************************************************************)
EXTENDS Naturals, FiniteSets

CONSTANTS Users, Workers, Kinds,  \* of InstructionType; Memory is one
          MaxContents,            \* contents the agents and syncs write
          MaxCalls, MaxIds, MaxSweeps

VARIABLES rows,   \* the table: records of InstructionRow
          op,     \* what each worker is doing
          sweep,  \* the re-embedding sweep of a starting process
          past    \* counters, and what raced

instrVars == <<rows, op, sweep, past>>

Memory == "memory"
NoOwner == "public"       \* owner_id IS NULL
NoOne == "noone"
None == 0
Registry == MaxContents + 1   \* the content the declarative registry ships
NoRow == [id |-> None, kind |-> Memory, owner |-> NoOne, author |-> NoOne, system |-> FALSE,
          content |-> None, embedding |-> None, model |-> FALSE]

Row(id, kind, d) ==
  [id |-> id, kind |-> kind, owner |-> d.owner, author |-> d.author, system |-> d.system,
   content |-> d.content, embedding |-> d.embedding, model |-> d.embedding # None]

(* InstructionDraft *)
Draft(content, embedding, system, owner, author) ==
  [content |-> content, embedding |-> embedding, system |-> system, owner |-> owner, author |-> author]

Slot(kind, owner) == {r \in rows : r.kind = kind /\ r.owner = owner}
get_by_title(kind, owner) ==
  IF Slot(kind, owner) = {} THEN NoRow ELSE CHOOSE r \in Slot(kind, owner) : TRUE
ById(id) == IF \E r \in rows : r.id = id THEN CHOOSE r \in rows : r.id = id ELSE NoRow

Idle == [pc |-> "idle", call |-> "save", user |-> NoOne, kind |-> Memory,
         seen |-> NoRow, draft |-> Draft(None, None, FALSE, NoOwner, NoOne), row |-> None, raced |-> FALSE]
NoSweep == [pc |-> "off", pending |-> {}]

Init ==
  /\ rows = {} /\ op = [w \in Workers |-> Idle] /\ sweep = NoSweep
  /\ past = [calls |-> 0, ids |-> 0, sweeps |-> 0, overtaken |-> {}]
Over(w) == op' = [op EXCEPT ![w] = Idle]

-----------------------------------------------------------------------------
(* save, save_public, save_system: the first lookup of the public record.  *)
(* The integration syncs and the registry never write a memory (a          *)
(* convention of mcp/sync.py, mcp/skills.py and registry.py, not a check). *)
Begin(w, call, user, kind, content) ==
  /\ op[w].pc = "idle"
  /\ call = "system" <=> content = Registry
  /\ kind = Memory => call = "save"
  /\ (user = NoOne) <=> (call # "save")
  /\ past.calls < MaxCalls /\ past' = [past EXCEPT !.calls = @ + 1]
  /\ op' = [op EXCEPT ![w] = [Idle EXCEPT !.pc = "judge", !.call = call, !.user = user, !.kind = kind,
                              !.draft.content = content, !.seen = get_by_title(kind, NoOwner)]]
  /\ UNCHANGED <<rows, sweep>>

(* A system record refuses an agent and an integration.                    *)
Permitted(w) == ~op[w].seen.system

(* The lenient embedding of a save or a sync: a failing backend leaves the *)
(* record without a vector.                                                *)
_embed_lenient(w, fails) == IF fails THEN None ELSE op[w].draft.content

Write(w, d) == op' = [op EXCEPT ![w].pc = "find", ![w].draft = d]
Unchanged(w) == op[w].seen # NoRow /\ op[w].seen.content = op[w].draft.content

(* An agent's save: the author's goes to the published record, any other   *)
(* to the caller's own copy.                                               *)
save(w, fails) ==
  LET o == op[w]
      author_edit == o.seen # NoRow /\ o.seen.author = o.user
  IN /\ o.pc = "judge" /\ o.call = "save"
     /\ IF ~Permitted(w) THEN Over(w)
        ELSE Write(w, Draft(o.draft.content, _embed_lenient(w, fails), FALSE,
                            IF author_edit THEN NoOwner ELSE o.user, o.user))
     /\ UNCHANGED <<rows, sweep, past>>

(* An integration's save: an unchanged record is left as it is.            *)
save_public(w, fails) ==
  LET o == op[w]
  IN /\ o.pc = "judge" /\ o.call = "public"
     /\ IF ~Permitted(w) \/ Unchanged(w) THEN Over(w)
        ELSE Write(w, Draft(o.draft.content, _embed_lenient(w, fails), FALSE, NoOwner, NoOne))
     /\ UNCHANGED <<rows, sweep, past>>

(* The registry's save adopts the public record; its failing backend       *)
(* raises.                                                                 *)
save_system(w, fails) ==
  LET o == op[w]
  IN /\ o.pc = "judge" /\ o.call = "system"
     /\ IF fails \/ (Unchanged(w) /\ o.seen.system) THEN Over(w)
        ELSE Write(w, Draft(o.draft.content, o.draft.content, TRUE, NoOwner, NoOne))
     /\ UNCHANGED <<rows, sweep, past>>

(* upsert, its first query.                                                *)
_find_row(w) ==
  /\ op[w].pc = "find"
  /\ op' = [op EXCEPT ![w].pc = "write", ![w].row = get_by_title(op[w].kind, op[w].draft.owner).id]
  /\ UNCHANGED <<rows, sweep, past>>

(* Mutant: new content keeps the old vector. *)
UpdateKeepsVector(r, d) ==
  [r EXCEPT !.content = d.content, !.model = d.embedding # None \/ r.model, !.system = d.system,
            !.author = IF d.author = NoOne THEN @ ELSE d.author]

(* _update_row: authorship is set, never cleared.                          *)
_update_row(r, d) ==
  [r EXCEPT !.content = d.content, !.embedding = d.embedding, !.model = d.embedding # None,
            !.system = d.system, !.author = IF d.author = NoOne THEN @ ELSE d.author]

Others(w) == [v \in Workers |-> IF v # w /\ op[v].pc # "idle" THEN [op[v] EXCEPT !.raced = TRUE] ELSE op[v]]
Wrote(w) ==
  op' = [(IF op[w].call = "system" THEN Others(w) ELSE op) EXCEPT ![w] = Idle]

(* A write that falls between the sweep's reading of a record and its      *)
(* storing of the vector; a later write settles the record again.          *)
Overtaken(id) ==
  IF \E p \in sweep.pending : p.id = id THEN past.overtaken \union {id} ELSE past.overtaken \ {id}

(* upsert, its commit: the found row, or the winner's row when the unique  *)
(* index says the insert lost; a row deleted meanwhile raises.             *)
upsert(w) ==
  LET d == op[w].draft
      found == IF op[w].row # None THEN ById(op[w].row) ELSE get_by_title(op[w].kind, d.owner)
  IN /\ op[w].pc = "write"
     /\ IF found # NoRow
        THEN /\ rows' = (rows \ {found}) \union {_update_row(found, d)}
             /\ past' = [past EXCEPT !.overtaken = Overtaken(found.id)]
        ELSE IF op[w].row # None THEN UNCHANGED <<rows, past>>
        ELSE /\ past.ids < MaxIds
             /\ rows' = rows \union {Row(past.ids + 1, op[w].kind, d)}
             /\ past' = [past EXCEPT !.ids = @ + 1]
     /\ Wrote(w) /\ UNCHANGED sweep

-----------------------------------------------------------------------------
(* delete_by_id: the owner's own row.                                      *)
delete(user, id) ==
  /\ ById(id) # NoRow /\ ById(id).owner = user
  /\ rows' = rows \ {ById(id)} /\ UNCHANGED <<op, sweep, past>>

(* publish: never a memory; the author stays; the unique index refuses a   *)
(* second public record of the title.                                      *)
publish(id) ==
  LET r == ById(id)
  IN /\ r # NoRow /\ r.kind # Memory /\ Slot(r.kind, NoOwner) \subseteq {r}
     /\ rows' = (rows \ {r}) \union
                  {[r EXCEPT !.owner = NoOwner, !.author = IF @ = NoOne THEN r.owner ELSE @]}
     /\ UNCHANGED <<op, sweep, past>>

(* delete_public: judged by one read, deleted by title in another          *)
(* transaction.                                                            *)
delete_public(w, id) ==
  LET r == ById(id)
  IN /\ op[w].pc = "idle" /\ r # NoRow /\ r.owner = NoOwner /\ ~r.system
     /\ op' = [op EXCEPT ![w] = [Idle EXCEPT !.pc = "delete", !.call = "delete", !.kind = r.kind]]
     /\ UNCHANGED <<rows, sweep, past>>

delete_by_title(w) ==
  /\ op[w].pc = "delete"
  /\ rows' = rows \ Slot(op[w].kind, NoOwner)
  /\ Over(w) /\ UNCHANGED <<sweep, past>>

(* sync_system_registry with the entry gone from the registry: the system  *)
(* records it no longer keeps are deleted by title.                        *)
sync_system_registry(kind) ==
  /\ \E r \in Slot(kind, NoOwner) : r.system
  /\ rows' = rows \ Slot(kind, NoOwner)
  /\ UNCHANGED <<op, sweep, past>>

-----------------------------------------------------------------------------
(* resync_embeddings: the records the model did not embed, as read; then   *)
(* one transaction per record, by id.                                      *)
list_stale_embeddings ==
  LET stale == {r \in rows : r.embedding = None \/ ~r.model}
  IN /\ sweep.pc = "off" /\ past.sweeps < MaxSweeps /\ stale # {}
     /\ sweep' = [pc |-> "on", pending |-> {[id |-> r.id, content |-> r.content] : r \in stale}]
     /\ past' = [past EXCEPT !.sweeps = @ + 1]
     /\ UNCHANGED <<rows, op>>

set_embedding ==
  /\ sweep.pc = "on"
  /\ IF sweep.pending = {} THEN sweep' = NoSweep /\ UNCHANGED rows
     ELSE \E p \in sweep.pending :
            /\ sweep' = [sweep EXCEPT !.pending = @ \ {p}]
            /\ rows' = {IF r.id = p.id THEN [r EXCEPT !.embedding = p.content, !.model = TRUE] ELSE r
                        : r \in rows}
  /\ UNCHANGED <<op, past>>

resync_embeddings == list_stale_embeddings \/ set_embedding

Next ==
  \/ \E w \in Workers :
       \/ \E call \in {"save", "public", "system"}, user \in Users \union {NoOne}, kind \in Kinds,
             content \in 1..Registry : Begin(w, call, user, kind, content)
       \/ \E fails \in BOOLEAN : save(w, fails) \/ save_public(w, fails) \/ save_system(w, fails)
       \/ _find_row(w) \/ upsert(w) \/ delete_by_title(w)
       \/ \E id \in 1..MaxIds : delete_public(w, id)
  \/ \E id \in 1..MaxIds : publish(id) \/ \E user \in Users : delete(user, id)
  \/ \E kind \in Kinds : sync_system_registry(kind)
  \/ resync_embeddings

Spec == Init /\ [][Next]_instrVars

-----------------------------------------------------------------------------
(* Ids and slots are unique whoever wrote at once; a system record is      *)
(* public.                                                                 *)
InstructionsTypeOK ==
  /\ \A r, s \in rows : r # s => r.id # s.id /\ <<r.kind, r.owner>> # <<s.kind, s.owner>>
  /\ \A r \in rows : r.system => r.owner = NoOwner
  /\ past.ids \in 0..MaxIds

(* "Memory records are always owned and never published": through every    *)
(* save, publication and sync a memory stays its user's (no sync writes    *)
(* that kind).                                                             *)
MemoryStaysPrivate == \A r \in rows : r.kind = Memory => r.owner \in Users

(* What each step owes AuthorshipKept.                                    *)
AuthorshipKeptStep ==
    \A r \in rows, s \in rows' : r.id = s.id /\ r.author # NoOne => s.author # NoOne

(* "authorship is set, never cleared": a record that has an author keeps   *)
(* one through updates, adoption by the registry and publication.          *)
AuthorshipKept == [][AuthorshipKeptStep]_instrVars

(* A vector stamped with the model is the vector of the record's content,  *)
(* also while a sweep re-embeds other records.  Only a write to a record   *)
(* the sweep has read and not yet stored is left out: the sweep then       *)
(* stamps the old content's vector as current, until the next write.       *)
VectorOfContent ==
  \A r \in rows : r.model /\ r.embedding # None /\ r.id \notin past.overtaken => r.embedding = r.content

(* What each step owes SystemRefusesSaves.                                *)
SystemRefusesSavesStep ==
    \A w \in Workers :
      (op[w].pc = "write" /\ op'[w].pc = "idle" /\ ~op[w].draft.system /\ ~op[w].raced) =>
        \A r \in rows, s \in rows' : r.id = s.id /\ r.system => s.system

(* "refuses to overwrite a system (registry-owned) record": a save or sync *)
(* takes a record from the registry only if the registry adopted it while  *)
(* that call was already under way.                                        *)
SystemRefusesSaves == [][SystemRefusesSavesStep]_instrVars
=============================================================================
