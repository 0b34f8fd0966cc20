------------------------------- MODULE Datasets -------------------------------
(***************************************************************************)
(* A user's datasets and the tools over them (datasets/): data_put creates *)
(* the dataset on first use, validates the record against its schema and   *)
(* appends it; data_forget deletes; data_query reads.  Calls of one user   *)
(* run concurrently and every await of one lets the other in.  A schema    *)
(* has one field; a payload is the kind of that field's value.             *)
(***************************************************************************)
EXTENDS Naturals, Sequences, SequencesExt, FiniteSets, FiniteSetsExt

CONSTANTS Calls, Names, Schemas, Payloads,
          Cap,                            \* the plan's max_datasets
          MAX_SCAN_ROWS, Limits,          \* limits a query may ask for
          Stored,                         \* records "a" may hold at the start
          MaxDatasets, MaxRecords,
          Times                           \* half days at which records are written

VARIABLES datasets,   \* id -> [name, schema, live]
          records,    \* the rows, oldest first
          calls,
          overlapped  \* a create raced another past the quota check

datasetVars == <<datasets, records, calls, overlapped>>

NoSchema == [type |-> "string", required |-> FALSE]
Gone == [name |-> "none", schema |-> NoSchema, live |-> FALSE]
Optional == [type |-> "integer", required |-> FALSE]
NoCall == [pc |-> "idle", name |-> "none", payload |-> "null", schema |-> NoSchema, id |-> 0, stale |-> FALSE]

Init ==
  /\ \E rows \in Stored :
       /\ records = [i \in DOMAIN rows |-> [dataset |-> 1, at |-> rows[i].at, payload |-> rows[i].payload, late |-> FALSE]]
       /\ datasets = IF rows = <<>> THEN <<>> ELSE <<[name |-> "a", schema |-> Optional, live |-> TRUE]>>
  /\ overlapped = FALSE
  /\ calls = [c \in Calls |-> NoCall]

-----------------------------------------------------------------------------
(* _matches_type: a bool is no integer, a date is a string that parses.    *)
_matches_type(type, value) ==
  value \in CASE type = "string"   -> {"str", "isodate", "isodatetime"}
              [] type = "integer"  -> {"int"}
              [] type = "number"   -> {"int", "float"}
              [] type = "boolean"  -> {"bool"}
              [] type = "date"     -> {"isodate"}
              [] type = "datetime" -> {"isodate", "isodatetime"}

(* validate_record: null or missing violates only a required field.        *)
validate_record(schema, payload) ==
  IF payload = "null" THEN ~schema.required ELSE _matches_type(schema.type, payload)

get(name) == {d \in DOMAIN datasets : datasets[d].live /\ datasets[d].name = name}

Step(c, pc, next) == calls[c].pc = pc /\ calls' = [calls EXCEPT ![c] = next]
To(c, pc) == [calls[c] EXCEPT !.pc = pc]

(* data_put begins: _ensure_dataset looks the name up.                     *)
data_put(c, name, payload, schema) ==
  /\ Step(c, "idle", [NoCall EXCEPT !.pc = IF get(name) = {} THEN "quota" ELSE "validate",
                        !.name = name, !.payload = payload, !.schema = IF get(name) = {} THEN schema ELSE NoSchema,
                        !.id = IF get(name) = {} THEN 0 ELSE Min(get(name))])
  /\ UNCHANGED <<datasets, records, overlapped>>

(* _check_quota, then the embedding is awaited.                            *)
_check_quota(c) ==
  LET existing == Cardinality({d \in DOMAIN datasets : datasets[d].live})
  IN /\ Step(c, "quota", IF existing >= Cap THEN NoCall ELSE To(c, "create"))
     /\ UNCHANGED <<datasets, records, overlapped>>

(* create: the unique (owner, name) decides the race; the loser uses the   *)
(* winner's dataset, which may be gone by then.                            *)
create(c) ==
  /\ calls[c].pc = "create"
  /\ IF get(calls[c].name) = {}
     THEN /\ Len(datasets) < MaxDatasets
          /\ datasets' = Append(datasets, [name |-> calls[c].name, schema |-> calls[c].schema, live |-> TRUE])
          /\ calls' = [calls EXCEPT ![c] = [To(c, "validate") EXCEPT !.id = Len(datasets) + 1, !.schema = NoSchema]]
     ELSE calls' = [calls EXCEPT ![c] = [To(c, "exists") EXCEPT !.schema = NoSchema]] /\ UNCHANGED datasets
  /\ overlapped' = (overlapped \/ \E d \in Calls \ {c} : calls[d].pc = "create")
  /\ UNCHANGED records

get_dataset(c) ==
  /\ Step(c, "exists", IF get(calls[c].name) = {} THEN NoCall
                       ELSE [To(c, "validate") EXCEPT !.id = Min(get(calls[c].name))])
  /\ UNCHANGED <<datasets, records, overlapped>>

(* The record is validated against the schema that was read.               *)
Validate(c) ==
  /\ Step(c, "validate", IF validate_record(datasets[calls[c].id].schema, calls[c].payload)
                         THEN To(c, "resolve") ELSE NoCall)
  /\ UNCHANGED <<datasets, records, overlapped>>

(* add_record resolves the name again, ...                                 *)
add_record(c) ==
  /\ Step(c, "resolve", IF get(calls[c].name) = {} THEN NoCall
                        ELSE [To(c, "insert") EXCEPT !.id = Min(get(calls[c].name))])
  /\ UNCHANGED <<datasets, records, overlapped>>

(* ... and inserts the row.                                                *)
InsertRecord(c, now) ==
  /\ Len(records) < MaxRecords /\ (records # <<>> => now >= Last(records).at)
  /\ records' = Append(records, [dataset |-> calls[c].id, at |-> now,
                                 payload |-> calls[c].payload, late |-> calls[c].stale])
  /\ Step(c, "insert", NoCall)
  /\ UNCHANGED <<datasets, overlapped>>

(* delete: the descriptor and, explicitly, its records.                    *)
delete(name) ==
  \E d \in get(name) :
     /\ datasets' = [datasets EXCEPT ![d] = Gone]
     /\ records' = SelectSeq(records, LAMBDA r : r.dataset # d)
     /\ calls' = [c \in Calls |-> IF calls[c].id = d THEN [calls[c] EXCEPT !.stale = TRUE] ELSE calls[c]]
     /\ UNCHANGED overlapped

Next ==
  \/ \E c \in Calls, n \in Names, p \in Payloads, s \in Schemas : data_put(c, n, p, s)
  \/ \E c \in Calls : \/ _check_quota(c) \/ create(c) \/ get_dataset(c) \/ Validate(c)
                      \/ add_record(c) \/ \E now \in Times : InsertRecord(c, now)
  \/ \E n \in Names : delete(n)

Spec == Init /\ [][Next]_datasetVars

-----------------------------------------------------------------------------
(* _date_boundary: a date-only value spans the whole day.                  *)
_date_boundary(day, end_of_day) == IF end_of_day THEN 2 * day + 1 ELSE 2 * day

(* query_candidates: the range, newest first, capped.                      *)
query_candidates(dataset, date_from, date_to) ==
  LET inRange == Reverse(SelectSeq(records, LAMBDA r : r.dataset = dataset /\ r.at \in date_from..date_to))
  IN SubSeq(inRange, 1, Min({Len(inRange), MAX_SCAN_ROWS}))

(* query_records: the equality filter runs over the scan, then the limit.  *)
Filtered(candidates, equals, limit) ==
  LET matching == SelectSeq(candidates, LAMBDA r : r.payload = equals)
  IN SubSeq(matching, 1, Min({Len(matching), limit}))

query_records(name, first, last, equals, limit) ==
  IF get(name) = {} THEN <<>>
  ELSE Filtered(query_candidates(Min(get(name)), _date_boundary(first, FALSE), _date_boundary(last, TRUE)),
                equals, limit)

-----------------------------------------------------------------------------
(* Descriptors, rows and calls are well formed.                            *)
DatasetsTypeOK ==
  /\ \A i \in DOMAIN records : records[i].dataset \in DOMAIN datasets
  /\ \A c \in Calls : calls[c].id \in {0} \union DOMAIN datasets

(* "the (owner, name) unique constraint guards races": a name resolves to  *)
(* one dataset, whichever of two first writes created it.                  *)
OneDataset == \A n \in Names : Cardinality(get(n)) <= 1

(* The plan's cap holds for "the agent's implicit creation" too, but for   *)
(* two creations past the check at once.                                   *)
WithinCap == ~overlapped => Cardinality({d \in DOMAIN datasets : datasets[d].live}) <= Cap

(* A record fits the schema of the dataset it is in, also when two first   *)
(* writes with different schemas race ("a concurrent writer created the    *)
(* dataset after our get_dataset miss"); only a dataset deleted during the *)
(* call that had read it escapes the validation.                           *)
RecordsFitSchema ==
  \A i \in DOMAIN records : ~records[i].late /\ datasets[records[i].dataset].live =>
     validate_record(datasets[records[i].dataset].schema, records[i].payload)

(* "Delete the descriptor and explicitly cascade to its records": no row   *)
(* of a deleted dataset remains, but for one being inserted meanwhile.     *)
NoOrphans == \A i \in DOMAIN records : ~records[i].late => datasets[records[i].dataset].live

(* A query answers with exactly the newest matching records of the whole   *)
(* days asked for, newest first, among the newest MAX_SCAN_ROWS of them    *)
(* ("the bounded scan").                                                   *)
QueryIsExact ==
  LET days == {records[i].at \div 2 : i \in DOMAIN records}
  IN \A n \in Names, first, last \in days, p \in Payloads, limit \in Limits :
       LET mine == {i \in DOMAIN records : records[i].dataset \in get(n) /\ records[i].at \div 2 \in first..last}
           newer(set, i) == Cardinality({j \in set : j > i})
           scanned == {i \in mine : newer(mine, i) < MAX_SCAN_ROWS /\ records[i].payload = p}
           answer == {i \in scanned : newer(scanned, i) < limit}
           result == query_records(n, first, last, p, limit)
       IN /\ Len(result) = Cardinality(answer)
          /\ \A i \in answer : result[newer(answer, i) + 1] = records[i]
=============================================================================
