---------------------------- MODULE DatasetQuery ----------------------------
(***************************************************************************)
(* A query on a dataset of one field (datastore.c) and the statements the  *)
(* two databases make of it (datastore_sqlite.c, datastore_postgres.c):    *)
(* its condition and its order, which are compiled at the next use after   *)
(* a change, the rows it reads one at a time, writes and deletes, and what *)
(* becomes of a value on its way into the database and back.               *)
(*                                                                         *)
(* A numeric type has NumBits bits here, the signed column that holds it   *)
(* as many.  Conditions and orders change between readings, as in          *)
(* registry.c; operations that run out of memory are left out.  Fields may *)
(* be NULL: is_null is a flag of the query, which a writer sets for each   *)
(* row it writes and a reader looks at after each row it reads.            *)
(***************************************************************************)
EXTENDS Integers, Sequences, SequencesExt

CONSTANTS
  NumBits,
  FieldValues,   \* values of the field, by type
  MaxWrites

ASSUME DatasetQueryAssumption == NumBits \in Nat \ {0, 1} /\ MaxWrites \in Nat

VARIABLES
  backend, fieldType, daylight,     \* daylight: of the C library, in this time zone
  sequence,      \* behind the ids
  table,         \* rows: id, whether it is NULL, the value written, what the column holds
  dsq,           \* condition, order, prepared, the statements compiled last
  statements,    \* pointers to sqlite's: "none", "live", or "finalized" and not cleared
  is_null,       \* of the query's value
  cursor,        \* rows left of a reading
  got, wanted,   \* rows delivered by it, rows that satisfied the condition at its start
  data_id,       \* of the row read or written last
  outcome

queryVars == <<backend, fieldType, daylight, sequence, table, dsq, statements, is_null, cursor, got,
               wanted, data_id, outcome>>
database == <<backend, fieldType, daylight>>

Unset == [is |-> FALSE]
Cond(v) == [is |-> TRUE, v |-> v]
NoRead == [on |-> FALSE, rows |-> <<>>]
NewQuery == [cond |-> Unset, order |-> "none", prepared |-> FALSE,
             stmt |-> [cond |-> Unset, order |-> "none"]]

QueryInit ==
  /\ backend \in {"sqlite", "postgres"} /\ fieldType \in DOMAIN FieldValues
  /\ daylight \in (IF fieldType = "timestamp" THEN BOOLEAN ELSE {FALSE})
  /\ sequence = 0 /\ table = {} /\ dsq = NewQuery /\ cursor = NoRead /\ got = <<>> /\ wanted = <<>>
  /\ statements = "none" /\ is_null = FALSE
  /\ data_id = 0 /\ outcome = "none"

-----------------------------------------------------------------------------
(* Values in the database.                                                 *)
Half == 2 ^ (NumBits - 1)
Signed(v) == IF v < Half THEN v ELSE v - 2 * Half
Unsigned(v) == v % (2 * Half)

(* Types whose column, or the call that binds the value, is too narrow for *)
(* the unsigned value.                                                     *)
Narrow == IF backend = "sqlite" THEN {"uint32", "uint64"} ELSE {"uint16", "uint32", "uint64"}

(* A timestamp is kept in seconds, or with the microseconds but shifted by *)
(* an hour where daylight saving time exists.                              *)
StoredTime(t) == IF backend = "sqlite" THEN [t EXCEPT !.usec = 0]
                 ELSE [t EXCEPT !.hour = @ + IF daylight THEN 1 ELSE 0]

Stored(v) ==
  CASE fieldType \in Narrow -> Signed(v)
    [] fieldType = "timestamp" -> StoredTime(v)
    [] OTHER -> v

LoadedValue(raw) == IF fieldType \in Narrow THEN Unsigned(raw) ELSE raw

(* The condition is written into the statement: a number unsigned, a text  *)
(* with quotes escaped by a backslash, which SQLite takes for a character. *)
Literal(v) == IF fieldType = "string" /\ backend = "sqlite" /\ v.quote THEN [v EXCEPT !.s = "\\" \o @]
              ELSE v
Supported == fieldType # "timestamp"

Selected(c) == {r \in table : c.is => ~r.null /\ r.raw = Literal(c.v)}

(* NULL comes before all values in SQLite, after them in PostgreSQL.       *)
Less(r, s) ==
  IF r.null \/ s.null THEN r.null # s.null /\ r.null = (backend = "sqlite") ELSE r.raw < s.raw
Before(o, r, s) ==
  CASE o = "none" -> r.id < s.id
    [] o = "asc" -> Less(r, s) \/ (~Less(s, r) /\ r.id < s.id)
    [] o = "desc" -> Less(s, r) \/ (~Less(r, s) /\ r.id < s.id)
RowsInOrder(rows, o) == SetToSortSeq(rows, LAMBDA r, s : Before(o, r, s))

-----------------------------------------------------------------------------
(* datastore_dataset_query_set_condition and _set_order, and the functions *)
(* that take them back.                                                    *)
Idle == ~cursor.on

Changed(q) == [q EXCEPT !.prepared = FALSE]
Renewed(q) == Changed(q)

SetCondition(v) ==
  /\ Idle /\ outcome' = "changed"
  /\ dsq' = Renewed([dsq EXCEPT !.cond = Cond(v)])
  /\ UNCHANGED <<database, sequence, table, statements, is_null, cursor, got, wanted, data_id>>

UnsetCondition ==
  /\ Idle /\ dsq.cond.is /\ outcome' = "changed"
  /\ dsq' = Changed([dsq EXCEPT !.cond = Unset])
  /\ UNCHANGED <<database, sequence, table, statements, is_null, cursor, got, wanted, data_id>>

SetOrder(o) ==
  /\ Idle /\ outcome' = "changed"
  /\ dsq' = Changed([dsq EXCEPT !.order = o])
  /\ UNCHANGED <<database, sequence, table, statements, is_null, cursor, got, wanted, data_id>>

(* dataset_query_prepare, if anything changed since.  That of SQLite first *)
(* finalizes the statements there are, and leaves the pointers to them     *)
(* behind when it then refuses the condition.                              *)
Prepare(q) == IF q.prepared THEN q
              ELSE [q EXCEPT !.stmt = [cond |-> q.cond, order |-> q.order], !.prepared = TRUE]
Supports == dsq.prepared \/ ~dsq.cond.is \/ Supported
Dangling == ~dsq.prepared /\ statements = "finalized"
Preparable == Supports /\ ~Dangling
Prepared == dsq' = Prepare(dsq) /\ statements' = IF backend = "sqlite" THEN "live" ELSE "none"

Refuse ==
  /\ ~Supports /\ ~Dangling /\ outcome' = "error"
  /\ statements' = IF statements = "live" THEN "finalized" ELSE statements
  /\ UNCHANGED <<database, sequence, table, dsq, is_null, cursor, got, wanted, data_id>>

(* A preparation, or the cleanup of the query, finalizes statements a      *)
(* second time: nothing that follows is defined.                           *)
FinalizeAgain ==
  /\ Idle /\ Dangling /\ outcome' = "undefined"
  /\ UNCHANGED <<database, sequence, table, dsq, statements, is_null, cursor, got, wanted, data_id>>

(* datastore_dataset_query_cleanup, and another query on the data set.     *)
Reopen ==
  /\ Idle /\ ~Dangling /\ outcome' = "changed"
  /\ dsq' = NewQuery /\ statements' = "none" /\ is_null' = FALSE /\ data_id' = 0
  /\ UNCHANGED <<database, sequence, table, cursor, got, wanted>>

-----------------------------------------------------------------------------
(* datastore_dataset_read: a row, or the end.  A row that is NULL sets     *)
(* is_null, and no row takes it back.                                      *)
Satisfies(r) == dsq.cond.is => ~r.null /\ r.value = dsq.cond.v

Delivered(r) == [id |-> r.id, null |-> is_null \/ r.null, value |-> LoadedValue(r.raw), left |-> is_null]

ReadRow ==
  /\ Preparable /\ Prepared
  /\ LET rows == IF cursor.on THEN cursor.rows ELSE RowsInOrder(Selected(dsq'.stmt.cond), dsq'.stmt.order)
         so == IF cursor.on THEN got ELSE <<>>
     IN /\ wanted' = IF cursor.on THEN wanted ELSE RowsInOrder({r \in table : Satisfies(r)}, dsq.order)
        /\ IF rows = <<>>
           THEN /\ cursor' = NoRead /\ got' = so /\ outcome' = "end"
                /\ UNCHANGED <<data_id, is_null>>
           ELSE /\ cursor' = [on |-> TRUE, rows |-> Tail(rows)]
                /\ got' = Append(so, Delivered(Head(rows)))
                /\ is_null' = (is_null \/ Head(rows).null)
                /\ data_id' = Head(rows).id /\ outcome' = "more"
  /\ UNCHANGED <<database, sequence, table>>

(* datastore_dataset_read_single: exactly one row.                         *)
ReadSingle ==
  /\ Idle /\ Preparable /\ Prepared
  /\ LET rows == RowsInOrder(Selected(dsq'.stmt.cond), dsq'.stmt.order)
     IN /\ outcome' = (CASE Len(rows) = 0 -> "none" [] Len(rows) = 1 -> "one" [] OTHER -> "error")
        /\ is_null' = (is_null \/ \E r \in Range(rows) : r.null)
        /\ data_id' = IF rows = <<>> THEN data_id ELSE Last(rows).id
        /\ got' = IF Len(rows) = 1 THEN <<Delivered(rows[1])>> ELSE <<>>
  /\ wanted' = RowsInOrder({r \in table : Satisfies(r)}, dsq.order)
  /\ UNCHANGED <<database, sequence, table, cursor>>

(* datastore_dataset_write: the id of the row is that of the last insert.  *)
WriteRow(v, null) ==
  /\ Idle /\ Preparable /\ sequence < MaxWrites
  /\ Prepared /\ is_null' = null
  /\ sequence' = sequence + 1 /\ data_id' = sequence'
  /\ table' = table \cup {[id |-> sequence', null |-> null, value |-> v, raw |-> Stored(v)]}
  /\ outcome' = "written" /\ got' = <<>> /\ wanted' = <<>>
  /\ UNCHANGED <<database, cursor>>

(* datastore_dataset_delete.  The order goes into the statement as well,   *)
(* and PostgreSQL knows no DELETE that has one.                            *)
DeleteRows ==
  /\ Idle /\ Preparable /\ Prepared
  /\ IF backend = "postgres" /\ dsq'.stmt.order # "none"
     THEN outcome' = "error" /\ UNCHANGED <<table, wanted>>
     ELSE /\ table' = table \ Selected(dsq'.stmt.cond) /\ outcome' = "deleted"
          /\ wanted' = RowsInOrder({r \in table : ~Satisfies(r)}, "none")
  /\ got' = <<>>
  /\ UNCHANGED <<database, sequence, is_null, cursor, data_id>>

QueryNext ==
  /\ outcome # "undefined"
  /\ \/ \E v \in FieldValues[fieldType] : SetCondition(v) \/ WriteRow(v, FALSE)
     \/ WriteRow(CHOOSE v \in FieldValues[fieldType] : TRUE, TRUE)
     \/ UnsetCondition
     \/ fieldType \notin {"string", "timestamp"} /\ \E o \in {"asc", "desc"} : SetOrder(o)
     \/ Refuse \/ FinalizeAgain \/ Reopen
     \/ ReadRow \/ ReadSingle \/ DeleteRows

-----------------------------------------------------------------------------
(* Values that do not survive: numbers in the upper half of a type whose   *)
(* column is signed, when they are searched for or ordered by; texts with  *)
(* quotes, when they are searched for.                                     *)
Odd(v) == \/ fieldType \in Narrow /\ v >= Half
          \/ fieldType = "string" /\ backend = "sqlite" /\ v.quote
Plain ==
  /\ dsq.cond.is => ~Odd(dsq.cond.v)
  /\ dsq.order # "none" => \A r \in table : ~r.null => ~Odd(r.value)

(* A row as it was written: NULL as NULL, and as NULL too where the row or *)
(* the write before it left is_null set (left); a value as itself (a       *)
(* timestamp, up to the hour or the microseconds).                         *)
AsWritten(d, r) ==
  /\ d.id = r.id
  /\ d.null = (r.null \/ d.left)
  /\ d.null \/ fieldType = "timestamp" \/ d.value = r.value

=============================================================================
