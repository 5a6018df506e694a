------------------------------ MODULE Postgres ------------------------------
(***************************************************************************)
(* Transactions of a PostgreSQL datastore (datastore_postgres.c) under the *)
(* functions that save, load and delete a configuration (registry.c):      *)
(* connections that break and are made again, transactions of the caller   *)
(* and those a single read or write makes for itself, counted because they *)
(* nest, and cursors.  Saving uses a connection of its own, loading and    *)
(* deleting share the main one.                                            *)
(*                                                                         *)
(* A call of the datastore is a step: it holds the lock of its connection  *)
(* (deleting does not, and is taken to be undisturbed all the same).  What *)
(* it does is the set of its outcomes, a statement after the other.        *)
(***************************************************************************)
EXTENDS Integers, FiniteSets

CONSTANTS
  Savers, Loaders, Deleters,   \* threads that call registry_config_save, _load, _delete
  PgNames,       \* of configurations
  PgRows,        \* rows of a configuration
  MaxIds,        \* bounds of a run: entries, connections lost, statements refused
  MaxLost,
  MaxRefused

(* A thread does one of these at a time, on its own connection or "main".  *)
ASSUME PostgresAssumption ==
  /\ MaxIds \in Nat /\ MaxLost \in Nat /\ MaxRefused \in Nat
  /\ IsFiniteSet(Loaders \cup Deleters) /\ "main" \notin Savers
  /\ Savers \cap Loaders = {} /\ Savers \cap Deleters = {} /\ Loaders \cap Deleters = {}

VARIABLES
  base,          \* what is committed: entries of the list, and rows
  links,         \* per connection: its session in the server, and cpriv->transaction
  pgPc, pgName,  \* what each thread does, with which configuration,
  pgId,          \* the id it found or wrote,
  readRes,       \* and the result it reads from (qpriv->read_res)
  pgLock,        \* registry_lock
  ids,           \* the sequence behind the ids
  lost, refused,
  tainted,       \* ids left to an exception (see the properties)
  abandoned,     \* a query was given up in the middle of its result
  pgCrashed

pgVars == <<base, links, pgPc, pgName, pgId, readRes, pgLock, ids, lost, refused, tainted, abandoned, pgCrashed>>

Users == Savers \cup Loaders \cup Deleters
Main == "main"
Link(u) == IF u \in Savers THEN u ELSE Main
Tables == {"list", "config"}

(* cpriv->transaction.                                                     *)
NotInTrans == 0
InTrans == 1
InTempTrans == 2

NoChanges == [add |-> {}, del |-> {}]
NewLink == [up |-> TRUE, block |-> "none", pend |-> NoChanges, cursors |-> {}, trans |-> NotInTrans]
NoResult == [open |-> FALSE, rows |-> {}]
Result(rows) == [open |-> TRUE, rows |-> rows]

PgInit ==
  /\ base = {} /\ links = [c \in Savers \cup {Main} |-> NewLink]
  /\ pgPc = [u \in Users |-> "start"] /\ pgId = [u \in Users |-> 0]
  /\ pgName \in [Users -> PgNames]
  /\ readRes = [u \in Users |-> NoResult] /\ pgLock = "free"
  /\ ids = 0 /\ lost = 0 /\ refused = 0 /\ tainted = {} /\ abandoned = FALSE /\ pgCrashed = FALSE

-----------------------------------------------------------------------------
(* The server and libpq, outside this repository.  x is the state of a     *)
(* call: the committed rows, its link, the counters, and how it went.      *)
Entry(n, i) == [table |-> "list", id |-> i, what |-> n]
Row(r, i) == [table |-> "config", id |-> i, what |-> r]

Applied(b, p) == (b \ p.del) \cup p.add
Seen(x) == Applied(x.base, x.l.pend)

Change(x, add, del) ==
  LET p == [add |-> (x.l.pend.add \ del) \cup add, del |-> x.l.pend.del \cup del]
  IN IF x.l.block = "none" THEN [x EXCEPT !.base = Applied(@, [add |-> add, del |-> del])]
     ELSE [x EXCEPT !.l.pend = p]

EndBlock(x, b) == [x EXCEPT !.base = b, !.l.block = "none", !.l.pend = NoChanges, !.l.cursors = {}]
Ok(x) == [x EXCEPT !.r = "ok"]
Bad(x) == [x EXCEPT !.r = "err", !.l.block = IF @ = "open" THEN "aborted" ELSE @]

Statement(x, q) ==
  CASE q.do = "BEGIN" -> Ok([x EXCEPT !.l.block = IF @ = "none" THEN "open" ELSE @])
    [] q.do = "DECLARE" -> IF x.l.block = "none" \/ q.table \in x.l.cursors THEN Bad(x)
                           ELSE Ok([x EXCEPT !.l.cursors = @ \cup {q.table}])
    [] q.do = "FETCH" -> IF q.table \in x.l.cursors THEN Ok(x) ELSE Bad(x)
    [] q.do = "CLOSE" -> IF q.table \in x.l.cursors THEN Ok([x EXCEPT !.l.cursors = @ \ {q.table}])
                         ELSE Bad(x)
    [] q.do = "INSERT" -> Ok(Change(x, q.rows, {}))
    [] q.do = "DELETE" -> Ok(Change(x, {}, q.rows \cap Seen(x)))

Server(x, q) ==
  CASE q.do = "COMMIT" -> Ok(EndBlock(x, IF x.l.block = "aborted" THEN x.base ELSE Seen(x)))
    [] q.do = "ROLLBACK" -> Ok(EndBlock(x, x.base))
    [] OTHER -> IF x.l.block = "aborted" THEN Bad(x) ELSE Statement(x, q)

Cut(x) == [EndBlock(x, x.base) EXCEPT !.r = "lost", !.l.up = FALSE, !.lost = @ + 1]

(* PQexec: the connection may break before the statement or behind it.     *)
PQexec(x, q) ==
  IF ~x.l.up THEN {[x EXCEPT !.r = "lost"]}
  ELSE {Server(x, q)}
       \cup (IF x.lost < MaxLost THEN {Cut(x), Cut(Server(x, q))} ELSE {})
       \cup (IF q.do = "INSERT" /\ x.refused < MaxRefused
             THEN {Bad([x EXCEPT !.refused = @ + 1])} ELSE {})

-----------------------------------------------------------------------------
(* datastore_postgres_exec: a broken connection is made again, and the     *)
(* statement repeated unless a transaction was lost with it.  The error of *)
(* a lost connection has no SQLSTATE: *errcode of                          *)
(* datastore_postgres_get_ds_state_error is then a NULL pointer.           *)
StateError(x) == [x EXCEPT !.r = IF @ = "lost" THEN "crash" ELSE "err"]
Failed(x) == x.r # "ok"

InTransaction(x) == x.l.trans # NotInTrans
NeverInTransaction(x) == FALSE
LostWithIt(x) == InTransaction(x)

Reconnected(x, q) ==
  IF LostWithIt(x) THEN {[x EXCEPT !.r = "err", !.l.trans = NotInTrans]}
  ELSE {IF y.r = "ok" THEN y ELSE StateError(y) : y \in PQexec(x, q)}

OrReconnected(x, q) ==
  IF x.r # "lost" THEN {x}
  ELSE {[x EXCEPT !.r = "err"]}      \* cannot connect
       \cup Reconnected([x EXCEPT !.l.up = TRUE], q)
Exec(x, q) == UNION {OrReconnected(y, q) : y \in PQexec(x, q)}

Stmt(d) == [do |-> d, table |-> "", rows |-> {}]
StmtOn(d, t) == [do |-> d, table |-> t, rows |-> {}]
StmtWith(d, rows) == [do |-> d, table |-> "", rows |-> rows]
SetTrans(x, n) == [x EXCEPT !.l.trans = n]

(* datastore_postgres_transaction_begin, _commit, _rollback.               *)
TransactionBegin(x) ==
  IF x.l.trans # NotInTrans THEN {[x EXCEPT !.r = "err"]}
  ELSE {IF Failed(y) THEN y ELSE SetTrans(y, InTrans) : y \in Exec(x, Stmt("BEGIN"))}

TransactionEnd(x, how) ==
  IF x.l.trans # InTrans THEN {[x EXCEPT !.r = "err"]}
  ELSE {IF Failed(y) THEN y ELSE SetTrans(y, NotInTrans) : y \in Exec(x, Stmt(how))}

(* What a single read or write does first, and last.                       *)
EnterTrans(x) ==
  IF x.l.trans = NotInTrans
  THEN {IF Failed(y) THEN [y EXCEPT !.gone = TRUE] ELSE SetTrans(y, InTempTrans) : y \in Exec(x, Stmt("BEGIN"))}
  ELSE {Ok(IF x.l.trans >= InTempTrans THEN SetTrans(x, x.l.trans + 1) ELSE x)}

Keeping(x, ys) == {IF y.r = "crash" THEN y ELSE [y EXCEPT !.r = x.r] : y \in ys}

LeaveTransAfterSuccess(x) ==
  IF Failed(x) \/ x.l.trans < InTempTrans THEN {x}
  ELSE IF x.l.trans > InTempTrans THEN {SetTrans(x, x.l.trans - 1)}
  ELSE {SetTrans(y, NotInTrans) : y \in Keeping(x, Exec(x, Stmt("COMMIT")))}

LeaveTrans(x) ==
  IF x.r = "crash" \/ x.gone \/ x.l.trans < InTempTrans THEN {x}
  ELSE IF x.l.trans > InTempTrans THEN {SetTrans(x, x.l.trans - 1)}
  ELSE {SetTrans(y, NotInTrans) : y \in Keeping(x, Exec(x, Stmt(IF x.r = "ok" THEN "COMMIT" ELSE "ROLLBACK")))}

(* datastore_postgres_dataset_write: INSERT, then the id it was given.     *)
OrStateError(x) == IF Failed(x) THEN StateError(x) ELSE x
Inserted(x, rows) ==
  IF Failed(x) THEN {x}
  ELSE UNION {LeaveTrans(OrStateError(y)) : y \in PQexec(x, StmtWith("INSERT", rows))}
Write(x, rows) == UNION {Inserted(y, rows) : y \in EnterTrans(x)}

(* datastore_postgres_dataset_read at its start: the cursor is declared    *)
(* and everything is fetched; wanted are the rows that satisfy the         *)
(* condition of the query.                                                 *)
OrLeave(x) == IF Failed(x) THEN LeaveTrans(x) ELSE {x}
FetchAll(x, t, wanted) ==
  IF Failed(x) THEN LeaveTrans(x)
  ELSE UNION {OrLeave([OrStateError(y) EXCEPT !.rows = Seen(y) \cap wanted]) : y \in PQexec(x, StmtOn("FETCH", t))}
Declared(x, t, wanted) ==
  IF Failed(x) THEN {x}
  ELSE UNION {FetchAll(y, t, wanted) : y \in Exec(x, StmtOn("DECLARE", t))}
ReadStart(x, t, wanted) == UNION {Declared(y, t, wanted) : y \in EnterTrans(x)}

(* At its end the cursor is closed; whether that works is not looked at.   *)
ReadEnd(x, t) == UNION {LeaveTrans(y) : y \in Keeping(Ok(x), Exec(x, StmtOn("CLOSE", t)))}

(* datastore_postgres_dataset_delete.                                      *)
Delete(x, rows) == Exec(x, StmtWith("DELETE", rows))

-----------------------------------------------------------------------------
(* A call by u, and where u goes on after it.                              *)
Call(u) == [base |-> base, l |-> links[Link(u)], lost |-> lost, refused |-> refused,
            r |-> "ok", rows |-> {}, gone |-> FALSE]

Effect(u, x) ==
  /\ base' = x.base
  /\ links' = [links EXCEPT ![Link(u)] = x.l]
  /\ lost' = x.lost /\ refused' = x.refused
  /\ pgCrashed' = (x.r = "crash")

PgGoto(u, l) == pgPc' = [pgPc EXCEPT ![u] = l]
PgAt(u, l) == ~pgCrashed /\ pgPc[u] = l

Returns(u, xs, good, bad) ==
  \E x \in xs : Effect(u, x) /\ PgGoto(u, IF x.r = "ok" THEN good ELSE bad)

(* datastore_dataset_read_single of the entry: a row, and then no other.   *)
FindEntry(u, from, to) ==
  /\ PgAt(u, from)
  /\ \E x \in ReadStart(Call(u), "list", {Entry(pgName[u], i) : i \in 1 .. MaxIds}) :
       /\ Effect(u, x)
       /\ IF Failed(x) THEN PgGoto(u, "fail") /\ UNCHANGED readRes
          ELSE PgGoto(u, to) /\ readRes' = [readRes EXCEPT ![u] = Result(x.rows)]

(* The transaction a user had begun is gone if closing the cursor lost the *)
(* connection.                                                             *)
Unnoticed(u, x) == u \in Savers /\ links[u].trans = InTrans /\ x.l.trans # InTrans

SingleFound(u, from, found, none) ==
  /\ PgAt(u, from)
  /\ LET rows == readRes[u].rows
         one == Cardinality(rows) = 1
     IN \E x \in ReadEnd(Call(u), "list") :
          /\ Effect(u, x)
          /\ PgGoto(u, IF one THEN found ELSE IF rows = {} THEN none ELSE "fail")
          /\ pgId' = [pgId EXCEPT ![u] = IF one THEN (CHOOSE r \in rows : TRUE).id ELSE 0]
          /\ tainted' = IF Unnoticed(u, x) THEN tainted \cup (0 .. MaxIds) ELSE tainted
  /\ readRes' = [readRes EXCEPT ![u] = NoResult]

NameKept == UNCHANGED <<pgName, abandoned>>

-----------------------------------------------------------------------------
(* registry_config_save.                                                   *)
Saves(u) ==
  \/ PgAt(u, "start") /\ ids < MaxIds
     /\ Returns(u, TransactionBegin(Call(u)), "find", "fail")
     /\ UNCHANGED <<readRes, pgId, ids, tainted, pgLock>>
  \/ FindEntry(u, "find", "found") /\ UNCHANGED <<pgId, ids, tainted, pgLock>>
  \/ SingleFound(u, "found", "drop entry", "entry") /\ UNCHANGED <<ids, pgLock>>
  \/ PgAt(u, "drop entry")
     /\ Returns(u, Delete(Call(u), {Entry(pgName[u], pgId[u])}), "drop rows", "fail")
     /\ UNCHANGED <<readRes, pgId, ids, tainted, pgLock>>
  \/ PgAt(u, "drop rows")
     /\ Returns(u, Delete(Call(u), {Row(r, pgId[u]) : r \in PgRows}), "entry", "fail")
     /\ UNCHANGED <<readRes, pgId, ids, tainted, pgLock>>
  \/ PgAt(u, "entry") /\ ids < MaxIds
     /\ Returns(u, Write(Call(u), {Entry(pgName[u], ids + 1)}), "rows", "fail")
     /\ ids' = ids + 1 /\ pgId' = [pgId EXCEPT ![u] = ids + 1]
     /\ UNCHANGED <<readRes, tainted, pgLock>>
  \/ PgAt(u, "rows") /\ pgLock = "free"
     /\ \E r \in PgRows :
          LET rows == {x \in PgRows : Row(x, pgId[u]) \in Seen(Call(u))}
          IN /\ r \notin rows
             /\ Returns(u, Write(Call(u), {Row(r, pgId[u])}),
                        IF rows \cup {r} = PgRows THEN "commit" ELSE "rows", "fail")
     /\ UNCHANGED <<readRes, pgId, ids, tainted, pgLock>>
  \/ PgAt(u, "commit")
     /\ Returns(u, TransactionEnd(Call(u), "COMMIT"), "saved", "fail")
     /\ UNCHANGED <<readRes, pgId, ids, tainted, pgLock>>
  \/ PgAt(u, "fail")
     /\ Returns(u, TransactionEnd(Call(u), "ROLLBACK"), "done", "done")
     /\ UNCHANGED <<readRes, pgId, ids, tainted, pgLock>>

(* registry_config_load: the lock is taken once the id is known.  What it  *)
(* reads may make it stop before the end of the rows.                      *)
Loads(u) ==
  /\ UNCHANGED ids
  /\ \/ FindEntry(u, "start", "found") /\ UNCHANGED <<pgId, tainted, pgLock, abandoned>>
     \/ SingleFound(u, "found", "fetch", "done") /\ UNCHANGED <<pgLock, abandoned>>
     \/ PgAt(u, "fetch") /\ pgLock = "free"
        /\ \E x \in ReadStart(Call(u), "config", {Row(r, pgId[u]) : r \in PgRows}) :
             /\ Effect(u, x)
             /\ IF Failed(x) THEN PgGoto(u, "fail") /\ UNCHANGED <<readRes, pgLock>>
                ELSE PgGoto(u, "read") /\ readRes' = [readRes EXCEPT ![u] = Result(x.rows)] /\ pgLock' = u
        /\ UNCHANGED <<pgId, tainted, abandoned>>
     \/ PgAt(u, "read")
        /\ \/ Returns(u, ReadEnd(Call(u), "config"), "done", "done") /\ UNCHANGED abandoned
           \/ readRes[u].rows # {} /\ PgGoto(u, "done") /\ abandoned' = TRUE
              /\ UNCHANGED <<base, links, lost, refused, pgCrashed>>
        /\ readRes' = [readRes EXCEPT ![u] = NoResult] /\ pgLock' = "free"
        /\ UNCHANGED <<pgId, tainted>>
     \/ PgAt(u, "fail") /\ PgGoto(u, "done")
        /\ UNCHANGED <<base, links, lost, refused, pgCrashed, readRes, pgId, tainted, pgLock, abandoned>>

(* registry_config_delete: no transaction, the rows first.                 *)
Deletes(u) ==
  /\ UNCHANGED ids
  /\ \/ pgLock = "free" /\ FindEntry(u, "start", "found")
        /\ pgLock' = (IF pgPc'[u] = "found" THEN u ELSE "free")
        /\ UNCHANGED <<pgId, tainted>>
     \/ SingleFound(u, "found", "drop rows", "fail") /\ UNCHANGED pgLock
     \/ PgAt(u, "drop rows")
        /\ Returns(u, Delete(Call(u), {Row(r, pgId[u]) : r \in PgRows}), "drop entry", "fail")
        /\ tainted' = tainted \cup {pgId[u]}
        /\ UNCHANGED <<readRes, pgId, pgLock>>
     \/ PgAt(u, "drop entry")
        /\ Returns(u, Delete(Call(u), {Entry(pgName[u], pgId[u])}), "done", "done")
        /\ pgLock' = "free"
        /\ UNCHANGED <<readRes, pgId, tainted>>
     \/ PgAt(u, "fail") /\ PgGoto(u, "done")
        /\ pgLock' = (IF pgLock = u THEN "free" ELSE pgLock)
        /\ UNCHANGED <<base, links, lost, refused, pgCrashed, readRes, pgId, tainted>>

(* The caller tries again, with any configuration.                         *)
Again(u) ==
  /\ \/ PgAt(u, "done") \/ PgAt(u, "saved")
  /\ PgGoto(u, "start")
  /\ pgName' \in {[pgName EXCEPT ![u] = n] : n \in PgNames}
  /\ pgId' = [pgId EXCEPT ![u] = 0]
  /\ UNCHANGED <<base, links, readRes, pgLock, ids, lost, refused, tainted, abandoned, pgCrashed>>

PgNext ==
  \/ \E u \in Savers : Saves(u) /\ NameKept
  \/ \E u \in Loaders : Loads(u) /\ UNCHANGED pgName
  \/ \E u \in Deleters : Deletes(u) /\ NameKept
  \/ \E u \in Users : Again(u)

PgSpec == PgInit /\ [][PgNext]_pgVars

-----------------------------------------------------------------------------
RowsOf(i) == {r \in PgRows : Row(r, i) \in base}
Listed(i) == \E n \in PgNames : Entry(n, i) \in base

(* A configuration is stored with its entry and all its rows, or not at    *)
(* all, whatever connection breaks when; and one that was reported saved   *)
(* is stored.  Excepted are those whose deletion has begun, and all of     *)
(* them once the end of a reading has lost the transaction around it.      *)
SavesWhole ==
  /\ \A i \in (0 .. MaxIds) \ tainted : RowsOf(i) = IF Listed(i) THEN PgRows ELSE {}
  /\ \A u \in Savers : pgPc[u] = "saved" /\ pgId[u] = ids /\ pgId[u] \notin tainted => Listed(pgId[u])

(* A connection is back outside of any transaction once nobody reads from  *)
(* it: transactions that nest are counted, also when they are lost in the  *)
(* middle.  Unless a reading was given up before its end.                  *)
Reading(c) == {u \in Users : Link(u) = c /\ readRes[u].open}
TransactionsEnd ==
  ~pgCrashed /\ ~abandoned => links[Main].trans <= IF Reading(Main) = {} THEN NotInTrans ELSE Cardinality(Reading(Main)) + 1
=============================================================================
