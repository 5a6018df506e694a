----------------------------- MODULE Datastore ------------------------------
(***************************************************************************)
(* A datastore (datastore.c) on a database file (datastore_sqlite.c): its  *)
(* main connection, the connections that are in use and those that wait    *)
(* for the next user, the datasets in memory, and their tables,            *)
(* entries and schemas in the file.                                        *)
(*                                                                         *)
(* Threads open datasets over a connection of their own (saving and        *)
(* listing configurations) or over the main one (loading and deleting),    *)
(* make queries, write, and give everything back; a parameter change       *)
(* closes the datastore when it looks unused; the process may stop         *)
(* anywhere and start again with the file as it is.                        *)
(*                                                                         *)
(* What runs under the lock of the datastore is a step.  The database has  *)
(* one writer at a time, another one tries again until it is gone.         *)
(***************************************************************************)
EXTENDS Integers, FiniteSets

CONSTANTS
  DsUsers,       \* threads that use the datastore
  DataNames,     \* datasets they open
  Fields,        \* number of fields of a dataset
  DsConns,       \* connections, and no connection
  NoConn,
  MaxFaults,     \* bounds of a run: failures, restarts
  MaxRestarts

ASSUME DatastoreAssumption ==
  Fields \in Nat \ {0} /\ NoConn \notin DsConns
  /\ MaxFaults \in Nat /\ MaxRestarts \in Nat
  /\ IsFiniteSet(DsUsers)

VARIABLES
  file,          \* tables, the entries of the list of datasets, rows of their schemas
  conMain,       \* NULL, connected, never connected, freed
  pool,          \* the lists cons and cons_unused and the links of the connections
  connected,     \* connections to the database
  inMemory,      \* datasets in memory: their fields and how many queries use them
  fileWriter,    \* the connection that writes in a transaction
  dsPc, dsConn,  \* what each thread does, over which connection,
  dsName,        \* the dataset it is opening,
  dsQueries,     \* its queries
  cutShort,      \* datasets whose creation over a user's connection did not end
  dsCrashed,     \* freed or missing memory was used
  faults, restarts

dsVars == <<file, conMain, pool, connected, inMemory, fileWriter, dsPc, dsConn, dsName,
            dsQueries, cutShort, dsCrashed, faults, restarts>>

EmptyFile == [system |-> FALSE, tables |-> {}, listed |-> {}, schema |-> {}]
EmptyPool == [cons |-> NoConn, unused |-> NoConn,
              next |-> [c \in DsConns |-> NoConn], prev |-> [c \in DsConns |-> NoConn]]
NotKnownYet == [fields |-> {}, refs |-> 0, there |-> FALSE]

DsInit ==
  /\ file = EmptyFile /\ conMain = "null" /\ pool = EmptyPool /\ connected = {}
  /\ inMemory = [n \in DataNames |-> NotKnownYet] /\ fileWriter = NoConn
  /\ dsPc = [u \in DsUsers |-> "away"] /\ dsConn = [u \in DsUsers |-> NoConn]
  /\ dsName = [u \in DsUsers |-> "none"] /\ dsQueries = [u \in DsUsers |-> {}]
  /\ cutShort = {} /\ dsCrashed = FALSE /\ faults = 0 /\ restarts = 0

DsOn == ~dsCrashed
Fails == faults < MaxFaults /\ faults' = faults + 1
FileFree == fileWriter = NoConn
DsGoto(u, l) == dsPc' = [dsPc EXCEPT ![u] = l]

-----------------------------------------------------------------------------
(* The connections.                                                        *)

(* datastore_connection_new: one that waits comes off its list, and is put *)
(* on no other; a new one is put on cons.                                  *)
Reuse(p) ==
  LET c == p.unused
      n == p.next[c]
  IN [p EXCEPT !.unused = n,
               !.next[c] = NoConn,
               !.prev = [x \in DsConns |-> IF x \in {c, n} THEN NoConn ELSE p.prev[x]]]

PutOnCons(p, c) ==
  [p EXCEPT !.cons = c,
            !.next[c] = p.cons,
            !.prev = [x \in DsConns |-> IF x = c THEN NoConn
                                        ELSE IF x = p.cons THEN c ELSE p.prev[x]]]

(* datastore_connection_release.                                           *)
GiveBack(p, c) ==
  LET n == p.next[c]
      b == p.prev[c]
      q == [p EXCEPT !.cons = IF b = NoConn THEN n ELSE @,
                     !.next = [x \in DsConns |-> IF x = b THEN n ELSE IF x = c THEN p.unused ELSE p.next[x]]]
  IN [q EXCEPT !.prev = [x \in DsConns |->
                           IF x = p.unused THEN c ELSE IF x = n THEN b ELSE p.prev[x]],
               !.unused = c]

(* The list cons_unused: what is reached from its head, that is, what is  *)
(* in every set that has the head and goes with the links.                 *)
Unused(p) ==
  {c \in DsConns : \A S \in SUBSET DsConns :
     (p.unused \in S \cup {NoConn} /\ \A x \in S : p.next[x] \in S \cup {NoConn}) => c \in S}

(* datastore_sqlite_connect, for a connection that was not used yet.       *)
Fresh == {c \in DsConns : c \notin connected /\ c \notin Unused(pool)}

(* The connection datastore_connection_new hands out, and the lists then.  *)
Handed ==
  IF pool.unused # NoConn THEN {[c |-> pool.unused, p |-> Reuse(pool)]}
  ELSE IF Fresh # {} THEN LET c == CHOOSE x \in Fresh : TRUE IN {[c |-> c, p |-> PutOnCons(pool, c)]}
  ELSE {}

BeginOwn(u) ==
  /\ DsOn /\ dsPc[u] = "away" /\ dsConn[u] = NoConn
  /\ \E h \in Handed :
       /\ dsConn' = [dsConn EXCEPT ![u] = h.c]
       /\ pool' = h.p /\ connected' = connected \cup {h.c}
  /\ DsGoto(u, "open")
  /\ UNCHANGED <<file, conMain, inMemory, fileWriter, dsName, dsQueries, cutShort, dsCrashed, faults, restarts>>

(* Loading and deleting name no connection: queries use the main one.      *)
BeginMain(u) ==
  /\ DsOn /\ dsPc[u] = "away"
  /\ DsGoto(u, "open")
  /\ UNCHANGED <<file, conMain, pool, connected, inMemory, fileWriter, dsConn, dsName, dsQueries,
                 cutShort, dsCrashed, faults, restarts>>

Release(u) ==
  /\ DsOn /\ dsPc[u] = "leave" /\ dsQueries[u] = {}
  /\ pool' = IF dsConn[u] = NoConn THEN pool ELSE GiveBack(pool, dsConn[u])
  /\ dsConn' = [dsConn EXCEPT ![u] = NoConn]
  /\ DsGoto(u, "away")
  /\ UNCHANGED <<file, conMain, connected, inMemory, fileWriter, dsName, dsQueries, cutShort,
                 dsCrashed, faults, restarts>>

-----------------------------------------------------------------------------
(* datastore_open: connect, read the list of datasets and the schema of    *)
(* each, or create the two tables they are kept in.                        *)
IdsOf(f, n) == {e.id : e \in {x \in f.listed : x.name = n}}
FieldsOf(f, n) == {s.field : s \in {x \in f.schema : x.id \in IdsOf(f, n)}}

Read(f) ==
  [n \in DataNames |-> IF IdsOf(f, n) = {} THEN NotKnownYet
                       ELSE [fields |-> FieldsOf(f, n), refs |-> 0, there |-> TRUE]]

(* Datasets listed without a schema, or with a part of it.                 *)
NoSchema == \E n \in DataNames : IdsOf(file, n) # {} /\ FieldsOf(file, n) = {}
Partial(n) == IdsOf(file, n) # {} /\ FieldsOf(file, n) # 1 .. Fields

OpenStore(k, f) ==
  /\ \/ /\ conMain' = "connected"
        /\ f = [file EXCEPT !.system = TRUE]
        /\ file.system \/ FileFree
        /\ k = Read(file)
        /\ UNCHANGED faults
     \/ /\ conMain' \in {"unconnected", "freed"}      \* connect failed, or what follows
        /\ f = file /\ k = [n \in DataNames |-> NotKnownYet]
        /\ Fails

-----------------------------------------------------------------------------
(* datastore_dataset_open.                                                 *)

(* datastore_dataset_create and the rows that describe the dataset: the    *)
(* file after the first i statements.                                      *)
Creation(f, n, i) ==
  LET id == 1 + Cardinality(f.listed)
  IN [f EXCEPT !.tables = @ \cup IF i >= 1 THEN {n} ELSE {},
               !.listed = @ \cup IF i >= 2 THEN {[id |-> id, name |-> n]} ELSE {},
               !.schema = @ \cup {[id |-> id, field |-> j] : j \in 1 .. i - 2}]
Statements == 2 + Fields

(* Over a connection of its own the creation is a transaction; over the    *)
(* caller's, every statement stands for itself.                            *)
Isolated(u) == dsConn[u] = NoConn

CreateAll(u, n, f) ==
  /\ n \notin f.tables
  /\ file' = Creation(f, n, Statements)
  /\ UNCHANGED cutShort

NoTransaction(u, n, f) ==
  /\ n \notin f.tables /\ UNCHANGED cutShort
  /\ \E i \in 0 .. Statements - 1 : file' = Creation(f, n, i)

CreatePart(u, n, f) ==
  \E i \in 0 .. Statements - 1 :
    /\ n \in f.tables => i = 0
    /\ file' = IF Isolated(u) THEN f ELSE Creation(f, n, i)
    /\ cutShort' = IF Isolated(u) \/ i = 0 THEN cutShort ELSE cutShort \cup {n}

(* The connection a creation uses for itself waits for the next user.      *)
Borrowed ==
  \E h \in Handed : pool' = GiveBack(h.p, h.c) /\ connected' = connected \cup {h.c}

Opened(u, n, k) == inMemory' = k /\ dsName' = [dsName EXCEPT ![u] = n] /\ DsGoto(u, "query")
Refused(u, k) == inMemory' = k /\ UNCHANGED dsName /\ DsGoto(u, "leave")
InFile(f) == file' = f /\ UNCHANGED <<cutShort, pool, connected>>

(* The dataset is known, with the fields the caller expects.              *)
OpenKnown(u, n, k, f) ==
  /\ k[n].there /\ k[n].fields = 1 .. Fields
  /\ Opened(u, n, k)
  /\ InFile(f)

OpenNew(u, n, k, f) ==
  /\ ~k[n].there /\ FileFree
  /\ IF Isolated(u) THEN Borrowed ELSE UNCHANGED <<pool, connected>>
  /\ CreateAll(u, n, f)
  /\ Opened(u, n, [k EXCEPT ![n] = [fields |-> 1 .. Fields, refs |-> 0, there |-> TRUE]])

OpenFailed(u, n, k, f) ==
  /\ ~k[n].there /\ FileFree
  /\ IF Isolated(u) THEN Borrowed ELSE UNCHANGED <<pool, connected>>
  /\ CreatePart(u, n, f)
  /\ Refused(u, k)

OpenDataset(u, n) ==
  /\ DsOn /\ dsPc[u] = "open" /\ n \notin dsQueries[u] /\ conMain = "connected"
  /\ \/ (OpenKnown(u, n, inMemory, file) \/ OpenNew(u, n, inMemory, file)) /\ UNCHANGED faults
     \/ OpenFailed(u, n, inMemory, file)
        /\ (IF n \in file.tables THEN UNCHANGED faults ELSE Fails)
  /\ UNCHANGED <<conMain, fileWriter, dsConn, dsQueries, dsCrashed, restarts>>

OpenStoreAndDataset(u, n) ==
  /\ DsOn /\ dsPc[u] = "open" /\ conMain = "null"
  /\ \E f \in {file, [file EXCEPT !.system = TRUE]}, k \in {Read(file), [m \in DataNames |-> NotKnownYet]} :
       /\ OpenStore(k, f)
       /\ IF conMain' = "connected"
          THEN ~NoSchema /\ \/ OpenKnown(u, n, k, f)
                            \/ OpenNew(u, n, k, f)
                            \/ n \in f.tables /\ OpenFailed(u, n, k, f)
          ELSE Refused(u, k) /\ InFile(f)
  /\ UNCHANGED <<fileWriter, dsConn, dsQueries, dsCrashed, restarts>>

(* A failed opening leaves con_main set: the next caller believes it.  And *)
(* a schema that is not complete is read past its end.                     *)
OpenBroken(u, n) ==
  /\ DsOn /\ dsPc[u] = "open"
  /\ \/ conMain \in {"unconnected", "freed"}
     \/ conMain = "null" /\ (NoSchema \/ Partial(n))
     \/ conMain = "connected" /\ inMemory[n].there /\ Partial(n)
  /\ dsCrashed' = TRUE
  /\ UNCHANGED <<file, conMain, pool, connected, inMemory, fileWriter, dsPc, dsConn, dsName,
                 dsQueries, cutShort, faults, restarts>>

(* datastore_dataset_query_alloc counts the query after the lock was given *)
(* up: the dataset may have been freed by a close.                         *)
AllocQuery(u) ==
  /\ DsOn /\ dsPc[u] \in {"query", "freed query"}
  /\ IF dsPc[u] = "query"
     THEN inMemory' = [inMemory EXCEPT ![dsName[u]].refs = @ + 1] /\ UNCHANGED dsCrashed
     ELSE dsCrashed' = TRUE /\ UNCHANGED inMemory
  /\ dsQueries' = [dsQueries EXCEPT ![u] = @ \cup {dsName[u]}]
  /\ dsName' = [dsName EXCEPT ![u] = "none"]
  /\ DsGoto(u, "open")
  /\ UNCHANGED <<file, conMain, pool, connected, fileWriter, dsConn, cutShort, faults, restarts>>

CleanupQuery(u, n) ==
  /\ DsOn /\ dsPc[u] \in {"open", "leave"} /\ n \in dsQueries[u]
  /\ inMemory' = [inMemory EXCEPT ![n].refs = @ - 1]
  /\ dsQueries' = [dsQueries EXCEPT ![u] = @ \ {n}]
  /\ DsGoto(u, "leave")
  /\ UNCHANGED <<file, conMain, pool, connected, fileWriter, dsConn, dsName, cutShort, dsCrashed, faults, restarts>>

-----------------------------------------------------------------------------
(* datastore_transaction_begin and the first write, then commit or         *)
(* rollback.                                                               *)
BeginWrites(u) ==
  /\ DsOn /\ dsPc[u] = "open" /\ dsConn[u] # NoConn /\ dsQueries[u] # {} /\ FileFree
  /\ fileWriter' = dsConn[u]
  /\ DsGoto(u, "write")
  /\ UNCHANGED <<file, conMain, pool, connected, inMemory, dsConn, dsName, dsQueries, cutShort, dsCrashed, faults, restarts>>

EndWrites(u) ==
  /\ DsOn /\ dsPc[u] = "write"
  /\ fileWriter' = NoConn
  /\ DsGoto(u, "leave")
  /\ UNCHANGED <<file, conMain, pool, connected, inMemory, dsConn, dsName, dsQueries, cutShort, dsCrashed, faults, restarts>>

(* datastore_close is refused while a connection or a dataset is used.     *)
NoneInUse == pool.cons = NoConn
QueriesIgnored == TRUE
NoQueries == \A n \in DataNames : inMemory[n].refs = 0

Close ==
  /\ connected' = connected \ Unused(pool)
  /\ pool' = [pool EXCEPT !.unused = NoConn]
  /\ inMemory' = [n \in DataNames |-> NotKnownYet]
  /\ conMain' = "null"

(* datastore_param_locked_while_connected.                                 *)
ChangeParam ==
  /\ DsOn /\ conMain = "connected" /\ NoneInUse /\ NoQueries
  /\ Close
  /\ dsPc' = [u \in DsUsers |-> IF dsPc[u] = "query" THEN "freed query" ELSE dsPc[u]]
  /\ UNCHANGED <<file, fileWriter, dsConn, dsName, dsQueries, cutShort, dsCrashed, faults, restarts>>

(* The process stops, in the middle of a creation perhaps, and starts anew *)
(* (system_datastore_open).                                                *)
Restart ==
  /\ restarts < MaxRestarts
  /\ restarts' = restarts + 1
  /\ \/ UNCHANGED <<file, cutShort>>
     \/ \E u \in DsUsers, n \in DataNames :
          /\ dsPc[u] = "open" /\ conMain = "connected" /\ ~inMemory[n].there /\ FileFree
          /\ CreatePart(u, n, file)
  /\ conMain' = "null" /\ pool' = EmptyPool /\ connected' = {}
  /\ inMemory' = [n \in DataNames |-> NotKnownYet] /\ fileWriter' = NoConn
  /\ dsPc' = [u \in DsUsers |-> "away"] /\ dsConn' = [u \in DsUsers |-> NoConn]
  /\ dsName' = [u \in DsUsers |-> "none"] /\ dsQueries' = [u \in DsUsers |-> {}]
  /\ dsCrashed' = FALSE
  /\ UNCHANGED faults

DsNext ==
  \/ \E u \in DsUsers :
       \/ BeginOwn(u) \/ BeginMain(u) \/ Release(u) \/ AllocQuery(u)
       \/ BeginWrites(u) \/ EndWrites(u)
       \/ \E n \in DataNames : 
            OpenDataset(u, n) \/ OpenStoreAndDataset(u, n) \/ OpenBroken(u, n) \/ CleanupQuery(u, n)
  \/ ChangeParam
  \/ Restart

DsSpec == DsInit /\ [][DsNext]_dsVars

-----------------------------------------------------------------------------
(* A dataset is in the file with its entry and its whole schema or not at  *)
(* all, and the datasets in memory are those of the file: whoever opens    *)
(* one, before or after a restart, finds what was created.  Datasets whose *)
(* creation over a user's connection did not end excepted.                 *)
DatasetsWhole ==
  \A n \in DataNames \ cutShort :
    /\ n \in file.tables <=> IdsOf(file, n) # {}
    /\ n \in file.tables => Cardinality(IdsOf(file, n)) = 1 /\ FieldsOf(file, n) = 1 .. Fields
    /\ conMain = "connected" /\ ~dsCrashed =>
         (inMemory[n].there <=> n \in file.tables) /\ (inMemory[n].there => inMemory[n].fields = 1 .. Fields)

(* A connection is used by one thread, or it waits, and stays connected;   *)
(* a query has its dataset and the main connection.                        *)
ConnsHaveOneUser ==
  dsCrashed \/
  /\ \A u, v \in DsUsers : u # v /\ dsConn[u] # NoConn => dsConn[u] # dsConn[v]
  /\ \A u \in DsUsers : dsConn[u] # NoConn => dsConn[u] \in connected \ Unused(pool)
  /\ Unused(pool) \subseteq connected
  /\ \A u \in DsUsers : \A n \in dsQueries[u] : inMemory[n].there /\ conMain = "connected"
=============================================================================
