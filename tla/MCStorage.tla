------------------------------ MODULE MCStorage ------------------------------
(* Instances of Datastore, Postgres and DatasetQuery.                      *)
EXTENDS Datastore, Postgres, DatasetQuery

\* A value in each half of a number's range, texts with and without a quote,
\* times that differ in the hour and in the microseconds.
QueryValues ==
  [uint8 |-> {3, 4}, uint64 |-> {3, 4},
   string |-> {[s |-> "a", quote |-> FALSE], [s |-> "b", quote |-> TRUE]},
   timestamp |-> {[hour |-> 0, usec |-> 0], [hour |-> 1, usec |-> 5]}]

StorageVars == <<dsVars, pgVars, queryVars>>
=============================================================================
