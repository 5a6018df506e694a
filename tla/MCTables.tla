------------------------------ MODULE MCTables ------------------------------
(* Instances for TLC of three modules that have no state in common:        *)
(* Timers, Fragments and Registry.  A behaviour is one of a single module; *)
(* part tells which, and the others stay in their initial state.           *)
EXTENDS Timers, Fragments, Registry, TLC

VARIABLE part

CONSTANTS t1, t2, u, v, x, y, c

(* A datagram of four units in three fragments.                            *)
CutSet == {[off |-> 0, len |-> 1], [off |-> 1, len |-> 2], [off |-> 3, len |-> 1]}

TablesInit ==
  /\ part \in {"timers", "fragments", "registry"}
  /\ TimersInit /\ FragmentsInit /\ RegistryInit

TablesNext ==
  /\ UNCHANGED part
  /\ \/ part = "timers" /\ TimersNext /\ UNCHANGED <<fVars, regVars>>
     \/ part = "fragments" /\ FragmentsNext /\ UNCHANGED <<timerVars, regVars>>
     \/ part = "registry" /\ RegistryNext /\ UNCHANGED <<timerVars, fVars>>

TablesSpec == TablesInit /\ [][TablesNext]_<<timerVars, fVars, regVars, part>>
=============================================================================
