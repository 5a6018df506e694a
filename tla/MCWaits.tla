------------------------------- MODULE MCWaits -------------------------------
(* Instances for TLC of four modules in which threads wait for each other, *)
(* and that have no state in common: StreamTurn, Expectation, Input and    *)
(* PloadStore.  A behaviour is one of a single module; part tells which,   *)
(* and the others stay in an initial state, where none of their fair steps *)
(* is enabled.                                                             *)
EXTENDS StreamTurn, Expectation, Input, PloadStore, TLC

VARIABLE part

CONSTANTS a, b, c, p, v, x, y, t1, t2, t3, w1

(* Two expectations: a asks for both, and packets of a and b match them.   *)
TheMatches == {<<a, x>>, <<b, x>>, <<b, y>>}
TheAsks == {<<a, x>>, <<a, y>>}

inputVars == vars
allVars == <<turnVars, xVars, inputVars, ploadVars, part>>

WaitsInit ==
  /\ part \in {"turn", "expectation", "input", "pload"}
  /\ TurnInit /\ ExpectationInit /\ Init /\ PloadInit

WaitsNext ==
  /\ UNCHANGED part
  /\ \/ part = "turn" /\ TurnNext /\ UNCHANGED <<xVars, inputVars, ploadVars>>
     \/ part = "expectation" /\ ExpectationNext /\ UNCHANGED <<turnVars, inputVars, ploadVars>>
     \/ part = "input" /\ Next /\ UNCHANGED <<turnVars, xVars, ploadVars>>
     \/ part = "pload" /\ PloadNext /\ UNCHANGED <<turnVars, xVars, inputVars>>

WaitsSpec ==
  /\ WaitsInit /\ [][WaitsNext]_allVars
  /\ TurnFairness /\ ExpectationFairness /\ Fairness /\ PloadFairness
=============================================================================
