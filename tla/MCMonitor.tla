----------------------------- MODULE MCMonitor -----------------------------
(* An instance of Monitor for TLC in which every thread goes on.           *)
EXTENDS Monitor, TLC

CONSTANTS a, m, p

AllFair == MonitorSpec /\ MonitorFairness
=============================================================================
