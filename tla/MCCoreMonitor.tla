--------------------------- MODULE MCCoreMonitor ---------------------------
(* Instances for TLC of two modules that have no state in common: Core and *)
(* Monitor, whose threads pause the processing of the core.  A behaviour   *)
(* is one of a single module; part tells which.                            *)
EXTENDS MCCore, Monitor

VARIABLE part

CONSTANTS m, p

CoreMonitorInit ==
  /\ part \in {"core", "monitor"}
  /\ Init /\ MonitorInit /\ (part # "monitor" => onEvents)

CoreMonitorNext ==
  /\ UNCHANGED part
  /\ \/ part = "core" /\ Next /\ UNCHANGED monitorVars
     \/ part = "monitor" /\ MonitorNext /\ UNCHANGED vars

CoreMonitorSpec == CoreMonitorInit /\ [][CoreMonitorNext]_<<vars, monitorVars, part>>
=============================================================================
