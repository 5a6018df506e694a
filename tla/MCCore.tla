------------------------------- MODULE MCCore -------------------------------
(* Instances of Core for TLC: which flags each input queues its packets    *)
(* with.  input_pcap and input_kismet block without affinity, a live pcap  *)
(* interface drops, DVB and MPEG captures pin by PID.                      *)
EXTENDS Core, TLC

CONSTANTS a, b

Blocking == [aff |-> NoAffinity, drop |-> FALSE]
Dropping == [aff |-> NoAffinity, drop |-> TRUE]
Pinned   == [aff |-> 2, drop |-> FALSE]

OneBlocking == a :> {Blocking}
OneMixed == a :> {Blocking, Dropping, Pinned}
BlockingAndPinned == a :> {Blocking} @@ b :> {Pinned}
OneEither == a :> {Blocking, Pinned}
=============================================================================
