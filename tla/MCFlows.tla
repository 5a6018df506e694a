------------------------------ MODULE MCFlows ------------------------------
(* Instances for TLC of five modules that have no state in common: Stream, *)
(* Tcp, Dns, Event and PloadStore.  A behaviour is one of a single module; *)
(* part tells which, and the others stay in an initial state.              *)
EXTENDS Stream, Tcp, Dns, Event, PloadStore, TLC

VARIABLE part

CONSTANTS t1, t2, n1, n2, n3, n4, e1, e2, k, l, m, u, v, w, r1, r2

(* A connection whose sequence numbers wrap: 6 and 2 numbers of 14 a side, *)
(* the second of a side that the handler may fail on.  Between two bytes   *)
(* that are handed on one, two or, more than MaxBuff, three may be missing.*)
Starts == 0 :> 12 @@ 1 :> 13
Totals == 0 :> 6 @@ 1 :> 2
Sizes == {1, 4}
Seconds == {<<1, 1>>}

(* The properties of Stream say nothing once a case is odd.                *)
NotOdd == ~s.odd

(* The server speaks first.  The client's ACK, its FIN and its RST all     *)
(* have the number that follows its SYN.                                   *)
P(i, dir, kind, plen, seq, ack) ==
  [id |-> i, dir |-> dir, kind |-> kind, acks |-> kind # "syn", plen |-> plen,
   seq |-> seq, ack |-> ack]
ServerFirst ==
  {P(1, 0, "syn", FALSE, 0, 0), P(2, 1, "synack", FALSE, 0, 1),
   P(3, 0, "plain", FALSE, 1, 1), P(4, 1, "plain", TRUE, 1, 1), P(5, 0, "plain", FALSE, 1, 2),
   P(6, 0, "fin", FALSE, 1, 2), P(7, 1, "fin", FALSE, 2, 2),
   P(8, 0, "rst", FALSE, 1, 2), [P(9, 1, "rst", FALSE, 2, 1) EXCEPT !.acks = FALSE]}

TheAnswers == {<<n1, n2>>, <<n2, n3>>, <<n1, n4>>, <<n4, n1>>}
TheQueues == 1 :> 1 @@ 2 :> 1 @@ 4 :> 2

FlowsInit ==
  /\ part \in {"stream", "tcp", "dns", "event", "pload"}
  /\ StreamInit /\ (part # "stream" => s.bidir)
  /\ TcpInit /\ (part # "tcp" => follow)
  /\ DnsInit /\ EventInit /\ PloadInit

FlowsNext ==
  /\ UNCHANGED part
  /\ \/ /\ part = "stream" /\ StreamNext
        /\ UNCHANGED <<tcpVars, dnsVars, eventVars, ploadVars>>
     \/ /\ part = "tcp" /\ TcpNext
        /\ UNCHANGED <<streamVars, dnsVars, eventVars, ploadVars>>
     \/ /\ part = "dns" /\ DnsNext
        /\ UNCHANGED <<streamVars, tcpVars, eventVars, ploadVars>>
     \/ /\ part = "event" /\ EventNext
        /\ UNCHANGED <<streamVars, tcpVars, dnsVars, ploadVars>>
     \/ /\ part = "pload" /\ PloadNext
        /\ UNCHANGED <<streamVars, tcpVars, dnsVars, eventVars>>

FlowsSpec ==
  FlowsInit /\ [][FlowsNext]_<<streamVars, tcpVars, dnsVars, eventVars, ploadVars, part>>
=============================================================================
