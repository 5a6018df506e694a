---------------------------- MODULE MCConntrack ----------------------------
(* Instances of Conntrack for TLC.                                         *)
EXTENDS Conntrack, TLC

CONSTANTS e1, e2, e3, e4, t1, t2, t3, ip, udp, tcp, http, sip

Transfers == {<<ip, udp>>, <<ip, tcp, http>>}
Dialogs == {<<udp, sip>>}
Interchangeable == Permutations(Entries) \cup Permutations(Threads)
=============================================================================
