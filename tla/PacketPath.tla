----------------------------- MODULE PacketPath -----------------------------
(***************************************************************************)
(* What the core promises about packets, whatever its threads, locks and   *)
(* wake-ups do.  A packet that an input read is offered to the core; it is *)
(* put at the end of one line, refused or dropped.  Each line is served by *)
(* one thread, which takes the head, holds no other packet meanwhile, and  *)
(* is done with it before it takes the next: the packets of a line are     *)
(* processed in the order in which they were queued, one at a time, and    *)
(* each at most once.  What is still in a line at the end is discarded.    *)
(***************************************************************************)
EXTENDS Integers, Sequences

CONSTANTS
  Lines,     \* one per processing thread
  MaxPkts,   \* bound: packets ever read
  NoPkt      \* an empty hand

Packets == 1 .. MaxPkts

(* What the theorem about this module asks of the constants.              *)
PathAssumption == MaxPkts \in Nat /\ NoPkt \notin Packets

VARIABLES
  next,      \* the next packet to be read
  offered,   \* read, and not yet in a line
  line,      \* [Lines -> Seq(Packets)]
  hand,      \* [Lines -> Packets \cup {NoPkt}]: the packet being processed
  done,      \* processed
  dropped    \* given up because there was no room

pathVars == <<next, offered, line, hand, done, dropped>>

Init ==
  /\ next = 1
  /\ offered = {}
  /\ line = [l \in Lines |-> <<>>]
  /\ hand = [l \in Lines |-> NoPkt]
  /\ done = {}
  /\ dropped = {}

Read ==
  /\ next \in Packets
  /\ next' = next + 1
  /\ offered' = offered \cup {next}
  /\ UNCHANGED <<line, hand, done, dropped>>

Put(p, l) ==
  /\ offered' = offered \ {p}
  /\ line' = [line EXCEPT ![l] = Append(@, p)]
  /\ UNCHANGED <<next, hand, done, dropped>>

Refuse(p) ==
  /\ offered' = offered \ {p}
  /\ UNCHANGED <<next, line, hand, done, dropped>>

Drop(p) ==
  /\ offered' = offered \ {p}
  /\ dropped' = dropped \cup {p}
  /\ UNCHANGED <<next, line, hand, done>>

Take(l) ==
  /\ line[l] # <<>>
  /\ hand[l] = NoPkt
  /\ hand' = [hand EXCEPT ![l] = Head(line[l])]
  /\ line' = [line EXCEPT ![l] = Tail(@)]
  /\ UNCHANGED <<next, offered, done, dropped>>

Finish(l) ==
  /\ hand[l] # NoPkt
  /\ done' = done \cup {hand[l]}
  /\ hand' = [hand EXCEPT ![l] = NoPkt]
  /\ UNCHANGED <<next, offered, line, dropped>>

Discard(l) ==
  /\ line' = [line EXCEPT ![l] = <<>>]
  /\ UNCHANGED <<next, offered, hand, done, dropped>>

Next ==
  \/ Read
  \/ \E p \in offered : Refuse(p) \/ Drop(p) \/ \E l \in Lines : Put(p, l)
  \/ \E l \in Lines : Take(l) \/ Finish(l) \/ Discard(l)

Spec == Init /\ [][Next]_pathVars

-----------------------------------------------------------------------------
TypeOK ==
  /\ next \in 1 .. MaxPkts + 1
  /\ offered \in SUBSET Packets
  /\ line \in [Lines -> Seq(Packets)]
  /\ hand \in [Lines -> Packets \cup {NoPkt}]
  /\ done \in SUBSET Packets
  /\ dropped \in SUBSET Packets

(* The packets of line l, and those that have left the path or are not yet *)
(* in a line.                                                              *)
InLine(l) == {line[l][k] : k \in DOMAIN line[l]}
Outside == offered \cup done \cup dropped

(* A packet has one owner at a time: it is never offered and queued, in    *)
(* two lines, queued and in a thread's hand, or touched again once it was  *)
(* released (core_queue_packet and core_processing_thread_func pass it on  *)
(* by storing one pointer).                                                *)
OneOwner ==
  /\ offered \cap done = {} /\ offered \cap dropped = {} /\ done \cap dropped = {}
  /\ \A l \in Lines :
       /\ InLine(l) \cap Outside = {}
       /\ hand[l] \notin Outside
       /\ \A j, k \in DOMAIN line[l] : line[l][j] = line[l][k] => j = k
       /\ \A m \in Lines : /\ hand[l] \notin InLine(m)
                           /\ l # m => InLine(l) \cap InLine(m) = {}
                           /\ l # m /\ hand[l] # NoPkt => hand[l] # hand[m]

=============================================================================
