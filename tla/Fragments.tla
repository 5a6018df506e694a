----------------------------- MODULE Fragments -----------------------------
(***************************************************************************)
(* Fragments of one IP datagram (proto_ipv4.c) gathered in a multipart     *)
(* packet (packet.c) by several processing threads, and the reference      *)
(* counts of the packets they are in.                                      *)
(*                                                                         *)
(* Adding a fragment happens under the lock of the conntrack entry and is  *)
(* one step.  packet_release is two: it looks at the count, then           *)
(* decrements it or frees the packet.                                      *)
(***************************************************************************)
EXTENDS Integers, Sequences, FiniteSets, SequencesExt, FiniteSetsExt

CONSTANTS
  FThreads,
  Cuts,           \* the fragments that are sent: offset and length, in units
  DatagramLen,          \* the length of the datagram
  MaxFragments,   \* bound: fragments received, retransmissions included
  MaxTimeouts     \* bound: times the fragments are given up

ASSUME FragmentsAssumption ==
  /\ IsFiniteSet(FThreads)
  /\ DatagramLen \in Nat \ {0} /\ MaxFragments \in Nat /\ MaxTimeouts \in Nat
  /\ Cuts \subseteq [off : 0 .. DatagramLen - 1, len : 1 .. DatagramLen] /\ Cuts # {}
  /\ \A c \in Cuts : c.off + c.len <= DatagramLen

Packets == 1 .. 2 * MaxFragments
NoPacket == 0

VARIABLES
  received,     \* number of fragments received
  timeouts,
  refcount,     \* of each packet
  freedPkts,    \* packets that were freed
  lastPkt,      \* the packet allocated last
  fragState,    \* the buffer of the datagram: "none", "open" or "processed"
  multipart,    \* its parts, in order, with the counts gaps and cur
  gotLast,      \* PROTO_IPV4_FLAG_GOT_LAST
  fPc,          \* where each thread is
  own, cut,     \* its packet, and the fragment in it
  toRelease,    \* packets it still has to release, and
  handed        \* the multipart of the datagram it processes

fVars == <<received, timeouts, refcount, freedPkts, lastPkt, fragState, multipart,
           gotLast, fPc, own, cut, toRelease, handed>>

NoParts == [parts |-> <<>>, gaps |-> 0, cur |-> 0]

FragmentsInit ==
  /\ received = 0 /\ timeouts = 0 /\ lastPkt = NoPacket /\ freedPkts = {}
  /\ refcount = [p \in Packets |-> 0]
  /\ fragState = "none" /\ multipart = NoParts /\ gotLast = FALSE
  /\ fPc = [t \in FThreads |-> "idle"]
  /\ own = [t \in FThreads |-> NoPacket]
  /\ cut = [t \in FThreads |-> CHOOSE c \in Cuts : TRUE]
  /\ toRelease = [t \in FThreads |-> <<>>]
  /\ handed = [t \in FThreads |-> NoParts]

-----------------------------------------------------------------------------
PartEnd(part) == part.off + part.len

(* packet_multipart_add_packet looks from the tail for a part that ends    *)
(* before c begins: its place, 0 when there is none.                       *)
Place(list, c) ==
  LET ended == {i \in DOMAIN list : PartEnd(list[i]) <= c.off}
  IN IF ended = {} THEN 0 ELSE Max(ended)

(* On its way it meets a part that begins where c does.                    *)
IsDouble(list, c) == \E i \in Place(list, c) + 1 .. Len(list) : list[i].off = c.off

(* What c, put after place i, does to the number of gaps.                  *)
GapBetween(prev, next, c) ==
  IF next.off = PartEnd(c) /\ PartEnd(prev) = c.off THEN -1
  ELSE IF next.off > PartEnd(c) /\ PartEnd(prev) < c.off THEN 1 ELSE 0

GapAtTail(tail, c) == IF PartEnd(tail) < c.off THEN 1 ELSE 0

NoGapAtHead(list, c) ==
  IF list # <<>> /\ c.off + c.len = list[1].off THEN -1 ELSE 0
GapAtHead(list, c) ==
  IF c.off # 0 THEN 1
  ELSE IF list # <<>> /\ c.len = list[1].off THEN -1 ELSE 0

GapChange(list, i, c) ==
  IF i = 0 THEN GapAtHead(list, c)
  ELSE IF i = Len(list) THEN GapAtTail(list[i], c)
  ELSE GapBetween(list[i], list[i + 1], c)

Added(m, c, p) ==
  LET i == Place(m.parts, c)
  IN [parts |-> InsertAt(m.parts, i + 1, [off |-> c.off, len |-> c.len, pkt |-> p]),
      gaps |-> m.gaps + GapChange(m.parts, i, c),
      cur |-> m.cur + c.len]

-----------------------------------------------------------------------------
(* packet_alloc.                                                           *)
Alloc(p) ==
  /\ lastPkt' = p
  /\ refcount' = [refcount EXCEPT ![p] = 1]

(* A thread takes a packet of its queue that holds a fragment.             *)
Receive(t, c) ==
  /\ fPc[t] = "idle" /\ received < MaxFragments
  /\ received' = received + 1
  /\ Alloc(lastPkt + 1)
  /\ own' = [own EXCEPT ![t] = lastPkt + 1]
  /\ cut' = [cut EXCEPT ![t] = c]
  /\ fPc' = [fPc EXCEPT ![t] = "fragment"]
  /\ UNCHANGED <<timeouts, freedPkts, fragState, multipart, gotLast, toRelease, handed>>

(* packet_clone: one reference more, or a copy when the buffer belongs to  *)
(* the input.                                                              *)
CloneUncounted(p) == UNCHANGED <<lastPkt, refcount>>
CloneShared(p) ==
  /\ refcount' = [refcount EXCEPT ![p] = @ + 1]
  /\ UNCHANGED lastPkt

Clones(t) == {own[t], lastPkt + 1}
Clone(t, p) == IF p = own[t] THEN CloneShared(p) ELSE Alloc(p)

(* The lock is released; the datagram is handed over if nothing misses.    *)
Gathered(t, m) ==
  LET last == gotLast \/ PartEnd(cut[t]) = DatagramLen
      complete == last /\ m.gaps = 0
  IN /\ gotLast' = last
     /\ fragState' = IF complete THEN "processed" ELSE "open"
     /\ multipart' = IF complete THEN NoParts ELSE m
     /\ handed' = [handed EXCEPT ![t] = IF complete THEN m ELSE NoParts]
     /\ fPc' = [fPc EXCEPT ![t] = IF complete THEN "datagram" ELSE "release"]
     /\ toRelease' = [toRelease EXCEPT ![t] =
          (IF complete THEN [i \in DOMAIN m.parts |-> m.parts[i].pkt] ELSE <<>>)
             \o <<own[t]>>]
     /\ UNCHANGED <<received, timeouts, freedPkts, own, cut>>

(* proto_ipv4_process: the fragment is added to those that are there.      *)
AddFragment(t) ==
  /\ fPc[t] = "fragment" /\ fragState # "processed"
  /\ ~IsDouble(multipart.parts, cut[t])
  /\ \E p \in Clones(t) : Clone(t, p) /\ Gathered(t, Added(multipart, cut[t], p))

SkipDouble(t) ==
  /\ fPc[t] = "fragment" /\ fragState # "processed"
  /\ IsDouble(multipart.parts, cut[t])
  /\ Gathered(t, multipart)
  /\ UNCHANGED <<refcount, lastPkt>>

(* The datagram was handed over before: the fragment is dropped.           *)
DropLate(t) ==
  /\ fPc[t] = "fragment" /\ fragState = "processed"
  /\ toRelease' = [toRelease EXCEPT ![t] = <<own[t]>>]
  /\ fPc' = [fPc EXCEPT ![t] = "release"]
  /\ UNCHANGED <<received, timeouts, refcount, freedPkts, lastPkt, fragState, multipart,
                 gotLast, own, cut, handed>>

(* packet_multipart_process: the parts are copied into one packet, that is *)
(* processed, and released with the parts.                                 *)
Datagram(t) ==
  /\ fPc[t] = "datagram"
  /\ handed' = [handed EXCEPT ![t] = NoParts]
  /\ fPc' = [fPc EXCEPT ![t] = "release"]
  /\ UNCHANGED <<received, timeouts, refcount, freedPkts, lastPkt, fragState, multipart,
                 gotLast, own, cut, toRelease>>

(* proto_ipv4_fragment_cleanup, by a thread that runs the timers.          *)
TimeOut(t) ==
  /\ fPc[t] = "idle" /\ fragState # "none" /\ timeouts < MaxTimeouts
  /\ timeouts' = timeouts + 1
  /\ fragState' = "none" /\ multipart' = NoParts /\ gotLast' = FALSE
  /\ toRelease' = [toRelease EXCEPT ![t] =
       [i \in DOMAIN multipart.parts |-> multipart.parts[i].pkt]]
  /\ fPc' = [fPc EXCEPT ![t] = "release"]
  /\ UNCHANGED <<received, refcount, freedPkts, lastPkt, own, cut, handed>>

-----------------------------------------------------------------------------
(* packet_release: the count is above 1 and will be decremented, or the    *)
(* packet is freed.                                                        *)
Others(p) == refcount[p] > 1

ReleaseOne(t, l) ==
  /\ fPc' = [fPc EXCEPT ![t] = l]
  /\ UNCHANGED <<received, timeouts, lastPkt, fragState, multipart, gotLast, own, cut,
                 handed>>

See(t) ==
  /\ fPc[t] = "release" /\ toRelease[t] # <<>>
  /\ Others(Head(toRelease[t]))
  /\ ReleaseOne(t, "decrement")
  /\ UNCHANGED <<refcount, freedPkts, toRelease>>

Decrement(t) ==
  /\ fPc[t] = "decrement"
  /\ refcount' = [refcount EXCEPT ![Head(toRelease[t])] = @ - 1]
  /\ toRelease' = [toRelease EXCEPT ![t] = Tail(@)]
  /\ ReleaseOne(t, "release")
  /\ UNCHANGED freedPkts

Free(t) ==
  /\ fPc[t] = "release" /\ toRelease[t] # <<>>
  /\ ~Others(Head(toRelease[t]))
  /\ freedPkts' = freedPkts \cup {Head(toRelease[t])}
  /\ toRelease' = [toRelease EXCEPT ![t] = Tail(@)]
  /\ ReleaseOne(t, "release")
  /\ UNCHANGED refcount

Released(t) ==
  /\ fPc[t] = "release" /\ toRelease[t] = <<>>
  /\ ReleaseOne(t, "idle")
  /\ UNCHANGED <<refcount, freedPkts, toRelease>>

FragmentsNext ==
  \E t \in FThreads :
    \/ \E c \in Cuts : Receive(t, c)
    \/ AddFragment(t) \/ SkipDouble(t) \/ DropLate(t) \/ Datagram(t) \/ TimeOut(t)
    \/ See(t) \/ Decrement(t) \/ Free(t) \/ Released(t)

FragmentsSpec == FragmentsInit /\ [][FragmentsNext]_fVars

-----------------------------------------------------------------------------
(* A packet that was freed is in no multipart, and no thread is working on *)
(* it or has to release it still.                                          *)
FreedPacketUnused ==
  \A p \in freedPkts :
    /\ \A i \in DOMAIN multipart.parts : multipart.parts[i].pkt # p
    /\ \A t \in FThreads :
         /\ fPc[t] = "fragment" => own[t] # p
         /\ p \notin Range(toRelease[t])

(* A datagram that is handed over has every byte, once, and the length of  *)
(* the datagram, whatever the order, the doubles and the timeouts, if its  *)
(* fragments were all cut in the same places.                              *)
NoHole ==
  \A t \in FThreads : fPc[t] = "datagram" =>
    /\ handed[t].cur = DatagramLen
    /\ \A byte \in 0 .. DatagramLen - 1 :
         \E i \in DOMAIN handed[t].parts :
           /\ handed[t].parts[i].off <= byte
           /\ byte < PartEnd(handed[t].parts[i])
=============================================================================
