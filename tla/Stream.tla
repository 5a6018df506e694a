------------------------------- MODULE Stream -------------------------------
(***************************************************************************)
(* Reassembly of the two directions of a connection (stream.c), one packet *)
(* at a time: everything here happens with stream->lock held.  A packet is *)
(* handed to the handler when its sequence number is the next one and the  *)
(* other direction has reached what it acknowledges; otherwise it is kept, *)
(* sorted, until that is so or until too much is kept.                     *)
(*                                                                         *)
(* Sequence numbers wrap (StreamSeq).  Every packet also carries the true  *)
(* offset of its first byte (from) and of what it acknowledges (back),     *)
(* which no definition of the code reads: the properties compare what the  *)
(* handler was given with the byte streams the hosts sent.                 *)
(***************************************************************************)
EXTENDS StreamSeq, FiniteSets

CONSTANTS
  StartSeq,    \* the sequence number of the first byte of each direction
  Total,       \* how much each host sends: its bytes, and 1 for its FIN
  SegmentSizes,
  Overlap,     \* whether a retransmission may be cut differently
  MaxBuff,     \* max_buff_size
  GapStep,     \* STREAM_GAP_STEP_MAX
  MaxPkts,
  BadSegs,     \* what the handler may fail on, by direction and offset
  NoPkt        \* the null pointer

Gap == -1      \* a zero byte that stands for a missing one

ASSUME StreamAssumption ==
  /\ \A d \in Dirs : StartSeq[d] \in 0 .. Modulus - 1 /\ Total[d] < Half
  /\ MaxBuff \in Nat \ {0} /\ GapStep \in Nat \ {0}

VARIABLES
  s,           \* struct stream, and what its handler was given (out)
  sent,        \* how much each host has sent
  flight,      \* packets sent and not yet captured
  last,        \* number of the last packet sent: its time stamp
  phase        \* send, capture, and closed after stream_cleanup

streamVars == <<s, sent, flight, last, phase>>

-----------------------------------------------------------------------------
(* What a packet does to the stream.                                       *)

KnowsStart(st, d) == IF st.bidir THEN st.known = Dirs ELSE d \in st.known

(* What the properties leave out: the stream met a case the code does not  *)
(* handle (a packet cut before it is kept, a FIN handled out of its place  *)
(* or dropped, a start overwritten, a head that blocks others, an error).  *)
Odd(st, how) == [st EXCEPT !.odd = @ \/ how]

(* The handler failed.                                                     *)
Fail(st) == [st EXCEPT !.odd = TRUE, !.err = TRUE]

(* A FIN that was not counted yet is dropped with the data it came with.   *)
LoseFin(st, p, d) == Odd(st, p.fin /\ st.cur[d] = EndSeq(p))

Advance(st, d, n) == [st EXCEPT !.cur[d] = Plus(@, n)]
Running(st) == [st EXCEPT !.running = TRUE]

DropHead(st, d) ==
  [st EXCEPT !.queue[d] = Tail(@), !.size = @ - Head(st.queue[d]).plen]

(* Old packets at the head of a queue are dropped.                         *)
RECURSIVE DropOld(_, _)
DropOld(st, d) ==
  IF /\ st.queue[d] # <<>>
     /\ IsNext(st, Head(st.queue[d]), d)
     /\ st.cur[d] # Head(st.queue[d]).seq
     /\ IsOldDupe(st, Head(st.queue[d]), d)
  THEN DropOld(LoseFin(DropHead(st, d), Head(st.queue[d]), d), d)
  ELSE st

Ready(st, d) == st.queue[d] # <<>> /\ IsNext(st, Head(st.queue[d]), d)

(* stream_get_next: first the direction it is called for, then the other.  *)
(* What is taken off the size is the length after trimming.                *)
Taken(st, p, d) ==
  [st |-> [st EXCEPT !.queue[d] = Tail(@), !.size = @ - p.plen], pkt |-> p, dir |-> d]
TakeHead(st, d) == Taken(st, RemoveDupeBytes(st, Head(st.queue[d]), d), d)

TakeReverse(st, r) ==
  IF Ready(st, r) THEN TakeHead(st, r) ELSE [st |-> st, pkt |-> NoPkt, dir |-> r]
TakeEither(st, d) ==
  IF Ready(st, d) THEN TakeHead(st, d)
  ELSE TakeReverse(DropOld(st, DirReverse(d)), DirReverse(d))
GetNext(st, d) ==
  IF KnowsStart(st, d) THEN TakeEither(DropOld(st, d), d)
  ELSE [st |-> st, pkt |-> NoPkt, dir |-> d]

-----------------------------------------------------------------------------
(* The handler (proto_tcp_process_payload): a FIN counts as one byte and   *)
(* may let packets of the queues through before the data it came with is   *)
(* handed on.  GiveOn is core_process_multi_packet.                        *)

GiveOn(st, p, d, bytes) ==
  [st EXCEPT !.out = @ \o [k \in 1 .. Len(bytes) |->
      [dir |-> d, byte |-> bytes[k], back |-> IF bytes[k] = Gap THEN 0 ELSE p.back,
       seen |-> DirReverse(d) \in st.seen]]]

Bytes(p) == [k \in 1 .. p.plen |-> p.from + k - 1]
Zeros(n) == [k \in 1 .. n |-> Gap]

RECURSIVE Additional(_, _)

GiveAfter(before, st, p, d, bytes) ==
  GiveOn([Odd(st, bytes # <<>> /\ st.out # before.out) EXCEPT !.err = FALSE], p, d, bytes)
CallHandler(st, p, d, bytes) ==
  IF p.fin THEN GiveAfter(st, Additional(Advance(st, p.dir, 1), p.dir), p, d, bytes)
  ELSE GiveOn(st, p, d, bytes)

(* Packets that can be processed now; the loop of stream_process_packet,   *)
(* stream_force_dequeue, stream_increase_seq and stream_set_start_seq.     *)
GoOn(after, p, d) ==
  IF p.bad THEN Fail(after) ELSE Additional(Advance(after, d, p.plen), d)
HandleNext(n) ==
  IF n.pkt = NoPkt THEN n.st
  ELSE GoOn(CallHandler(Running(n.st), n.pkt, n.dir, Bytes(n.pkt)), n.pkt, n.dir)
Additional(st, d) == HandleNext(GetNext(st, d))

(* stream_fill_gap: zeros in steps, unless the gap is too big.  An error   *)
(* of the handler only ends it.                                            *)
RECURSIVE FillGap(_, _, _, _)
FillGap(st, p, n, d) ==
  IF n > MaxBuff \/ n = 0 THEN st
  ELSE LET step == IF n < GapStep THEN n ELSE GapStep
       IN FillGap(Odd(CallHandler(st, p, d, Zeros(step)), p.fin \/ p.bad),
                  p, IF p.bad THEN 0 ELSE n - step, d)

-----------------------------------------------------------------------------
(* stream_force_dequeue                                                    *)

(* The direction whose head comes first: the one whose head the other's    *)
(* head acknowledges, else the older one.                                  *)
HeadFirst(st, d) ==
  LET end == EndSeq(Head(st.queue[d]))
      ack == Head(st.queue[DirReverse(d)]).ack
  IN \/ end <= ack /\ ack - end < Half
     \/ ack > end /\ Minus(end, ack) > Half

ForcedDir(st) ==
  CASE st.queue[0] = <<>> -> 1
    [] st.queue[0] # <<>> /\ st.queue[1] = <<>> -> 0
    [] OTHER -> IF HeadFirst(st, 0) THEN 0
                ELSE IF HeadFirst(st, 1) THEN 1
                ELSE IF Head(st.queue[0]).ts < Head(st.queue[1]).ts THEN 0 ELSE 1

NothingKept(st) == \A d \in Dirs : st.queue[d] = <<>>

(* The first sequence number seen starts the stream.                       *)
LearnStart(st, p, d) ==
  IF d \in st.known THEN st
  ELSE IF st.bidir
       THEN [Odd(st, st.known # {}) EXCEPT
               !.cur = [x \in Dirs |-> IF x = d THEN p.seq ELSE p.ack], !.known = Dirs]
       ELSE [st EXCEPT !.cur[d] = p.seq, !.known = @ \cup {d}]

(* What the other host had received by then and we have not.               *)
FillReverse(st, p, d) ==
  LET r == DirReverse(d)
  IN IF st.bidir /\ r \in st.seen /\ Before(st.cur[r], p.ack)
     THEN [FillGap(st, p, Minus(p.ack, st.cur[r]), r) EXCEPT !.cur[r] = p.ack]
     ELSE st

FillUpTo(st, p, d) ==
  [FillGap(st, p, Minus(p.seq, st.cur[d]), d) EXCEPT !.cur[d] = EndSeq(p)]

RECURSIVE ForceDequeue(_)

Finish(after, p, d) ==
  IF p.bad THEN Fail(after) ELSE Additional(Running(after), d)
HandleForced(st, p, d) == Finish(CallHandler(st, p, d, Bytes(p)), p, d)

ForcePacket(st, p, d) ==
  HandleForced(FillUpTo(FillReverse(LearnStart(Running(st), p, d), p, d), p, d), p, d)

ForceHead(st, head, d) ==
  IF IsOldDupe(st, head, d) THEN ForceDequeue(LoseFin(st, head, d))
  ELSE ForcePacket(st, RemoveDupeBytes(st, head, d), d)

ForceDir(st, d) == ForceHead(DropHead(st, d), Head(st.queue[d]), d)
ForceDequeue(st) == IF NothingKept(st) THEN st ELSE ForceDir(st, ForcedDir(st))

-----------------------------------------------------------------------------
(* stream_process_packet                                                   *)

(* What is kept has the sequence number of the packet, but the data and    *)
(* length of its stack, which stream_remove_dupe_bytes may have cut.       *)
Kept(p, cut) == [cut EXCEPT !.seq = p.seq]

(* A packet sent again, with a later acknowledgement, is put before what   *)
(* could be handled without that: the head of the queue blocks the rest.   *)
Blocks(p, q) ==
  \E i \in DOMAIN q : ~Before(q[i].seq, p.seq) /\ q[i].back < p.back

Relieve(st) ==
  IF st.size >= MaxBuff THEN ForceDequeue([st EXCEPT !.forced = TRUE]) ELSE st
Keep(st, p) ==
  Relieve([Odd(st, Blocks(p, st.queue[p.dir])) EXCEPT
             !.queue[p.dir] = SortedIn(@, p), !.size = @ + p.plen])

Accept(st, p, cut, d) ==
  IF ~IsNext(st, cut, d) THEN Keep(Odd(st, cut # p), Kept(p, cut))
  ELSE Finish(CallHandler(Advance(st, d, cut.plen), cut, d, Bytes(cut)), p, d)

Receive(st, p, d) ==
  IF ~KnowsStart(st, d) THEN Keep(st, p)
  ELSE IF st.cur[d] # p.seq /\ IsOldDupe(st, p, d) THEN LoseFin(st, p, d)
  ELSE Accept(st, p, RemoveDupeBytes(st, p, d), d)

ProcessPacket(st, p) ==
  Receive(IF st.bidir THEN [st EXCEPT !.seen = @ \cup {p.dir}] ELSE st, p, p.dir)

-----------------------------------------------------------------------------
(* The hosts and the capture.  A host acknowledges some of what the other  *)
(* has sent; packets are captured in any order, or not at all.  The hosts  *)
(* do not see the capture, so all sending may come first.                  *)

StreamInit ==
  /\ \E bidir \in BOOLEAN : s =
         [bidir |-> bidir, cur |-> [d \in Dirs |-> 0], running |-> FALSE, known |-> {},
          seen |-> {}, queue |-> [d \in Dirs |-> <<>>], size |-> 0, out |-> <<>>,
          odd |-> FALSE, forced |-> FALSE, err |-> FALSE]
  /\ sent = [d \in Dirs |-> 0]
  /\ flight = {}
  /\ last = 0
  /\ phase = "send"

Segment(d, from, n, fin, back, bad) ==
  [dir |-> d, seq |-> Plus(StartSeq[d], from), plen |-> n, fin |-> fin,
   ack |-> Plus(StartSeq[DirReverse(d)], back), from |-> from, back |-> back,
   ts |-> last + 1, bad |-> bad]

(* TCP uses streams in two directions, TFTP in one, without a FIN.         *)
End(d) == IF s.bidir THEN Total[d] ELSE Total[d] - 1

(* A host sends new data, its FIN, or something it has sent before.        *)
Send(d) ==
  /\ phase = "send"
  /\ last < MaxPkts
  /\ s.bidir \/ d = 0
  /\ \E n \in SegmentSizes \cup {0}, fin \in BOOLEAN, again \in BOOLEAN,
        back \in {0, sent[DirReverse(d)]}, from \in 0 .. sent[d] :
     \E bad \in {FALSE, <<d, from>> \in BadSegs} :
       LET size == n + (IF fin THEN 1 ELSE 0)
       IN /\ size > 0 /\ from + size <= End(d)
          /\ fin <=> s.bidir /\ from + size = Total[d]
          /\ Overlap \/ from % (CHOOSE m \in SegmentSizes : TRUE) = 0
          /\ again <=> from < sent[d]
          /\ again /\ ~Overlap => from + size <= sent[d]
          /\ flight' = flight \cup {Segment(d, from, n, fin, back, bad)}
          /\ sent' = [sent EXCEPT ![d] = IF @ < from + size THEN from + size ELSE @]
  /\ last' = last + 1
  /\ UNCHANGED <<s, phase>>

(* A packet reaches the stream (proto_tcp_process).                        *)
Capture(p) ==
  /\ phase # "closed"
  /\ phase' = "capture"
  /\ s' = [ProcessPacket(s, p) EXCEPT !.err = FALSE]
  /\ flight' = flight \ {p}
  /\ UNCHANGED <<sent, last>>

(* stream_set_start_seq, from a SYN or the ACK of one.                     *)
SetStartSeq(d) ==
  /\ phase # "closed"
  /\ phase' = "capture"
  /\ d \notin s.known /\ (s.bidir \/ d = 0)
  /\ ~s.running
  /\ s' = [Additional([s EXCEPT !.known = @ \cup {d}, !.cur[d] = StartSeq[d]], d)
             EXCEPT !.err = FALSE]
  /\ UNCHANGED <<sent, flight, last>>

(* stream_cleanup: the rest is forced out, up to the first error.          *)
RECURSIVE ForceAll(_)
ForceAll(st) ==
  IF NothingKept(st) \/ st.err THEN st ELSE ForceAll(ForceDequeue([st EXCEPT !.forced = TRUE]))

Cleanup ==
  /\ phase = "capture"
  /\ phase' = "closed"
  /\ s' = ForceAll(s)
  /\ UNCHANGED <<sent, flight, last>>

StreamNext ==
  \/ \E d \in Dirs : Send(d) \/ SetStartSeq(d)
  \/ \E p \in flight : Capture(p)
  \/ Cleanup

StreamSpec == StreamInit /\ [][StreamNext]_streamVars

-----------------------------------------------------------------------------
(* Properties                                                              *)

Used == {d \in Dirs : s.bidir \/ d = 0}

Given(d) == SelectSeq(s.out, LAMBDA b : b.dir = d)

(* Every byte that is handed on comes after those handed on before it, and *)
(* the zeros between two bytes are as many as the bytes that are missing,  *)
(* or none where more than MaxBuff are: nothing twice, nothing moved.      *)
InPlace(d) ==
    LET g == Given(d)
        data == {i \in DOMAIN g : g[i].byte # Gap}
    IN \A i, j \in data :
         i < j /\ (\A k \in data : k <= i \/ k >= j) =>
           LET missing == g[j].byte - g[i].byte - 1
           IN /\ missing >= 0
              /\ j - i - 1 = IF missing > MaxBuff THEN 0 ELSE missing


(* Nothing is handed on before what its sender had received when it sent   *)
(* it: after a byte no earlier byte of the other direction comes, once     *)
(* that direction was seen at all.                                         *)
RepliesAfterRequests ==
  ~s.odd => \A i, j \in DOMAIN s.out :
    /\ i < j
    /\ s.out[i].dir # s.out[j].dir
    /\ s.out[i].seen
    /\ s.out[j].byte # Gap
    => s.out[j].byte >= s.out[i].back

(* A connection of which every packet was captured, with known starts and  *)
(* no overflow, has been handed on completely: nothing stays in a queue.   *)
Lossless ==
  /\ ~s.odd /\ ~s.forced /\ flight = {}
  /\ \A d \in Used : d \in s.known /\ sent[d] = End(d)
  => \A d \in Used :
        [k \in DOMAIN Given(d) |-> Given(d)[k].byte] = [k \in 1 .. Total[d] - 1 |-> k - 1]
=============================================================================
