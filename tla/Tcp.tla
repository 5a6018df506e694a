-------------------------------- MODULE Tcp --------------------------------
(***************************************************************************)
(* What proto_tcp keeps of a connection (proto_tcp.c): its state, the      *)
(* sequence numbers both sides start from, the stream that reassembles it, *)
(* and the timer that ends it.  Processing threads handle its packets at   *)
(* the same time, in any order; some were not captured.                    *)
(*                                                                         *)
(* What is done with the conntrack entry locked is one step, and what is   *)
(* done for one packet with the stream locked another.  The stream itself  *)
(* is left open here (Stream has it): it keeps packets and hands on any of *)
(* those it keeps.                                                         *)
(***************************************************************************)
EXTENDS Integers, Sequences, FiniteSets

CONSTANTS
  TcpThreads,
  NoTcpThread,
  Captured,     \* the packets that may reach proto_tcp, each of them once
  MaxSeen,      \* bound: how many of them do
  MaxExpiries   \* bound: how often the connection is timed out

TcpDirs == {0, 1}
Opposite(d) == 1 - d

(* kind: what SYN, FIN and RST make of a packet, "plain" has none; acks:    *)
(* whether it has the ACK flag; plen: whether it has data.                 *)
ASSUME TcpAssumption ==
  /\ NoTcpThread \notin TcpThreads
  /\ MaxSeen \in Nat /\ MaxExpiries \in Nat
  /\ Captured \subseteq
       [id : Nat, dir : TcpDirs, kind : {"syn", "synack", "fin", "rst", "plain"},
        acks : BOOLEAN, plen : BOOLEAN, seq : Nat, ack : Nat]
  /\ \A p \in Captured : /\ p.kind \in {"syn", "synack", "rst"} => ~p.plen
                         /\ p.kind \in {"syn", "synack"} => p.acks = (p.kind = "synack")

VARIABLES
  follow,       \* priv->proto: whether the payload is of interest
  toCome,       \* packets not seen yet
  conn,         \* struct proto_tcp_conntrack_priv
  connTimer,    \* the delay the conntrack entry was queued with
  stream,       \* priv->stream
  streamLock,   \* who holds stream->lock
  tcpPc,
  job,          \* of each thread: its packet and the starts it has to pass on
  expiries

tcpVars == <<follow, toCome, conn, connTimer, stream, streamLock, tcpPc, job, expiries>>

NewConn == [state |-> "new", fins |-> {}, known |-> {}, assured |-> FALSE,
            client |-> {}, start |-> [d \in TcpDirs |-> 0]]
NoStream == [there |-> FALSE, running |-> FALSE, got |-> {}, kept |-> {}, timeout |-> "none"]
NoJob == [pkt |-> {}, action |-> {}, start |-> [d \in TcpDirs |-> 0]]

TcpInit ==
  /\ follow \in BOOLEAN
  /\ toCome = Captured
  /\ conn = NewConn /\ connTimer = "none" /\ stream = NoStream
  /\ streamLock = NoTcpThread
  /\ tcpPc = [t \in TcpThreads |-> "away"]
  /\ job = [t \in TcpThreads |-> NoJob]
  /\ expiries = 0

Leaves(t, l) == tcpPc' = [tcpPc EXCEPT ![t] = l]

-----------------------------------------------------------------------------
(* proto_tcp_update_state: the new state, whose name is also its delay.    *)
Early == {"new", "syn_sent", "syn_recv"}

StateOnFin(c, p) == IF c.fins \cup {p.dir} = TcpDirs THEN "closed" ELSE "half_closed"

StateAfterPkt(c, p) ==
  CASE p.kind = "syn" -> IF c.state = "new" THEN "syn_sent" ELSE c.state
    [] p.kind = "synack" -> IF c.state \in {"new", "syn_sent"} THEN "syn_recv" ELSE c.state
    [] p.kind = "fin" -> StateOnFin(c, p)
    [] p.kind = "rst" -> "closed"
    [] p.kind = "plain" -> IF c.state \in Early THEN "established" ELSE c.state

Updated(c, p) ==
  [c EXCEPT !.state = StateAfterPkt(c, p),
            !.fins = IF p.kind = "fin" THEN @ \cup {p.dir} ELSE @]

-----------------------------------------------------------------------------
(* The starts a packet tells: with SYN the one of its own side, with       *)
(* SYN+ACK that of the other too, unless another one is known already.     *)
Tells(c, p, d, seq) == p.kind \in {"syn", "synack"} /\ (d \in c.known => c.start[d] = seq)

FirstByte(p, d) == IF d = p.dir THEN p.seq + 1 ELSE p.ack

ToldBy(c, p) ==
  {d \in TcpDirs : /\ d = p.dir \/ p.kind = "synack"
                   /\ Tells(c, p, d, FirstByte(p, d))}

(* An ACK of the client, with FIN or RST or without, that has no data and  *)
(* the number that follows its SYN.                                        *)
Assures(c, p) ==
  /\ p.kind \notin {"syn", "synack"} /\ p.acks /\ ~p.plen /\ ~c.assured
  /\ p.dir \in c.known /\ c.start[p.dir] = p.seq /\ p.dir \in c.client

ClientOf(p) ==
  CASE p.kind = "syn" -> {p.dir} [] p.kind = "synack" -> {Opposite(p.dir)} [] OTHER -> {}

Learned(c, p) ==
  LET told == ToldBy(c, p)
  IN IF Assures(c, p)
     THEN [c EXCEPT !.start[Opposite(p.dir)] = p.ack, !.assured = TRUE,
                    !.known = @ \cup {Opposite(p.dir)}]
     ELSE [c EXCEPT !.start = [d \in TcpDirs |-> IF d \in told THEN FirstByte(p, d) ELSE @[d]],
                    !.known = @ \cup told, !.client = @ \cup ClientOf(p)]

Action(c, p) == IF Assures(c, p) THEN {Opposite(p.dir)} ELSE ToldBy(c, p)

HasPayload(p) == p.plen \/ p.kind = "fin"

(* A new stream is told every start that is known.                         *)
OnlyTold(c, p) == Action(c, p)
ToTell(c, p) == IF ~stream.there THEN Learned(c, p).known ELSE Action(c, p)

(* proto_tcp_process, with the entry locked.                               *)
Unfollowed(t, p) ==
  /\ ~follow
  /\ conn' = Updated(conn, p)
  /\ connTimer' = StateAfterPkt(conn, p)
  /\ UNCHANGED <<stream, tcpPc, job>>

WithoutStream(t, p) ==
  /\ follow /\ ~stream.there /\ ~HasPayload(p)
  /\ conn' = Updated(Learned(conn, p), p)
  /\ connTimer' = StateAfterPkt(conn, p)
  /\ UNCHANGED <<stream, tcpPc, job>>

WithStream(t, p) ==
  /\ follow
  /\ stream.there \/ HasPayload(p)
  /\ conn' = Learned(conn, p)
  /\ stream' = IF stream.there THEN stream
               ELSE [stream EXCEPT !.there = TRUE, !.timeout = "stream"]
  /\ job' = [job EXCEPT ![t] = [pkt |-> {p}, action |-> ToTell(conn, p),
                                start |-> Learned(conn, p).start]]
  /\ Leaves(t, "telling")
  /\ UNCHANGED connTimer

TcpProcess(t, p) ==
  /\ tcpPc[t] = "away"
  /\ Cardinality(Captured \ toCome) < MaxSeen
  /\ toCome' = toCome \ {p}
  /\ Unfollowed(t, p) \/ WithoutStream(t, p) \/ WithStream(t, p)
  /\ UNCHANGED <<follow, streamLock, expiries>>

-----------------------------------------------------------------------------
(* stream_set_start_seq, for the forward direction first.  A stream that   *)
(* runs takes no start any more.                                           *)
NextStart(t) == IF 0 \in job[t].action THEN 0 ELSE 1

SetStart(t) ==
  /\ tcpPc[t] = "telling" /\ job[t].action # {} /\ streamLock = NoTcpThread
  /\ streamLock' = t
  /\ stream' = IF stream.running THEN stream ELSE [stream EXCEPT !.got = @ \cup {NextStart(t)}]
  /\ job' = [job EXCEPT ![t].action = @ \ {NextStart(t)}]
  /\ Leaves(t, IF stream.running THEN "ending" ELSE "handing")
  /\ UNCHANGED <<follow, toCome, conn, connTimer, expiries>>

(* stream_process_packet: the packet is kept, or dropped as an old one.    *)
Offer(t, p) ==
  /\ tcpPc[t] = "telling" /\ job[t].action = {} /\ streamLock = NoTcpThread
  /\ p \in job[t].pkt /\ HasPayload(p)
  /\ streamLock' = t
  /\ \E kept \in {{}, {p}} : stream' = [stream EXCEPT !.kept = @ \cup kept]
  /\ job' = [job EXCEPT ![t].pkt = {}]
  /\ Leaves(t, "handing")
  /\ UNCHANGED <<follow, toCome, conn, connTimer, expiries>>

NothingToOffer(t) ==
  /\ tcpPc[t] = "telling" /\ job[t].action = {}
  /\ \A p \in job[t].pkt : ~HasPayload(p)
  /\ job' = [job EXCEPT ![t] = NoJob]
  /\ Leaves(t, "away")
  /\ UNCHANGED <<follow, toCome, conn, connTimer, stream, streamLock, expiries>>

(* proto_tcp_process_payload: the handler, with the entry locked again.    *)
TimeoutKept(c, p) == stream.timeout
TimeoutSet(c, p) == StateAfterPkt(c, p)

HandOn(t, p) ==
  /\ tcpPc[t] = "handing" /\ p \in stream.kept
  /\ conn' = Updated(conn, p)
  /\ stream' = [stream EXCEPT !.kept = @ \ {p}, !.running = TRUE,
                              !.timeout = TimeoutSet(conn, p)]
  /\ UNCHANGED <<follow, toCome, connTimer, streamLock, tcpPc, job, expiries>>

(* stream_end_process_packet: the entry is queued with the timeout of the  *)
(* stream, whoever set it.                                                 *)
EndProcess(t) ==
  /\ tcpPc[t] \in {"handing", "ending"}
  /\ connTimer' = stream.timeout
  /\ streamLock' = NoTcpThread
  /\ Leaves(t, "telling")
  /\ UNCHANGED <<follow, toCome, conn, stream, job, expiries>>

(* conntrack_cleanup, when nobody has the entry: stream_cleanup hands on   *)
(* what is kept, and a later packet makes a new entry.                     *)
ConnExpires ==
  /\ connTimer # "none" /\ expiries < MaxExpiries
  /\ \A t \in TcpThreads : tcpPc[t] = "away"
  /\ conn' = NewConn /\ connTimer' = "none" /\ stream' = NoStream
  /\ expiries' = expiries + 1
  /\ UNCHANGED <<follow, toCome, streamLock, tcpPc, job>>

TcpNext ==
  \/ \E t \in TcpThreads :
       \/ \E p \in toCome : TcpProcess(t, p)
       \/ SetStart(t) \/ NothingToOffer(t) \/ EndProcess(t)
       \/ \E p \in job[t].pkt : Offer(t, p)
       \/ \E p \in stream.kept : HandOn(t, p)
  \/ ConnExpires

TcpSpec == TcpInit /\ [][TcpNext]_tcpVars

-----------------------------------------------------------------------------
Quiet == \A t \in TcpThreads : tcpPc[t] = "away"

(* When no packet of it is being handled, a connection is queued with the  *)
(* delay of its state: that of missing packets as long as its stream has   *)
(* handed on nothing, and it has a timer since its first packet.           *)
TimerFitsState ==
  Quiet => connTimer = IF stream.there /\ ~stream.running THEN "stream"
                       ELSE IF conn.state = "new" THEN "none" ELSE conn.state

(* Whichever thread learned it, and whichever one made the stream, a start *)
(* that is known has reached the stream, unless it was running already.    *)
StartsReachStream ==
  Quiet /\ stream.there /\ ~stream.running => conn.known \subseteq stream.got
=============================================================================
