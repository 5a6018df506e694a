------------------------------- MODULE Timers -------------------------------
(***************************************************************************)
(* Timers that run on the time of the packets (timer.c) and the clock of   *)
(* each processing thread (core.c).  A thread that has a packet sets its   *)
(* clock, then runs the timers that are due by the clock of the slowest    *)
(* thread, then processes the packet, which queues and frees timers.       *)
(*                                                                         *)
(* Timers wait in one queue per expiry.  timer_main_lock is released while *)
(* a handler runs: everything between two releases is one step.            *)
(***************************************************************************)
EXTENDS Integers, Sequences, FiniteSets, SequencesExt, FiniteSetsExt

CONSTANTS
  NumThreads,    \* core_num_threads
  Timers,
  NoTimer,
  Expiries,      \* the delays in use, in seconds
  MaxTs,         \* time stamps of packets, in seconds
  MaxPackets,    \* bound: packets processed
  MaxChanges     \* bound: timers queued or freed while packets are processed

Workers == 0 .. NumThreads - 1

ASSUME TimersAssumption ==
  /\ NumThreads \in Nat \ {0}
  /\ NoTimer \notin Timers
  /\ Expiries \subseteq Nat \ {0} /\ Expiries # {} /\ IsFiniteSet(Expiries)
  /\ MaxTs \in Nat /\ MaxPackets \in Nat /\ MaxChanges \in Nat

VARIABLES
  clock,       \* core_clock, 0 before a thread's first packet
  alive,       \* timers allocated
  queues,      \* timer_queues: for each expiry the timers, the next one first
  expires,     \* when each timer is due
  processing,  \* the static flag of timers_process
  tPc,         \* where each thread is
  at,          \* the queue timers_process has reached, by its expiry
  taken,       \* the timer whose handler it runs
  now,         \* the time of its pass
  known,       \* threads that had a clock when its pass began
  touched,     \* queues others changed since its pass began
  packets, changes

timerVars == <<clock, alive, queues, expires, processing, tPc, at, taken, now,
               known, touched, packets, changes>>

TimersInit ==
  /\ clock = [t \in Workers |-> 0]
  /\ alive = {}
  /\ queues = [e \in Expiries |-> <<>>]
  /\ expires = [x \in Timers |-> 0]
  /\ processing = FALSE
  /\ tPc = [t \in Workers |-> "idle"]
  /\ at = [t \in Workers |-> Min(Expiries)]
  /\ taken = [t \in Workers |-> NoTimer]
  /\ now = [t \in Workers |-> 0]
  /\ known = [t \in Workers |-> {}]
  /\ touched = {}
  /\ packets = 0
  /\ changes = 0

-----------------------------------------------------------------------------
Goto(t, l) == tPc' = [tPc EXCEPT ![t] = l]
Put(f, t, v) == [f EXCEPT ![t] = v]

(* The clocks that count: that of thread 0, and the others once they run.  *)
Clocks == {clock[0]} \cup {clock[t] : t \in {u \in Workers : clock[u] # 0}}

(* core_get_clock_last, the most recent; core_get_clock, the least recent. *)
GetClockLast == Max(Clocks)
GetClock == Min(Clocks)

Queued(x) == \E e \in Expiries : x \in Range(queues[e])
PlaceIn(q, x) == CHOOSE i \in DOMAIN q : q[i] = x
Without(x) == [e \in Expiries |->
  IF x \in Range(queues[e]) THEN RemoveAt(queues[e], PlaceIn(queues[e], x)) ELSE queues[e]]
QueueOf(x) == {e \in Expiries : x \in Range(queues[e])}

ExpiresAt(e, time) == time + e

(* timer_queue_now: off its queue, at the tail of the queue of e.          *)
QueueTimer(x, e, time) ==
  /\ queues' = [Without(x) EXCEPT ![e] = Append(@, x)]
  /\ expires' = Put(expires, x, ExpiresAt(e, time))
  /\ touched' = touched \cup {e} \cup QueueOf(x)

(* timer_cleanup: off its queue and freed.                                 *)
FreeTimer(x) ==
  /\ queues' = Without(x)
  /\ alive' = alive \ {x}
  /\ touched' = touched \cup QueueOf(x)
  /\ UNCHANGED expires

-----------------------------------------------------------------------------
(* core_processing_thread_func: a packet, its clock, its timers.           *)
Packet(t, stamp) ==
  /\ tPc[t] = "idle" /\ packets < MaxPackets
  /\ packets' = packets + 1
  /\ clock' = IF clock[t] < stamp THEN Put(clock, t, stamp) ELSE clock
  /\ Goto(t, "timers")
  /\ UNCHANGED <<alive, queues, expires, processing, at, taken, now, known, touched,
                 changes>>

MayStart == ~processing

(* timers_process begins a pass, unless one is on.                         *)
Begin(t) ==
  /\ tPc[t] = "timers" /\ MayStart
  /\ processing' = TRUE
  /\ now' = Put(now, t, GetClock)
  /\ at' = Put(at, t, Min(Expiries))
  /\ known' = Put(known, t, {u \in Workers : clock[u] # 0})
  /\ touched' = {}
  /\ Goto(t, "walk")
  /\ UNCHANGED <<clock, alive, queues, expires, taken, packets, changes>>

(* It gives up when a pass is on, or when another thread has the lock.     *)
GiveUp(t) ==
  /\ tPc[t] = "timers"
  /\ processing \/ \E u \in Workers \ {t} : tPc[u] \in {"timers", "walk", "packet"}
  /\ Goto(t, "packet")
  /\ UNCHANGED <<clock, alive, queues, expires, processing, at, taken, now, known,
                 touched, packets, changes>>

Due(x, time) == expires[x] < time
DueHeads(q, time) == {x \in Range(q) : x = Head(q) /\ Due(x, time)}

(* The head of the queue is due: it is taken off and its handler called.   *)
Take(t) ==
  /\ tPc[t] = "walk"
  /\ \E x \in DueHeads(queues[at[t]], now[t]) : taken' = Put(taken, t, x)
  /\ queues' = [queues EXCEPT ![at[t]] = Tail(@)]
  /\ Goto(t, "handler")
  /\ UNCHANGED <<clock, alive, expires, processing, at, now, known, touched, packets,
                 changes>>

HeadSeen(t) == TRUE
HeadNotDue(t) == DueHeads(queues[at[t]], now[t]) = {}

(* Nothing more is due there: the next queue, or the end of the pass.      *)
NextQueue(t) ==
  /\ tPc[t] = "walk" /\ HeadNotDue(t)
  /\ at[t] # Max(Expiries)
  /\ at' = Put(at, t, Min({e \in Expiries : e > at[t]}))
  /\ UNCHANGED <<clock, alive, queues, expires, processing, tPc, taken, now, known,
                 touched, packets, changes>>

EndPass(t) ==
  /\ tPc[t] = "walk" /\ HeadNotDue(t)
  /\ at[t] = Max(Expiries)
  /\ processing' = FALSE
  /\ Goto(t, "packet")
  /\ UNCHANGED <<clock, alive, queues, expires, at, taken, now, known, touched,
                 packets, changes>>

(* What a handler does with its timer: nothing, free it, queue it again    *)
(* (dns_gc with the last clock, conntrack_cleanup the same), or it fails:  *)
(* the thread ends, and the flag stays.                                    *)
Handled(t, l) ==
  /\ tPc[t] = "handler"
  /\ taken' = Put(taken, t, NoTimer)
  /\ Goto(t, l)
  /\ UNCHANGED <<clock, processing, at, now, known, packets, changes>>

TimerHandled(t) ==
  /\ Handled(t, "walk")
  /\ \/ UNCHANGED <<alive, queues, expires, touched>>
     \/ FreeTimer(taken[t])
     \/ /\ \E e \in Expiries : QueueTimer(taken[t], e, GetClockLast)
        /\ UNCHANGED alive

HandlerFails(t) ==
  /\ Handled(t, "dead")
  /\ UNCHANGED <<alive, queues, expires, touched>>

(* The packet queues a timer with its own time stamp or with the last      *)
(* clock, also one that another thread has taken and whose handler is      *)
(* about to run; or it frees one.  A timer that is freed is in nobody's    *)
(* hand (external: the owner's lock, of which Conntrack has what happens   *)
(* without it).                                                            *)
Use(t, x) ==
  /\ tPc[t] = "packet" /\ changes < MaxChanges
  /\ changes' = changes + 1
  /\ \/ /\ alive' = alive \cup {x}
        /\ \E e \in Expiries, time \in {clock[t], GetClockLast} : QueueTimer(x, e, time)
     \/ x \in alive /\ (\A u \in Workers : taken[u] # x) /\ FreeTimer(x)
  /\ UNCHANGED <<clock, processing, tPc, at, taken, now, known, packets>>

PacketDone(t) ==
  /\ tPc[t] = "packet"
  /\ Goto(t, "idle")
  /\ UNCHANGED <<clock, alive, queues, expires, processing, at, taken, now, known,
                 touched, packets, changes>>

TimersStep(t) ==
  \/ Begin(t) \/ GiveUp(t) \/ Take(t) \/ NextQueue(t) \/ EndPass(t)
  \/ TimerHandled(t) \/ PacketDone(t)

TimersNext ==
  \E t \in Workers :
    \/ \E stamp \in 1 .. MaxTs : Packet(t, stamp)
    \/ \E x \in Timers : Use(t, x)
    \/ TimersStep(t) \/ HandlerFails(t)

TimersSpec == TimersInit /\ [][TimersNext]_timerVars
TimersFairness == \A t \in Workers : WF_timerVars(TimersStep(t))

-----------------------------------------------------------------------------
(* A timer is taken to fire only when every thread that had a clock as the *)
(* pass began has gone past its time: never ahead of a packet that is      *)
(* being processed, also when it was queued again while it was in hand.    *)
FiresBehindEveryThread ==
  [][ \A t \in Workers : tPc[t] = "walk" /\ tPc'[t] = "handler" =>
        \A u \in known[t] : expires[taken'[t]] < clock[u] ]_timerVars

(* A pass leaves nothing due at the head of a queue, unless a packet or a  *)
(* handler changed that queue meanwhile.                                   *)
DueFired ==
  [][ \A t \in Workers : tPc[t] = "walk" /\ tPc'[t] = "packet" =>
        \A e \in Expiries \ touched : DueHeads(queues[e], now[t]) = {} ]_timerVars
=============================================================================
