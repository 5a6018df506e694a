----------------------------- MODULE StreamTurn -----------------------------
(***************************************************************************)
(* Whose turn it is on a stream (stream.c).  Processing threads bring      *)
(* packets of one connection to stream_process_packet in any order.  One   *)
(* of them holds stream->lock; the others sleep in a list sorted by time   *)
(* stamp, each on its own condition, under stream->wait_lock.              *)
(*                                                                         *)
(* Everything done with wait_lock held is one step.  A thread that has     *)
(* taken itself off the list still has to take the lock and competes with  *)
(* newcomers for it.                                                       *)
(***************************************************************************)
EXTENDS Integers, Sequences, FiniteSets, SequencesExt

CONSTANTS
  Callers,
  NoThread,
  MaxTs,         \* time stamps of the packets
  MaxArrivals    \* bound: packets that reach the stream

ASSUME StreamTurnAssumption ==
  /\ NoThread \notin Callers
  /\ MaxTs \in Nat /\ MaxArrivals \in Nat

VARIABLES
  turnPc,     \* where each thread is
  ts,         \* the time stamp of its packet
  holder,     \* who holds stream->lock
  waiting,    \* the wait list, its head first
  signalled,  \* waiting threads whose condition was broadcast
  arrivals

turnVars == <<turnPc, ts, holder, waiting, signalled, arrivals>>

TurnPcs == {"away", "waiting", "popped", "direct", "inside", "unlocked"}

TurnTypeOK ==
  /\ turnPc \in [Callers -> TurnPcs]
  /\ ts \in [Callers -> 0 .. MaxTs]
  /\ holder \in Callers \cup {NoThread}
  /\ waiting \in Seq(Callers)
  /\ signalled \in SUBSET Callers
  /\ arrivals \in 0 .. MaxArrivals

TurnInit ==
  /\ turnPc = [t \in Callers |-> "away"]
  /\ ts = [t \in Callers |-> 0]
  /\ holder = NoThread
  /\ waiting = <<>>
  /\ signalled = {}
  /\ arrivals = 0

-----------------------------------------------------------------------------
TurnTo(t, l) == turnPc' = [turnPc EXCEPT ![t] = l]

(* pthread_cond_broadcast on the condition of the head of the list.        *)
TailSignalled(list) == IF list = <<>> THEN signalled ELSE signalled \cup {list[Len(list)]}
HeadSignalled(list) == IF list = <<>> THEN signalled ELSE signalled \cup {list[1]}

(* A packet is put before those that are not older.                        *)
BeforeYounger(list, t, stamp) ==
  LET older == {i \in DOMAIN list : ts[list[i]] < stamp}
      at == IF \E i \in DOMAIN list : i \notin older
            THEN CHOOSE i \in DOMAIN list : i \notin older /\ \A j \in 1 .. i - 1 : j \in older
            ELSE Len(list) + 1
  IN InsertAt(list, at, t)

(* Somebody older than stamp waits at the head of the list.                *)
OlderWaits(stamp) == waiting # <<>> /\ ts[waiting[1]] < stamp

(* stream_process_packet up to the lock: a thread goes in when the lock is *)
(* free and no older packet waits.  Else it waits, and when the lock was   *)
(* free it wakes the older one first.                                      *)
Come(t, stamp) ==
  /\ turnPc[t] = "away" /\ arrivals < MaxArrivals
  /\ arrivals' = arrivals + 1
  /\ ts' = [ts EXCEPT ![t] = stamp]

GoIn(t, stamp) ==
  /\ Come(t, stamp)
  /\ holder = NoThread /\ ~OlderWaits(stamp)
  /\ holder' = t
  /\ TurnTo(t, "inside")
  /\ UNCHANGED <<waiting, signalled>>

Queue(t, stamp) ==
  /\ Come(t, stamp)
  /\ holder # NoThread \/ OlderWaits(stamp)
  /\ signalled' = IF holder = NoThread THEN HeadSignalled(waiting) ELSE signalled
  /\ waiting' = BeforeYounger(waiting, t, stamp)
  /\ TurnTo(t, "waiting")
  /\ UNCHANGED holder

(* A thread leaves pthread_cond_wait, signalled or for no reason.  Only    *)
(* the head of the list goes on; another one wakes the head and waits.     *)
WakeOther(t) ==
  /\ turnPc[t] = "waiting" /\ waiting[1] # t
  /\ signalled' = HeadSignalled(waiting) \ {t}
  /\ UNCHANGED <<turnPc, ts, holder, waiting, arrivals>>

LeaveList(t) ==
  /\ turnPc[t] = "waiting" /\ waiting[1] = t
  /\ waiting' = Tail(waiting)
  /\ signalled' = signalled \ {t}
  /\ TurnTo(t, "popped")
  /\ UNCHANGED <<ts, holder, arrivals>>

(* pthread_mutex_lock by a thread off the list, or by stream_set_start_seq.*)
Direct(t) ==
  /\ turnPc[t] = "away" /\ arrivals < MaxArrivals
  /\ arrivals' = arrivals + 1
  /\ TurnTo(t, "direct")
  /\ UNCHANGED <<ts, holder, waiting, signalled>>

LockStream(t) ==
  /\ turnPc[t] \in {"popped", "direct"}
  /\ holder = NoThread
  /\ holder' = t
  /\ TurnTo(t, "inside")
  /\ UNCHANGED <<ts, waiting, signalled, arrivals>>

(* stream_end_process_packet: unlock, then wake the head of the list.      *)
UnlockAndGo(t) ==
  /\ turnPc[t] = "inside"
  /\ holder' = NoThread
  /\ TurnTo(t, "away")
  /\ UNCHANGED <<ts, waiting, signalled, arrivals>>

UnlockStream(t) ==
  /\ turnPc[t] = "inside"
  /\ holder' = NoThread
  /\ TurnTo(t, "unlocked")
  /\ UNCHANGED <<ts, waiting, signalled, arrivals>>

SignalHead(t) ==
  /\ turnPc[t] = "unlocked"
  /\ signalled' = HeadSignalled(waiting)
  /\ TurnTo(t, "away")
  /\ UNCHANGED <<ts, holder, waiting, arrivals>>

TurnStep(t) ==
  \/ t \in signalled /\ (WakeOther(t) \/ LeaveList(t))
  \/ LockStream(t) \/ UnlockStream(t) \/ SignalHead(t)

TurnNext ==
  \E t \in Callers :
    \/ \E stamp \in 0 .. MaxTs : GoIn(t, stamp) \/ Queue(t, stamp)
    \/ Direct(t)
    \/ WakeOther(t) \/ LeaveList(t)
    \/ LockStream(t) \/ UnlockStream(t) \/ SignalHead(t)

TurnSpec == TurnInit /\ [][TurnNext]_turnVars

(* The handler returns, a thread that is signalled wakes up, and the mutex *)
(* is given to a thread that keeps asking for it.                          *)
TurnFairness ==
  \A t \in Callers : WF_turnVars(TurnStep(t)) /\ SF_turnVars(LockStream(t))

-----------------------------------------------------------------------------
(* Whenever threads wait, somebody is there who will wake one of them: no  *)
(* wake-up is lost between stream->lock and stream->wait_lock.             *)
NoLostTurn ==
  waiting # <<>> =>
    \/ \E t \in Callers : turnPc[t] \in {"popped", "direct", "inside", "unlocked"}
    \/ \E i \in DOMAIN waiting : waiting[i] \in signalled

(* Every packet that waits for its turn gets it.                           *)
EveryTurnComes == \A t \in Callers : turnPc[t] = "waiting" ~> turnPc[t] = "away"
=============================================================================
