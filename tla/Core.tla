-------------------------------- MODULE Core --------------------------------
(***************************************************************************)
(* The processing core of pom-ng (src/src/core.c) and its users.           *)
(*                                                                         *)
(* Input threads read packets and hand them to core_queue_packet(), which  *)
(* puts each one on the queue of one of the processing threads.  A         *)
(* processing thread (core_processing_thread_func) takes packets from its  *)
(* own queue and processes them under the read side of                     *)
(* core_processing_lock; whoever needs the processing to stand still       *)
(* (core_pause_processing) takes the write side.  A third party, the       *)
(* holder of the registry lock, starts and stops inputs and shuts the      *)
(* program down; it moves the core between idle, running and finishing.    *)
(*                                                                         *)
(* One step is one critical section, or one read of a variable that other  *)
(* threads write without a lock: core_run, core_pkt_queue_count, the       *)
(* perf_thread_active gauge and core_cur_state are read in steps of their  *)
(* own, because acting on a stale value of them is what can go wrong.      *)
(***************************************************************************)
EXTENDS Integers, Sequences, FiniteSets

CONSTANTS
  NumThreads,   \* core_num_threads
  QueueMin,     \* CORE_THREAD_PKT_QUEUE_MIN: below it waiting inputs are woken
  QueueMax,     \* CORE_THREAD_PKT_QUEUE_MAX: an unpinned packet needs room below it
  Inputs,       \* the input threads
  Requests,     \* [Inputs -> sets of Flags]: what an input queues its packets with
  MaxPkts,      \* bound: packets read over the whole behaviour
  MaxStarts,    \* bound: how often an input is started
  CanFail,      \* whether processing a packet or a timer may return an error
  NoOne,        \* "no thread", the owner of a free lock
  NoPkt         \* "no packet"

Workers == 0 .. NumThreads - 1
Packets == 1 .. MaxPkts    \* a packet is named by its rank in reading order

(* The arguments of core_queue_packet: thread_affinity, when there is one, *)
(* and CORE_QUEUE_DROP_IF_FULL.                                            *)
NoAffinity == -1
Flags == [aff : Nat \cup {NoAffinity}, drop : BOOLEAN]

ASSUME CoreAssumption ==
  /\ NumThreads \in Nat \ {0}
  /\ QueueMin \in Nat \ {0}
  /\ QueueMax \in Nat
  /\ QueueMin < QueueMax
  /\ MaxPkts \in Nat
  /\ MaxStarts \in Nat
  /\ CanFail \in BOOLEAN
  /\ Requests \in [Inputs -> SUBSET Flags]
  /\ Inputs \cap Workers = {}
  /\ NoOne \notin Workers \cup Inputs
  /\ NoPkt \notin Packets
  /\ IsFiniteSet(Inputs)

VARIABLES
  queue,      \* [Workers -> Seq(Packets)]: pkt_queue_head .. pkt_queue_tail
  qlock,      \* [Workers -> owner]: pkt_queue_lock
  count,      \* core_pkt_queue_count
  start,      \* the static "start" of core_queue_packet's round robin
  pc, cur,    \* processing threads: where they are, the packet in hand
  active,     \* the perf_thread_active gauge
  readers,    \* processing threads on the read side of core_processing_lock
  writer,     \* the thread on its write side, or NoOne
  run,        \* core_run
  state,      \* core_cur_state
  iPc, iPkt, iReq, iTid, iTry,   \* input threads: place, packet, flags, scan
  running,    \* inputs with INPUT_RUN_RUNNING set
  ctl, ctlWho, ctlTid,   \* the holder of the registry lock: place, input, thread
  shutdown,   \* main has left its loop
  failed,     \* halt(..., 1) was called: shutdown_in_error
  next,       \* rank of the next packet to be read
  starts,     \* how many starts were made
  kept,       \* packets whose connection state (conntracks, timers) is still held
  done,       \* packets processed and released
  dropped     \* packets released unprocessed

queueVars == <<queue, qlock, count, start>>
workerVars == <<pc, cur, active>>
pauseVars == <<readers, writer>>
inputVars == <<iPc, iPkt, iReq, iTid, iTry>>
ctlVars == <<running, ctl, ctlWho, ctlTid, shutdown, starts>>
histVars == <<next, kept, done, dropped>>
vars == <<queueVars, workerVars, pauseVars, run, state, inputVars, ctlVars,
          failed, histVars>>

(***************************************************************************)
(* Places.  A processing thread holds its own pkt_queue_lock in the places *)
(* of HoldsQueue, is counted by perf_thread_active outside of those of     *)
(* Uncounted.                                                              *)
(***************************************************************************)
HoldsQueue == {"check", "gauge", "getstate", "setidle", "pause", "stop", "quit",
               "tosleep", "wake"}
WorkerPlaces == HoldsQueue \cup {"top", "lock", "wait", "woken", "rdlock", "process",
                                 "release", "halt", "dead"}
InputPlaces == {"off", "loop", "queue", "pinned", "scan", "nofree", "recheck",
                "asleep", "add", "stopping", "locking", "close"}
CtlPlaces == {"none", "open", "setrunning", "startproc", "join", "setfinishing",
              "notify", "waitidle", "cleanup", "signal", "jointhread", "halted"}
States == {"idle", "running", "finishing"}

Full == (QueueMax - 1) * NumThreads

QueueTypes ==
  /\ queue \in [Workers -> Seq(Packets)]
  /\ qlock \in [Workers -> Workers \cup Inputs \cup {NoOne}]
  /\ count \in Int
  /\ start \in Workers

WorkerTypes ==
  /\ pc \in [Workers -> WorkerPlaces]
  /\ cur \in [Workers -> Packets \cup {NoPkt}]
  /\ active \in Int
  /\ readers \in SUBSET Workers
  /\ writer \in Workers \cup {NoOne}

InputTypes ==
  /\ iPc \in [Inputs -> InputPlaces]
  /\ iPkt \in [Inputs -> Packets \cup {NoPkt}]
  /\ iReq \in [Inputs -> Flags]
  /\ iTid \in [Inputs -> Workers]
  /\ iTry \in [Inputs -> 0 .. NumThreads]

CtlTypes ==
  /\ running \in SUBSET Inputs
  /\ ctl \in CtlPlaces
  /\ ctlWho \in Inputs \cup {NoOne}
  /\ ctlTid \in Workers
  /\ starts \in 0 .. MaxStarts
  /\ {run, shutdown, failed} \subseteq BOOLEAN
  /\ state \in States

HistTypes ==
  /\ next \in 1 .. MaxPkts + 1
  /\ kept \in SUBSET Packets
  /\ done \in SUBSET Packets
  /\ dropped \in SUBSET Packets

TypeOK == QueueTypes /\ WorkerTypes /\ InputTypes /\ CtlTypes /\ HistTypes

(* core_init() has run: every processing thread has counted itself in.     *)
Init ==
  /\ queue = [w \in Workers |-> <<>>]
  /\ qlock = [w \in Workers |-> NoOne]
  /\ count = 0
  /\ start = 0
  /\ pc = [w \in Workers |-> "top"]
  /\ cur = [w \in Workers |-> NoPkt]
  /\ active = NumThreads
  /\ readers = {}
  /\ writer = NoOne
  /\ run = TRUE
  /\ state = "idle"
  /\ iPc = [i \in Inputs |-> "off"]
  /\ iPkt = [i \in Inputs |-> NoPkt]
  /\ iReq = [i \in Inputs |-> [aff |-> NoAffinity, drop |-> FALSE]]
  /\ iTid = [i \in Inputs |-> 0]
  /\ iTry = [i \in Inputs |-> 0]
  /\ running = {}
  /\ ctl = "none"
  /\ ctlWho = NoOne
  /\ ctlTid = 0
  /\ shutdown = FALSE
  /\ failed = FALSE
  /\ next = 1
  /\ starts = 0
  /\ kept = {}
  /\ done = {}
  /\ dropped = {}

-----------------------------------------------------------------------------
(* pom_mutex_lock and pthread_mutex_trylock on a pkt_queue_lock.           *)
LockFree(w) == qlock[w] = NoOne

(***************************************************************************)
(* core_processing_lock: core_pause_processing takes the write side, which *)
(* needs both sides free; a processing thread takes the read side.         *)
(***************************************************************************)
IgnoresReaders == writer = NoOne
CanPause == writer = NoOne /\ readers = {}

(***************************************************************************)
(* core_queue_packet, run by input thread i.                               *)
(***************************************************************************)
IMove(i, from, to) == iPc[i] = from /\ iPc' = [iPc EXCEPT ![i] = to]

(* The scan looks at the thread after the one it looked at before.         *)
NextThread(w) == IF w + 1 >= NumThreads THEN w + 1 - NumThreads ELSE w + 1

(* The plugin's read function returned a packet; it is queued with one of  *)
(* the plugin's flag combinations.                                         *)
ReadPacket(i) ==
  /\ i \in running
  /\ next <= MaxPkts
  /\ IMove(i, "loop", "queue")
  /\ iPkt' = [iPkt EXCEPT ![i] = next]
  /\ \E r \in Requests[i] : iReq' = [iReq EXCEPT ![i] = r]
  /\ next' = next + 1
  /\ UNCHANGED <<queueVars, workerVars, pauseVars, run, state, iTid, iTry, ctlVars,
                 failed, kept, done, dropped>>

(* if (!core_run) return POM_ERR: nobody releases the packet, and the      *)
(* input thread stops itself.                                              *)
QueueRefused(i) ==
  /\ ~run
  /\ IMove(i, "queue", "stopping")
  /\ iPkt' = [iPkt EXCEPT ![i] = NoPkt]
  /\ UNCHANGED <<queueVars, workerVars, pauseVars, run, state, iReq, iTid, iTry,
                 ctlVars, failed, histVars>>

(* The packet goes to the thread of its affinity, or the scan begins at    *)
(* the shared "start".                                                     *)
ThreadOf(aff) == aff % NumThreads

QueueChoose(i) ==
  /\ run
  /\ iPc[i] = "queue"
  /\ IF iReq[i].aff # NoAffinity
     THEN /\ iPc' = [iPc EXCEPT ![i] = "pinned"]
          /\ iTid' = [iTid EXCEPT ![i] = ThreadOf(iReq[i].aff)]
     ELSE /\ iPc' = [iPc EXCEPT ![i] = "scan"]
          /\ iTid' = [iTid EXCEPT ![i] = start]
  /\ iTry' = [iTry EXCEPT ![i] = 0]
  /\ UNCHANGED <<queueVars, workerVars, pauseVars, run, state, iPkt, iReq, ctlVars,
                 failed, histVars>>

(* pom_mutex_lock: a pinned packet waits for the lock, never for room.     *)
QueuePinned(i) ==
  /\ IMove(i, "pinned", "add")
  /\ LockFree(iTid[i])
  /\ qlock' = [qlock EXCEPT ![iTid[i]] = i]
  /\ UNCHANGED <<queue, count, start, workerVars, pauseVars, run, state, iPkt, iReq,
                 iTid, iTry, ctlVars, failed, histVars>>

HasRoom(w) == Len(queue[w]) < QueueMax

(* One round of the scan: trylock the next thread, and keep its lock if    *)
(* the thread has room.                                                    *)
ScanThread(i) ==
  LET w == NextThread(iTid[i])
      takes == LockFree(w) /\ HasRoom(w)
  IN /\ iPc[i] = "scan"
     /\ iTry[i] < NumThreads
     /\ iTid' = [iTid EXCEPT ![i] = w]
     /\ IF takes
        THEN /\ iPc' = [iPc EXCEPT ![i] = "add"]
             /\ qlock' = [qlock EXCEPT ![w] = i]
             /\ start' = w
             /\ UNCHANGED iTry
        ELSE /\ iTry' = [iTry EXCEPT ![i] = @ + 1]
             /\ UNCHANGED <<iPc, qlock, start>>
     /\ UNCHANGED <<queue, count, workerVars, pauseVars, run, state, iPkt, iReq,
                    ctlVars, failed, histVars>>

ScanExhausted(i) ==
  /\ iTry[i] = NumThreads
  /\ IMove(i, "scan", "nofree")
  /\ UNCHANGED <<queueVars, workerVars, pauseVars, run, state, iPkt, iReq, iTid, iTry,
                 ctlVars, failed, histVars>>

(* Back to the head of the while (1): the scan starts over.                *)
Rescan(i) ==
  /\ iPc' = [iPc EXCEPT ![i] = "scan"]
  /\ iTid' = [iTid EXCEPT ![i] = start]
  /\ iTry' = [iTry EXCEPT ![i] = 0]

(* No thread found.  core_pkt_queue_count is read without a lock.          *)
ScanFoundNone(i) ==
  /\ iPc[i] = "nofree"
  /\ \/ count < Full /\ Rescan(i) /\ UNCHANGED <<iPkt, dropped>>
     \/ /\ count >= Full /\ iReq[i].drop
        /\ iPc' = [iPc EXCEPT ![i] = "loop"]
        /\ dropped' = dropped \cup {iPkt[i]}
        /\ iPkt' = [iPkt EXCEPT ![i] = NoPkt]
        /\ UNCHANGED <<iTid, iTry>>
     \/ /\ count >= Full /\ ~iReq[i].drop
        /\ iPc' = [iPc EXCEPT ![i] = "recheck"]
        /\ UNCHANGED <<iPkt, iTid, iTry, dropped>>
  /\ UNCHANGED <<queueVars, workerVars, pauseVars, run, state, iReq, ctlVars, failed,
                 next, kept, done>>

RecheckBlindly(i) ==
  /\ IMove(i, "recheck", "asleep")
  /\ UNCHANGED <<queueVars, workerVars, pauseVars, run, state, iPkt, iReq, iTid, iTry,
                 ctlVars, failed, histVars>>

(* Under core_pkt_queue_wait_lock: read the count again, and sleep only if *)
(* it still says full.                                                     *)
RecheckFull(i) ==
  /\ iPc[i] = "recheck"
  /\ \/ count >= Full /\ iPc' = [iPc EXCEPT ![i] = "asleep"] /\ UNCHANGED <<iTid, iTry>>
     \/ count < Full /\ Rescan(i)
  /\ UNCHANGED <<queueVars, workerVars, pauseVars, run, state, iPkt, iReq, ctlVars,
                 failed, histVars>>

(* A thread is signalled when its queue was empty, and only then.          *)
SignalWhenLong(w) == Len(queue[w]) = 1
SignalWhenEmpty(w) == queue[w] = <<>>

InFront(w, p) == <<p>> \o queue[w]
AtTail(w, p) == Append(queue[w], p)

(* The lock of the thread is held: append, signal a thread whose queue was *)
(* empty, count, unlock.                                                   *)
AddPacket(i) ==
  LET w == iTid[i]
  IN /\ IMove(i, "add", "loop")
     /\ queue' = [queue EXCEPT ![w] = AtTail(w, iPkt[i])]
     /\ pc' = [pc EXCEPT ![w] = IF SignalWhenEmpty(w) /\ @ = "wait" THEN "woken" ELSE @]
     /\ count' = count + 1
     /\ qlock' = [qlock EXCEPT ![w] = NoOne]
     /\ iPkt' = [iPkt EXCEPT ![i] = NoPkt]
     /\ UNCHANGED <<start, cur, active, pauseVars, run, state, iReq, iTid, iTry,
                    ctlVars, failed, histVars>>

(* End of the capture file, or a read error.                               *)
ReadEnd(i) ==
  /\ i \in running
  /\ IMove(i, "loop", "stopping")
  /\ UNCHANGED <<queueVars, workerVars, pauseVars, run, state, iPkt, iReq, iTid, iTry,
                 ctlVars, failed, histVars>>

(* input_stop() and the error path of input_process_thread test            *)
(* INPUT_RUN_RUNNING before registry_set_param() takes the registry lock.  *)
AskStop(i) ==
  /\ iPc[i] = "stopping"
  /\ iPc' = [iPc EXCEPT ![i] = IF i \in running THEN "locking" ELSE "loop"]
  /\ UNCHANGED <<queueVars, workerVars, pauseVars, run, state, iPkt, iReq, iTid, iTry,
                 ctlVars, failed, histVars>>

(* With the lock the handler clears the flag and detaches the thread; for  *)
(* the last input the core is finishing.                                   *)
SelfStop(i) ==
  /\ IMove(i, "locking", "loop")
  /\ ctl = "none"
  /\ i \in running
  /\ running' = running \ {i}
  /\ IF running' = {}
     THEN ctl' = "setfinishing" /\ ctlWho' = i
     ELSE UNCHANGED <<ctl, ctlWho>>
  /\ UNCHANGED <<queueVars, workerVars, pauseVars, run, state, iPkt, iReq, iTid, iTry,
                 ctlTid, shutdown, starts, failed, histVars>>

(* The loop of input_process_thread ends once INPUT_RUN_RUNNING is clear   *)
(* and no handler runs on this thread.                                     *)
LeaveLoop(i) ==
  /\ i \notin running
  /\ ~(ctlWho = i /\ ctl \in {"setfinishing", "notify"})
  /\ IMove(i, "loop", "close")
  /\ UNCHANGED <<queueVars, workerVars, pauseVars, run, state, iPkt, iReq, iTid, iTry,
                 ctlVars, failed, histVars>>

(* The plugin is closed with the processing paused, and the thread ends.   *)
CloseInput(i) ==
  /\ IMove(i, "close", "off")
  /\ CanPause
  /\ UNCHANGED <<queueVars, workerVars, pauseVars, run, state, iPkt, iReq, iTid, iTry,
                 ctlVars, failed, histVars>>

InputStep(i) ==
  \/ QueueRefused(i) \/ QueueChoose(i) \/ QueuePinned(i) \/ ScanThread(i)
  \/ ScanExhausted(i) \/ ScanFoundNone(i) \/ RecheckFull(i) \/ AddPacket(i)
  \/ AskStop(i) \/ SelfStop(i) \/ LeaveLoop(i) \/ CloseInput(i)

-----------------------------------------------------------------------------
(***************************************************************************)
(* core_processing_thread_func, run by processing thread w.                *)
(***************************************************************************)
Move(w, from, to) == pc[w] = from /\ pc' = [pc EXCEPT ![w] = to]
Unlock(w) == qlock' = [qlock EXCEPT ![w] = NoOne]

(* while (core_run).  Falling out of the loop calls halt() all the same.   *)
LoopTop(w) ==
  /\ pc[w] = "top"
  /\ pc' = [pc EXCEPT ![w] = IF run THEN "lock" ELSE "halt"]
  /\ UNCHANGED <<queueVars, cur, active, pauseVars, run, state, inputVars, ctlVars,
                 failed, histVars>>

LockQueue(w) ==
  /\ Move(w, "lock", "check")
  /\ LockFree(w)
  /\ qlock' = [qlock EXCEPT ![w] = w]
  /\ UNCHANGED <<queue, count, start, cur, active, pauseVars, run, state, inputVars,
                 ctlVars, failed, histVars>>

(* while (!pkt_queue_head): the thread is not active while it waits.       *)
QueueEmpty(w) ==
  /\ queue[w] = <<>>
  /\ Move(w, "check", "gauge")
  /\ active' = active - 1
  /\ UNCHANGED <<queueVars, cur, pauseVars, run, state, inputVars, ctlVars, failed,
                 histVars>>

(* registry_perf_getval(perf_thread_active) == 0                           *)
ReadGauge(w) ==
  /\ pc[w] = "gauge"
  /\ pc' = [pc EXCEPT ![w] = IF active = 0 THEN "getstate" ELSE "quit"]
  /\ UNCHANGED <<queueVars, cur, active, pauseVars, run, state, inputVars, ctlVars,
                 failed, histVars>>

(* core_get_state() == core_state_finishing                                *)
GetState(w) ==
  /\ pc[w] = "getstate"
  /\ pc' = [pc EXCEPT ![w] = IF state = "finishing" THEN "setidle" ELSE "quit"]
  /\ UNCHANGED <<queueVars, cur, active, pauseVars, run, state, inputVars, ctlVars,
                 failed, histVars>>

(* core_set_state(core_state_idle), which does not look at what the state  *)
(* has become since.                                                       *)
SetIdle(w) ==
  /\ pc[w] = "setidle"
  /\ pc' = [pc EXCEPT ![w] = IF state = "idle" THEN "quit" ELSE "pause"]
  /\ state' = "idle"
  /\ UNCHANGED <<queueVars, cur, active, pauseVars, run, inputVars, ctlVars, failed,
                 histVars>>

(* core_processing_stop: pause the processing ...                          *)
StopPause(w) ==
  /\ Move(w, "pause", "stop")
  /\ CanPause
  /\ writer' = w
  /\ UNCHANGED <<queueVars, cur, active, readers, run, state, inputVars, ctlVars,
                 failed, histVars>>

(* ... drop every conntrack, expectation and analyzer state, and resume.   *)
StopFree(w) ==
  /\ Move(w, "stop", "quit")
  /\ kept' = {}
  /\ writer' = NoOne
  /\ UNCHANGED <<queueVars, cur, active, readers, run, state, inputVars, ctlVars,
                 failed, next, done, dropped>>

(* if (!core_run) goto end, else pthread_cond_wait: the lock is released   *)
(* when the wait begins, after core_run was read.                          *)
ReadRun(w) ==
  /\ pc[w] = "quit"
  /\ IF run
     THEN pc' = [pc EXCEPT ![w] = "tosleep"] /\ UNCHANGED qlock
     ELSE pc' = [pc EXCEPT ![w] = "dead"] /\ Unlock(w)
  /\ UNCHANGED <<queue, count, start, cur, active, pauseVars, run, state, inputVars,
                 ctlVars, failed, histVars>>

Sleep(w) ==
  /\ Move(w, "tosleep", "wait")
  /\ Unlock(w)
  /\ UNCHANGED <<queue, count, start, cur, active, pauseVars, run, state, inputVars,
                 ctlVars, failed, histVars>>

(* Signalled: take the lock back, be active again, look at the queue.      *)
WakeUp(w) ==
  /\ Move(w, "woken", "check")
  /\ LockFree(w)
  /\ qlock' = [qlock EXCEPT ![w] = w]
  /\ active' = active + 1
  /\ UNCHANGED <<queue, count, start, cur, pauseVars, run, state, inputVars, ctlVars,
                 failed, histVars>>

KeepHead(w) == queue[w]
DropHead(w) == Tail(queue[w])

WakesTooLate(w) == Len(queue[w]) < QueueMin
Wakes(w) == Len(queue[w]) - 1 < QueueMin

(* Take the head.  Below QueueMin the inputs are woken before unlocking.   *)
Dequeue(w) ==
  /\ pc[w] = "check"
  /\ queue[w] # <<>>
  /\ cur' = [cur EXCEPT ![w] = Head(queue[w])]
  /\ queue' = [queue EXCEPT ![w] = DropHead(w)]
  /\ count' = count - 1
  /\ IF Wakes(w)
     THEN pc' = [pc EXCEPT ![w] = "wake"] /\ UNCHANGED qlock
     ELSE pc' = [pc EXCEPT ![w] = "rdlock"] /\ Unlock(w)
  /\ UNCHANGED <<start, active, pauseVars, run, state, inputVars, ctlVars, failed,
                 histVars>>

(* pthread_cond_broadcast(&core_pkt_queue_wait_cond)                       *)
WakeInputs(w) ==
  /\ Move(w, "wake", "rdlock")
  /\ Unlock(w)
  /\ LET asleep == {i \in Inputs : iPc[i] = "asleep"}
     IN /\ iPc' = [i \in Inputs |-> IF i \in asleep THEN "scan" ELSE iPc[i]]
        /\ iTid' = [i \in Inputs |-> IF i \in asleep THEN start ELSE iTid[i]]
        /\ iTry' = [i \in Inputs |-> IF i \in asleep THEN 0 ELSE iTry[i]]
  /\ UNCHANGED <<queue, count, start, cur, active, pauseVars, run, state, iPkt, iReq,
                 ctlVars, failed, histVars>>

(* The read side of core_processing_lock.                                  *)
ReadLock(w) ==
  /\ Move(w, "rdlock", "process")
  /\ writer = NoOne
  /\ readers' = readers \cup {w}
  /\ UNCHANGED <<queueVars, cur, active, writer, run, state, inputVars, ctlVars, failed,
                 histVars>>

(* timers_process() and core_process_packet() succeed: the packet has left *)
(* connection state behind.                                                *)
ProcessPacket(w) ==
  /\ Move(w, "process", "release")
  /\ readers' = readers \ {w}
  /\ kept' = kept \cup {cur[w]}
  /\ UNCHANGED <<queueVars, cur, active, writer, run, state, inputVars, ctlVars, failed,
                 next, done, dropped>>

(* A timer failed (break), or the packet did (core_run = 0; break): the    *)
(* packet is not released.                                                 *)
ProcessFails(w) ==
  /\ CanFail
  /\ Move(w, "process", "halt")
  /\ readers' = readers \ {w}
  /\ run' \in {run, FALSE}
  /\ UNCHANGED <<queueVars, cur, active, writer, state, inputVars, ctlVars, failed,
                 histVars>>

(* packet_release(pkt)                                                     *)
Release(w) ==
  /\ Move(w, "release", "top")
  /\ done' = done \cup {cur[w]}
  /\ cur' = [cur EXCEPT ![w] = NoPkt]
  /\ UNCHANGED <<queueVars, active, pauseVars, run, state, inputVars, ctlVars, failed,
                 next, kept, dropped>>

(* halt("Processing thread encountered an error", 1), and the thread ends. *)
Halt(w) ==
  /\ Move(w, "halt", "dead")
  /\ failed' = TRUE
  /\ UNCHANGED <<queueVars, cur, active, pauseVars, run, state, inputVars, ctlVars,
                 histVars>>

WorkerStep(w) ==
  \/ LoopTop(w) \/ LockQueue(w) \/ QueueEmpty(w) \/ ReadGauge(w) \/ GetState(w)
  \/ SetIdle(w) \/ StopPause(w) \/ StopFree(w) \/ ReadRun(w) \/ Sleep(w) \/ WakeUp(w)
  \/ Dequeue(w) \/ WakeInputs(w) \/ ReadLock(w) \/ ProcessPacket(w)
  \/ ProcessFails(w) \/ Release(w) \/ Halt(w)

-----------------------------------------------------------------------------
(***************************************************************************)
(* The holder of the registry lock: the "running" parameter of an input    *)
(* (input_instance_start_stop_handler), and main's shutdown.               *)
(***************************************************************************)
CMove(from, to) == ctl = from /\ ctl' = to

(* The user starts input i.  Only in Input.tla can the thread of an        *)
(* earlier start still be closing.                                         *)
StartInput(i) ==
  /\ ~shutdown /\ starts < MaxStarts
  /\ iPc[i] = "off" /\ i \notin running
  /\ CMove("none", "open")
  /\ ctlWho' = i
  /\ starts' = starts + 1
  /\ UNCHANGED <<queueVars, workerVars, pauseVars, run, state, inputVars, running,
                 ctlTid, shutdown, failed, histVars>>

(* Opened with the processing paused; flagged running; thread created.     *)
OpenInput ==
  /\ CMove("open", "setrunning")
  /\ CanPause
  /\ running' = running \cup {ctlWho}
  /\ iPc' = [iPc EXCEPT ![ctlWho] = "loop"]
  /\ UNCHANGED <<queueVars, workerVars, pauseVars, run, state, iPkt, iReq, iTid, iTry,
                 ctlWho, ctlTid, shutdown, starts, failed, histVars>>

(* core_set_state(core_state_running)                                      *)
SetRunning ==
  /\ ctl = "setrunning"
  /\ ctl' = IF state = "running" THEN "none" ELSE "startproc"
  /\ state' = "running"
  /\ UNCHANGED <<queueVars, workerVars, pauseVars, run, inputVars, running, ctlWho,
                 ctlTid, shutdown, starts, failed, histVars>>

(* core_processing_start: pause, set up the DNS cache, resume.             *)
StartProcessing ==
  /\ CMove("startproc", "none")
  /\ CanPause
  /\ UNCHANGED <<queueVars, workerVars, pauseVars, run, state, inputVars, running,
                 ctlWho, ctlTid, shutdown, starts, failed, histVars>>

(* The user, or input_stop_all, stops input i ...                          *)
StopInput(i) ==
  /\ i \in running
  /\ CMove("none", "join")
  /\ ctlWho' = i
  /\ running' = running \ {i}
  /\ UNCHANGED <<queueVars, workerVars, pauseVars, run, state, inputVars, ctlTid,
                 shutdown, starts, failed, histVars>>

ThreadEnded(i) == iPc[i] = "off"

(* ... and joins its thread.  The last input makes the core finish.        *)
JoinInput ==
  /\ ctl = "join"
  /\ ThreadEnded(ctlWho)
  /\ ctl' = IF running = {} THEN "setfinishing" ELSE "none"
  /\ UNCHANGED <<queueVars, workerVars, pauseVars, run, state, inputVars, running,
                 ctlWho, ctlTid, shutdown, starts, failed, histVars>>

(* core_set_state(core_state_finishing), ignored when idle ...             *)
SetFinishing ==
  /\ ctl = "setfinishing"
  /\ IF state = "running"
     THEN state' = "finishing" /\ ctl' = "notify" /\ ctlTid' = 0
     ELSE UNCHANGED <<state, ctlTid>> /\ ctl' = "none"
  /\ UNCHANGED <<queueVars, workerVars, pauseVars, run, inputVars, running, ctlWho,
                 shutdown, starts, failed, histVars>>

(* Wake thread w if it sleeps on its pkt_queue_cond.                       *)
Signal(w) == pc' = [pc EXCEPT ![w] = IF @ = "wait" THEN "woken" ELSE @]

(* On to the next thread, or to the place after the last one.              *)
NextTid(again, after) ==
  IF ctlTid + 1 < NumThreads
  THEN ctlTid' = ctlTid + 1 /\ ctl' = again
  ELSE ctlTid' = 0 /\ ctl' = after

(* ... wakes each processing thread, holding its pkt_queue_lock.           *)
NotifyThread ==
  /\ ctl = "notify"
  /\ LockFree(ctlTid)
  /\ Signal(ctlTid)
  /\ NextTid("notify", "none")
  /\ UNCHANGED <<queueVars, cur, active, pauseVars, run, state, inputVars, running,
                 ctlWho, shutdown, starts, failed, histVars>>

(* main leaves its loop: a signal, or halt().                              *)
Terminate ==
  /\ ~shutdown
  /\ shutdown' = TRUE
  /\ UNCHANGED <<queueVars, workerVars, pauseVars, run, state, inputVars, running, ctl,
                 ctlWho, ctlTid, starts, failed, histVars>>

(* input_stop_all() is over.  After a halt() main does not wait for idle.   *)
InputsStopped ==
  /\ shutdown /\ running = {}
  /\ ctl = "none"
  /\ ctl' = IF failed THEN "cleanup" ELSE "waitidle"
  /\ UNCHANGED <<queueVars, workerVars, pauseVars, run, state, inputVars, running,
                 ctlWho, ctlTid, shutdown, starts, failed, histVars>>

WaitIdle ==
  /\ state = "idle"
  /\ CMove("waitidle", "cleanup")
  /\ UNCHANGED <<queueVars, workerVars, pauseVars, run, state, inputVars, running,
                 ctlWho, ctlTid, shutdown, starts, failed, histVars>>

(* core_cleanup: core_run = 0; then, thread after thread, ...              *)
StopRun ==
  /\ CMove("cleanup", "signal")
  /\ run' = FALSE
  /\ ctlTid' = 0
  /\ UNCHANGED <<queueVars, workerVars, pauseVars, state, inputVars, running, ctlWho,
                 shutdown, starts, failed, histVars>>

(* ... signal it, without its pkt_queue_lock, ...                          *)
SignalThread ==
  /\ CMove("signal", "jointhread")
  /\ Signal(ctlTid)
  /\ UNCHANGED <<queueVars, cur, active, pauseVars, run, state, inputVars, running,
                 ctlWho, ctlTid, shutdown, starts, failed, histVars>>

(* ... join it, and free what its queue still holds.                       *)
JoinThread ==
  /\ ctl = "jointhread"
  /\ pc[ctlTid] = "dead"
  /\ queue' = [queue EXCEPT ![ctlTid] = <<>>]
  /\ NextTid("signal", "halted")
  /\ UNCHANGED <<qlock, count, start, workerVars, pauseVars, run, state, inputVars,
                 running, ctlWho, shutdown, starts, failed, histVars>>

CtlStep ==
  \/ OpenInput \/ SetRunning \/ StartProcessing \/ JoinInput \/ SetFinishing
  \/ NotifyThread \/ InputsStopped \/ WaitIdle \/ StopRun \/ SignalThread \/ JoinThread

-----------------------------------------------------------------------------
(* The program has ended.                                                  *)
Ended == ctl = "halted" /\ UNCHANGED vars

Next ==
  \/ \E w \in Workers : WorkerStep(w)
  \/ \E i \in Inputs : InputStep(i) \/ ReadPacket(i) \/ ReadEnd(i)
                       \/ StartInput(i) \/ StopInput(i)
  \/ CtlStep
  \/ Terminate
  \/ Ended

Spec == Init /\ [][Next]_vars

(***************************************************************************)
(* Every thread that can go on does: the kernel schedules all of them.     *)
(* Reading packets, starting and stopping are up to the outside, except    *)
(* that main leaves its loop after a halt(), and that a program shutting   *)
(* down does stop its inputs.                                              *)
(***************************************************************************)
Fairness ==
  /\ \A w \in Workers : WF_vars(WorkerStep(w))
  /\ \A i \in Inputs : WF_vars(InputStep(i))
  /\ WF_vars(CtlStep)
  /\ WF_vars(failed /\ Terminate)
  /\ \A i \in Inputs : WF_vars(shutdown /\ StopInput(i))

FairSpec == Spec /\ Fairness

-----------------------------------------------------------------------------
(***************************************************************************)
(* Safety.                                                                 *)
(***************************************************************************)

(* Two threads never work on one packet queue at a time: whoever is inside *)
(* a critical section of pkt_queue_lock owns that lock, also while it      *)
(* moves the core to idle from there (core_processing_thread_func).        *)
QueueLockHeld ==
  /\ \A w \in Workers : pc[w] \in HoldsQueue => qlock[w] = w
  /\ \A i \in Inputs : iPc[i] = "add" => qlock[iTid[i]] = i

(* Connection state is freed by core_processing_stop only while no thread  *)
(* is processing a packet, and by one thread at a time.                    *)
PauseExclusive ==
  /\ \A v, w \in Workers : pc[v] = "stop" => pc[w] # "process"
  /\ \A v, w \in Workers : pc[v] = "stop" /\ pc[w] = "stop" => v = w

(* No lost wake-up of a processing thread: core_queue_packet signals only  *)
(* when the queue was empty, so a thread asleep has an empty queue.        *)
SleeperQueueEmpty == \A w \in Workers : pc[w] = "wait" => queue[w] = <<>>

(* No lost wake-up of an input: the count is read without the queue locks  *)
(* and the broadcast comes only below QueueMin, yet an input asleep always *)
(* has somebody who will still wake it: a queue that will fall below       *)
(* QueueMin, or a thread about to broadcast.                               *)
InputWakeupPending ==
  (\E i \in Inputs : iPc[i] = "asleep") =>
     \E w \in Workers : Len(queue[w]) >= QueueMin \/ pc[w] = "wake"

(* core_pkt_queue_count, changed atomically by threads that hold different *)
(* locks, is the number of packets in all queues together, until           *)
(* core_cleanup frees queues without counting.                             *)
Slots == UNION {{w} \X DOMAIN queue[w] : w \in Workers}
CountExact ==
  ctl \notin {"signal", "jointhread", "halted"} => count = Cardinality(Slots)

(* An unpinned packet never makes a queue longer than QueueMax, although   *)
(* the room was seen before the packet was added.                          *)
UnpinnedHasRoom ==
  \A i \in Inputs : iPc[i] = "add" /\ iReq[i].aff = NoAffinity
                        => Len(queue[iTid[i]]) < QueueMax

(* An input "terminates cleanly" (input_stop): whoever stops an input and  *)
(* joins its thread holds the registry lock, and must not find that thread *)
(* waiting for this very lock to stop itself.                              *)
Deadlocked == ctl = "join" /\ iPc[ctlWho] = "locking"
StopsCleanly == ~Deadlocked

(* Refinement: seen from the packets, the queues, locks, scans and wake-   *)
(* ups of this module are the lines of PacketPath.                         *)
Offered == {iPkt[i] : i \in Inputs} \ {NoPkt}
Path == INSTANCE PacketPath WITH Lines <- Workers, line <- queue, hand <- cur,
                                 offered <- Offered
ImplementsPath == Path!Spec
OneOwner == Path!OneOwner

(***************************************************************************)
(* Liveness.                                                               *)
(***************************************************************************)

(* Every queued packet is processed, unless the program is shut down.      *)
Queued(p) == \E w \in Workers : \E k \in DOMAIN queue[w] : queue[w][k] = p
EveryPacketProcessed ==
  \A p \in Packets : Queued(p) ~> (p \in done \/ shutdown)

(* An input that waits for room gets on.                                   *)
InputsGetOn == \A i \in Inputs : iPc[i] = "asleep" ~> iPc[i] # "asleep"
=============================================================================
