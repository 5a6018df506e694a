----------------------------- MODULE CoreProofs -----------------------------
(***************************************************************************)
(* Theorems about Core for every number of threads, every queue size and   *)
(* every set of inputs.                                                    *)
(***************************************************************************)
EXTENDS Core, FiniteSetTheorems, TLAPS

USE DEF Workers, Packets, NoAffinity, Flags, States

(***************************************************************************)
(* Types.  TypeOK is not inductive: a step that uses the packet in hand or *)
(* the input being started needs one to be there.  Each part of the        *)
(* strengthening speaks of the variables of one party only, so that a step *)
(* disturbs few of them.                                                   *)
(***************************************************************************)
Carrying == {"queue", "pinned", "scan", "nofree", "recheck", "asleep", "add"}

WorkerHands ==
  \A w \in Workers : pc[w] \in {"wake", "rdlock", "process", "release"} => cur[w] \in Packets
InputHands == \A i \in Inputs : iPc[i] \in Carrying => iPkt[i] \in Packets
CtlHands == ctl \in {"open", "join"} => ctlWho \in Inputs

WorkerInv == WorkerTypes /\ WorkerHands
InputInv == InputTypes /\ InputHands
CtlInv == CtlTypes /\ CtlHands
TypeInv == QueueTypes /\ WorkerInv /\ InputInv /\ CtlInv /\ HistTypes

(* The part of a party whose variables are left alone.                     *)
LEMMA Untouched ==
  ASSUME TypeInv
  PROVE  /\ UNCHANGED queueVars => QueueTypes'
         /\ UNCHANGED <<workerVars, pauseVars>> => WorkerInv'
         /\ UNCHANGED inputVars => InputInv'
         /\ UNCHANGED <<ctlVars, run, state, failed>> => CtlInv'
         /\ UNCHANGED histVars => HistTypes'
  <1>1. UNCHANGED queueVars => QueueTypes'
    BY DEF TypeInv, QueueTypes, queueVars
  <1>2. UNCHANGED <<workerVars, pauseVars>> => WorkerInv'
    BY DEF TypeInv, WorkerInv, WorkerTypes, WorkerHands, workerVars, pauseVars
  <1>3. UNCHANGED inputVars => InputInv'
    BY DEF TypeInv, InputInv, InputTypes, InputHands, inputVars
  <1>4. UNCHANGED <<ctlVars, run, state, failed>> => CtlInv'
    BY DEF TypeInv, CtlInv, CtlTypes, CtlHands, ctlVars
  <1>5. UNCHANGED histVars => HistTypes'
    BY DEF TypeInv, HistTypes, histVars
  <1> QED  BY <1>1, <1>2, <1>3, <1>4, <1>5

LEMMA ThreadZero == 0 \in Workers
  BY CoreAssumption DEF CoreAssumption

LEMMA HeadTail ==
  ASSUME NEW S, NEW s \in Seq(S), s # <<>>
  PROVE  Head(s) \in S /\ Tail(s) \in Seq(S) /\ Len(Tail(s)) = Len(s) - 1
  OBVIOUS

LEMMA NextThreadType ==
  ASSUME NEW w \in Workers
  PROVE  NextThread(w) \in Workers
  BY CoreAssumption DEF CoreAssumption, NextThread

LEMMA ThreadOfType ==
  ASSUME NEW aff \in Nat
  PROVE  ThreadOf(aff) \in Workers
  BY CoreAssumption DEF CoreAssumption, ThreadOf

(* Starting the scan over keeps the packet.                                *)
LEMMA RescanType ==
  ASSUME TypeInv, NEW i \in Inputs, iPc[i] \in Carrying, Rescan(i),
         UNCHANGED <<iPkt, iReq>>
  PROVE  InputInv'
  <1>1. start \in Workers /\ 0 \in 0 .. NumThreads
    BY CoreAssumption DEF CoreAssumption, TypeInv, QueueTypes
  <1>2. InputTypes'
    BY <1>1 DEF TypeInv, InputInv, InputTypes, InputPlaces, Rescan
  <1>3. InputHands'
    BY DEF TypeInv, InputInv, InputTypes, InputHands, Carrying, Rescan
  <1> QED  BY <1>2, <1>3 DEF InputInv

LEMMA TypeLoopTop ==
  ASSUME TypeInv, NEW w \in Workers, LoopTop(w)
  PROVE  TypeInv'
  <1>1. WorkerInv'
    BY DEF TypeInv, WorkerInv, WorkerTypes, WorkerHands, WorkerPlaces, HoldsQueue,
       workerVars, pauseVars, LoopTop
  <1> QED  BY <1>1, Untouched DEF TypeInv, LoopTop

LEMMA TypeLockQueue ==
  ASSUME TypeInv, NEW w \in Workers, LockQueue(w)
  PROVE  TypeInv'
  <1>1. QueueTypes'
    BY DEF TypeInv, QueueTypes, LockQueue, Move
  <1>2. WorkerInv'
    BY DEF TypeInv, WorkerInv, WorkerTypes, WorkerHands, WorkerPlaces, HoldsQueue,
       workerVars, pauseVars, LockQueue, Move
  <1> QED  BY <1>1, <1>2, Untouched DEF TypeInv, LockQueue, Move

LEMMA TypeQueueEmpty ==
  ASSUME TypeInv, NEW w \in Workers, QueueEmpty(w)
  PROVE  TypeInv'
  <1>1. WorkerInv'
    BY DEF TypeInv, WorkerInv, WorkerTypes, WorkerHands, WorkerPlaces, HoldsQueue,
       workerVars, pauseVars, QueueEmpty, Move
  <1> QED  BY <1>1, Untouched DEF TypeInv, QueueEmpty, Move

LEMMA TypeReadGauge ==
  ASSUME TypeInv, NEW w \in Workers, ReadGauge(w)
  PROVE  TypeInv'
  <1>1. WorkerInv'
    BY DEF TypeInv, WorkerInv, WorkerTypes, WorkerHands, WorkerPlaces, HoldsQueue,
       workerVars, pauseVars, ReadGauge
  <1> QED  BY <1>1, Untouched DEF TypeInv, ReadGauge

LEMMA TypeGetState ==
  ASSUME TypeInv, NEW w \in Workers, GetState(w)
  PROVE  TypeInv'
  <1>1. WorkerInv'
    BY DEF TypeInv, WorkerInv, WorkerTypes, WorkerHands, WorkerPlaces, HoldsQueue,
       workerVars, pauseVars, GetState
  <1> QED  BY <1>1, Untouched DEF TypeInv, GetState

LEMMA TypeSetIdle ==
  ASSUME TypeInv, NEW w \in Workers, SetIdle(w)
  PROVE  TypeInv'
  <1>1. WorkerInv'
    BY DEF TypeInv, WorkerInv, WorkerTypes, WorkerHands, WorkerPlaces, HoldsQueue,
       workerVars, pauseVars, SetIdle
  <1>2. CtlInv'
    BY DEF TypeInv, CtlInv, CtlTypes, CtlHands, CtlPlaces, ctlVars, SetIdle
  <1> QED  BY <1>1, <1>2, Untouched DEF TypeInv, SetIdle

LEMMA TypeStopPause ==
  ASSUME TypeInv, NEW w \in Workers, StopPause(w)
  PROVE  TypeInv'
  <1>1. WorkerInv'
    BY DEF TypeInv, WorkerInv, WorkerTypes, WorkerHands, WorkerPlaces, HoldsQueue,
       StopPause, Move
  <1> QED  BY <1>1, Untouched DEF TypeInv, StopPause, Move

LEMMA TypeStopFree ==
  ASSUME TypeInv, NEW w \in Workers, StopFree(w)
  PROVE  TypeInv'
  <1>1. WorkerInv'
    BY DEF TypeInv, WorkerInv, WorkerTypes, WorkerHands, WorkerPlaces, HoldsQueue,
       StopFree, Move
  <1>2. HistTypes'
    BY DEF TypeInv, HistTypes, StopFree, Move
  <1> QED  BY <1>1, <1>2, Untouched DEF TypeInv, StopFree, Move

LEMMA TypeReadRun ==
  ASSUME TypeInv, NEW w \in Workers, ReadRun(w)
  PROVE  TypeInv'
  <1>1. QueueTypes'
    BY DEF TypeInv, QueueTypes, ReadRun, Unlock
  <1>2. WorkerInv'
    BY DEF TypeInv, WorkerInv, WorkerTypes, WorkerHands, WorkerPlaces, HoldsQueue,
       workerVars, pauseVars, ReadRun, Unlock
  <1> QED  BY <1>1, <1>2, Untouched DEF TypeInv, ReadRun, Unlock

LEMMA TypeSleep ==
  ASSUME TypeInv, NEW w \in Workers, Sleep(w)
  PROVE  TypeInv'
  <1>1. QueueTypes'
    BY DEF TypeInv, QueueTypes, Sleep, Move, Unlock
  <1>2. WorkerInv'
    BY DEF TypeInv, WorkerInv, WorkerTypes, WorkerHands, WorkerPlaces, HoldsQueue,
       workerVars, pauseVars, Sleep, Move, Unlock
  <1> QED  BY <1>1, <1>2, Untouched DEF TypeInv, Sleep, Move, Unlock

LEMMA TypeWakeUp ==
  ASSUME TypeInv, NEW w \in Workers, WakeUp(w)
  PROVE  TypeInv'
  <1>1. QueueTypes'
    BY DEF TypeInv, QueueTypes, WakeUp, Move
  <1>2. WorkerInv'
    BY DEF TypeInv, WorkerInv, WorkerTypes, WorkerHands, WorkerPlaces, HoldsQueue,
       workerVars, pauseVars, WakeUp, Move
  <1> QED  BY <1>1, <1>2, Untouched DEF TypeInv, WakeUp, Move

LEMMA TypeDequeue ==
  ASSUME TypeInv, NEW w \in Workers, Dequeue(w)
  PROVE  TypeInv'
  <1>1. QueueTypes'
    <2>1. Tail(queue[w]) \in Seq(Packets)
      <3>1. queue[w] \in Seq(Packets) /\ queue[w] # <<>>
        BY DEF TypeInv, QueueTypes, Dequeue
      <3> QED  BY <3>1, HeadTail
    <2>2. queue' = [queue EXCEPT ![w] = Tail(queue[w])] /\ count' = count - 1
      BY DEF Dequeue, DropHead
    <2>3. qlock' = qlock \/ qlock' = [qlock EXCEPT ![w] = NoOne]
      BY DEF Dequeue, Unlock
    <2>4. start' = start
      BY DEF Dequeue
    <2> QED  BY <2>1, <2>2, <2>3, <2>4 DEF TypeInv, QueueTypes
  <1>2. WorkerInv'
    <2>1. Head(queue[w]) \in Packets
      <3>1. queue[w] \in Seq(Packets) /\ queue[w] # <<>>
        BY DEF TypeInv, QueueTypes, Dequeue
      <3> QED  BY <3>1, HeadTail
    <2>2. WorkerTypes'
      BY <2>1 DEF TypeInv, WorkerInv, WorkerTypes, WorkerPlaces, HoldsQueue, pauseVars, Dequeue
    <2>3. WorkerHands'
      BY <2>1 DEF TypeInv, WorkerInv, WorkerTypes, WorkerHands, Dequeue
    <2> QED  BY <2>2, <2>3 DEF WorkerInv
  <1> QED  BY <1>1, <1>2, Untouched DEF TypeInv, Dequeue, DropHead, Unlock

LEMMA TypeWakeInputs ==
  ASSUME TypeInv, NEW w \in Workers, WakeInputs(w)
  PROVE  TypeInv'
  <1>1. QueueTypes'
    BY DEF TypeInv, QueueTypes, WakeInputs, Move, Unlock
  <1>2. WorkerInv'
    BY DEF TypeInv, WorkerInv, WorkerTypes, WorkerHands, WorkerPlaces, HoldsQueue,
       workerVars, pauseVars, WakeInputs, Move, Unlock
  <1>3. /\ iPkt' = iPkt
        /\ \A j \in Inputs : iPc[j] # "asleep" => iPc'[j] = iPc[j]
        /\ \A j \in Inputs : iPc[j] = "asleep" => iPc'[j] = "scan"
    <2>1. iPkt' = iPkt
      BY DEF WakeInputs
    <2>2. iPc' = [j \in Inputs |-> IF j \in {k \in Inputs : iPc[k] = "asleep"}
                                  THEN "scan" ELSE iPc[j]]
      BY DEF WakeInputs
    <2>3. ASSUME NEW j \in Inputs, iPc[j] # "asleep" PROVE iPc'[j] = iPc[j]
      BY <2>2, <2>3
    <2>4. ASSUME NEW j \in Inputs, iPc[j] = "asleep" PROVE iPc'[j] = "scan"
      BY <2>2, <2>4
    <2> QED  BY <2>1, <2>3, <2>4
  <1>4. InputTypes'
    BY CoreAssumption, ThreadZero DEF TypeInv, InputInv, InputTypes, InputPlaces,
       WakeInputs, QueueTypes, CoreAssumption
  <1>5. InputHands'
    BY <1>3 DEF TypeInv, InputInv, InputTypes, InputHands, Carrying
  <1>6. InputInv'
    BY <1>4, <1>5 DEF InputInv
  <1> QED  BY <1>1, <1>2, <1>6, Untouched DEF TypeInv, WakeInputs, Move, Unlock

LEMMA TypeReadLock ==
  ASSUME TypeInv, NEW w \in Workers, ReadLock(w)
  PROVE  TypeInv'
  <1>1. WorkerInv'
    BY DEF TypeInv, WorkerInv, WorkerTypes, WorkerHands, WorkerPlaces, HoldsQueue,
       ReadLock, Move
  <1> QED  BY <1>1, Untouched DEF TypeInv, ReadLock, Move

LEMMA TypeProcessPacket ==
  ASSUME TypeInv, NEW w \in Workers, ProcessPacket(w)
  PROVE  TypeInv'
  <1>1. WorkerInv'
    BY DEF TypeInv, WorkerInv, WorkerTypes, WorkerHands, WorkerPlaces, HoldsQueue,
       ProcessPacket, Move
  <1>2. HistTypes'
    BY DEF TypeInv, HistTypes, histVars, ProcessPacket, Move, WorkerInv,
       WorkerTypes, WorkerHands, InputInv, InputTypes, InputHands, Carrying
  <1> QED  BY <1>1, <1>2, Untouched DEF TypeInv, ProcessPacket, Move

LEMMA TypeProcessFails ==
  ASSUME TypeInv, NEW w \in Workers, ProcessFails(w)
  PROVE  TypeInv'
  <1>1. WorkerInv'
    BY DEF TypeInv, WorkerInv, WorkerTypes, WorkerHands, WorkerPlaces, HoldsQueue,
       ProcessFails, Move
  <1>2. CtlInv'
    BY DEF TypeInv, CtlInv, CtlTypes, CtlHands, CtlPlaces, ctlVars, ProcessFails,
       Move
  <1> QED  BY <1>1, <1>2, Untouched DEF TypeInv, ProcessFails, Move

LEMMA TypeRelease ==
  ASSUME TypeInv, NEW w \in Workers, Release(w)
  PROVE  TypeInv'
  <1>1. WorkerInv'
    BY DEF TypeInv, WorkerInv, WorkerTypes, WorkerHands, WorkerPlaces, HoldsQueue,
       workerVars, pauseVars, Release, Move
  <1>2. HistTypes'
    BY DEF TypeInv, HistTypes, histVars, Release, Move, WorkerInv, WorkerTypes,
       WorkerHands, InputInv, InputTypes, InputHands, Carrying
  <1> QED  BY <1>1, <1>2, Untouched DEF TypeInv, Release, Move

LEMMA TypeHalt ==
  ASSUME TypeInv, NEW w \in Workers, Halt(w)
  PROVE  TypeInv'
  <1>1. WorkerInv'
    BY DEF TypeInv, WorkerInv, WorkerTypes, WorkerHands, WorkerPlaces, HoldsQueue,
       workerVars, pauseVars, Halt, Move
  <1>2. CtlInv'
    BY DEF TypeInv, CtlInv, CtlTypes, CtlHands, CtlPlaces, ctlVars, Halt, Move
  <1> QED  BY <1>1, <1>2, Untouched DEF TypeInv, Halt, Move

LEMMA TypeQueueRefused ==
  ASSUME TypeInv, NEW i \in Inputs, QueueRefused(i)
  PROVE  TypeInv'
  <1>1. InputInv'
    BY DEF TypeInv, InputInv, InputTypes, InputHands, Carrying, InputPlaces,
       QueueRefused, IMove
  <1> QED  BY <1>1, Untouched DEF TypeInv, QueueRefused, IMove

LEMMA TypeQueueChoose ==
  ASSUME TypeInv, NEW i \in Inputs, QueueChoose(i)
  PROVE  TypeInv'
  <1>1. InputInv'
    <2>1. PICK t \in Workers : iTid' = [iTid EXCEPT ![i] = t]
      <3>1. iReq[i].aff # NoAffinity => ThreadOf(iReq[i].aff) \in Workers
        BY ThreadOfType DEF TypeInv, InputInv, InputTypes
      <3> QED  BY <3>1 DEF TypeInv, QueueTypes, QueueChoose
    <2>2. iTry' = [iTry EXCEPT ![i] = 0] /\ 0 \in 0 .. NumThreads
      BY CoreAssumption DEF CoreAssumption, QueueChoose
    <2>3. InputTypes'
      BY <2>1, <2>2 DEF TypeInv, InputInv, InputTypes, InputPlaces, QueueChoose
    <2>4. InputHands'
      BY DEF TypeInv, InputInv, InputTypes, InputHands, Carrying, QueueChoose
    <2> QED  BY <2>3, <2>4 DEF InputInv
  <1> QED  BY <1>1, Untouched DEF TypeInv, QueueChoose

LEMMA TypeQueuePinned ==
  ASSUME TypeInv, NEW i \in Inputs, QueuePinned(i)
  PROVE  TypeInv'
  <1>1. QueueTypes'
    BY DEF TypeInv, QueueTypes, QueuePinned, IMove
  <1>2. InputInv'
    BY DEF TypeInv, InputInv, InputTypes, InputHands, Carrying, InputPlaces,
       QueuePinned, IMove
  <1> QED  BY <1>1, <1>2, Untouched DEF TypeInv, QueuePinned, IMove

LEMMA TypeScanThread ==
  ASSUME TypeInv, NEW i \in Inputs, ScanThread(i)
  PROVE  TypeInv'
  <1>1. QueueTypes'
    <2>1. NextThread(iTid[i]) \in Workers
      BY NextThreadType DEF TypeInv, InputInv, InputTypes
    <2> QED
      BY <2>1 DEF TypeInv, QueueTypes, ScanThread
  <1>2. InputInv'
    <2>1. NextThread(iTid[i]) \in Workers
      BY NextThreadType DEF TypeInv, InputInv, InputTypes
    <2>2. iTry[i] + 1 \in 0 .. NumThreads
      BY CoreAssumption DEF TypeInv, InputInv, InputTypes, ScanThread, CoreAssumption
    <2>3. InputTypes'
      BY <2>1, <2>2 DEF TypeInv, InputInv, InputTypes, InputPlaces, ScanThread
    <2>4. InputHands'
      BY DEF TypeInv, InputInv, InputTypes, InputHands, Carrying, ScanThread
    <2> QED  BY <2>3, <2>4 DEF InputInv
  <1> QED  BY <1>1, <1>2, Untouched DEF TypeInv, ScanThread

LEMMA TypeScanExhausted ==
  ASSUME TypeInv, NEW i \in Inputs, ScanExhausted(i)
  PROVE  TypeInv'
  <1>1. InputInv'
    BY DEF TypeInv, InputInv, InputTypes, InputHands, Carrying, InputPlaces,
       ScanExhausted, IMove
  <1> QED  BY <1>1, Untouched DEF TypeInv, ScanExhausted, IMove

LEMMA TypeScanFoundNone ==
  ASSUME TypeInv, NEW i \in Inputs, ScanFoundNone(i)
  PROVE  TypeInv'
  <1>1. InputInv'
    <2>0. iPc[i] \in Carrying /\ iReq' = iReq
      BY DEF ScanFoundNone, Carrying
    <2>1. CASE Rescan(i) /\ UNCHANGED iPkt
      BY <2>0, <2>1, RescanType
    <2>2. CASE /\ UNCHANGED <<iTid, iTry>>
               /\ \/ /\ iPc' = [iPc EXCEPT ![i] = "loop"]
                     /\ iPkt' = [iPkt EXCEPT ![i] = NoPkt]
                  \/ iPc' = [iPc EXCEPT ![i] = "recheck"] /\ UNCHANGED iPkt
      BY <2>0, <2>2 DEF TypeInv, InputInv, InputTypes, InputHands, Carrying, InputPlaces
    <2> QED  BY <2>1, <2>2 DEF ScanFoundNone
  <1>2. HistTypes'
    <2>1. iPkt[i] \in Packets
      BY DEF TypeInv, InputInv, InputTypes, InputHands, Carrying, ScanFoundNone
    <2>2. dropped' = dropped \/ dropped' = dropped \cup {iPkt[i]}
      BY DEF ScanFoundNone
    <2>3. UNCHANGED <<next, kept, done>>
      BY DEF ScanFoundNone
    <2> QED  BY <2>1, <2>2, <2>3 DEF TypeInv, HistTypes
  <1> QED  BY <1>1, <1>2, Untouched DEF TypeInv, ScanFoundNone, Rescan

LEMMA TypeRecheckFull ==
  ASSUME TypeInv, NEW i \in Inputs, RecheckFull(i)
  PROVE  TypeInv'
  <1>1. InputInv'
    <2>0. iPc[i] \in Carrying /\ UNCHANGED <<iPkt, iReq>>
      BY DEF RecheckFull, Carrying
    <2>1. CASE Rescan(i)
      BY <2>0, <2>1, RescanType
    <2>2. CASE iPc' = [iPc EXCEPT ![i] = "asleep"] /\ UNCHANGED <<iTid, iTry>>
      BY <2>0, <2>2 DEF TypeInv, InputInv, InputTypes, InputHands, Carrying, InputPlaces
    <2> QED  BY <2>1, <2>2 DEF RecheckFull
  <1> QED  BY <1>1, Untouched DEF TypeInv, RecheckFull, Rescan

LEMMA TypeAddPacket ==
  ASSUME TypeInv, NEW i \in Inputs, AddPacket(i)
  PROVE  TypeInv'
  <1>1. QueueTypes'
    BY DEF TypeInv, QueueTypes, queueVars, AddPacket, IMove, AtTail, InputInv,
       InputTypes, InputHands, Carrying
  <1>2. WorkerInv'
    BY DEF TypeInv, WorkerInv, WorkerTypes, WorkerHands, WorkerPlaces, HoldsQueue,
       workerVars, pauseVars, AddPacket, IMove, AtTail
  <1>3. InputInv'
    BY DEF TypeInv, InputInv, InputTypes, InputHands, Carrying, InputPlaces,
       AddPacket, IMove, AtTail
  <1> QED  BY <1>1, <1>2, <1>3, Untouched DEF TypeInv, AddPacket, IMove, AtTail

LEMMA TypeAskStop ==
  ASSUME TypeInv, NEW i \in Inputs, AskStop(i)
  PROVE  TypeInv'
  <1>1. InputInv'
    BY DEF TypeInv, InputInv, InputTypes, InputHands, Carrying, InputPlaces, AskStop
  <1> QED  BY <1>1, Untouched DEF TypeInv, AskStop

LEMMA TypeSelfStop ==
  ASSUME TypeInv, NEW i \in Inputs, SelfStop(i)
  PROVE  TypeInv'
  <1>1. InputInv'
    BY DEF TypeInv, InputInv, InputTypes, InputHands, Carrying, InputPlaces,
       SelfStop, IMove
  <1>2. CtlInv'
    BY DEF TypeInv, CtlInv, CtlTypes, CtlHands, CtlPlaces, SelfStop, IMove
  <1> QED  BY <1>1, <1>2, Untouched DEF TypeInv, SelfStop, IMove

LEMMA TypeLeaveLoop ==
  ASSUME TypeInv, NEW i \in Inputs, LeaveLoop(i)
  PROVE  TypeInv'
  <1>1. InputInv'
    BY DEF TypeInv, InputInv, InputTypes, InputHands, Carrying, InputPlaces,
       LeaveLoop, IMove
  <1> QED  BY <1>1, Untouched DEF TypeInv, LeaveLoop, IMove

LEMMA TypeCloseInput ==
  ASSUME TypeInv, NEW i \in Inputs, CloseInput(i)
  PROVE  TypeInv'
  <1>1. InputInv'
    BY DEF TypeInv, InputInv, InputTypes, InputHands, Carrying, InputPlaces,
       CloseInput, IMove
  <1> QED  BY <1>1, Untouched DEF TypeInv, CloseInput, IMove

LEMMA TypeReadPacket ==
  ASSUME TypeInv, NEW i \in Inputs, ReadPacket(i)
  PROVE  TypeInv'
  <1>1. InputInv'
    <2>1. next \in Packets
      BY DEF TypeInv, HistTypes, ReadPacket
    <2>2. PICK r \in Flags : iReq' = [iReq EXCEPT ![i] = r]
      BY CoreAssumption DEF CoreAssumption, ReadPacket
    <2>3. InputTypes'
      BY <2>1, <2>2 DEF TypeInv, InputInv, InputTypes, InputPlaces, ReadPacket, IMove
    <2>4. InputHands'
      BY <2>1 DEF TypeInv, InputInv, InputTypes, InputHands, Carrying, ReadPacket, IMove
    <2> QED  BY <2>3, <2>4 DEF InputInv
  <1>2. HistTypes'
    BY CoreAssumption, ThreadZero DEF TypeInv, HistTypes, ReadPacket, IMove,
       CoreAssumption
  <1> QED  BY <1>1, <1>2, Untouched DEF TypeInv, ReadPacket, IMove

LEMMA TypeReadEnd ==
  ASSUME TypeInv, NEW i \in Inputs, ReadEnd(i)
  PROVE  TypeInv'
  <1>1. InputInv'
    BY DEF TypeInv, InputInv, InputTypes, InputHands, Carrying, InputPlaces,
       ReadEnd, IMove
  <1> QED  BY <1>1, Untouched DEF TypeInv, ReadEnd, IMove

LEMMA TypeStartInput ==
  ASSUME TypeInv, NEW i \in Inputs, StartInput(i)
  PROVE  TypeInv'
  <1>1. CtlInv'
    BY CoreAssumption, ThreadZero DEF TypeInv, CtlInv, CtlTypes, CtlHands,
       CtlPlaces, StartInput, CMove, CoreAssumption
  <1> QED  BY <1>1, Untouched DEF TypeInv, StartInput, CMove

LEMMA TypeStopInput ==
  ASSUME TypeInv, NEW i \in Inputs, StopInput(i)
  PROVE  TypeInv'
  <1>1. CtlInv'
    BY DEF TypeInv, CtlInv, CtlTypes, CtlHands, CtlPlaces, StopInput, CMove
  <1> QED  BY <1>1, Untouched DEF TypeInv, StopInput, CMove

LEMMA TypeOpenInput ==
  ASSUME TypeInv, OpenInput
  PROVE  TypeInv'
  <1>1. InputInv'
    BY DEF TypeInv, InputInv, InputTypes, InputHands, Carrying, InputPlaces,
       OpenInput, CMove
  <1>2. CtlInv'
    BY DEF TypeInv, CtlInv, CtlTypes, CtlHands, CtlPlaces, OpenInput, CMove
  <1> QED  BY <1>1, <1>2, Untouched DEF TypeInv, OpenInput, CMove

LEMMA TypeSetRunning ==
  ASSUME TypeInv, SetRunning
  PROVE  TypeInv'
  <1>1. CtlInv'
    BY DEF TypeInv, CtlInv, CtlTypes, CtlHands, CtlPlaces, SetRunning
  <1> QED  BY <1>1, Untouched DEF TypeInv, SetRunning

LEMMA TypeStartProcessing ==
  ASSUME TypeInv, StartProcessing
  PROVE  TypeInv'
  <1>1. CtlInv'
    BY DEF TypeInv, CtlInv, CtlTypes, CtlHands, CtlPlaces, StartProcessing, CMove
  <1> QED  BY <1>1, Untouched DEF TypeInv, StartProcessing, CMove

LEMMA TypeJoinInput ==
  ASSUME TypeInv, JoinInput
  PROVE  TypeInv'
  <1>1. CtlInv'
    BY DEF TypeInv, CtlInv, CtlTypes, CtlHands, CtlPlaces, JoinInput
  <1> QED  BY <1>1, Untouched DEF TypeInv, JoinInput

LEMMA TypeSetFinishing ==
  ASSUME TypeInv, SetFinishing
  PROVE  TypeInv'
  <1>1. CtlInv'
    BY CoreAssumption, ThreadZero DEF TypeInv, CtlInv, CtlTypes, CtlHands,
       CtlPlaces, SetFinishing, CoreAssumption
  <1> QED  BY <1>1, Untouched DEF TypeInv, SetFinishing

LEMMA TypeNotifyThread ==
  ASSUME TypeInv, NotifyThread
  PROVE  TypeInv'
  <1>1. WorkerInv'
    BY DEF TypeInv, WorkerInv, WorkerTypes, WorkerHands, WorkerPlaces, HoldsQueue,
       workerVars, pauseVars, NotifyThread, Signal, NextTid
  <1>2. CtlInv'
    BY CoreAssumption, ThreadZero DEF TypeInv, CtlInv, CtlTypes, CtlHands,
       CtlPlaces, NotifyThread, Signal, NextTid, CoreAssumption
  <1> QED  BY <1>1, <1>2, Untouched DEF TypeInv, NotifyThread, Signal, NextTid

LEMMA TypeInputsStopped ==
  ASSUME TypeInv, InputsStopped
  PROVE  TypeInv'
  <1>1. CtlInv'
    BY DEF TypeInv, CtlInv, CtlTypes, CtlHands, CtlPlaces, InputsStopped
  <1> QED  BY <1>1, Untouched DEF TypeInv, InputsStopped

LEMMA TypeWaitIdle ==
  ASSUME TypeInv, WaitIdle
  PROVE  TypeInv'
  <1>1. CtlInv'
    BY DEF TypeInv, CtlInv, CtlTypes, CtlHands, CtlPlaces, WaitIdle, CMove
  <1> QED  BY <1>1, Untouched DEF TypeInv, WaitIdle, CMove

LEMMA TypeStopRun ==
  ASSUME TypeInv, StopRun
  PROVE  TypeInv'
  <1>1. CtlInv'
    BY CoreAssumption, ThreadZero DEF TypeInv, CtlInv, CtlTypes, CtlHands,
       CtlPlaces, StopRun, CMove, CoreAssumption
  <1> QED  BY <1>1, Untouched DEF TypeInv, StopRun, CMove

LEMMA TypeSignalThread ==
  ASSUME TypeInv, SignalThread
  PROVE  TypeInv'
  <1>1. WorkerInv'
    BY DEF TypeInv, WorkerInv, WorkerTypes, WorkerHands, WorkerPlaces, HoldsQueue,
       workerVars, pauseVars, SignalThread, CMove, Signal
  <1>2. CtlInv'
    BY DEF TypeInv, CtlInv, CtlTypes, CtlHands, CtlPlaces, SignalThread, CMove,
       Signal
  <1> QED  BY <1>1, <1>2, Untouched DEF TypeInv, SignalThread, CMove, Signal

LEMMA TypeJoinThread ==
  ASSUME TypeInv, JoinThread
  PROVE  TypeInv'
  <1>1. QueueTypes'
    <2>1. <<>> \in Seq(Packets)
      OBVIOUS
    <2> QED
      BY <2>1 DEF TypeInv, QueueTypes, JoinThread
  <1>2. CtlInv'
    BY CoreAssumption, ThreadZero DEF TypeInv, CtlInv, CtlTypes, CtlHands,
       CtlPlaces, JoinThread, NextTid, CoreAssumption
  <1> QED  BY <1>1, <1>2, Untouched DEF TypeInv, JoinThread, NextTid

LEMMA TypeTerminate ==
  ASSUME TypeInv, Terminate
  PROVE  TypeInv'
  <1>1. CtlInv'
    BY DEF TypeInv, CtlInv, CtlTypes, CtlHands, CtlPlaces, Terminate
  <1> QED  BY <1>1, Untouched DEF TypeInv, Terminate

LEMMA TypeNext ==
  ASSUME TypeInv, [Next]_vars
  PROVE  TypeInv'
  <1>1. ASSUME NEW w \in Workers, WorkerStep(w) PROVE TypeInv'
    BY <1>1, TypeLoopTop, TypeLockQueue, TypeQueueEmpty, TypeReadGauge,
       TypeGetState, TypeSetIdle, TypeStopPause, TypeStopFree, TypeReadRun, TypeSleep,
       TypeWakeUp, TypeDequeue, TypeWakeInputs, TypeReadLock, TypeProcessPacket,
       TypeProcessFails, TypeRelease, TypeHalt DEF WorkerStep
  <1>2. ASSUME NEW i \in Inputs, InputStep(i) PROVE TypeInv'
    BY <1>2, TypeQueueRefused, TypeQueueChoose, TypeQueuePinned, TypeScanThread,
       TypeScanExhausted, TypeScanFoundNone, TypeRecheckFull, TypeAddPacket,
       TypeAskStop, TypeSelfStop, TypeLeaveLoop, TypeCloseInput DEF InputStep
  <1>3. ASSUME NEW i \in Inputs,
               ReadPacket(i) \/ ReadEnd(i) \/ StartInput(i) \/ StopInput(i)
        PROVE  TypeInv'
    BY <1>3, TypeReadPacket, TypeReadEnd, TypeStartInput, TypeStopInput
  <1>4. CASE CtlStep
    BY <1>4, TypeOpenInput, TypeSetRunning, TypeStartProcessing, TypeJoinInput,
       TypeSetFinishing, TypeNotifyThread, TypeInputsStopped, TypeWaitIdle,
       TypeStopRun, TypeSignalThread, TypeJoinThread DEF CtlStep
  <1>5. CASE Terminate
    BY <1>5, TypeTerminate
  <1>6. CASE UNCHANGED vars
    BY <1>6, Untouched DEF TypeInv, vars
  <1> QED  BY <1>1, <1>2, <1>3, <1>4, <1>5, <1>6 DEF Next, Ended

LEMMA TypeInit ==
  ASSUME Init
  PROVE  TypeInv
  <1>1. QueueTypes /\ InputInv
    BY ThreadZero, CoreAssumption DEF Init, QueueTypes, InputInv, InputTypes, InputHands,
       Carrying, InputPlaces, CoreAssumption
  <1>2. WorkerInv
    BY CoreAssumption DEF Init, WorkerInv, WorkerTypes, WorkerHands, WorkerPlaces,
       CoreAssumption
  <1>3. CtlInv
    <2>1. {run, shutdown, failed} \subseteq BOOLEAN
      BY DEF Init
    <2>2. starts \in 0 .. MaxStarts
      BY CoreAssumption DEF Init, CoreAssumption
    <2> QED
      BY <2>1, <2>2, ThreadZero DEF Init, CtlInv, CtlTypes, CtlHands, CtlPlaces
  <1>4. HistTypes
    BY CoreAssumption DEF Init, HistTypes, CoreAssumption
  <1> QED  BY <1>1, <1>2, <1>3, <1>4 DEF TypeInv

(***************************************************************************)
(* The queue locks: QueueLockHeld is inductive by itself.                  *)
(***************************************************************************)
LEMMA LockUntouched ==
  ASSUME QueueLockHeld, UNCHANGED <<qlock, pc, iPc, iTid>>
  PROVE  QueueLockHeld'
  BY DEF QueueLockHeld

LEMMA LockNext ==
  ASSUME TypeInv, QueueLockHeld, [Next]_vars
  PROVE  QueueLockHeld'
  <1>1. ASSUME NEW w \in Workers, LoopTop(w) PROVE QueueLockHeld'
    BY <1>1, CoreAssumption DEF QueueLockHeld, HoldsQueue, CoreAssumption, TypeInv,
       QueueTypes, WorkerInv, WorkerTypes, InputInv, InputTypes, queueVars, workerVars,
       inputVars, LoopTop
  <1>2. ASSUME NEW w \in Workers, LockQueue(w) PROVE QueueLockHeld'
    BY <1>2, CoreAssumption DEF QueueLockHeld, HoldsQueue, CoreAssumption, TypeInv,
       QueueTypes, WorkerInv, WorkerTypes, InputInv, InputTypes, queueVars, workerVars,
       inputVars, LockQueue, Move, LockFree
  <1>3. ASSUME NEW w \in Workers, QueueEmpty(w) PROVE QueueLockHeld'
    BY <1>3, CoreAssumption DEF QueueLockHeld, HoldsQueue, CoreAssumption, TypeInv,
       QueueTypes, WorkerInv, WorkerTypes, InputInv, InputTypes, queueVars, workerVars,
       inputVars, QueueEmpty, Move
  <1>4. ASSUME NEW w \in Workers, ReadGauge(w) PROVE QueueLockHeld'
    BY <1>4, CoreAssumption DEF QueueLockHeld, HoldsQueue, CoreAssumption, TypeInv,
       QueueTypes, WorkerInv, WorkerTypes, InputInv, InputTypes, queueVars, workerVars,
       inputVars, ReadGauge
  <1>5. ASSUME NEW w \in Workers, GetState(w) PROVE QueueLockHeld'
    BY <1>5, CoreAssumption DEF QueueLockHeld, HoldsQueue, CoreAssumption, TypeInv,
       QueueTypes, WorkerInv, WorkerTypes, InputInv, InputTypes, queueVars, workerVars,
       inputVars, GetState
  <1>6. ASSUME NEW w \in Workers, SetIdle(w) PROVE QueueLockHeld'
    BY <1>6, CoreAssumption DEF QueueLockHeld, HoldsQueue, CoreAssumption, TypeInv,
       QueueTypes, WorkerInv, WorkerTypes, InputInv, InputTypes, queueVars, workerVars,
       inputVars, SetIdle
  <1>7. ASSUME NEW w \in Workers, StopPause(w) PROVE QueueLockHeld'
    BY <1>7, CoreAssumption DEF QueueLockHeld, HoldsQueue, CoreAssumption, TypeInv,
       QueueTypes, WorkerInv, WorkerTypes, InputInv, InputTypes, queueVars, workerVars,
       inputVars, StopPause, Move, CanPause
  <1>8. ASSUME NEW w \in Workers, StopFree(w) PROVE QueueLockHeld'
    BY <1>8, CoreAssumption DEF QueueLockHeld, HoldsQueue, CoreAssumption, TypeInv,
       QueueTypes, WorkerInv, WorkerTypes, InputInv, InputTypes, queueVars, workerVars,
       inputVars, StopFree, Move
  <1>9. ASSUME NEW w \in Workers, ReadRun(w) PROVE QueueLockHeld'
    <2>1. CASE run
      BY <1>9, <2>1 DEF QueueLockHeld, HoldsQueue, TypeInv, WorkerInv, WorkerTypes, inputVars,
         ReadRun
    <2>2. CASE ~run
      <3>1. /\ qlock' = [qlock EXCEPT ![w] = NoOne]
            /\ pc' = [pc EXCEPT ![w] = "dead"]
            /\ UNCHANGED <<iPc, iTid>>
        BY <1>9, <2>2 DEF ReadRun, Unlock, inputVars
      <3>2. qlock[w] = w
        BY <1>9 DEF QueueLockHeld, HoldsQueue, ReadRun
      <3>3. \A j \in Inputs : iPc[j] = "add" => iTid[j] # w
        BY <3>2, CoreAssumption DEF QueueLockHeld, CoreAssumption
      <3> QED
        BY <3>1, <3>3 DEF QueueLockHeld, HoldsQueue, TypeInv, QueueTypes, WorkerInv, WorkerTypes
    <2> QED  BY <2>1, <2>2
  <1>10. ASSUME NEW w \in Workers, Sleep(w) PROVE QueueLockHeld'
    BY <1>10, CoreAssumption DEF QueueLockHeld, HoldsQueue, CoreAssumption, TypeInv,
       QueueTypes, WorkerInv, WorkerTypes, InputInv, InputTypes, queueVars, workerVars,
       inputVars, Sleep, Move, Unlock
  <1>11. ASSUME NEW w \in Workers, WakeUp(w) PROVE QueueLockHeld'
    BY <1>11, CoreAssumption DEF QueueLockHeld, HoldsQueue, CoreAssumption, TypeInv,
       QueueTypes, WorkerInv, WorkerTypes, InputInv, InputTypes, queueVars, workerVars,
       inputVars, WakeUp, Move, LockFree
  <1>12. ASSUME NEW w \in Workers, Dequeue(w) PROVE QueueLockHeld'
    <2>1. CASE Wakes(w)
      BY <1>12, <2>1 DEF QueueLockHeld, HoldsQueue, TypeInv, WorkerInv, WorkerTypes, inputVars,
         Dequeue
    <2>2. CASE ~Wakes(w)
      <3>1. /\ qlock' = [qlock EXCEPT ![w] = NoOne]
            /\ pc' = [pc EXCEPT ![w] = "rdlock"]
            /\ UNCHANGED <<iPc, iTid>>
        BY <1>12, <2>2 DEF Dequeue, Unlock, inputVars
      <3>2. qlock[w] = w
        BY <1>12 DEF QueueLockHeld, HoldsQueue, Dequeue
      <3>3. \A j \in Inputs : iPc[j] = "add" => iTid[j] # w
        BY <3>2, CoreAssumption DEF QueueLockHeld, CoreAssumption
      <3> QED
        BY <3>1, <3>3 DEF QueueLockHeld, HoldsQueue, TypeInv, QueueTypes, WorkerInv, WorkerTypes
    <2> QED  BY <2>1, <2>2
  <1>13. ASSUME NEW w \in Workers, WakeInputs(w) PROVE QueueLockHeld'
    BY <1>13, CoreAssumption DEF QueueLockHeld, HoldsQueue, CoreAssumption, TypeInv,
       QueueTypes, WorkerInv, WorkerTypes, InputInv, InputTypes, queueVars, workerVars,
       inputVars, WakeInputs, Move, Unlock
  <1>14. ASSUME NEW w \in Workers, ReadLock(w) PROVE QueueLockHeld'
    BY <1>14, CoreAssumption DEF QueueLockHeld, HoldsQueue, CoreAssumption, TypeInv,
       QueueTypes, WorkerInv, WorkerTypes, InputInv, InputTypes, queueVars, workerVars,
       inputVars, ReadLock, Move
  <1>15. ASSUME NEW w \in Workers, ProcessPacket(w) PROVE QueueLockHeld'
    BY <1>15, CoreAssumption DEF QueueLockHeld, HoldsQueue, CoreAssumption, TypeInv,
       QueueTypes, WorkerInv, WorkerTypes, InputInv, InputTypes, queueVars, workerVars,
       inputVars, ProcessPacket, Move
  <1>16. ASSUME NEW w \in Workers, ProcessFails(w) PROVE QueueLockHeld'
    BY <1>16, CoreAssumption DEF QueueLockHeld, HoldsQueue, CoreAssumption, TypeInv,
       QueueTypes, WorkerInv, WorkerTypes, InputInv, InputTypes, queueVars, workerVars,
       inputVars, ProcessFails, Move
  <1>17. ASSUME NEW w \in Workers, Release(w) PROVE QueueLockHeld'
    BY <1>17, CoreAssumption DEF QueueLockHeld, HoldsQueue, CoreAssumption, TypeInv,
       QueueTypes, WorkerInv, WorkerTypes, InputInv, InputTypes, queueVars, workerVars,
       inputVars, Release, Move
  <1>18. ASSUME NEW w \in Workers, Halt(w) PROVE QueueLockHeld'
    BY <1>18, CoreAssumption DEF QueueLockHeld, HoldsQueue, CoreAssumption, TypeInv,
       QueueTypes, WorkerInv, WorkerTypes, InputInv, InputTypes, queueVars, workerVars,
       inputVars, Halt, Move
  <1>19. ASSUME NEW i \in Inputs, QueueRefused(i) PROVE QueueLockHeld'
    BY <1>19, CoreAssumption DEF QueueLockHeld, HoldsQueue, CoreAssumption, TypeInv,
       QueueTypes, WorkerInv, WorkerTypes, InputInv, InputTypes, queueVars, workerVars,
       inputVars, QueueRefused, IMove
  <1>20. ASSUME NEW i \in Inputs, QueueChoose(i) PROVE QueueLockHeld'
    <2>1. \A j \in Inputs : iPc'[j] = "add" => iPc[j] = "add" /\ iTid'[j] = iTid[j]
      BY <1>20 DEF TypeInv, InputInv, InputTypes, QueueChoose
    <2>2. UNCHANGED <<qlock, pc>>
      BY <1>20 DEF QueueChoose, queueVars, workerVars
    <2> QED  BY <2>1, <2>2 DEF QueueLockHeld
  <1>21. ASSUME NEW i \in Inputs, QueuePinned(i) PROVE QueueLockHeld'
    BY <1>21, CoreAssumption DEF QueueLockHeld, HoldsQueue, CoreAssumption, TypeInv,
       QueueTypes, WorkerInv, WorkerTypes, InputInv, InputTypes, queueVars, workerVars,
       inputVars, QueuePinned, IMove, LockFree
  <1>22. ASSUME NEW i \in Inputs, ScanThread(i) PROVE QueueLockHeld'
    <2> DEFINE t == NextThread(iTid[i])
    <2>1. t \in Workers
      BY NextThreadType DEF TypeInv, InputInv, InputTypes
    <2>2. CASE LockFree(t) /\ HasRoom(t)
      <3>1. /\ iPc' = [iPc EXCEPT ![i] = "add"]
            /\ iTid' = [iTid EXCEPT ![i] = t]
            /\ qlock' = [qlock EXCEPT ![t] = i]
            /\ pc' = pc
        BY <1>22, <2>2 DEF ScanThread, workerVars
      <3>2. /\ qlock \in [Workers -> Workers \cup Inputs \cup {NoOne}]
            /\ iPc \in [Inputs -> InputPlaces] /\ iTid \in [Inputs -> Workers]
        BY DEF TypeInv, QueueTypes, InputInv, InputTypes
      <3>3. qlock[t] = NoOne /\ NoOne \notin Workers \cup Inputs
        BY <2>2, CoreAssumption DEF LockFree, CoreAssumption
      <3>4. ASSUME NEW w \in Workers, pc'[w] \in HoldsQueue PROVE qlock'[w] = w
        BY <2>1, <3>1, <3>2, <3>3, <3>4 DEF QueueLockHeld
      <3>5. ASSUME NEW j \in Inputs, iPc'[j] = "add" PROVE qlock'[iTid'[j]] = j
        <4>1. CASE j = i
          BY <2>1, <3>1, <3>2, <4>1
        <4>2. CASE j # i
          BY <2>1, <3>1, <3>2, <3>3, <3>5, <4>2 DEF QueueLockHeld
        <4> QED  BY <4>1, <4>2
      <3> QED  BY <3>4, <3>5 DEF QueueLockHeld
    <2>3. CASE ~(LockFree(t) /\ HasRoom(t))
      BY <1>22, <2>3 DEF QueueLockHeld, TypeInv, InputInv, InputTypes, workerVars, ScanThread
    <2> QED  BY <2>2, <2>3
  <1>23. ASSUME NEW i \in Inputs, ScanExhausted(i) PROVE QueueLockHeld'
    BY <1>23, CoreAssumption DEF QueueLockHeld, HoldsQueue, CoreAssumption, TypeInv,
       QueueTypes, WorkerInv, WorkerTypes, InputInv, InputTypes, queueVars, workerVars,
       inputVars, ScanExhausted, IMove
  <1>24. ASSUME NEW i \in Inputs, ScanFoundNone(i) PROVE QueueLockHeld'
    BY <1>24, CoreAssumption DEF QueueLockHeld, HoldsQueue, CoreAssumption, TypeInv,
       QueueTypes, WorkerInv, WorkerTypes, InputInv, InputTypes, queueVars, workerVars,
       inputVars, ScanFoundNone, Rescan
  <1>25. ASSUME NEW i \in Inputs, RecheckFull(i) PROVE QueueLockHeld'
    <2>1. UNCHANGED <<qlock, pc>>
      BY <1>25 DEF RecheckFull, queueVars, workerVars
    <2>2. \A j \in Inputs : iPc'[j] = "add" => iPc[j] = "add" /\ iTid'[j] = iTid[j]
      BY <1>25 DEF TypeInv, InputInv, InputTypes, RecheckFull, Rescan
    <2> QED  BY <2>1, <2>2 DEF QueueLockHeld
  <1>26. ASSUME NEW i \in Inputs, AddPacket(i) PROVE QueueLockHeld'
    <2> DEFINE t == iTid[i]
    <2>1. /\ qlock' = [qlock EXCEPT ![t] = NoOne] /\ UNCHANGED iTid
          /\ iPc[i] = "add" /\ iPc' = [iPc EXCEPT ![i] = "loop"]
      BY <1>26 DEF AddPacket, IMove
    <2>2. \A w \in Workers : pc'[w] \in HoldsQueue => pc[w] \in HoldsQueue
      BY <1>26 DEF TypeInv, WorkerInv, WorkerTypes, HoldsQueue, AddPacket
    <2>3. /\ qlock \in [Workers -> Workers \cup Inputs \cup {NoOne}]
          /\ iPc \in [Inputs -> InputPlaces] /\ iTid \in [Inputs -> Workers]
      BY DEF TypeInv, QueueTypes, InputInv, InputTypes
    <2>4. qlock[t] = i /\ i \notin Workers
      BY <2>1, CoreAssumption DEF QueueLockHeld, CoreAssumption
    <2>5. \A w \in Workers : pc'[w] \in HoldsQueue => qlock'[w] = w
      BY <2>1, <2>2, <2>3, <2>4 DEF QueueLockHeld
    <2>6. \A j \in Inputs : iPc'[j] = "add" => qlock'[iTid'[j]] = j
      BY <2>1, <2>3, <2>4 DEF QueueLockHeld
    <2> QED  BY <2>5, <2>6 DEF QueueLockHeld
  <1>27a. ASSUME NEW i \in Inputs, AskStop(i) PROVE QueueLockHeld'
    BY <1>27a, CoreAssumption DEF QueueLockHeld, HoldsQueue, CoreAssumption, TypeInv,
       QueueTypes, WorkerInv, WorkerTypes, InputInv, InputTypes, queueVars, workerVars,
       inputVars, AskStop, IMove
  <1>27. ASSUME NEW i \in Inputs, SelfStop(i) PROVE QueueLockHeld'
    BY <1>27, CoreAssumption DEF QueueLockHeld, HoldsQueue, CoreAssumption, TypeInv,
       QueueTypes, WorkerInv, WorkerTypes, InputInv, InputTypes, queueVars, workerVars,
       inputVars, SelfStop, IMove
  <1>28. ASSUME NEW i \in Inputs, LeaveLoop(i) PROVE QueueLockHeld'
    BY <1>28, CoreAssumption DEF QueueLockHeld, HoldsQueue, CoreAssumption, TypeInv,
       QueueTypes, WorkerInv, WorkerTypes, InputInv, InputTypes, queueVars, workerVars,
       inputVars, LeaveLoop, IMove
  <1>29. ASSUME NEW i \in Inputs, CloseInput(i) PROVE QueueLockHeld'
    BY <1>29, CoreAssumption DEF QueueLockHeld, HoldsQueue, CoreAssumption, TypeInv,
       QueueTypes, WorkerInv, WorkerTypes, InputInv, InputTypes, queueVars, workerVars,
       inputVars, CloseInput, IMove
  <1>30. ASSUME NEW i \in Inputs, ReadPacket(i) PROVE QueueLockHeld'
    BY <1>30, CoreAssumption DEF QueueLockHeld, HoldsQueue, CoreAssumption, TypeInv,
       QueueTypes, WorkerInv, WorkerTypes, InputInv, InputTypes, queueVars, workerVars,
       inputVars, ReadPacket, IMove
  <1>31. ASSUME NEW i \in Inputs, ReadEnd(i) PROVE QueueLockHeld'
    BY <1>31, CoreAssumption DEF QueueLockHeld, HoldsQueue, CoreAssumption, TypeInv,
       QueueTypes, WorkerInv, WorkerTypes, InputInv, InputTypes, queueVars, workerVars,
       inputVars, ReadEnd, IMove
  <1>32. ASSUME OpenInput PROVE QueueLockHeld'
    BY <1>32, CoreAssumption DEF QueueLockHeld, HoldsQueue, CoreAssumption, TypeInv,
       QueueTypes, WorkerInv, WorkerTypes, InputInv, InputTypes, queueVars, workerVars,
       inputVars, OpenInput, CMove
  <1>33. ASSUME NotifyThread PROVE QueueLockHeld'
    BY <1>33, CoreAssumption DEF QueueLockHeld, HoldsQueue, CoreAssumption, TypeInv,
       QueueTypes, WorkerInv, WorkerTypes, InputInv, InputTypes, queueVars, workerVars,
       inputVars, NotifyThread, Signal, LockFree, NextTid
  <1>34. ASSUME SignalThread PROVE QueueLockHeld'
    BY <1>34, CoreAssumption DEF QueueLockHeld, HoldsQueue, CoreAssumption, TypeInv,
       QueueTypes, WorkerInv, WorkerTypes, InputInv, InputTypes, queueVars, workerVars,
       inputVars, SignalThread, CMove, Signal
  <1>35. ASSUME NEW i \in Inputs,
              StartInput(i) \/ StopInput(i)
       PROVE  QueueLockHeld'
    BY <1>35, LockUntouched DEF StartInput, StopInput, queueVars, workerVars,
       inputVars
  <1>36. ASSUME SetRunning \/ StartProcessing \/ JoinInput \/ SetFinishing \/
              InputsStopped \/ WaitIdle \/ StopRun \/ JoinThread \/ Terminate \/ Ended
       PROVE  QueueLockHeld'
    BY <1>36, LockUntouched DEF SetRunning, StartProcessing, JoinInput,
       SetFinishing, InputsStopped, WaitIdle, StopRun, JoinThread, Terminate, Ended,
       vars, queueVars, workerVars, inputVars
  <1>37. CASE UNCHANGED vars
    BY <1>37, LockUntouched DEF vars, queueVars, workerVars, inputVars
  <1> QED
    BY <1>1, <1>2, <1>3, <1>4, <1>5, <1>6, <1>7, <1>8, <1>9, <1>10, <1>11, <1>12,
       <1>13, <1>14, <1>15, <1>16, <1>17, <1>18, <1>19, <1>20, <1>21, <1>22, <1>23,
       <1>24, <1>25, <1>26, <1>27a, <1>27, <1>28, <1>29, <1>30, <1>31, <1>32, <1>33, <1>34,
       <1>35, <1>36, <1>37 DEF Next, WorkerStep, InputStep, CtlStep

(***************************************************************************)
(* A thread that found its queue empty keeps the queue lock until it       *)
(* sleeps, so the queue is still empty when it does.                       *)
(***************************************************************************)
Idling == {"gauge", "getstate", "setidle", "pause", "stop", "quit", "tosleep", "wait"}
IdlingEmpty == \A w \in Workers : pc[w] \in Idling => queue[w] = <<>>

LEMMA EmptyUntouched ==
  ASSUME IdlingEmpty, UNCHANGED <<queue, pc>>
  PROVE  IdlingEmpty'
  BY DEF IdlingEmpty

LEMMA EmptyNext ==
  ASSUME TypeInv, QueueLockHeld, IdlingEmpty, [Next]_vars
  PROVE  IdlingEmpty'
  <1>1. ASSUME NEW w \in Workers, LoopTop(w) PROVE IdlingEmpty'
    BY <1>1 DEF IdlingEmpty, Idling, TypeInv, QueueTypes, WorkerInv, WorkerTypes,
       CtlInv, CtlTypes, queueVars, workerVars, LoopTop
  <1>2. ASSUME NEW w \in Workers, LockQueue(w) PROVE IdlingEmpty'
    BY <1>2 DEF IdlingEmpty, Idling, TypeInv, QueueTypes, WorkerInv, WorkerTypes,
       CtlInv, CtlTypes, queueVars, workerVars, LockQueue, Move, LockFree
  <1>3. ASSUME NEW w \in Workers, QueueEmpty(w) PROVE IdlingEmpty'
    BY <1>3 DEF IdlingEmpty, Idling, TypeInv, QueueTypes, WorkerInv, WorkerTypes,
       CtlInv, CtlTypes, queueVars, workerVars, QueueEmpty, Move
  <1>4. ASSUME NEW w \in Workers, ReadGauge(w) PROVE IdlingEmpty'
    BY <1>4 DEF IdlingEmpty, Idling, TypeInv, QueueTypes, WorkerInv, WorkerTypes,
       CtlInv, CtlTypes, queueVars, workerVars, ReadGauge
  <1>5. ASSUME NEW w \in Workers, GetState(w) PROVE IdlingEmpty'
    BY <1>5 DEF IdlingEmpty, Idling, TypeInv, QueueTypes, WorkerInv, WorkerTypes,
       CtlInv, CtlTypes, queueVars, workerVars, GetState
  <1>6. ASSUME NEW w \in Workers, SetIdle(w) PROVE IdlingEmpty'
    BY <1>6 DEF IdlingEmpty, Idling, TypeInv, QueueTypes, WorkerInv, WorkerTypes,
       CtlInv, CtlTypes, queueVars, workerVars, SetIdle
  <1>7. ASSUME NEW w \in Workers, StopPause(w) PROVE IdlingEmpty'
    BY <1>7 DEF IdlingEmpty, Idling, TypeInv, QueueTypes, WorkerInv, WorkerTypes,
       CtlInv, CtlTypes, queueVars, workerVars, StopPause, Move, CanPause
  <1>8. ASSUME NEW w \in Workers, StopFree(w) PROVE IdlingEmpty'
    BY <1>8 DEF IdlingEmpty, Idling, TypeInv, QueueTypes, WorkerInv, WorkerTypes,
       CtlInv, CtlTypes, queueVars, workerVars, StopFree, Move
  <1>9. ASSUME NEW w \in Workers, ReadRun(w) PROVE IdlingEmpty'
    BY <1>9 DEF IdlingEmpty, Idling, TypeInv, QueueTypes, WorkerInv, WorkerTypes,
       CtlInv, CtlTypes, queueVars, workerVars, ReadRun, Unlock
  <1>10. ASSUME NEW w \in Workers, Sleep(w) PROVE IdlingEmpty'
    BY <1>10 DEF IdlingEmpty, Idling, TypeInv, QueueTypes, WorkerInv, WorkerTypes,
       CtlInv, CtlTypes, queueVars, workerVars, Sleep, Move, Unlock
  <1>11. ASSUME NEW w \in Workers, WakeUp(w) PROVE IdlingEmpty'
    BY <1>11 DEF IdlingEmpty, Idling, TypeInv, QueueTypes, WorkerInv, WorkerTypes,
       CtlInv, CtlTypes, queueVars, workerVars, WakeUp, Move, LockFree
  <1>12. ASSUME NEW w \in Workers, Dequeue(w) PROVE IdlingEmpty'
    BY <1>12 DEF IdlingEmpty, Idling, TypeInv, QueueTypes, WorkerInv, WorkerTypes,
       CtlInv, CtlTypes, queueVars, workerVars, Dequeue, Unlock, DropHead
  <1>13. ASSUME NEW w \in Workers, WakeInputs(w) PROVE IdlingEmpty'
    BY <1>13 DEF IdlingEmpty, Idling, TypeInv, QueueTypes, WorkerInv, WorkerTypes,
       CtlInv, CtlTypes, queueVars, workerVars, WakeInputs, Move, Unlock
  <1>14. ASSUME NEW w \in Workers, ReadLock(w) PROVE IdlingEmpty'
    BY <1>14 DEF IdlingEmpty, Idling, TypeInv, QueueTypes, WorkerInv, WorkerTypes,
       CtlInv, CtlTypes, queueVars, workerVars, ReadLock, Move
  <1>15. ASSUME NEW w \in Workers, ProcessPacket(w) PROVE IdlingEmpty'
    BY <1>15 DEF IdlingEmpty, Idling, TypeInv, QueueTypes, WorkerInv, WorkerTypes,
       CtlInv, CtlTypes, queueVars, workerVars, ProcessPacket, Move
  <1>16. ASSUME NEW w \in Workers, ProcessFails(w) PROVE IdlingEmpty'
    BY <1>16 DEF IdlingEmpty, Idling, TypeInv, QueueTypes, WorkerInv, WorkerTypes,
       CtlInv, CtlTypes, queueVars, workerVars, ProcessFails, Move
  <1>17. ASSUME NEW w \in Workers, Release(w) PROVE IdlingEmpty'
    BY <1>17 DEF IdlingEmpty, Idling, TypeInv, QueueTypes, WorkerInv, WorkerTypes,
       CtlInv, CtlTypes, queueVars, workerVars, Release, Move
  <1>18. ASSUME NEW w \in Workers, Halt(w) PROVE IdlingEmpty'
    BY <1>18 DEF IdlingEmpty, Idling, TypeInv, QueueTypes, WorkerInv, WorkerTypes,
       CtlInv, CtlTypes, queueVars, workerVars, Halt, Move
  <1>19. ASSUME NEW i \in Inputs, AddPacket(i) PROVE IdlingEmpty'
    <2> DEFINE t == iTid[i]
    <2>1. t \in Workers /\ qlock[t] = i /\ i # t
      BY <1>19, CoreAssumption DEF QueueLockHeld, TypeInv, InputInv, InputTypes, CoreAssumption,
         AddPacket, IMove
    <2>2. pc[t] \notin HoldsQueue
      BY <2>1 DEF QueueLockHeld
    <2>3. \A u \in Workers \ {t} : pc'[u] = pc[u] /\ queue'[u] = queue[u]
      BY <1>19, <2>1 DEF TypeInv, QueueTypes, WorkerInv, WorkerTypes, AddPacket
    <2>4. pc'[t] \notin Idling
      <3>1. CASE pc[t] = "wait"
        BY <1>19, <2>1, <3>1 DEF IdlingEmpty, Idling, TypeInv, WorkerInv, WorkerTypes,
           SignalWhenEmpty, AddPacket
      <3>2. CASE pc[t] # "wait"
        BY <1>19, <2>1, <2>2, <3>2 DEF Idling, HoldsQueue, TypeInv, WorkerInv, WorkerTypes,
           AddPacket
      <3> QED  BY <3>1, <3>2
    <2> QED  BY <2>3, <2>4 DEF IdlingEmpty
  <1>20. ASSUME NotifyThread PROVE IdlingEmpty'
    BY <1>20 DEF IdlingEmpty, Idling, TypeInv, QueueTypes, WorkerInv, WorkerTypes,
       CtlInv, CtlTypes, queueVars, workerVars, NotifyThread, Signal, LockFree, NextTid
  <1>21. ASSUME SignalThread PROVE IdlingEmpty'
    BY <1>21 DEF IdlingEmpty, Idling, TypeInv, QueueTypes, WorkerInv, WorkerTypes,
       CtlInv, CtlTypes, queueVars, workerVars, SignalThread, CMove, Signal
  <1>22. ASSUME JoinThread PROVE IdlingEmpty'
    BY <1>22 DEF IdlingEmpty, Idling, TypeInv, QueueTypes, WorkerInv, WorkerTypes,
       CtlInv, CtlTypes, queueVars, workerVars, JoinThread
  <1>23. ASSUME NEW i \in Inputs,
              QueueRefused(i) \/ QueueChoose(i) \/ QueuePinned(i) \/ ScanThread(i) \/
              ScanExhausted(i) \/ ScanFoundNone(i) \/ RecheckFull(i) \/ AskStop(i) \/
              SelfStop(i) \/ LeaveLoop(i) \/ CloseInput(i) \/ ReadPacket(i) \/ ReadEnd(i) \/
              StartInput(i) \/ StopInput(i)
       PROVE  IdlingEmpty'
    BY <1>23, EmptyUntouched DEF QueueRefused, QueueChoose, QueuePinned, ScanThread,
       ScanExhausted, ScanFoundNone, RecheckFull, AskStop, SelfStop, LeaveLoop, CloseInput,
       ReadPacket, ReadEnd, StartInput, StopInput, queueVars, workerVars
  <1>24. ASSUME OpenInput \/ SetRunning \/ StartProcessing \/ JoinInput \/ SetFinishing \/
              InputsStopped \/ WaitIdle \/ StopRun \/ Terminate \/ Ended
       PROVE  IdlingEmpty'
    BY <1>24, EmptyUntouched DEF OpenInput, SetRunning, StartProcessing, JoinInput,
       SetFinishing, InputsStopped, WaitIdle, StopRun, Terminate, Ended, vars,
       queueVars, workerVars
  <1>25. CASE UNCHANGED vars
    BY <1>25, EmptyUntouched DEF vars, queueVars, workerVars
  <1> QED
    BY <1>1, <1>2, <1>3, <1>4, <1>5, <1>6, <1>7, <1>8, <1>9, <1>10, <1>11, <1>12,
       <1>13, <1>14, <1>15, <1>16, <1>17, <1>18, <1>19, <1>20, <1>21, <1>22, <1>23,
       <1>24, <1>25 DEF Next, WorkerStep, InputStep, CtlStep

(***************************************************************************)
(* The two sides of core_processing_lock.                                  *)
(***************************************************************************)
PauseInv ==
  /\ \A w \in Workers : pc[w] = "process" => w \in readers
  /\ \A w \in Workers : pc[w] = "stop" => writer = w
  /\ writer # NoOne => readers = {}

LEMMA PauseUntouched ==
  ASSUME PauseInv, UNCHANGED <<pc, readers, writer>>
  PROVE  PauseInv'
  BY DEF PauseInv

LEMMA PauseNext ==
  ASSUME TypeInv, PauseInv, [Next]_vars
  PROVE  PauseInv'
  <1>1. ASSUME NEW w \in Workers, LoopTop(w) PROVE PauseInv'
    BY <1>1, CoreAssumption DEF PauseInv, CoreAssumption, TypeInv, WorkerInv,
       WorkerTypes, workerVars, pauseVars, LoopTop
  <1>2. ASSUME NEW w \in Workers, LockQueue(w) PROVE PauseInv'
    BY <1>2, CoreAssumption DEF PauseInv, CoreAssumption, TypeInv, WorkerInv,
       WorkerTypes, workerVars, pauseVars, LockQueue, Move, LockFree
  <1>3. ASSUME NEW w \in Workers, QueueEmpty(w) PROVE PauseInv'
    BY <1>3, CoreAssumption DEF PauseInv, CoreAssumption, TypeInv, WorkerInv,
       WorkerTypes, workerVars, pauseVars, QueueEmpty, Move
  <1>4. ASSUME NEW w \in Workers, ReadGauge(w) PROVE PauseInv'
    BY <1>4, CoreAssumption DEF PauseInv, CoreAssumption, TypeInv, WorkerInv,
       WorkerTypes, workerVars, pauseVars, ReadGauge
  <1>5. ASSUME NEW w \in Workers, GetState(w) PROVE PauseInv'
    BY <1>5, CoreAssumption DEF PauseInv, CoreAssumption, TypeInv, WorkerInv,
       WorkerTypes, workerVars, pauseVars, GetState
  <1>6. ASSUME NEW w \in Workers, SetIdle(w) PROVE PauseInv'
    BY <1>6, CoreAssumption DEF PauseInv, CoreAssumption, TypeInv, WorkerInv,
       WorkerTypes, workerVars, pauseVars, SetIdle
  <1>7. ASSUME NEW w \in Workers, StopPause(w) PROVE PauseInv'
    BY <1>7, CoreAssumption DEF PauseInv, CoreAssumption, TypeInv, WorkerInv,
       WorkerTypes, workerVars, pauseVars, StopPause, Move, CanPause
  <1>8. ASSUME NEW w \in Workers, StopFree(w) PROVE PauseInv'
    BY <1>8, CoreAssumption DEF PauseInv, CoreAssumption, TypeInv, WorkerInv,
       WorkerTypes, workerVars, pauseVars, StopFree, Move
  <1>9. ASSUME NEW w \in Workers, ReadRun(w) PROVE PauseInv'
    BY <1>9, CoreAssumption DEF PauseInv, CoreAssumption, TypeInv, WorkerInv,
       WorkerTypes, workerVars, pauseVars, ReadRun, Unlock
  <1>10. ASSUME NEW w \in Workers, Sleep(w) PROVE PauseInv'
    BY <1>10, CoreAssumption DEF PauseInv, CoreAssumption, TypeInv, WorkerInv,
       WorkerTypes, workerVars, pauseVars, Sleep, Move, Unlock
  <1>11. ASSUME NEW w \in Workers, WakeUp(w) PROVE PauseInv'
    BY <1>11, CoreAssumption DEF PauseInv, CoreAssumption, TypeInv, WorkerInv,
       WorkerTypes, workerVars, pauseVars, WakeUp, Move, LockFree
  <1>12. ASSUME NEW w \in Workers, Dequeue(w) PROVE PauseInv'
    BY <1>12, CoreAssumption DEF PauseInv, CoreAssumption, TypeInv, WorkerInv,
       WorkerTypes, workerVars, pauseVars, Dequeue, Unlock, DropHead
  <1>13. ASSUME NEW w \in Workers, WakeInputs(w) PROVE PauseInv'
    BY <1>13, CoreAssumption DEF PauseInv, CoreAssumption, TypeInv, WorkerInv,
       WorkerTypes, workerVars, pauseVars, WakeInputs, Move, Unlock
  <1>14. ASSUME NEW w \in Workers, ReadLock(w) PROVE PauseInv'
    BY <1>14, CoreAssumption DEF PauseInv, CoreAssumption, TypeInv, WorkerInv,
       WorkerTypes, workerVars, pauseVars, ReadLock, Move
  <1>15. ASSUME NEW w \in Workers, ProcessPacket(w) PROVE PauseInv'
    BY <1>15, CoreAssumption DEF PauseInv, CoreAssumption, TypeInv, WorkerInv,
       WorkerTypes, workerVars, pauseVars, ProcessPacket, Move
  <1>16. ASSUME NEW w \in Workers, ProcessFails(w) PROVE PauseInv'
    BY <1>16, CoreAssumption DEF PauseInv, CoreAssumption, TypeInv, WorkerInv,
       WorkerTypes, workerVars, pauseVars, ProcessFails, Move
  <1>17. ASSUME NEW w \in Workers, Release(w) PROVE PauseInv'
    BY <1>17, CoreAssumption DEF PauseInv, CoreAssumption, TypeInv, WorkerInv,
       WorkerTypes, workerVars, pauseVars, Release, Move
  <1>18. ASSUME NEW w \in Workers, Halt(w) PROVE PauseInv'
    BY <1>18, CoreAssumption DEF PauseInv, CoreAssumption, TypeInv, WorkerInv,
       WorkerTypes, workerVars, pauseVars, Halt, Move
  <1>19. ASSUME NEW i \in Inputs, AddPacket(i) PROVE PauseInv'
    BY <1>19, CoreAssumption DEF PauseInv, CoreAssumption, TypeInv, WorkerInv,
       WorkerTypes, workerVars, pauseVars, AddPacket, IMove, AtTail, SignalWhenEmpty
  <1>20. ASSUME NotifyThread PROVE PauseInv'
    BY <1>20, CoreAssumption DEF PauseInv, CoreAssumption, TypeInv, WorkerInv,
       WorkerTypes, workerVars, pauseVars, NotifyThread, Signal, LockFree, NextTid
  <1>21. ASSUME SignalThread PROVE PauseInv'
    BY <1>21, CoreAssumption DEF PauseInv, CoreAssumption, TypeInv, WorkerInv,
       WorkerTypes, workerVars, pauseVars, SignalThread, CMove, Signal
  <1>22. ASSUME NEW i \in Inputs,
              QueueRefused(i) \/ QueueChoose(i) \/ QueuePinned(i) \/ ScanThread(i) \/
              ScanExhausted(i) \/ ScanFoundNone(i) \/ RecheckFull(i) \/ AskStop(i) \/
              SelfStop(i) \/ LeaveLoop(i) \/ CloseInput(i) \/ ReadPacket(i) \/ ReadEnd(i) \/
              StartInput(i) \/ StopInput(i)
       PROVE  PauseInv'
    BY <1>22, PauseUntouched DEF QueueRefused, QueueChoose, QueuePinned, ScanThread,
       ScanExhausted, ScanFoundNone, RecheckFull, AskStop, SelfStop, LeaveLoop, CloseInput,
       ReadPacket, ReadEnd, StartInput, StopInput, workerVars, pauseVars
  <1>23. ASSUME OpenInput \/ SetRunning \/ StartProcessing \/ JoinInput \/ SetFinishing \/
              InputsStopped \/ WaitIdle \/ StopRun \/ JoinThread \/ Terminate \/ Ended
       PROVE  PauseInv'
    BY <1>23, PauseUntouched DEF OpenInput, SetRunning, StartProcessing, JoinInput,
       SetFinishing, InputsStopped, WaitIdle, StopRun, JoinThread, Terminate, Ended,
       vars, workerVars, pauseVars
  <1>24. CASE UNCHANGED vars
    BY <1>24, PauseUntouched DEF vars, workerVars, pauseVars
  <1> QED
    BY <1>1, <1>2, <1>3, <1>4, <1>5, <1>6, <1>7, <1>8, <1>9, <1>10, <1>11, <1>12,
       <1>13, <1>14, <1>15, <1>16, <1>17, <1>18, <1>19, <1>20, <1>21, <1>22, <1>23,
       <1>24 DEF Next, WorkerStep, InputStep, CtlStep

(***************************************************************************)
(* The room seen by the scan is still there when the packet is added.      *)
(***************************************************************************)
RoomInv ==
  /\ UnpinnedHasRoom
  /\ \A i \in Inputs : iPc[i] = "pinned" => iReq[i].aff # NoAffinity

LEMMA RoomUntouched ==
  ASSUME RoomInv, UNCHANGED <<iPc, iReq, iTid, queue>>
  PROVE  RoomInv'
  BY DEF RoomInv, UnpinnedHasRoom

LEMMA RoomNext ==
  ASSUME TypeInv, QueueLockHeld, RoomInv, [Next]_vars
  PROVE  RoomInv'
  <1>1. ASSUME NEW w \in Workers, Dequeue(w) PROVE RoomInv'
    <2>1. queue[w] \in Seq(Packets) /\ queue[w] # <<>>
      BY <1>1 DEF TypeInv, QueueTypes, Dequeue
    <2>2. Len(DropHead(w)) = Len(queue[w]) - 1 /\ Len(queue[w]) \in Nat
      BY <2>1, HeadTail DEF DropHead
    <2>3. \A t \in Workers : Len(queue[t]) < QueueMax => Len(queue'[t]) < QueueMax
      BY <1>1, <2>2, CoreAssumption DEF TypeInv, QueueTypes, Dequeue, CoreAssumption
    <2> QED
      BY <1>1, <2>3 DEF RoomInv, UnpinnedHasRoom, TypeInv, InputInv, InputTypes, inputVars,
         Dequeue
  <1>2. ASSUME NEW w \in Workers, WakeInputs(w) PROVE RoomInv'
    BY <1>2 DEF RoomInv, UnpinnedHasRoom, TypeInv, QueueTypes, InputInv, InputTypes,
       CtlInv, CtlTypes, queueVars, inputVars, WakeInputs, Move, Unlock
  <1>3. ASSUME NEW i \in Inputs, QueueRefused(i) PROVE RoomInv'
    BY <1>3 DEF RoomInv, UnpinnedHasRoom, TypeInv, QueueTypes, InputInv, InputTypes,
       CtlInv, CtlTypes, queueVars, inputVars, QueueRefused, IMove
  <1>4. ASSUME NEW i \in Inputs, QueueChoose(i) PROVE RoomInv'
    BY <1>4 DEF RoomInv, UnpinnedHasRoom, TypeInv, QueueTypes, InputInv, InputTypes,
       CtlInv, CtlTypes, queueVars, inputVars, QueueChoose
  <1>5. ASSUME NEW i \in Inputs, QueuePinned(i) PROVE RoomInv'
    BY <1>5 DEF RoomInv, UnpinnedHasRoom, TypeInv, QueueTypes, InputInv, InputTypes,
       CtlInv, CtlTypes, queueVars, inputVars, QueuePinned, IMove, LockFree
  <1>6. ASSUME NEW i \in Inputs, ScanThread(i) PROVE RoomInv'
    BY <1>6 DEF RoomInv, UnpinnedHasRoom, TypeInv, QueueTypes, InputInv, InputTypes,
       CtlInv, CtlTypes, queueVars, inputVars, ScanThread, LockFree, HasRoom
  <1>7. ASSUME NEW i \in Inputs, ScanExhausted(i) PROVE RoomInv'
    BY <1>7 DEF RoomInv, UnpinnedHasRoom, TypeInv, QueueTypes, InputInv, InputTypes,
       CtlInv, CtlTypes, queueVars, inputVars, ScanExhausted, IMove
  <1>8. ASSUME NEW i \in Inputs, ScanFoundNone(i) PROVE RoomInv'
    BY <1>8 DEF RoomInv, UnpinnedHasRoom, TypeInv, QueueTypes, InputInv, InputTypes,
       CtlInv, CtlTypes, queueVars, inputVars, ScanFoundNone, Rescan
  <1>9. ASSUME NEW i \in Inputs, RecheckFull(i) PROVE RoomInv'
    BY <1>9 DEF RoomInv, UnpinnedHasRoom, TypeInv, QueueTypes, InputInv, InputTypes,
       CtlInv, CtlTypes, queueVars, inputVars, RecheckFull, Rescan
  <1>10. ASSUME NEW i \in Inputs, AddPacket(i) PROVE RoomInv'
    <2>1. \A j \in Inputs \ {i} : iPc[j] = "add" => iTid[j] # iTid[i]
      BY <1>10 DEF QueueLockHeld, AddPacket, IMove
    <2>2. \A j \in Inputs : iPc'[j] \in {"add", "pinned"} => j # i /\ iPc'[j] = iPc[j]
      BY <1>10 DEF TypeInv, InputInv, InputTypes, AddPacket, IMove
    <2>3. \A t \in Workers \ {iTid[i]} : queue'[t] = queue[t]
      BY <1>10 DEF TypeInv, QueueTypes, AddPacket
    <2> QED
      BY <1>10, <2>1, <2>2, <2>3 DEF RoomInv, UnpinnedHasRoom, TypeInv, InputInv, InputTypes,
         AddPacket
  <1>11a. ASSUME NEW i \in Inputs, AskStop(i) PROVE RoomInv'
    BY <1>11a DEF RoomInv, UnpinnedHasRoom, TypeInv, QueueTypes, InputInv,
       InputTypes, CtlInv, CtlTypes, queueVars, inputVars, AskStop, IMove
  <1>11. ASSUME NEW i \in Inputs, SelfStop(i) PROVE RoomInv'
    BY <1>11 DEF RoomInv, UnpinnedHasRoom, TypeInv, QueueTypes, InputInv,
       InputTypes, CtlInv, CtlTypes, queueVars, inputVars, SelfStop, IMove
  <1>12. ASSUME NEW i \in Inputs, LeaveLoop(i) PROVE RoomInv'
    BY <1>12 DEF RoomInv, UnpinnedHasRoom, TypeInv, QueueTypes, InputInv,
       InputTypes, CtlInv, CtlTypes, queueVars, inputVars, LeaveLoop, IMove
  <1>13. ASSUME NEW i \in Inputs, CloseInput(i) PROVE RoomInv'
    BY <1>13 DEF RoomInv, UnpinnedHasRoom, TypeInv, QueueTypes, InputInv,
       InputTypes, CtlInv, CtlTypes, queueVars, inputVars, CloseInput, IMove
  <1>14. ASSUME NEW i \in Inputs, ReadPacket(i) PROVE RoomInv'
    BY <1>14 DEF RoomInv, UnpinnedHasRoom, TypeInv, QueueTypes, InputInv,
       InputTypes, CtlInv, CtlTypes, queueVars, inputVars, ReadPacket, IMove
  <1>15. ASSUME NEW i \in Inputs, ReadEnd(i) PROVE RoomInv'
    BY <1>15 DEF RoomInv, UnpinnedHasRoom, TypeInv, QueueTypes, InputInv,
       InputTypes, CtlInv, CtlTypes, queueVars, inputVars, ReadEnd, IMove
  <1>16. ASSUME OpenInput PROVE RoomInv'
    BY <1>16 DEF RoomInv, UnpinnedHasRoom, TypeInv, QueueTypes, InputInv,
       InputTypes, CtlInv, CtlTypes, queueVars, inputVars, OpenInput, CMove
  <1>17. ASSUME JoinThread PROVE RoomInv'
    <2>1. Len(<<>>) < QueueMax
      BY CoreAssumption DEF CoreAssumption
    <2>2. \A t \in Workers : queue'[t] = queue[t] \/ queue'[t] = <<>>
      BY <1>17 DEF TypeInv, QueueTypes, JoinThread
    <2> QED
      BY <1>17, <2>1, <2>2 DEF RoomInv, UnpinnedHasRoom, TypeInv, InputInv, InputTypes,
         inputVars, JoinThread
  <1>18. ASSUME NEW w \in Workers,
              LoopTop(w) \/ LockQueue(w) \/ QueueEmpty(w) \/ ReadGauge(w) \/ GetState(w)
              \/ SetIdle(w) \/ StopPause(w) \/ StopFree(w) \/ ReadRun(w) \/ Sleep(w) \/
              WakeUp(w) \/ ReadLock(w) \/ ProcessPacket(w) \/ ProcessFails(w) \/
              Release(w) \/ Halt(w)
       PROVE  RoomInv'
    BY <1>18, RoomUntouched DEF LoopTop, LockQueue, QueueEmpty, ReadGauge, GetState,
       SetIdle, StopPause, StopFree, ReadRun, Sleep, WakeUp, ReadLock, ProcessPacket,
       ProcessFails, Release, Halt, queueVars, inputVars
  <1>19. ASSUME NEW i \in Inputs,
              StartInput(i) \/ StopInput(i)
       PROVE  RoomInv'
    BY <1>19, RoomUntouched DEF StartInput, StopInput, queueVars, inputVars
  <1>20. ASSUME SetRunning \/ StartProcessing \/ JoinInput \/ SetFinishing \/ NotifyThread
              \/ InputsStopped \/ WaitIdle \/ StopRun \/ SignalThread \/ Terminate \/
              Ended
       PROVE  RoomInv'
    BY <1>20, RoomUntouched DEF SetRunning, StartProcessing, JoinInput,
       SetFinishing, NotifyThread, InputsStopped, WaitIdle, StopRun, SignalThread,
       Terminate, Ended, vars, queueVars, inputVars
  <1>21. CASE UNCHANGED vars
    BY <1>21, RoomUntouched DEF vars, queueVars, inputVars
  <1> QED
    BY <1>1, <1>2, <1>3, <1>4, <1>5, <1>6, <1>7, <1>8, <1>9, <1>10, <1>11a, <1>11, <1>12,
       <1>13, <1>14, <1>15, <1>16, <1>17, <1>18, <1>19, <1>20, <1>21 DEF Next,
       WorkerStep, InputStep, CtlStep

(***************************************************************************)
(* An input that carries a packet is still flagged running or is being     *)
(* joined; so core_cleanup finds every input gone.                         *)
(***************************************************************************)
CleaningUp == {"signal", "jointhread", "halted"}
AliveInv ==
  /\ \A i \in Inputs : iPc[i] \in Carrying => i \in running \/ (ctl = "join" /\ ctlWho = i)
  /\ ctl \in {"waitidle", "cleanup"} \cup CleaningUp => running = {}

LEMMA AliveUntouched ==
  ASSUME AliveInv, UNCHANGED <<iPc, running, ctl, ctlWho>>
  PROVE  AliveInv'
  BY DEF AliveInv

LEMMA AliveNext ==
  ASSUME TypeInv, AliveInv, [Next]_vars
  PROVE  AliveInv'
  <1>1. ASSUME NEW w \in Workers, WakeInputs(w) PROVE AliveInv'
    BY <1>1 DEF AliveInv, Carrying, CleaningUp, TypeInv, InputInv, InputTypes,
       CtlInv, CtlTypes, inputVars, ctlVars, WakeInputs, Move, Unlock
  <1>2. ASSUME NEW i \in Inputs, QueueRefused(i) PROVE AliveInv'
    BY <1>2 DEF AliveInv, Carrying, CleaningUp, TypeInv, InputInv, InputTypes,
       CtlInv, CtlTypes, inputVars, ctlVars, QueueRefused, IMove
  <1>3. ASSUME NEW i \in Inputs, QueueChoose(i) PROVE AliveInv'
    BY <1>3 DEF AliveInv, Carrying, CleaningUp, TypeInv, InputInv, InputTypes,
       CtlInv, CtlTypes, inputVars, ctlVars, QueueChoose
  <1>4. ASSUME NEW i \in Inputs, QueuePinned(i) PROVE AliveInv'
    BY <1>4 DEF AliveInv, Carrying, CleaningUp, TypeInv, InputInv, InputTypes,
       CtlInv, CtlTypes, inputVars, ctlVars, QueuePinned, IMove, LockFree
  <1>5. ASSUME NEW i \in Inputs, ScanThread(i) PROVE AliveInv'
    BY <1>5 DEF AliveInv, Carrying, CleaningUp, TypeInv, InputInv, InputTypes,
       CtlInv, CtlTypes, inputVars, ctlVars, ScanThread, LockFree, HasRoom
  <1>6. ASSUME NEW i \in Inputs, ScanExhausted(i) PROVE AliveInv'
    BY <1>6 DEF AliveInv, Carrying, CleaningUp, TypeInv, InputInv, InputTypes,
       CtlInv, CtlTypes, inputVars, ctlVars, ScanExhausted, IMove
  <1>7. ASSUME NEW i \in Inputs, ScanFoundNone(i) PROVE AliveInv'
    BY <1>7 DEF AliveInv, Carrying, CleaningUp, TypeInv, InputInv, InputTypes,
       CtlInv, CtlTypes, inputVars, ctlVars, ScanFoundNone, Rescan
  <1>8. ASSUME NEW i \in Inputs, RecheckFull(i) PROVE AliveInv'
    BY <1>8 DEF AliveInv, Carrying, CleaningUp, TypeInv, InputInv, InputTypes,
       CtlInv, CtlTypes, inputVars, ctlVars, RecheckFull, Rescan
  <1>9. ASSUME NEW i \in Inputs, AddPacket(i) PROVE AliveInv'
    BY <1>9 DEF AliveInv, Carrying, CleaningUp, TypeInv, InputInv, InputTypes,
       CtlInv, CtlTypes, inputVars, ctlVars, AddPacket, IMove, AtTail, SignalWhenEmpty
  <1>10a. ASSUME NEW i \in Inputs, AskStop(i) PROVE AliveInv'
    BY <1>10a DEF AliveInv, Carrying, CleaningUp, TypeInv, InputInv, InputTypes,
       CtlInv, CtlTypes, inputVars, ctlVars, AskStop, IMove
  <1>10. ASSUME NEW i \in Inputs, SelfStop(i) PROVE AliveInv'
    BY <1>10 DEF AliveInv, Carrying, CleaningUp, TypeInv, InputInv, InputTypes,
       CtlInv, CtlTypes, inputVars, ctlVars, SelfStop, IMove
  <1>11. ASSUME NEW i \in Inputs, LeaveLoop(i) PROVE AliveInv'
    BY <1>11 DEF AliveInv, Carrying, CleaningUp, TypeInv, InputInv, InputTypes,
       CtlInv, CtlTypes, inputVars, ctlVars, LeaveLoop, IMove
  <1>12. ASSUME NEW i \in Inputs, CloseInput(i) PROVE AliveInv'
    BY <1>12 DEF AliveInv, Carrying, CleaningUp, TypeInv, InputInv, InputTypes,
       CtlInv, CtlTypes, inputVars, ctlVars, CloseInput, IMove
  <1>13. ASSUME NEW i \in Inputs, ReadPacket(i) PROVE AliveInv'
    BY <1>13 DEF AliveInv, Carrying, CleaningUp, TypeInv, InputInv, InputTypes,
       CtlInv, CtlTypes, inputVars, ctlVars, ReadPacket, IMove
  <1>14. ASSUME NEW i \in Inputs, ReadEnd(i) PROVE AliveInv'
    BY <1>14 DEF AliveInv, Carrying, CleaningUp, TypeInv, InputInv, InputTypes,
       CtlInv, CtlTypes, inputVars, ctlVars, ReadEnd, IMove
  <1>15. ASSUME NEW i \in Inputs, StartInput(i) PROVE AliveInv'
    BY <1>15 DEF AliveInv, Carrying, CleaningUp, TypeInv, InputInv, InputTypes,
       CtlInv, CtlTypes, inputVars, ctlVars, StartInput, CMove
  <1>16. ASSUME NEW i \in Inputs, StopInput(i) PROVE AliveInv'
    BY <1>16 DEF AliveInv, Carrying, CleaningUp, TypeInv, InputInv, InputTypes,
       CtlInv, CtlTypes, inputVars, ctlVars, StopInput, CMove
  <1>17. ASSUME OpenInput PROVE AliveInv'
    BY <1>17 DEF AliveInv, Carrying, CleaningUp, TypeInv, InputInv, InputTypes,
       CtlInv, CtlTypes, inputVars, ctlVars, OpenInput, CMove
  <1>18. ASSUME SetRunning PROVE AliveInv'
    BY <1>18 DEF AliveInv, Carrying, CleaningUp, TypeInv, InputInv, InputTypes,
       CtlInv, CtlTypes, inputVars, ctlVars, SetRunning
  <1>19. ASSUME StartProcessing PROVE AliveInv'
    BY <1>19 DEF AliveInv, Carrying, CleaningUp, TypeInv, InputInv, InputTypes,
       CtlInv, CtlTypes, inputVars, ctlVars, StartProcessing, CMove
  <1>20. ASSUME JoinInput PROVE AliveInv'
    BY <1>20 DEF AliveInv, Carrying, CleaningUp, TypeInv, InputInv, InputTypes,
       CtlInv, CtlTypes, inputVars, ctlVars, JoinInput, ThreadEnded
  <1>21. ASSUME SetFinishing PROVE AliveInv'
    BY <1>21 DEF AliveInv, Carrying, CleaningUp, TypeInv, InputInv, InputTypes,
       CtlInv, CtlTypes, inputVars, ctlVars, SetFinishing
  <1>22. ASSUME NotifyThread PROVE AliveInv'
    BY <1>22 DEF AliveInv, Carrying, CleaningUp, TypeInv, InputInv, InputTypes,
       CtlInv, CtlTypes, inputVars, ctlVars, NotifyThread, Signal, LockFree, NextTid
  <1>23. ASSUME InputsStopped PROVE AliveInv'
    BY <1>23 DEF AliveInv, Carrying, CleaningUp, TypeInv, InputInv, InputTypes,
       CtlInv, CtlTypes, inputVars, ctlVars, InputsStopped
  <1>24. ASSUME WaitIdle PROVE AliveInv'
    BY <1>24 DEF AliveInv, Carrying, CleaningUp, TypeInv, InputInv, InputTypes,
       CtlInv, CtlTypes, inputVars, ctlVars, WaitIdle, CMove
  <1>25. ASSUME StopRun PROVE AliveInv'
    BY <1>25 DEF AliveInv, Carrying, CleaningUp, TypeInv, InputInv, InputTypes,
       CtlInv, CtlTypes, inputVars, ctlVars, StopRun, CMove
  <1>26. ASSUME SignalThread PROVE AliveInv'
    BY <1>26 DEF AliveInv, Carrying, CleaningUp, TypeInv, InputInv, InputTypes,
       CtlInv, CtlTypes, inputVars, ctlVars, SignalThread, CMove, Signal
  <1>27. ASSUME JoinThread PROVE AliveInv'
    BY <1>27 DEF AliveInv, Carrying, CleaningUp, TypeInv, InputInv, InputTypes,
       CtlInv, CtlTypes, inputVars, ctlVars, JoinThread
  <1>28. ASSUME NEW w \in Workers,
              LoopTop(w) \/ LockQueue(w) \/ QueueEmpty(w) \/ ReadGauge(w) \/ GetState(w)
              \/ SetIdle(w) \/ StopPause(w) \/ StopFree(w) \/ ReadRun(w) \/ Sleep(w) \/
              WakeUp(w) \/ Dequeue(w) \/ ReadLock(w) \/ ProcessPacket(w) \/
              ProcessFails(w) \/ Release(w) \/ Halt(w)
       PROVE  AliveInv'
    BY <1>28, AliveUntouched DEF LoopTop, LockQueue, QueueEmpty, ReadGauge,
       GetState, SetIdle, StopPause, StopFree, ReadRun, Sleep, WakeUp, Dequeue,
       ReadLock, ProcessPacket, ProcessFails, Release, Halt, inputVars, ctlVars
  <1>29. ASSUME Terminate \/ Ended
       PROVE  AliveInv'
    BY <1>29, AliveUntouched DEF Terminate, Ended, vars, inputVars, ctlVars
  <1>30. CASE UNCHANGED vars
    BY <1>30, AliveUntouched DEF vars, inputVars, ctlVars
  <1> QED
    BY <1>1, <1>2, <1>3, <1>4, <1>5, <1>6, <1>7, <1>8, <1>9, <1>10a, <1>10, <1>11, <1>12,
       <1>13, <1>14, <1>15, <1>16, <1>17, <1>18, <1>19, <1>20, <1>21, <1>22, <1>23,
       <1>24, <1>25, <1>26, <1>27, <1>28, <1>29, <1>30 DEF Next, WorkerStep, InputStep,
       CtlStep

(***************************************************************************)
(* The packet count.  A slot is a queue and a place in it: appending adds  *)
(* one, taking the head removes one, emptying a queue removes some.        *)
(***************************************************************************)
LEMMA SlotsOf ==
  ASSUME NEW q \in [Workers -> Seq(Packets)]
  PROVE  UNION {{w} \X DOMAIN q[w] : w \in Workers}
           = {s \in Workers \X Nat : s[2] \in 1 .. Len(q[s[1]])}
  <1> DEFINE L == UNION {{w} \X DOMAIN q[w] : w \in Workers}
             R == {s \in Workers \X Nat : s[2] \in 1 .. Len(q[s[1]])}
  <1>1. \A w \in Workers : Len(q[w]) \in Nat /\ DOMAIN q[w] = 1 .. Len(q[w])
    OBVIOUS
  <1>2. ASSUME NEW s \in L PROVE s \in R
    <2>1. PICK w \in Workers : s \in {w} \X (1 .. Len(q[w]))
      BY <1>1
    <2> QED  BY <1>1, <2>1
  <1>3. ASSUME NEW s \in R PROVE s \in L
    <2>1. s[1] \in Workers /\ s[2] \in DOMAIN q[s[1]] /\ s = <<s[1], s[2]>>
      BY <1>1
    <2>2. s \in {s[1]} \X DOMAIN q[s[1]]
      BY <2>1
    <2> QED  BY <2>1, <2>2
  <1> QED  BY <1>2, <1>3

LEMMA SlotsDef ==
  ASSUME QueueTypes
  PROVE  Slots = {s \in Workers \X Nat : s[2] \in 1 .. Len(queue[s[1]])}
  BY SlotsOf DEF QueueTypes, Slots

LEMMA SlotsAppend ==
  ASSUME QueueTypes, QueueTypes', NEW t \in Workers, NEW p \in Packets,
         queue' = [queue EXCEPT ![t] = Append(@, p)]
  PROVE  /\ Slots' = Slots \cup {<<t, Len(queue[t]) + 1>>}
         /\ <<t, Len(queue[t]) + 1>> \notin Slots
  <1>1. /\ \A w \in Workers : Len(queue[w]) \in Nat
        /\ \A w \in Workers : Len(queue'[w]) = IF w = t THEN Len(queue[w]) + 1 ELSE Len(queue[w])
    BY DEF QueueTypes
  <1>2. Slots' = {s \in Workers \X Nat : s[2] \in 1 .. Len(queue'[s[1]])}
    BY SlotsOf DEF QueueTypes, Slots
  <1> QED  BY <1>1, <1>2, SlotsDef

LEMMA SlotsTail ==
  ASSUME QueueTypes, QueueTypes', NEW t \in Workers, queue[t] # <<>>,
         queue' = [queue EXCEPT ![t] = Tail(@)]
  PROVE  /\ Slots' = Slots \ {<<t, Len(queue[t])>>}
         /\ <<t, Len(queue[t])>> \in Slots
  <1>1. /\ \A w \in Workers : Len(queue[w]) \in Nat
        /\ Len(queue[t]) > 0
        /\ \A w \in Workers : Len(queue'[w]) = IF w = t THEN Len(queue[w]) - 1 ELSE Len(queue[w])
    BY HeadTail DEF QueueTypes
  <1>2. Slots' = {s \in Workers \X Nat : s[2] \in 1 .. Len(queue'[s[1]])}
    BY SlotsOf DEF QueueTypes, Slots
  <1> QED  BY <1>1, <1>2, SlotsDef

CountInv == IsFiniteSet(Slots) /\ CountExact

LEMMA CountUntouched ==
  ASSUME CountInv, UNCHANGED <<queue, count, ctl>>
  PROVE  CountInv'
  BY DEF CountInv, CountExact, Slots

LEMMA CountNext ==
  ASSUME TypeInv, CountInv, [Next]_vars
  PROVE  CountInv'
  <1>1. ASSUME NEW w \in Workers, Dequeue(w) PROVE CountInv'
    <2>1. /\ queue[w] \in Seq(Packets) /\ queue[w] # <<>>
          /\ queue' = [queue EXCEPT ![w] = Tail(@)]
          /\ count' = count - 1 /\ UNCHANGED ctl
      BY <1>1 DEF TypeInv, QueueTypes, Dequeue, DropHead, ctlVars
    <2>2. QueueTypes /\ QueueTypes'
      BY <1>1, TypeDequeue DEF TypeInv
    <2>3. /\ Slots' = Slots \ {<<w, Len(queue[w])>>}
          /\ <<w, Len(queue[w])>> \in Slots
      BY <1>1, <2>1, <2>2, SlotsTail
    <2>4. IsFiniteSet(Slots') /\ Cardinality(Slots') = Cardinality(Slots) - 1
      BY <2>3, FS_RemoveElement DEF CountInv
    <2> QED  BY <2>1, <2>4 DEF CountInv, CountExact
  <1>2. ASSUME NEW i \in Inputs, AddPacket(i) PROVE CountInv'
    <2> DEFINE t == iTid[i]
    <2>1. /\ t \in Workers /\ iPkt[i] \in Packets
          /\ queue' = [queue EXCEPT ![t] = Append(@, iPkt[i])]
          /\ count' = count + 1 /\ UNCHANGED ctl
      BY <1>2 DEF TypeInv, QueueTypes, InputInv, InputTypes, InputHands, Carrying, AddPacket,
         AtTail, IMove, ctlVars
    <2>2. QueueTypes /\ QueueTypes'
      BY <1>2, TypeAddPacket DEF TypeInv
    <2>3. /\ Slots' = Slots \cup {<<t, Len(queue[t]) + 1>>}
          /\ <<t, Len(queue[t]) + 1>> \notin Slots
      BY <2>1, <2>2, SlotsAppend
    <2>4. IsFiniteSet(Slots') /\ Cardinality(Slots') = Cardinality(Slots) + 1
      BY <2>3, FS_AddElement DEF CountInv
    <2> QED  BY <2>1, <2>4 DEF CountInv, CountExact
  <1>3a. ASSUME NEW i \in Inputs, AskStop(i) PROVE CountInv'
    BY <1>3a DEF CountInv, CountExact, CleaningUp, Slots, TypeInv, CtlInv, CtlTypes,
       queueVars, ctlVars, AskStop, IMove
  <1>3. ASSUME NEW i \in Inputs, SelfStop(i) PROVE CountInv'
    BY <1>3 DEF CountInv, CountExact, CleaningUp, Slots, TypeInv, CtlInv, CtlTypes,
       queueVars, ctlVars, SelfStop, IMove
  <1>4. ASSUME NEW i \in Inputs, StartInput(i) PROVE CountInv'
    BY <1>4 DEF CountInv, CountExact, CleaningUp, Slots, TypeInv, CtlInv, CtlTypes,
       queueVars, ctlVars, StartInput, CMove
  <1>5. ASSUME NEW i \in Inputs, StopInput(i) PROVE CountInv'
    BY <1>5 DEF CountInv, CountExact, CleaningUp, Slots, TypeInv, CtlInv, CtlTypes,
       queueVars, ctlVars, StopInput, CMove
  <1>6. ASSUME OpenInput PROVE CountInv'
    BY <1>6 DEF CountInv, CountExact, CleaningUp, Slots, TypeInv, CtlInv, CtlTypes,
       queueVars, ctlVars, OpenInput, CMove
  <1>7. ASSUME SetRunning PROVE CountInv'
    BY <1>7 DEF CountInv, CountExact, CleaningUp, Slots, TypeInv, CtlInv, CtlTypes,
       queueVars, ctlVars, SetRunning
  <1>8. ASSUME StartProcessing PROVE CountInv'
    BY <1>8 DEF CountInv, CountExact, CleaningUp, Slots, TypeInv, CtlInv, CtlTypes,
       queueVars, ctlVars, StartProcessing, CMove
  <1>9. ASSUME JoinInput PROVE CountInv'
    BY <1>9 DEF CountInv, CountExact, CleaningUp, Slots, TypeInv, CtlInv, CtlTypes,
       queueVars, ctlVars, JoinInput, ThreadEnded
  <1>10. ASSUME SetFinishing PROVE CountInv'
    BY <1>10 DEF CountInv, CountExact, CleaningUp, Slots, TypeInv, CtlInv, CtlTypes,
       queueVars, ctlVars, SetFinishing
  <1>11. ASSUME NotifyThread PROVE CountInv'
    BY <1>11 DEF CountInv, CountExact, CleaningUp, Slots, TypeInv, CtlInv, CtlTypes,
       queueVars, ctlVars, NotifyThread, Signal, LockFree, NextTid
  <1>12. ASSUME InputsStopped PROVE CountInv'
    BY <1>12 DEF CountInv, CountExact, CleaningUp, Slots, TypeInv, CtlInv, CtlTypes,
       queueVars, ctlVars, InputsStopped
  <1>13. ASSUME WaitIdle PROVE CountInv'
    BY <1>13 DEF CountInv, CountExact, CleaningUp, Slots, TypeInv, CtlInv, CtlTypes,
       queueVars, ctlVars, WaitIdle, CMove
  <1>14. ASSUME StopRun PROVE CountInv'
    BY <1>14 DEF CountInv, CountExact, CleaningUp, Slots, TypeInv, CtlInv, CtlTypes,
       queueVars, ctlVars, StopRun, CMove
  <1>15. ASSUME SignalThread PROVE CountInv'
    BY <1>15 DEF CountInv, CountExact, CleaningUp, Slots, TypeInv, CtlInv, CtlTypes,
       queueVars, ctlVars, SignalThread, CMove, Signal
  <1>16. ASSUME JoinThread PROVE CountInv'
    <2>1. ctl' \in CleaningUp
      BY <1>16 DEF CleaningUp, JoinThread, NextTid
    <2>2. QueueTypes /\ QueueTypes'
      BY <1>16, TypeJoinThread DEF TypeInv
    <2>3. \A v \in Workers : queue'[v] = queue[v] \/ queue'[v] = <<>>
      BY <1>16, <2>2 DEF QueueTypes, JoinThread
    <2>4. Slots' \subseteq Slots
      <3>1. Slots' = {s \in Workers \X Nat : s[2] \in 1 .. Len(queue'[s[1]])}
        BY <2>2, SlotsOf DEF QueueTypes, Slots
      <3> QED  BY <2>2, <2>3, <3>1, SlotsDef
    <2>5. IsFiniteSet(Slots')
      BY <2>4, FS_Subset DEF CountInv
    <2> QED  BY <2>1, <2>5 DEF CleaningUp, CountInv, CountExact
  <1>17. ASSUME NEW w \in Workers,
              LoopTop(w) \/ LockQueue(w) \/ QueueEmpty(w) \/ ReadGauge(w) \/ GetState(w)
              \/ SetIdle(w) \/ StopPause(w) \/ StopFree(w) \/ ReadRun(w) \/ Sleep(w) \/
              WakeUp(w) \/ WakeInputs(w) \/ ReadLock(w) \/ ProcessPacket(w) \/
              ProcessFails(w) \/ Release(w) \/ Halt(w)
       PROVE  CountInv'
    BY <1>17, CountUntouched DEF LoopTop, LockQueue, QueueEmpty, ReadGauge,
       GetState, SetIdle, StopPause, StopFree, ReadRun, Sleep, WakeUp, WakeInputs,
       ReadLock, ProcessPacket, ProcessFails, Release, Halt, queueVars, ctlVars
  <1>18. ASSUME NEW i \in Inputs,
              QueueRefused(i) \/ QueueChoose(i) \/ QueuePinned(i) \/ ScanThread(i) \/
              ScanExhausted(i) \/ ScanFoundNone(i) \/ RecheckFull(i) \/ LeaveLoop(i) \/
              CloseInput(i) \/ ReadPacket(i) \/ ReadEnd(i)
       PROVE  CountInv'
    BY <1>18, CountUntouched DEF QueueRefused, QueueChoose, QueuePinned, ScanThread,
       ScanExhausted, ScanFoundNone, RecheckFull, LeaveLoop, CloseInput, ReadPacket,
       ReadEnd, queueVars, ctlVars
  <1>19. ASSUME Terminate \/ Ended
       PROVE  CountInv'
    BY <1>19, CountUntouched DEF Terminate, Ended, vars, queueVars, ctlVars
  <1>20. CASE UNCHANGED vars
    BY <1>20, CountUntouched DEF vars, queueVars, ctlVars
  <1> QED
    BY <1>1, <1>2, <1>3a, <1>3, <1>4, <1>5, <1>6, <1>7, <1>8, <1>9, <1>10, <1>11, <1>12,
       <1>13, <1>14, <1>15, <1>16, <1>17, <1>18, <1>19, <1>20 DEF Next, WorkerStep,
       InputStep, CtlStep

(***************************************************************************)
(* Pigeonhole: as long as the queues hold Full packets together, one of    *)
(* them holds QueueMin, because QueueMin < QueueMax.                       *)
(***************************************************************************)
LEMMA FullQueue ==
  ASSUME QueueTypes, IsFiniteSet(Slots), Cardinality(Slots) >= Full
  PROVE  \E w \in Workers : Len(queue[w]) >= QueueMin
  <1> SUFFICES ASSUME \A w \in Workers : Len(queue[w]) < QueueMin
               PROVE  FALSE
    BY CoreAssumption DEF CoreAssumption, QueueTypes
  <1> DEFINE Places == 1 .. QueueMin - 1
             Low == Workers \X Places
  <1>1. Slots \subseteq Low
    <2> SUFFICES ASSUME NEW s \in Slots PROVE s \in Low
      OBVIOUS
    <2>1. s \in Workers \X Nat /\ s[2] \in 1 .. Len(queue[s[1]])
      BY SlotsDef
    <2>2. Len(queue[s[1]]) \in Nat /\ Len(queue[s[1]]) < QueueMin
      BY <2>1 DEF QueueTypes
    <2>3. s[1] \in Workers /\ s[2] \in 1 .. QueueMin - 1 /\ s = <<s[1], s[2]>>
      BY <2>1, <2>2, CoreAssumption DEF CoreAssumption
    <2> QED  BY <2>3
  <1>2. /\ IsFiniteSet(Workers) /\ Cardinality(Workers) = NumThreads
        /\ IsFiniteSet(Places) /\ Cardinality(Places) = QueueMin - 1
    BY FS_Interval, CoreAssumption DEF CoreAssumption
  <1>3. IsFiniteSet(Low) /\ Cardinality(Low) = NumThreads * (QueueMin - 1)
    <2> HIDE DEF Places
    <2>1. IsFiniteSet(Low) /\ Cardinality(Low) = Cardinality(Workers) * Cardinality(Places)
      BY <1>2, FS_Product, Zenon
    <2> QED  BY <1>2, <2>1, Zenon
  <1>4. Cardinality(Slots) <= NumThreads * (QueueMin - 1)
    BY <1>1, <1>3, FS_Subset
  <1>5. NumThreads * (QueueMin - 1) < (QueueMax - 1) * NumThreads
    BY CoreAssumption DEF CoreAssumption
  <1>6. Cardinality(Slots) \in Nat
    BY FS_CardinalityType
  <1> QED
    BY <1>4, <1>5, <1>6, CoreAssumption DEF CoreAssumption, Full

LEMMA WakeupUntouched ==
  ASSUME InputWakeupPending, UNCHANGED <<iPc, queue, pc>>
  PROVE  InputWakeupPending'
  BY DEF InputWakeupPending

LEMMA WakeupNext ==
  ASSUME TypeInv, AliveInv, CountInv, InputWakeupPending, [Next]_vars
  PROVE  InputWakeupPending'
  <1>1. ASSUME NEW w \in Workers, LoopTop(w) PROVE InputWakeupPending'
    BY <1>1 DEF InputWakeupPending, TypeInv, QueueTypes, InputInv, InputTypes,
       WorkerInv, WorkerTypes, queueVars, inputVars, workerVars, LoopTop
  <1>2. ASSUME NEW w \in Workers, LockQueue(w) PROVE InputWakeupPending'
    BY <1>2 DEF InputWakeupPending, TypeInv, QueueTypes, InputInv, InputTypes,
       WorkerInv, WorkerTypes, queueVars, inputVars, workerVars, LockQueue, Move,
       LockFree
  <1>3. ASSUME NEW w \in Workers, QueueEmpty(w) PROVE InputWakeupPending'
    BY <1>3 DEF InputWakeupPending, TypeInv, QueueTypes, InputInv, InputTypes,
       WorkerInv, WorkerTypes, queueVars, inputVars, workerVars, QueueEmpty, Move
  <1>4. ASSUME NEW w \in Workers, ReadGauge(w) PROVE InputWakeupPending'
    BY <1>4 DEF InputWakeupPending, TypeInv, QueueTypes, InputInv, InputTypes,
       WorkerInv, WorkerTypes, queueVars, inputVars, workerVars, ReadGauge
  <1>5. ASSUME NEW w \in Workers, GetState(w) PROVE InputWakeupPending'
    BY <1>5 DEF InputWakeupPending, TypeInv, QueueTypes, InputInv, InputTypes,
       WorkerInv, WorkerTypes, queueVars, inputVars, workerVars, GetState
  <1>6. ASSUME NEW w \in Workers, SetIdle(w) PROVE InputWakeupPending'
    BY <1>6 DEF InputWakeupPending, TypeInv, QueueTypes, InputInv, InputTypes,
       WorkerInv, WorkerTypes, queueVars, inputVars, workerVars, SetIdle
  <1>7. ASSUME NEW w \in Workers, StopPause(w) PROVE InputWakeupPending'
    BY <1>7 DEF InputWakeupPending, TypeInv, QueueTypes, InputInv, InputTypes,
       WorkerInv, WorkerTypes, queueVars, inputVars, workerVars, StopPause, Move,
       CanPause
  <1>8. ASSUME NEW w \in Workers, StopFree(w) PROVE InputWakeupPending'
    BY <1>8 DEF InputWakeupPending, TypeInv, QueueTypes, InputInv, InputTypes,
       WorkerInv, WorkerTypes, queueVars, inputVars, workerVars, StopFree, Move
  <1>9. ASSUME NEW w \in Workers, ReadRun(w) PROVE InputWakeupPending'
    BY <1>9 DEF InputWakeupPending, TypeInv, QueueTypes, InputInv, InputTypes,
       WorkerInv, WorkerTypes, queueVars, inputVars, workerVars, ReadRun, Unlock
  <1>10. ASSUME NEW w \in Workers, Sleep(w) PROVE InputWakeupPending'
    BY <1>10 DEF InputWakeupPending, TypeInv, QueueTypes, InputInv, InputTypes,
       WorkerInv, WorkerTypes, queueVars, inputVars, workerVars, Sleep, Move, Unlock
  <1>11. ASSUME NEW w \in Workers, WakeUp(w) PROVE InputWakeupPending'
    BY <1>11 DEF InputWakeupPending, TypeInv, QueueTypes, InputInv, InputTypes,
       WorkerInv, WorkerTypes, queueVars, inputVars, workerVars, WakeUp, Move, LockFree
  <1>12. ASSUME NEW w \in Workers, Dequeue(w) PROVE InputWakeupPending'
    <2>1. queue[w] \in Seq(Packets) /\ queue[w] # <<>>
      BY <1>12 DEF TypeInv, QueueTypes, Dequeue
    <2>2. Len(DropHead(w)) = Len(queue[w]) - 1 /\ Len(queue[w]) \in Nat
      BY <2>1, HeadTail DEF DropHead
    <2>3. IF Wakes(w) THEN pc'[w] = "wake" ELSE Len(queue'[w]) >= QueueMin
      BY <1>12, <2>2, CoreAssumption DEF TypeInv, QueueTypes, WorkerInv, WorkerTypes,
         CoreAssumption, Dequeue, Wakes
    <2> QED  BY <2>3 DEF InputWakeupPending
  <1>13. ASSUME NEW w \in Workers, WakeInputs(w) PROVE InputWakeupPending'
    BY <1>13 DEF InputWakeupPending, TypeInv, QueueTypes, InputInv, InputTypes,
       WorkerInv, WorkerTypes, queueVars, inputVars, workerVars, WakeInputs, Move,
       Unlock
  <1>14. ASSUME NEW w \in Workers, ReadLock(w) PROVE InputWakeupPending'
    BY <1>14 DEF InputWakeupPending, TypeInv, QueueTypes, InputInv, InputTypes,
       WorkerInv, WorkerTypes, queueVars, inputVars, workerVars, ReadLock, Move
  <1>15. ASSUME NEW w \in Workers, ProcessPacket(w) PROVE InputWakeupPending'
    BY <1>15 DEF InputWakeupPending, TypeInv, QueueTypes, InputInv, InputTypes,
       WorkerInv, WorkerTypes, queueVars, inputVars, workerVars, ProcessPacket, Move
  <1>16. ASSUME NEW w \in Workers, ProcessFails(w) PROVE InputWakeupPending'
    BY <1>16 DEF InputWakeupPending, TypeInv, QueueTypes, InputInv, InputTypes,
       WorkerInv, WorkerTypes, queueVars, inputVars, workerVars, ProcessFails, Move
  <1>17. ASSUME NEW w \in Workers, Release(w) PROVE InputWakeupPending'
    BY <1>17 DEF InputWakeupPending, TypeInv, QueueTypes, InputInv, InputTypes,
       WorkerInv, WorkerTypes, queueVars, inputVars, workerVars, Release, Move
  <1>18. ASSUME NEW w \in Workers, Halt(w) PROVE InputWakeupPending'
    BY <1>18 DEF InputWakeupPending, TypeInv, QueueTypes, InputInv, InputTypes,
       WorkerInv, WorkerTypes, queueVars, inputVars, workerVars, Halt, Move
  <1>19. ASSUME NEW i \in Inputs, QueueRefused(i) PROVE InputWakeupPending'
    BY <1>19 DEF InputWakeupPending, TypeInv, QueueTypes, InputInv, InputTypes,
       WorkerInv, WorkerTypes, queueVars, inputVars, workerVars, QueueRefused, IMove
  <1>20. ASSUME NEW i \in Inputs, QueueChoose(i) PROVE InputWakeupPending'
    BY <1>20 DEF InputWakeupPending, TypeInv, QueueTypes, InputInv, InputTypes,
       WorkerInv, WorkerTypes, queueVars, inputVars, workerVars, QueueChoose
  <1>21. ASSUME NEW i \in Inputs, QueuePinned(i) PROVE InputWakeupPending'
    BY <1>21 DEF InputWakeupPending, TypeInv, QueueTypes, InputInv, InputTypes,
       WorkerInv, WorkerTypes, queueVars, inputVars, workerVars, QueuePinned, IMove,
       LockFree
  <1>22. ASSUME NEW i \in Inputs, ScanThread(i) PROVE InputWakeupPending'
    BY <1>22 DEF InputWakeupPending, TypeInv, QueueTypes, InputInv, InputTypes,
       WorkerInv, WorkerTypes, queueVars, inputVars, workerVars, ScanThread, LockFree,
       HasRoom
  <1>23. ASSUME NEW i \in Inputs, ScanExhausted(i) PROVE InputWakeupPending'
    BY <1>23 DEF InputWakeupPending, TypeInv, QueueTypes, InputInv, InputTypes,
       WorkerInv, WorkerTypes, queueVars, inputVars, workerVars, ScanExhausted, IMove
  <1>24. ASSUME NEW i \in Inputs, ScanFoundNone(i) PROVE InputWakeupPending'
    BY <1>24 DEF InputWakeupPending, TypeInv, QueueTypes, InputInv, InputTypes,
       WorkerInv, WorkerTypes, queueVars, inputVars, workerVars, ScanFoundNone, Rescan
  <1>25. ASSUME NEW i \in Inputs, RecheckFull(i) PROVE InputWakeupPending'
    <2>1. CASE Rescan(i)
      BY <1>25, <2>1 DEF InputWakeupPending, TypeInv, InputInv, InputTypes, RecheckFull, Rescan,
         queueVars, workerVars
    <2>2. CASE count >= Full
      <3>1. ctl \notin CleaningUp
        BY <1>25 DEF AliveInv, Carrying, CleaningUp, RecheckFull
      <3>2. \E w \in Workers : Len(queue[w]) >= QueueMin
        BY <2>2, <3>1, FullQueue DEF CountInv, CountExact, CleaningUp, TypeInv
      <3> QED  BY <1>25, <3>2 DEF InputWakeupPending, RecheckFull, queueVars
    <2> QED  BY <1>25, <2>1, <2>2 DEF RecheckFull
  <1>26. ASSUME NEW i \in Inputs, AddPacket(i) PROVE InputWakeupPending'
    <2> DEFINE t == iTid[i]
    <2>1. /\ t \in Workers /\ queue' = [queue EXCEPT ![t] = Append(@, iPkt[i])]
          /\ iPkt[i] \in Packets
      BY <1>26 DEF TypeInv, QueueTypes, InputInv, InputTypes, InputHands, Carrying, AddPacket,
         AtTail, IMove
    <2>2. \A w \in Workers : Len(queue[w]) >= QueueMin => Len(queue'[w]) >= QueueMin
      <3>1. queue[t] \in Seq(Packets) /\ Len(queue[t]) \in Nat /\ QueueMin \in Nat
        BY <2>1, CoreAssumption DEF TypeInv, QueueTypes, CoreAssumption
      <3>2. Len(Append(queue[t], iPkt[i])) = Len(queue[t]) + 1
        BY <2>1, <3>1
      <3>3. queue \in [Workers -> Seq(Packets)]
        BY DEF TypeInv, QueueTypes
      <3> QED  BY <2>1, <3>1, <3>2, <3>3
    <2>3. \A w \in Workers : pc[w] = "wake" => pc'[w] = "wake"
      BY <1>26 DEF TypeInv, WorkerInv, WorkerTypes, AddPacket
    <2>4. \A j \in Inputs : iPc'[j] = "asleep" => iPc[j] = "asleep"
      BY <1>26 DEF TypeInv, InputInv, InputTypes, AddPacket, IMove
    <2> QED  BY <2>2, <2>3, <2>4 DEF InputWakeupPending
  <1>27a. ASSUME NEW i \in Inputs, AskStop(i) PROVE InputWakeupPending'
    BY <1>27a DEF InputWakeupPending, TypeInv, QueueTypes, InputInv, InputTypes,
       WorkerInv, WorkerTypes, queueVars, inputVars, workerVars, AskStop, IMove
  <1>27. ASSUME NEW i \in Inputs, SelfStop(i) PROVE InputWakeupPending'
    BY <1>27 DEF InputWakeupPending, TypeInv, QueueTypes, InputInv, InputTypes,
       WorkerInv, WorkerTypes, queueVars, inputVars, workerVars, SelfStop, IMove
  <1>28. ASSUME NEW i \in Inputs, LeaveLoop(i) PROVE InputWakeupPending'
    BY <1>28 DEF InputWakeupPending, TypeInv, QueueTypes, InputInv, InputTypes,
       WorkerInv, WorkerTypes, queueVars, inputVars, workerVars, LeaveLoop, IMove
  <1>29. ASSUME NEW i \in Inputs, CloseInput(i) PROVE InputWakeupPending'
    BY <1>29 DEF InputWakeupPending, TypeInv, QueueTypes, InputInv, InputTypes,
       WorkerInv, WorkerTypes, queueVars, inputVars, workerVars, CloseInput, IMove
  <1>30. ASSUME NEW i \in Inputs, ReadPacket(i) PROVE InputWakeupPending'
    BY <1>30 DEF InputWakeupPending, TypeInv, QueueTypes, InputInv, InputTypes,
       WorkerInv, WorkerTypes, queueVars, inputVars, workerVars, ReadPacket, IMove
  <1>31. ASSUME NEW i \in Inputs, ReadEnd(i) PROVE InputWakeupPending'
    BY <1>31 DEF InputWakeupPending, TypeInv, QueueTypes, InputInv, InputTypes,
       WorkerInv, WorkerTypes, queueVars, inputVars, workerVars, ReadEnd, IMove
  <1>32. ASSUME OpenInput PROVE InputWakeupPending'
    BY <1>32 DEF InputWakeupPending, TypeInv, QueueTypes, InputInv, InputTypes,
       WorkerInv, WorkerTypes, queueVars, inputVars, workerVars, OpenInput, CMove
  <1>33. ASSUME NotifyThread PROVE InputWakeupPending'
    BY <1>33 DEF InputWakeupPending, TypeInv, QueueTypes, InputInv, InputTypes,
       WorkerInv, WorkerTypes, queueVars, inputVars, workerVars, NotifyThread, Signal,
       LockFree, NextTid
  <1>34. ASSUME SignalThread PROVE InputWakeupPending'
    BY <1>34 DEF InputWakeupPending, TypeInv, QueueTypes, InputInv, InputTypes,
       WorkerInv, WorkerTypes, queueVars, inputVars, workerVars, SignalThread, CMove,
       Signal
  <1>35. ASSUME JoinThread PROVE InputWakeupPending'
    <2>1. \A i \in Inputs : iPc[i] # "asleep"
      BY <1>35 DEF AliveInv, Carrying, CleaningUp, JoinThread
    <2> QED  BY <1>35, <2>1 DEF InputWakeupPending, JoinThread, inputVars
  <1>36. ASSUME NEW i \in Inputs,
              StartInput(i) \/ StopInput(i)
       PROVE  InputWakeupPending'
    BY <1>36, WakeupUntouched DEF StartInput, StopInput, queueVars, inputVars,
       workerVars
  <1>37. ASSUME SetRunning \/ StartProcessing \/ JoinInput \/ SetFinishing \/
              InputsStopped \/ WaitIdle \/ StopRun \/ Terminate \/ Ended
       PROVE  InputWakeupPending'
    BY <1>37, WakeupUntouched DEF SetRunning, StartProcessing, JoinInput,
       SetFinishing, InputsStopped, WaitIdle, StopRun, Terminate, Ended, vars,
       queueVars, inputVars, workerVars
  <1>38. CASE UNCHANGED vars
    BY <1>38, WakeupUntouched DEF vars, queueVars, inputVars, workerVars
  <1> QED
    BY <1>1, <1>2, <1>3, <1>4, <1>5, <1>6, <1>7, <1>8, <1>9, <1>10, <1>11, <1>12,
       <1>13, <1>14, <1>15, <1>16, <1>17, <1>18, <1>19, <1>20, <1>21, <1>22, <1>23,
       <1>24, <1>25, <1>26, <1>27a, <1>27, <1>28, <1>29, <1>30, <1>31, <1>32, <1>33, <1>34,
       <1>35, <1>36, <1>37, <1>38 DEF Next, WorkerStep, InputStep, CtlStep

(***************************************************************************)
(* The theorems.                                                           *)
(***************************************************************************)
LEMMA OtherInit ==
  ASSUME Init
  PROVE  QueueLockHeld /\ IdlingEmpty /\ PauseInv /\ RoomInv /\ AliveInv /\ CountInv
         /\ InputWakeupPending
  <1>1. Slots = {}
    BY DEF Init, Slots
  <1>2. CountInv
    BY <1>1, FS_EmptySet DEF Init, CountInv, CountExact
  <1>3. QueueLockHeld /\ IdlingEmpty /\ PauseInv /\ RoomInv
    BY DEF Init, QueueLockHeld, HoldsQueue, IdlingEmpty, Idling, PauseInv, RoomInv,
       UnpinnedHasRoom
  <1>4. AliveInv /\ InputWakeupPending
    BY DEF Init, AliveInv, Carrying, InputWakeupPending, CleaningUp
  <1> QED  BY <1>2, <1>3, <1>4

Inv == /\ TypeInv /\ QueueLockHeld /\ IdlingEmpty /\ PauseInv /\ RoomInv
       /\ AliveInv /\ CountInv /\ InputWakeupPending

LEMMA InvInit == Init => Inv
  BY TypeInit, OtherInit DEF Inv

LEMMA InvNext == Inv /\ [Next]_vars => Inv'
  BY TypeNext, LockNext, EmptyNext, PauseNext, RoomNext, AliveNext, CountNext, WakeupNext
     DEF Inv

LEMMA Invariance == Spec => []Inv
  BY InvInit, InvNext, PTL DEF Spec

(* Every variable keeps its type: no step uses a packet, a thread number   *)
(* or an input that is not there.                                          *)
THEOREM TypeCorrect == Spec => []TypeOK
  <1>1. Inv => TypeOK
    BY DEF Inv, TypeInv, TypeOK, WorkerInv, InputInv, CtlInv
  <1> QED  BY <1>1, Invariance, PTL

(* The packet queues are used under their locks (core_queue_packet,        *)
(* core_processing_thread_func), for any number of threads and inputs.     *)
THEOREM QueueLocking == Spec => []QueueLockHeld
  <1>1. Inv => QueueLockHeld
    BY DEF Inv
  <1> QED  BY <1>1, Invariance, PTL

(* core_processing_stop frees connection state only while nobody processes *)
(* a packet.                                                               *)
THEOREM Pausing == Spec => []PauseExclusive
  <1>1. Inv => PauseExclusive
    BY CoreAssumption DEF Inv, PauseInv, PauseExclusive, CoreAssumption
  <1> QED  BY <1>1, Invariance, PTL

(* No processing thread sleeps on a queue with packets in it, although     *)
(* core_queue_packet signals only when it finds the queue empty.           *)
THEOREM NoLostThreadWakeup == Spec => []SleeperQueueEmpty
  <1>1. Inv => SleeperQueueEmpty
    BY DEF Inv, IdlingEmpty, Idling, SleeperQueueEmpty
  <1> QED  BY <1>1, Invariance, PTL

(* CORE_THREAD_PKT_QUEUE_MAX bounds the queues of unpinned packets.        *)
THEOREM QueueBound == Spec => []UnpinnedHasRoom
  <1>1. Inv => UnpinnedHasRoom
    BY DEF Inv, RoomInv
  <1> QED  BY <1>1, Invariance, PTL

(* core_pkt_queue_count is the number of queued packets.                   *)
THEOREM CountCorrect == Spec => []CountExact
  <1>1. Inv => CountExact
    BY DEF Inv, CountInv
  <1> QED  BY <1>1, Invariance, PTL

(* Whenever an input waits for room there is a queue that will fall below  *)
(* QueueMin, or a thread about to wake the inputs: the two thresholds and  *)
(* the unlocked reads of the count never leave an input waiting for a      *)
(* broadcast that was already made.                                        *)
THEOREM NoLostInputWakeup == Spec => []InputWakeupPending
  <1>1. Inv => InputWakeupPending
    BY DEF Inv
  <1> QED  BY <1>1, Invariance, PTL

-----------------------------------------------------------------------------
(***************************************************************************)
(* Core implements PacketPath, for every number of threads and inputs: a   *)
(* step of a thread either moves one packet along its path or is not seen  *)
(* from there.  The inherited consequence is that a packet has one owner.  *)
(***************************************************************************)
HIDE DEF Workers, Packets, NoAffinity, Flags, States

(***************************************************************************)
(* The packets in the hands of the inputs: each was read, no two inputs    *)
(* have the same one, an input outside core_queue_packet has none; an      *)
(* input being started is off.                                             *)
(***************************************************************************)
InputsOwn ==
  /\ \A i \in Inputs : iPkt[i] # NoPkt => iPc[i] \in Carrying /\ iPkt[i] < next
  /\ \A i, j \in Inputs : i # j /\ iPkt[i] # NoPkt => iPkt[i] # iPkt[j]
  /\ ctl = "open" => iPc[ctlWho] = "off"

LEMMA InputsOwnUntouched ==
  ASSUME InputsOwn, UNCHANGED <<iPkt, iPc, next, ctl, ctlWho>>
  PROVE  InputsOwn'
  BY DEF InputsOwn

LEMMA InputsOwnNext ==
  ASSUME TypeInv, InputsOwn, [Next]_vars
  PROVE  InputsOwn'
  <1>1. ASSUME NEW w \in Workers, WakeInputs(w) PROVE InputsOwn'
    BY <1>1, CoreAssumption DEF InputsOwn, Carrying, CoreAssumption, TypeInv,
       InputInv, InputTypes, HistTypes, CtlInv, CtlTypes, CtlHands, inputVars,
       histVars, ctlVars, WakeInputs, Move, Unlock
  <1>2. ASSUME NEW i \in Inputs, QueueRefused(i) PROVE InputsOwn'
    BY <1>2, CoreAssumption DEF InputsOwn, Carrying, CoreAssumption, TypeInv,
       InputInv, InputTypes, HistTypes, CtlInv, CtlTypes, CtlHands, inputVars,
       histVars, ctlVars, QueueRefused, IMove
  <1>3. ASSUME NEW i \in Inputs, QueueChoose(i) PROVE InputsOwn'
    BY <1>3, CoreAssumption DEF InputsOwn, Carrying, CoreAssumption, TypeInv,
       InputInv, InputTypes, HistTypes, CtlInv, CtlTypes, CtlHands, inputVars,
       histVars, ctlVars, QueueChoose
  <1>4. ASSUME NEW i \in Inputs, QueuePinned(i) PROVE InputsOwn'
    BY <1>4, CoreAssumption DEF InputsOwn, Carrying, CoreAssumption, TypeInv,
       InputInv, InputTypes, HistTypes, CtlInv, CtlTypes, CtlHands, inputVars,
       histVars, ctlVars, QueuePinned, IMove, LockFree
  <1>5. ASSUME NEW i \in Inputs, ScanThread(i) PROVE InputsOwn'
    <2>1. UNCHANGED <<iPkt, next, ctl, ctlWho>>
      BY <1>5 DEF ScanThread, ctlVars, histVars
    <2>2. iPc[i] = "scan" /\ (iPc' = iPc \/ iPc' = [iPc EXCEPT ![i] = "add"])
      BY <1>5 DEF ScanThread
    <2>3. iPc \in [Inputs -> InputPlaces] /\ (ctl = "open" => ctlWho \in Inputs)
      BY DEF TypeInv, InputInv, InputTypes, CtlInv, CtlTypes, CtlHands
    <2> QED  BY <2>1, <2>2, <2>3 DEF InputsOwn, Carrying
  <1>6. ASSUME NEW i \in Inputs, ScanExhausted(i) PROVE InputsOwn'
    BY <1>6, CoreAssumption DEF InputsOwn, Carrying, CoreAssumption, TypeInv,
       InputInv, InputTypes, HistTypes, CtlInv, CtlTypes, CtlHands, inputVars,
       histVars, ctlVars, ScanExhausted, IMove
  <1>7. ASSUME NEW i \in Inputs, ScanFoundNone(i) PROVE InputsOwn'
    BY <1>7, CoreAssumption DEF InputsOwn, Carrying, CoreAssumption, TypeInv,
       InputInv, InputTypes, HistTypes, CtlInv, CtlTypes, CtlHands, inputVars,
       histVars, ctlVars, ScanFoundNone, Rescan
  <1>8. ASSUME NEW i \in Inputs, RecheckFull(i) PROVE InputsOwn'
    BY <1>8, CoreAssumption DEF InputsOwn, Carrying, CoreAssumption, TypeInv,
       InputInv, InputTypes, HistTypes, CtlInv, CtlTypes, CtlHands, inputVars,
       histVars, ctlVars, RecheckFull, Rescan
  <1>9. ASSUME NEW i \in Inputs, AddPacket(i) PROVE InputsOwn'
    BY <1>9, CoreAssumption DEF InputsOwn, Carrying, CoreAssumption, TypeInv,
       InputInv, InputTypes, HistTypes, CtlInv, CtlTypes, CtlHands, inputVars,
       histVars, ctlVars, AddPacket, IMove, AtTail, SignalWhenEmpty
  <1>10a. ASSUME NEW i \in Inputs, AskStop(i) PROVE InputsOwn'
    BY <1>10a, CoreAssumption DEF InputsOwn, Carrying, CoreAssumption, TypeInv,
       InputInv, InputTypes, HistTypes, CtlInv, CtlTypes, CtlHands, inputVars,
       histVars, ctlVars, AskStop, IMove
  <1>10. ASSUME NEW i \in Inputs, SelfStop(i) PROVE InputsOwn'
    BY <1>10, CoreAssumption DEF InputsOwn, Carrying, CoreAssumption, TypeInv,
       InputInv, InputTypes, HistTypes, CtlInv, CtlTypes, CtlHands, inputVars,
       histVars, ctlVars, SelfStop, IMove
  <1>11. ASSUME NEW i \in Inputs, LeaveLoop(i) PROVE InputsOwn'
    BY <1>11, CoreAssumption DEF InputsOwn, Carrying, CoreAssumption, TypeInv,
       InputInv, InputTypes, HistTypes, CtlInv, CtlTypes, CtlHands, inputVars,
       histVars, ctlVars, LeaveLoop, IMove
  <1>12. ASSUME NEW i \in Inputs, CloseInput(i) PROVE InputsOwn'
    BY <1>12, CoreAssumption DEF InputsOwn, Carrying, CoreAssumption, TypeInv,
       InputInv, InputTypes, HistTypes, CtlInv, CtlTypes, CtlHands, inputVars,
       histVars, ctlVars, CloseInput, IMove
  <1>13. ASSUME NEW i \in Inputs, ReadPacket(i) PROVE InputsOwn'
    <2> DEFINE n == next
    <2>1. /\ iPkt[i] = NoPkt /\ iPkt' = [iPkt EXCEPT ![i] = n]
          /\ iPc[i] = "loop" /\ iPc' = [iPc EXCEPT ![i] = "queue"]
          /\ next' = n + 1 /\ n \in Packets /\ UNCHANGED <<ctl, ctlWho>>
      BY <1>13 DEF InputsOwn, Carrying, TypeInv, HistTypes, ReadPacket, IMove, ctlVars, Packets
    <2>2. /\ \A j \in Inputs : iPkt[j] # n
          /\ \A j \in Inputs : iPkt[j] # NoPkt => iPkt[j] < n + 1
      BY <2>1, CoreAssumption
         DEF CoreAssumption, InputsOwn, TypeInv, InputInv, InputTypes, Packets
    <2>3. iPkt \in [Inputs -> Packets \cup {NoPkt}] /\ iPc \in [Inputs -> InputPlaces]
      BY DEF TypeInv, InputInv, InputTypes
    <2>4. \A j \in Inputs : iPkt'[j] # NoPkt => iPc'[j] \in Carrying /\ iPkt'[j] < next'
      BY <2>1, <2>2, <2>3 DEF InputsOwn, Carrying, Packets
    <2>5. \A j, k \in Inputs : j # k /\ iPkt'[j] # NoPkt => iPkt'[j] # iPkt'[k]
      BY <2>1, <2>2, <2>3, CoreAssumption DEF CoreAssumption, InputsOwn
    <2>6. ctl' = "open" => iPc'[ctlWho'] = "off"
      BY <2>1, <2>3 DEF InputsOwn
    <2> QED  BY <2>4, <2>5, <2>6 DEF InputsOwn
  <1>14. ASSUME NEW i \in Inputs, ReadEnd(i) PROVE InputsOwn'
    BY <1>14, CoreAssumption DEF InputsOwn, Carrying, CoreAssumption, TypeInv,
       InputInv, InputTypes, HistTypes, CtlInv, CtlTypes, CtlHands, inputVars,
       histVars, ctlVars, ReadEnd, IMove
  <1>15. ASSUME NEW i \in Inputs, StartInput(i) PROVE InputsOwn'
    BY <1>15, CoreAssumption DEF InputsOwn, Carrying, CoreAssumption, TypeInv,
       InputInv, InputTypes, HistTypes, CtlInv, CtlTypes, CtlHands, inputVars,
       histVars, ctlVars, StartInput, CMove
  <1>16. ASSUME NEW i \in Inputs, StopInput(i) PROVE InputsOwn'
    BY <1>16, CoreAssumption DEF InputsOwn, Carrying, CoreAssumption, TypeInv,
       InputInv, InputTypes, HistTypes, CtlInv, CtlTypes, CtlHands, inputVars,
       histVars, ctlVars, StopInput, CMove
  <1>17. ASSUME OpenInput PROVE InputsOwn'
    BY <1>17, CoreAssumption DEF InputsOwn, Carrying, CoreAssumption, TypeInv,
       InputInv, InputTypes, HistTypes, CtlInv, CtlTypes, CtlHands, inputVars,
       histVars, ctlVars, OpenInput, CMove
  <1>18. ASSUME SetRunning \/ StartProcessing \/ JoinInput \/ SetFinishing \/ NotifyThread
                \/ InputsStopped \/ WaitIdle \/ StopRun \/ SignalThread \/ JoinThread
         PROVE  InputsOwn'
    <2>1. UNCHANGED <<iPkt, iPc, next>> /\ ctl' # "open"
      BY <1>18 DEF SetRunning, StartProcessing, JoinInput, SetFinishing, NotifyThread,
         InputsStopped, WaitIdle, StopRun, SignalThread, JoinThread, CMove, NextTid,
         inputVars, histVars
    <2> QED  BY <2>1 DEF InputsOwn
  <1>19. ASSUME NEW w \in Workers,
              LoopTop(w) \/ LockQueue(w) \/ QueueEmpty(w) \/ ReadGauge(w) \/ GetState(w)
              \/ SetIdle(w) \/ StopPause(w) \/ StopFree(w) \/ ReadRun(w) \/ Sleep(w) \/
              WakeUp(w) \/ Dequeue(w) \/ ReadLock(w) \/ ProcessPacket(w) \/
              ProcessFails(w) \/ Release(w) \/ Halt(w)
       PROVE  InputsOwn'
    BY <1>19, InputsOwnUntouched DEF LoopTop, LockQueue, QueueEmpty, ReadGauge,
       GetState, SetIdle, StopPause, StopFree, ReadRun, Sleep, WakeUp, Dequeue,
       ReadLock, ProcessPacket, ProcessFails, Release, Halt, inputVars, histVars,
       ctlVars
  <1>20. ASSUME Terminate \/ Ended
       PROVE  InputsOwn'
    BY <1>20, InputsOwnUntouched DEF Terminate, Ended, vars, inputVars, histVars,
       ctlVars
  <1>21. CASE UNCHANGED vars
    BY <1>21, InputsOwnUntouched DEF vars, inputVars, histVars, ctlVars
  <1> QED
    BY <1>1, <1>2, <1>3, <1>4, <1>5, <1>6, <1>7, <1>8, <1>9, <1>10a, <1>10, <1>11, <1>12,
       <1>13, <1>14, <1>15, <1>16, <1>17, <1>18, <1>19, <1>20, <1>21
       DEF Next, WorkerStep, InputStep, CtlStep

(***************************************************************************)
(* A processing thread that looks at its queue has let go of the packet it *)
(* took before.                                                            *)
(***************************************************************************)
WorkersOwn ==
  \A w \in Workers :
    cur[w] # NoPkt => pc[w] \in {"wake", "rdlock", "process", "release", "halt", "dead"}

LEMMA WorkersOwnUntouched ==
  ASSUME WorkersOwn, UNCHANGED <<pc, cur>>
  PROVE  WorkersOwn'
  BY DEF WorkersOwn

LEMMA WorkersOwnNext ==
  ASSUME TypeInv, WorkersOwn, [Next]_vars
  PROVE  WorkersOwn'
  <1>1. ASSUME NEW w \in Workers, LoopTop(w) PROVE WorkersOwn'
    BY <1>1 DEF WorkersOwn, TypeInv, WorkerInv, WorkerTypes, CtlInv, CtlTypes,
       workerVars, LoopTop
  <1>2. ASSUME NEW w \in Workers, LockQueue(w) PROVE WorkersOwn'
    BY <1>2 DEF WorkersOwn, TypeInv, WorkerInv, WorkerTypes, CtlInv, CtlTypes,
       workerVars, LockQueue, Move, LockFree
  <1>3. ASSUME NEW w \in Workers, QueueEmpty(w) PROVE WorkersOwn'
    BY <1>3 DEF WorkersOwn, TypeInv, WorkerInv, WorkerTypes, CtlInv, CtlTypes,
       workerVars, QueueEmpty, Move
  <1>4. ASSUME NEW w \in Workers, ReadGauge(w) PROVE WorkersOwn'
    BY <1>4 DEF WorkersOwn, TypeInv, WorkerInv, WorkerTypes, CtlInv, CtlTypes,
       workerVars, ReadGauge
  <1>5. ASSUME NEW w \in Workers, GetState(w) PROVE WorkersOwn'
    BY <1>5 DEF WorkersOwn, TypeInv, WorkerInv, WorkerTypes, CtlInv, CtlTypes,
       workerVars, GetState
  <1>6. ASSUME NEW w \in Workers, SetIdle(w) PROVE WorkersOwn'
    BY <1>6 DEF WorkersOwn, TypeInv, WorkerInv, WorkerTypes, CtlInv, CtlTypes,
       workerVars, SetIdle
  <1>7. ASSUME NEW w \in Workers, StopPause(w) PROVE WorkersOwn'
    BY <1>7 DEF WorkersOwn, TypeInv, WorkerInv, WorkerTypes, CtlInv, CtlTypes,
       workerVars, StopPause, Move, CanPause
  <1>8. ASSUME NEW w \in Workers, StopFree(w) PROVE WorkersOwn'
    BY <1>8 DEF WorkersOwn, TypeInv, WorkerInv, WorkerTypes, CtlInv, CtlTypes,
       workerVars, StopFree, Move
  <1>9. ASSUME NEW w \in Workers, ReadRun(w) PROVE WorkersOwn'
    BY <1>9 DEF WorkersOwn, TypeInv, WorkerInv, WorkerTypes, CtlInv, CtlTypes,
       workerVars, ReadRun, Unlock
  <1>10. ASSUME NEW w \in Workers, Sleep(w) PROVE WorkersOwn'
    BY <1>10 DEF WorkersOwn, TypeInv, WorkerInv, WorkerTypes, CtlInv, CtlTypes,
       workerVars, Sleep, Move, Unlock
  <1>11. ASSUME NEW w \in Workers, WakeUp(w) PROVE WorkersOwn'
    BY <1>11 DEF WorkersOwn, TypeInv, WorkerInv, WorkerTypes, CtlInv, CtlTypes,
       workerVars, WakeUp, Move, LockFree
  <1>12. ASSUME NEW w \in Workers, Dequeue(w) PROVE WorkersOwn'
    BY <1>12 DEF WorkersOwn, TypeInv, WorkerInv, WorkerTypes, CtlInv, CtlTypes,
       workerVars, Dequeue, Unlock, DropHead
  <1>13. ASSUME NEW w \in Workers, WakeInputs(w) PROVE WorkersOwn'
    BY <1>13 DEF WorkersOwn, TypeInv, WorkerInv, WorkerTypes, CtlInv, CtlTypes,
       workerVars, WakeInputs, Move, Unlock
  <1>14. ASSUME NEW w \in Workers, ReadLock(w) PROVE WorkersOwn'
    BY <1>14 DEF WorkersOwn, TypeInv, WorkerInv, WorkerTypes, CtlInv, CtlTypes,
       workerVars, ReadLock, Move
  <1>15. ASSUME NEW w \in Workers, ProcessPacket(w) PROVE WorkersOwn'
    BY <1>15 DEF WorkersOwn, TypeInv, WorkerInv, WorkerTypes, CtlInv, CtlTypes,
       workerVars, ProcessPacket, Move
  <1>16. ASSUME NEW w \in Workers, ProcessFails(w) PROVE WorkersOwn'
    BY <1>16 DEF WorkersOwn, TypeInv, WorkerInv, WorkerTypes, CtlInv, CtlTypes,
       workerVars, ProcessFails, Move
  <1>17. ASSUME NEW w \in Workers, Release(w) PROVE WorkersOwn'
    BY <1>17 DEF WorkersOwn, TypeInv, WorkerInv, WorkerTypes, CtlInv, CtlTypes,
       workerVars, Release, Move
  <1>18. ASSUME NEW w \in Workers, Halt(w) PROVE WorkersOwn'
    BY <1>18 DEF WorkersOwn, TypeInv, WorkerInv, WorkerTypes, CtlInv, CtlTypes,
       workerVars, Halt, Move
  <1>19. ASSUME NEW i \in Inputs, AddPacket(i) PROVE WorkersOwn'
    BY <1>19 DEF WorkersOwn, TypeInv, WorkerInv, WorkerTypes, CtlInv, CtlTypes,
       workerVars, AddPacket, IMove, AtTail, SignalWhenEmpty
  <1>20. ASSUME NotifyThread PROVE WorkersOwn'
    BY <1>20 DEF WorkersOwn, TypeInv, WorkerInv, WorkerTypes, CtlInv, CtlTypes,
       workerVars, NotifyThread, Signal, LockFree, NextTid
  <1>21. ASSUME SignalThread PROVE WorkersOwn'
    BY <1>21 DEF WorkersOwn, TypeInv, WorkerInv, WorkerTypes, CtlInv, CtlTypes,
       workerVars, SignalThread, CMove, Signal
  <1>22. ASSUME NEW i \in Inputs,
              QueueRefused(i) \/ QueueChoose(i) \/ QueuePinned(i) \/ ScanThread(i) \/
              ScanExhausted(i) \/ ScanFoundNone(i) \/ RecheckFull(i) \/ AskStop(i) \/
              SelfStop(i) \/ LeaveLoop(i) \/ CloseInput(i) \/ ReadPacket(i) \/ ReadEnd(i) \/
              StartInput(i) \/ StopInput(i)
       PROVE  WorkersOwn'
    BY <1>22, WorkersOwnUntouched DEF QueueRefused, QueueChoose, QueuePinned,
       ScanThread, ScanExhausted, ScanFoundNone, RecheckFull, AskStop, SelfStop, LeaveLoop,
       CloseInput, ReadPacket, ReadEnd, StartInput, StopInput, workerVars
  <1>23. ASSUME OpenInput \/ SetRunning \/ StartProcessing \/ JoinInput \/ SetFinishing \/
              InputsStopped \/ WaitIdle \/ StopRun \/ JoinThread \/ Terminate \/ Ended
       PROVE  WorkersOwn'
    BY <1>23, WorkersOwnUntouched DEF OpenInput, SetRunning, StartProcessing,
       JoinInput, SetFinishing, InputsStopped, WaitIdle, StopRun, JoinThread,
       Terminate, Ended, vars, workerVars
  <1>24. CASE UNCHANGED vars
    BY <1>24, WorkersOwnUntouched DEF vars, workerVars
  <1> QED
    BY <1>1, <1>2, <1>3, <1>4, <1>5, <1>6, <1>7, <1>8, <1>9, <1>10, <1>11, <1>12,
       <1>13, <1>14, <1>15, <1>16, <1>17, <1>18, <1>19, <1>20, <1>21, <1>22, <1>23,
       <1>24 DEF Next, WorkerStep, InputStep, CtlStep

OwnInv == Inv /\ InputsOwn /\ WorkersOwn

LEMMA OwnInvariance == Spec => []OwnInv
  <1>1. Init => InputsOwn /\ WorkersOwn
    BY DEF Init, InputsOwn, WorkersOwn
  <1>2. OwnInv /\ [Next]_vars => OwnInv'
    BY InvNext, InputsOwnNext, WorkersOwnNext DEF OwnInv, Inv
  <1> QED  BY <1>1, <1>2, InvInit, PTL DEF Spec, OwnInv

-----------------------------------------------------------------------------
(***************************************************************************)
(* Steps.                                                                  *)
(***************************************************************************)
LEMMA StepRead ==
  ASSUME OwnInv, NEW i \in Inputs, ReadPacket(i)
  PROVE  Path!Read
  <1>1. iPkt[i] = NoPkt /\ iPkt' = [iPkt EXCEPT ![i] = next] /\ next \in Packets
    BY DEF OwnInv, Inv, TypeInv, HistTypes, InputsOwn, Carrying, ReadPacket, IMove,
           Packets
  <1>2. Offered' = Offered \cup {next}
    <2>1. iPkt \in [Inputs -> Packets \cup {NoPkt}] /\ next # NoPkt
      BY <1>1, CoreAssumption DEF CoreAssumption, OwnInv, Inv, TypeInv, InputInv, InputTypes
    <2> QED  BY <1>1, <2>1 DEF Offered
  <1> QED
    BY <1>1, <1>2 DEF Path!Read, Path!Packets, Packets, ReadPacket, queueVars, workerVars

(* Letting go of the packet in hand removes it from the offered ones.      *)
LEMMA LetGo ==
  ASSUME OwnInv, NEW i \in Inputs, iPc[i] \in Carrying,
         iPkt' = [iPkt EXCEPT ![i] = NoPkt]
  PROVE  /\ iPkt[i] \in Offered
         /\ Offered' = Offered \ {iPkt[i]}
  <1>1. iPkt \in [Inputs -> Packets \cup {NoPkt}] /\ iPkt[i] \in Packets
    BY DEF OwnInv, Inv, TypeInv, InputInv, InputTypes, InputHands
  <1>2. iPkt[i] # NoPkt
    BY <1>1, CoreAssumption DEF CoreAssumption
  <1>3. \A j \in Inputs : j # i => iPkt[j] # iPkt[i]
    BY <1>2 DEF OwnInv, InputsOwn
  <1> QED  BY <1>1, <1>2, <1>3 DEF Offered

LEMMA StepRefuse ==
  ASSUME OwnInv, NEW i \in Inputs, QueueRefused(i)
  PROVE  \E p \in Offered : Path!Refuse(p)
  <1>1. iPkt[i] \in Offered /\ Offered' = Offered \ {iPkt[i]}
    BY LetGo DEF QueueRefused, IMove, Carrying
  <1>2. Path!Refuse(iPkt[i])
    BY <1>1 DEF Path!Refuse, QueueRefused, queueVars, workerVars, histVars
  <1> QED  BY <1>1, <1>2

LEMMA StepFoundNone ==
  ASSUME OwnInv, NEW i \in Inputs, ScanFoundNone(i)
  PROVE  (\E p \in Offered : Path!Drop(p)) \/ UNCHANGED Path!pathVars
  <1>1. CASE UNCHANGED <<iPkt, dropped>>
    BY <1>1 DEF ScanFoundNone, Path!pathVars, Offered, queueVars, workerVars
  <1>2. CASE iPkt' = [iPkt EXCEPT ![i] = NoPkt] /\ dropped' = dropped \cup {iPkt[i]}
    <2>1. iPkt[i] \in Offered /\ Offered' = Offered \ {iPkt[i]}
      BY <1>2, LetGo DEF ScanFoundNone, Carrying
    <2>2. Path!Drop(iPkt[i])
      BY <1>2, <2>1 DEF Path!Drop, ScanFoundNone, queueVars, workerVars
    <2> QED  BY <2>1, <2>2
  <1> QED  BY <1>1, <1>2 DEF ScanFoundNone

LEMMA StepPut ==
  ASSUME OwnInv, NEW i \in Inputs, AddPacket(i)
  PROVE  \E p \in Offered : \E w \in Workers : Path!Put(p, w)
  <1>1. iPkt[i] \in Offered /\ Offered' = Offered \ {iPkt[i]}
    BY LetGo DEF AddPacket, IMove, Carrying
  <1>2. iTid[i] \in Workers
    BY DEF OwnInv, Inv, TypeInv, InputInv, InputTypes
  <1>3. queue' = [queue EXCEPT ![iTid[i]] = Append(@, iPkt[i])]
    BY DEF AddPacket, AtTail
  <1>4. Path!Put(iPkt[i], iTid[i])
    BY <1>1, <1>3 DEF Path!Put, AddPacket, histVars
  <1> QED  BY <1>1, <1>2, <1>4

LEMMA StepTake ==
  ASSUME OwnInv, NEW w \in Workers, Dequeue(w)
  PROVE  Path!Take(w)
  <1>1. cur[w] = NoPkt
    BY DEF OwnInv, WorkersOwn, Dequeue
  <1>2. queue' = [queue EXCEPT ![w] = Tail(@)]
    BY DEF Dequeue, DropHead
  <1>3. Offered' = Offered
    BY DEF Dequeue, Offered, inputVars
  <1> QED  BY <1>1, <1>2, <1>3 DEF Path!Take, Dequeue, histVars

LEMMA StepFinish ==
  ASSUME OwnInv, NEW w \in Workers, Release(w)
  PROVE  Path!Finish(w)
  <1>1. cur[w] \in Packets
    BY DEF OwnInv, Inv, TypeInv, WorkerInv, WorkerHands, Release, Move
  <1>2. cur[w] # NoPkt
    BY <1>1, CoreAssumption DEF CoreAssumption
  <1>3. Offered' = Offered
    BY DEF Release, Offered, inputVars
  <1> QED  BY <1>2, <1>3 DEF Path!Finish, Release, queueVars

LEMMA StepDiscard ==
  ASSUME OwnInv, JoinThread
  PROVE  \E w \in Workers : Path!Discard(w)
  <1>1. ctlTid \in Workers
    BY DEF OwnInv, Inv, TypeInv, CtlInv, CtlTypes
  <1>2. Offered' = Offered
    BY DEF JoinThread, Offered, inputVars
  <1>3. Path!Discard(ctlTid)
    BY <1>2 DEF Path!Discard, JoinThread, workerVars, histVars
  <1> QED  BY <1>1, <1>3

LEMMA StepHidden ==
  ASSUME UNCHANGED <<next, iPkt, queue, cur, done, dropped>>
  PROVE  UNCHANGED Path!pathVars
  BY DEF Path!pathVars, Offered

LEMMA Step ==
  ASSUME OwnInv, [Next]_vars
  PROVE  [Path!Next]_Path!pathVars
  <1>1. ASSUME NEW i \in Inputs, ReadPacket(i) PROVE Path!Next
    BY <1>1, StepRead DEF Path!Next
  <1>2. ASSUME NEW i \in Inputs, QueueRefused(i) PROVE Path!Next
    BY <1>2, StepRefuse DEF Path!Next
  <1>3. ASSUME NEW i \in Inputs, ScanFoundNone(i) PROVE [Path!Next]_Path!pathVars
    BY <1>3, StepFoundNone DEF Path!Next
  <1>4. ASSUME NEW i \in Inputs, AddPacket(i) PROVE Path!Next
    BY <1>4, StepPut DEF Path!Next
  <1>5. ASSUME NEW w \in Workers, Dequeue(w) PROVE Path!Next
    BY <1>5, StepTake DEF Path!Next
  <1>6. ASSUME NEW w \in Workers, Release(w) PROVE Path!Next
    BY <1>6, StepFinish DEF Path!Next
  <1>7. ASSUME JoinThread PROVE Path!Next
    BY <1>7, StepDiscard DEF Path!Next
  <1>8. ASSUME NEW w \in Workers,
               LoopTop(w) \/ LockQueue(w) \/ QueueEmpty(w) \/ ReadGauge(w) \/ GetState(w)
               \/ SetIdle(w) \/ StopPause(w) \/ StopFree(w) \/ ReadRun(w) \/ Sleep(w)
               \/ WakeUp(w) \/ WakeInputs(w) \/ ReadLock(w) \/ ProcessPacket(w)
               \/ ProcessFails(w) \/ Halt(w)
        PROVE  UNCHANGED Path!pathVars
    BY <1>8, StepHidden
       DEF LoopTop, LockQueue, QueueEmpty, ReadGauge, GetState, SetIdle, StopPause, StopFree,
           ReadRun, Sleep, WakeUp, WakeInputs, ReadLock, ProcessPacket, ProcessFails, Halt,
           queueVars, inputVars, histVars
  <1>9. ASSUME NEW i \in Inputs,
               QueueChoose(i) \/ QueuePinned(i) \/ ScanThread(i) \/ ScanExhausted(i)
               \/ RecheckFull(i) \/ AskStop(i) \/ SelfStop(i) \/ LeaveLoop(i) \/ CloseInput(i) \/ ReadEnd(i)
               \/ StartInput(i) \/ StopInput(i)
        PROVE  UNCHANGED Path!pathVars
    BY <1>9, StepHidden
       DEF QueueChoose, QueuePinned, ScanThread, ScanExhausted, RecheckFull, AskStop, SelfStop,
           LeaveLoop, CloseInput, ReadEnd, StartInput, StopInput,
           queueVars, workerVars, inputVars, histVars
  <1>10. ASSUME OpenInput \/ SetRunning \/ StartProcessing \/ JoinInput \/ SetFinishing
                \/ NotifyThread \/ InputsStopped \/ WaitIdle \/ StopRun \/ SignalThread
                \/ Terminate \/ Ended
         PROVE  UNCHANGED Path!pathVars
    BY <1>10, StepHidden
       DEF OpenInput, SetRunning, StartProcessing, JoinInput, SetFinishing, NotifyThread,
           InputsStopped, WaitIdle, StopRun, SignalThread, Terminate, Ended,
           vars, queueVars, workerVars, inputVars, histVars
  <1>11. CASE UNCHANGED vars
    BY <1>11, StepHidden DEF vars, queueVars, workerVars, inputVars, histVars
  <1> QED
    BY <1>1, <1>2, <1>3, <1>4, <1>5, <1>6, <1>7, <1>8, <1>9, <1>10, <1>11
       DEF Next, WorkerStep, InputStep, CtlStep

-----------------------------------------------------------------------------
(* Whatever the threads, the locks and the wake-ups do, a packet goes from *)
(* the input that read it through one queue, in order, to one thread.      *)
THEOREM Implements == Spec => ImplementsPath
  <1>1. Init => Path!Init
    BY DEF Init, Path!Init, Offered
  <1>2. OwnInv /\ [Next]_vars => [Path!Next]_Path!pathVars
    BY Step
  <1> QED  BY <1>1, <1>2, OwnInvariance, PTL DEF Spec, ImplementsPath, Path!Spec

Proved == INSTANCE PacketPathProofs WITH Lines <- Workers, line <- queue, hand <- cur,
                                         offered <- Offered

(* No packet is queued twice, processed twice or touched after release.    *)
THEOREM CoreOneOwner == Spec => []OneOwner
  <1>1. Proved!PathAssumption
    BY CoreAssumption DEF CoreAssumption, Packets, Proved!PathAssumption, Proved!Packets
  <1>2. Path!Spec => Proved!Spec
    <2>1. Path!Init => Proved!Init
      BY DEF Path!Init, Proved!Init
    <2>2. [Path!Next]_(Path!pathVars) => [Proved!Next]_(Proved!pathVars)
      BY DEF Path!Next, Path!pathVars, Path!Packets, Path!Read, Path!Put, Path!Refuse, Path!Drop,
             Path!Take, Path!Finish, Path!Discard, Proved!Next, Proved!pathVars,
             Proved!Packets, Proved!Read, Proved!Put, Proved!Refuse, Proved!Drop,
             Proved!Take, Proved!Finish, Proved!Discard
    <2> QED  BY <2>1, <2>2, PTL DEF Path!Spec, Proved!Spec
  <1>3. Proved!Spec => []Proved!OneOwner
    BY <1>1, Proved!OneOwnerCorrect
  <1>4. Proved!OneOwner => OneOwner
    BY DEF OneOwner, Path!OneOwner, Path!InLine, Path!Outside,
           Proved!OneOwner, Proved!InLine, Proved!Outside
  <1> QED  BY Implements, <1>2, <1>3, <1>4, PTL DEF ImplementsPath
=============================================================================
