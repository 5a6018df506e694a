----------------------------- MODULE FlowsProofs ----------------------------
(***************************************************************************)
(* Proofs about what a connection carries: whose turn it is to reassemble  *)
(* its stream (StreamTurn), its events and who hears of them (Event), its  *)
(* state and its timer (Tcp), the payloads that are stored and read while  *)
(* they grow (PloadStore), the connections it announces (Expectation), its *)
(* sequence numbers (StreamSeq), and what a protocol reads of it           *)
(* (StreamParser, Http).  The modules share no variable: each has its own  *)
(* invariant, in a section of its own.                                     *)
(***************************************************************************)
EXTENDS StreamSeq, StreamTurn, Event, Tcp, PloadStore, Expectation, Http, FiniteSetTheorems, SequenceTheorems,
        WellFoundedInduction, TLAPS

-----------------------------------------------------------------------------
(***************************************************************************)
(* Whose turn it is (StreamTurn).                                         *)
(***************************************************************************)

(* A list with an element put in: the wait list of a stream, where a       *)
(* thread goes behind what is older, and the packets that are kept.        *)
InsertedAt(S, new, list, t, at) ==
  /\ new \in Seq(S) /\ Len(new) = Len(list) + 1
  /\ new[at] = t
  /\ \A i \in 1 .. at - 1 : new[i] = list[i]
  /\ \A i \in at + 1 .. Len(new) : new[i] = list[i - 1]

LEMMA InsertAtPlace ==
  ASSUME NEW S, NEW list \in Seq(S), NEW t \in S, NEW at \in 1 .. Len(list) + 1
  PROVE  InsertedAt(S, InsertAt(list, at, t), list, t, at)
  <1> DEFINE front == SubSeq(list, 1, at - 1)
             back == SubSeq(list, at, Len(list))
  <1>1. /\ front \in Seq(S) /\ Len(front) = at - 1
        /\ \A i \in 1 .. at - 1 : front[i] = list[i]
    BY SubSeqProperties
  <1>2. /\ back \in Seq(S) /\ Len(back) = Len(list) - at + 1
        /\ \A i \in 1 .. Len(list) - at + 1 : back[i] = list[at + i - 1]
    BY SubSeqProperties
  <1> HIDE DEF front, back
  <1> DEFINE half == front \o <<t>>
  <1>4. /\ half \in Seq(S) /\ Len(half) = at
        /\ \A i \in 1 .. at : half[i] = IF i = at THEN t ELSE front[i]
    BY <1>1
  <1> HIDE DEF half
  <1> DEFINE new == half \o back
  <1>5. /\ new \in Seq(S) /\ Len(new) = Len(half) + Len(back)
        /\ \A i \in 1 .. Len(half) + Len(back) :
             new[i] = IF i <= Len(half) THEN half[i] ELSE back[i - Len(half)]
    BY <1>2, <1>4, ConcatProperties, Zenon
  <1>6. InsertAt(list, at, t) = new
    BY DEF InsertAt, half, front, back
  <1> HIDE DEF new
  <1>7. Len(list) \in Nat
    OBVIOUS
  <1>8. Len(new) = Len(list) + 1 /\ new[at] = t
    BY <1>2, <1>4, <1>5, <1>7
  <1>9. ASSUME NEW i \in 1 .. at - 1 PROVE new[i] = list[i]
    <2>1. i \in 1 .. at /\ i # at /\ i <= Len(half) /\ i \in 1 .. Len(half) + Len(back)
      BY <1>2, <1>4, <1>7
    <2>2. new[i] = half[i] /\ half[i] = front[i]
      BY <1>4, <1>5, <2>1
    <2> QED  BY <1>1, <2>2
  <1>10. ASSUME NEW i \in at + 1 .. Len(new) PROVE new[i] = list[i - 1]
    <2>1. i - at \in 1 .. Len(list) - at + 1 /\ at + (i - at) - 1 = i - 1
      BY <1>7, <1>8
    <2>2. new[i] = back[i - at]
      BY <1>2, <1>4, <1>5, <1>7, <1>8
    <2> QED  BY <1>2, <2>1, <2>2
  <1> QED  BY <1>5, <1>6, <1>8, <1>9, <1>10 DEF InsertedAt

SmallerNat == {pair \in Nat \X Nat : pair[1] < pair[2]}

LEMMA LeastNat ==
  ASSUME NEW T \in SUBSET Nat, T # {}
  PROVE  \E m \in T : \A n \in T : m <= n
  <1>1. IsWellFoundedOn(SmallerNat, Nat)
    BY NatLessThanWellFounded DEF OpToRel, SmallerNat
  <1>2. PICK m \in T : \A n \in T : ~ (<<n, m>> \in SmallerNat)
    BY <1>1, WFMin
  <1>3. ASSUME NEW n \in T PROVE m <= n
    <2>1. n \in Nat /\ m \in Nat /\ <<n, m>> \notin SmallerNat
      BY <1>2
    <2> QED  BY <2>1 DEF SmallerNat
  <1> QED  BY <1>3

LEMMA BeforeYoungerPlace ==
  ASSUME TurnTypeOK, NEW t \in Callers, NEW stamp
  PROVE  \E at \in 1 .. Len(waiting) + 1 :
           /\ InsertedAt(Callers, BeforeYounger(waiting, t, stamp), waiting, t, at)
           /\ \A i \in 1 .. at - 1 : ts[waiting[i]] < stamp
           /\ at <= Len(waiting) => ~(ts[waiting[at]] < stamp)
  <1> DEFINE older == {i \in DOMAIN waiting : ts[waiting[i]] < stamp}
             First(i) == i \notin older /\ \A j \in 1 .. i - 1 : j \in older
             at == IF \E i \in DOMAIN waiting : i \notin older
                   THEN CHOOSE i \in DOMAIN waiting : First(i)
                   ELSE Len(waiting) + 1
  <1>1. waiting \in Seq(Callers) /\ DOMAIN waiting = 1 .. Len(waiting) /\ Len(waiting) \in Nat
    BY DEF TurnTypeOK
  <1>2. ASSUME NEW k \in DOMAIN waiting, k \notin older
        PROVE  \E i \in DOMAIN waiting : First(i)
    <2> DEFINE young == {i \in DOMAIN waiting : i \notin older}
    <2>1. young \subseteq Nat /\ young # {}
      BY <1>1, <1>2
    <2>2. PICK m \in young : \A n \in young : m <= n
      <3> HIDE DEF young
      <3> QED  BY <2>1, LeastNat
    <2> QED  BY <1>1, <2>2
  <1>3. /\ at \in 1 .. Len(waiting) + 1
        /\ \A i \in 1 .. at - 1 : i \in older
        /\ at <= Len(waiting) => at \notin older
    <2>1. CASE \E i \in DOMAIN waiting : i \notin older
      <3>1. at \in DOMAIN waiting /\ First(at)
        BY <1>2, <2>1
      <3> QED  BY <1>1, <3>1
    <2>2. CASE ~ \E i \in DOMAIN waiting : i \notin older
      BY <1>1, <2>2
    <2> QED  BY <2>1, <2>2
  <1>4. BeforeYounger(waiting, t, stamp) = InsertAt(waiting, at, t)
    BY DEF BeforeYounger
  <1> HIDE DEF at
  <1>5. InsertedAt(Callers, InsertAt(waiting, at, t), waiting, t, at)
    BY <1>1, <1>3, InsertAtPlace
  <1> QED  BY <1>1, <1>3, <1>4, <1>5

-----------------------------------------------------------------------------
(* The wait list holds the threads that wait, each once, the oldest packet *)
(* first.                                                                  *)
InList(t) == \E i \in DOMAIN waiting : waiting[i] = t

ListInv ==
  /\ \A t \in Callers : turnPc[t] = "waiting" <=> InList(t)
  /\ \A i, j \in DOMAIN waiting : waiting[i] = waiting[j] => i = j
OldestFirst == \A i, j \in DOMAIN waiting : i < j => ts[waiting[i]] <= ts[waiting[j]]

(* Who holds the lock is inside, and nobody else is.                       *)
InsideHolds == \A t \in Callers : turnPc[t] = "inside" <=> holder = t

TurnInv == TurnTypeOK /\ ListInv /\ OldestFirst /\ InsideHolds /\ NoLostTurn

USE DEF TurnPcs

LEMMA TurnInitInv == TurnInit => TurnInv
  <1> SUFFICES ASSUME TurnInit PROVE TurnInv
    OBVIOUS
  <1>1. waiting \in Seq(Callers) /\ DOMAIN waiting = {}
    BY DEF TurnInit
  <1> QED  BY <1>1, StreamTurnAssumption
              DEF StreamTurnAssumption, TurnInit, TurnInv, TurnTypeOK, ListInv, InList,
                  OldestFirst, InsideHolds, NoLostTurn

(* The list is left alone by a thread that is not in it.                   *)
LEMMA ListKept ==
  ASSUME TurnInv, waiting' = waiting, NEW t \in Callers, turnPc[t] # "waiting",
         NEW l \in TurnPcs \ {"waiting"}, turnPc' = [turnPc EXCEPT ![t] = l],
         \A u \in Callers \ {t} : ts'[u] = ts[u]
  PROVE  ListInv' /\ OldestFirst'
  <1>1. ListInv'
    BY DEF TurnInv, TurnTypeOK, ListInv, InList
  <1>2. ASSUME NEW i \in DOMAIN waiting PROVE waiting[i] \in Callers \ {t}
    BY <1>2 DEF TurnInv, TurnTypeOK, ListInv, InList
  <1>3. ASSUME NEW i \in DOMAIN waiting PROVE ts'[waiting[i]] = ts[waiting[i]]
    BY <1>2 DEF TurnInv, TurnTypeOK
  <1> QED  BY <1>1, <1>3 DEF TurnInv, OldestFirst

LEMMA GoInKeeps ==
  ASSUME TurnInv, NEW t \in Callers, NEW stamp \in 0 .. MaxTs, GoIn(t, stamp)
  PROVE  TurnInv'
  <1>1. TurnTypeOK'
    BY StreamTurnAssumption
       DEF TurnInv, TurnTypeOK, StreamTurnAssumption, GoIn, Come, TurnTo
  <1>2. ListInv' /\ OldestFirst'
    <2>1. /\ waiting' = waiting /\ turnPc[t] # "waiting"
          /\ turnPc' = [turnPc EXCEPT ![t] = "inside"] /\ ts' = [ts EXCEPT ![t] = stamp]
      BY DEF GoIn, Come, TurnTo
    <2>2. "inside" \in TurnPcs \ {"waiting"}
      OBVIOUS
    <2>3. \A u \in Callers \ {t} : ts'[u] = ts[u]
      BY <2>1 DEF TurnInv, TurnTypeOK
    <2> QED  BY <2>1, <2>2, <2>3, ListKept
  <1>3. InsideHolds'
    BY StreamTurnAssumption
       DEF StreamTurnAssumption, TurnInv, TurnTypeOK, InsideHolds, GoIn, Come, TurnTo
  <1>4. NoLostTurn'
    BY DEF TurnInv, TurnTypeOK, NoLostTurn, GoIn, Come, TurnTo
  <1> QED  BY <1>1, <1>2, <1>3, <1>4 DEF TurnInv

LEMMA QueueKeeps ==
  ASSUME TurnInv, NEW t \in Callers, NEW stamp \in 0 .. MaxTs, Queue(t, stamp)
  PROVE  TurnInv'
  <1> DEFINE list == waiting
  <1>1. PICK at \in 1 .. Len(waiting) + 1 :
          /\ InsertedAt(Callers, waiting', waiting, t, at)
          /\ \A i \in 1 .. at - 1 : ts[waiting[i]] < stamp
          /\ at <= Len(waiting) => ~(ts[waiting[at]] < stamp)
    BY BeforeYoungerPlace DEF Queue, TurnInv
  <1>2. /\ turnPc \in [Callers -> TurnPcs] /\ ts \in [Callers -> 0 .. MaxTs]
        /\ turnPc[t] = "away" /\ turnPc' = [turnPc EXCEPT ![t] = "waiting"]
        /\ ts' = [ts EXCEPT ![t] = stamp] /\ MaxTs \in Nat
    BY StreamTurnAssumption
       DEF StreamTurnAssumption, TurnInv, TurnTypeOK, Queue, Come, TurnTo
  <1>3. /\ waiting \in Seq(Callers) /\ Len(waiting) \in Nat /\ DOMAIN waiting = 1 .. Len(waiting)
        /\ waiting' \in Seq(Callers) /\ Len(waiting') = Len(waiting) + 1
        /\ DOMAIN waiting' = 1 .. Len(waiting) + 1
    BY <1>1 DEF InsertedAt, TurnInv, TurnTypeOK
  <1>4. ASSUME NEW i \in DOMAIN waiting PROVE waiting[i] \in Callers \ {t}
    <2>1. waiting[i] \in Callers
      BY <1>3, <1>4
    <2>2. InList(waiting[i])
      BY <1>4 DEF InList
    <2>3. turnPc[waiting[i]] = "waiting"
      BY <2>1, <2>2 DEF TurnInv, ListInv
    <2> QED  BY <1>2, <2>1, <2>3
  \* where the entries of the new list were in the old one
  <1> DEFINE Old(i) == IF i < at THEN i ELSE i - 1
  <1>5. /\ waiting'[at] = t
        /\ \A i \in DOMAIN waiting' \ {at} : Old(i) \in DOMAIN waiting /\ waiting'[i] = waiting[Old(i)]
    BY <1>1, <1>3 DEF InsertedAt
  <1>6. \A i \in DOMAIN waiting : \E j \in DOMAIN waiting' \ {at} : Old(j) = i
    <2>1. ASSUME NEW i \in DOMAIN waiting, i < at PROVE i \in DOMAIN waiting' \ {at} /\ Old(i) = i
      BY <1>3, <2>1
    <2>2. ASSUME NEW i \in DOMAIN waiting, ~(i < at)
          PROVE  i + 1 \in DOMAIN waiting' \ {at} /\ Old(i + 1) = i
      BY <1>3, <2>2
    <2> QED  BY <2>1, <2>2
  <1>7. TurnTypeOK'
    <2>1. signalled' \in SUBSET Callers
      BY <1>3 DEF Queue, HeadSignalled, OlderWaits, TurnInv, TurnTypeOK
    <2> QED  BY <1>2, <1>3, <2>1, StreamTurnAssumption
                DEF StreamTurnAssumption, TurnInv, TurnTypeOK, Queue, Come
  <1>8. ListInv'
    <2>1. ASSUME NEW u \in Callers PROVE turnPc'[u] = "waiting" <=> InList(u)'
      <3>1. CASE u = t
        BY <1>2, <1>3, <1>5, <3>1 DEF InList
      <3>2. CASE u # t
        <4>1. InList(u)' <=> InList(u)
          BY <1>5, <1>6, <3>2 DEF InList
        <4> QED  BY <1>2, <3>2, <4>1 DEF TurnInv, ListInv
      <3> QED  BY <3>1, <3>2
    <2>2. ASSUME NEW i \in DOMAIN waiting', NEW j \in DOMAIN waiting', waiting'[i] = waiting'[j]
          PROVE  i = j
      <3>1. CASE i # at /\ j # at
        <4>1. Old(i) = Old(j)
          BY <1>5, <2>2, <3>1 DEF TurnInv, ListInv
        <4> QED  BY <1>3, <3>1, <4>1
      <3>2. CASE i = at \/ j = at
        BY <1>4, <1>5, <2>2, <3>2
      <3> QED  BY <3>1, <3>2
    <2> QED  BY <2>1, <2>2 DEF ListInv
  <1>9. OldestFirst'
    <2> DEFINE Stamp(i) == ts'[waiting'[i]]
    <2>1. \A i \in DOMAIN waiting : ts[waiting[i]] \in Nat
      BY <1>2, <1>4
    <2>2. Stamp(at) = stamp
      BY <1>2, <1>5
    <2>3. ASSUME NEW i \in DOMAIN waiting', i # at
          PROVE  Old(i) \in DOMAIN waiting /\ Stamp(i) = ts[waiting[Old(i)]]
      BY <1>2, <1>4, <1>5, <2>3
    <2>4. ASSUME NEW i \in DOMAIN waiting, NEW j \in DOMAIN waiting, i < j
          PROVE  ts[waiting[i]] <= ts[waiting[j]]
      BY <2>4 DEF TurnInv, OldestFirst
    <2>5. ASSUME NEW i \in DOMAIN waiting', NEW j \in DOMAIN waiting', i < j
          PROVE  Stamp(i) <= Stamp(j)
      <3>1. CASE i = at
        <4>1. Old(j) \in DOMAIN waiting /\ at \in DOMAIN waiting /\ (Old(j) = at \/ at < Old(j))
          BY <1>3, <2>3, <2>5, <3>1
        <4>2. stamp <= ts[waiting[at]]
          BY <1>1, <1>3, <2>1, <4>1
        <4> QED  BY <2>1, <2>2, <2>3, <2>4, <2>5, <3>1, <4>1, <4>2
      <3>2. CASE j = at
        BY <1>1, <1>3, <2>1, <2>2, <2>3, <2>5, <3>2
      <3>3. CASE i # at /\ j # at
        <4>1. Old(i) < Old(j)
          BY <1>3, <2>5, <3>3
        <4> QED  BY <2>3, <2>4, <3>3, <4>1
      <3> QED  BY <3>1, <3>2, <3>3
    <2> QED  BY <2>5 DEF OldestFirst
  <1>10. InsideHolds'
    BY <1>2 DEF TurnInv, InsideHolds, Queue
  <1>11. NoLostTurn'
    <2>1. CASE holder = NoThread
      <3>1. 1 \in DOMAIN waiting /\ waiting[1] \in signalled'
        BY <1>3, <2>1, StreamTurnAssumption
           DEF StreamTurnAssumption, Queue, OlderWaits, HeadSignalled, TurnInv
      <3> QED  BY <1>5, <1>6, <3>1 DEF NoLostTurn
    <2>2. CASE holder # NoThread
      <3>1. holder \in Callers /\ turnPc'[holder] = "inside"
        BY <1>2, <2>2 DEF TurnInv, TurnTypeOK, InsideHolds
      <3> QED  BY <3>1 DEF NoLostTurn
    <2> QED  BY <2>1, <2>2
  <1> QED  BY <1>7, <1>8, <1>9, <1>10, <1>11 DEF TurnInv

LEMMA LeaveListKeeps ==
  ASSUME TurnInv, NEW t \in Callers, LeaveList(t)
  PROVE  TurnInv'
  <1>1. /\ waiting \in Seq(Callers) /\ Len(waiting) \in Nat /\ DOMAIN waiting = 1 .. Len(waiting)
        /\ turnPc[t] = "waiting" /\ turnPc' = [turnPc EXCEPT ![t] = "popped"]
        /\ turnPc \in [Callers -> TurnPcs]
    BY DEF LeaveList, TurnTo, TurnInv, TurnTypeOK
  <1>2. waiting # <<>> /\ waiting[1] = t
    BY <1>1 DEF LeaveList, TurnInv, ListInv, InList
  <1>3. /\ waiting' \in Seq(Callers) /\ Len(waiting') = Len(waiting) - 1
        /\ \A i \in 1 .. Len(waiting) - 1 : waiting'[i] = waiting[i + 1]
    BY <1>1, <1>2, HeadTailProperties DEF LeaveList
  <1>4. DOMAIN waiting' = 1 .. Len(waiting) - 1
    BY <1>3
  <1>5. TurnTypeOK'
    BY <1>1, <1>3 DEF TurnInv, TurnTypeOK, LeaveList
  <1>6. ListInv'
    <2>1. ASSUME NEW u \in Callers PROVE turnPc'[u] = "waiting" <=> InList(u)'
      <3>1. CASE u = t
        <4>1. ~InList(t)'
          <5>1. \A i \in 1 .. Len(waiting) - 1 : i + 1 \in DOMAIN waiting /\ i + 1 # 1
            BY <1>1
          <5> QED  BY <1>1, <1>2, <1>3, <1>4, <5>1 DEF TurnInv, ListInv, InList
        <4> QED  BY <1>1, <3>1, <4>1
      <3>2. CASE u # t
        <4>1. InList(u) => InList(u)'
          <5>1. ASSUME NEW i \in DOMAIN waiting, waiting[i] = u
                PROVE  i - 1 \in DOMAIN waiting' /\ waiting'[i - 1] = u
            <6>1. i # 1
              BY <1>2, <3>2, <5>1
            <6>2. i - 1 \in 1 .. Len(waiting) - 1 /\ (i - 1) + 1 = i
              BY <1>1, <6>1
            <6> QED  BY <1>3, <1>4, <5>1, <6>2
          <5> QED  BY <5>1 DEF InList
        <4>2. InList(u)' => InList(u)
          <5>1. ASSUME NEW i \in DOMAIN waiting', waiting'[i] = u
                PROVE  i + 1 \in DOMAIN waiting /\ waiting[i + 1] = u
            BY <1>1, <1>3, <1>4, <5>1
          <5> QED  BY <5>1 DEF InList
        <4> QED  BY <1>1, <3>2, <4>1, <4>2 DEF TurnInv, ListInv
      <3> QED  BY <3>1, <3>2
    <2>2. ASSUME NEW i \in DOMAIN waiting', NEW j \in DOMAIN waiting', waiting'[i] = waiting'[j]
          PROVE  i = j
      <3>1. i + 1 \in DOMAIN waiting /\ j + 1 \in DOMAIN waiting /\ waiting[i + 1] = waiting[j + 1]
        BY <1>1, <1>3, <1>4, <2>2
      <3>2. i + 1 = j + 1
        BY <3>1 DEF TurnInv, ListInv
      <3> QED  BY <1>1, <1>4, <3>2
    <2> QED  BY <2>1, <2>2 DEF ListInv
  <1>7. OldestFirst'
    <2>1. ASSUME NEW i \in DOMAIN waiting', NEW j \in DOMAIN waiting', i < j
          PROVE  ts'[waiting'[i]] <= ts'[waiting'[j]]
      <3>1. i + 1 \in DOMAIN waiting /\ j + 1 \in DOMAIN waiting /\ i + 1 < j + 1
        BY <1>1, <1>4, <2>1
      <3>2. ts[waiting[i + 1]] <= ts[waiting[j + 1]]
        BY <3>1 DEF TurnInv, OldestFirst
      <3> QED  BY <1>3, <1>4, <3>2 DEF LeaveList
    <2> QED  BY <2>1 DEF OldestFirst
  <1>8. InsideHolds'
    BY <1>1 DEF TurnInv, InsideHolds, LeaveList
  <1>9. NoLostTurn'
    BY <1>1 DEF NoLostTurn
  <1> QED  BY <1>5, <1>6, <1>7, <1>8, <1>9 DEF TurnInv

(* The other steps leave the list as it is.                                *)
LEMMA WakeOtherKeeps ==
  ASSUME TurnInv, NEW t \in Callers, WakeOther(t)
  PROVE  TurnInv'
  <1>1. /\ waiting \in Seq(Callers) /\ DOMAIN waiting = 1 .. Len(waiting) /\ Len(waiting) \in Nat
        /\ UNCHANGED <<turnPc, ts, holder, waiting, arrivals>>
    BY DEF WakeOther, TurnInv, TurnTypeOK
  <1>2. waiting # <<>> /\ waiting[1] # t /\ waiting[1] \in Callers
    BY <1>1 DEF WakeOther, TurnInv, ListInv, InList
  <1>3. signalled' = (signalled \cup {waiting[1]}) \ {t}
    BY <1>2 DEF WakeOther, HeadSignalled
  <1>4. TurnTypeOK'
    BY <1>1, <1>2, <1>3 DEF TurnInv, TurnTypeOK
  <1>5. ListInv' /\ OldestFirst' /\ InsideHolds'
    BY <1>1 DEF TurnInv, ListInv, InList, OldestFirst, InsideHolds
  <1>6. NoLostTurn'
    BY <1>1, <1>2, <1>3 DEF NoLostTurn
  <1> QED  BY <1>4, <1>5, <1>6 DEF TurnInv

LEMMA LockStepKeeps ==
  ASSUME TurnInv, NEW t \in Callers, Direct(t) \/ LockStream(t) \/ UnlockStream(t)
  PROVE  TurnInv'
  <1>1. TurnTypeOK'
    <2>1. CASE Direct(t)
      <3>1. arrivals' \in 0 .. MaxArrivals
        BY <2>1, StreamTurnAssumption DEF StreamTurnAssumption, TurnInv, TurnTypeOK, Direct
      <3> QED  BY <2>1, <3>1 DEF TurnInv, TurnTypeOK, Direct, TurnTo
    <2>2. CASE LockStream(t) \/ UnlockStream(t)
      BY <2>2 DEF TurnInv, TurnTypeOK, LockStream, UnlockStream, TurnTo
    <2> QED  BY <2>1, <2>2
  <1>2. \E l \in {"direct", "inside", "unlocked"} : turnPc' = [turnPc EXCEPT ![t] = l]
    BY DEF Direct, LockStream, UnlockStream, TurnTo
  <1>3. ListInv' /\ OldestFirst'
    BY <1>2, ListKept DEF Direct, LockStream, UnlockStream
  <1>4. InsideHolds'
    BY StreamTurnAssumption
      
         DEF StreamTurnAssumption, TurnInv, TurnTypeOK, InsideHolds, Direct, LockStream,
           UnlockStream, TurnTo
  <1>5. NoLostTurn'
    BY <1>2 DEF TurnInv, TurnTypeOK, NoLostTurn
  <1> QED  BY <1>1, <1>3, <1>4, <1>5 DEF TurnInv

LEMMA SignalHeadKeeps ==
  ASSUME TurnInv, NEW t \in Callers, SignalHead(t)
  PROVE  TurnInv'
  <1>1. /\ waiting \in Seq(Callers) /\ DOMAIN waiting = 1 .. Len(waiting) /\ Len(waiting) \in Nat
        /\ waiting # <<>> => 1 \in DOMAIN waiting
    BY DEF TurnInv, TurnTypeOK
  <1>2. TurnTypeOK'
    BY <1>1 DEF TurnInv, TurnTypeOK, SignalHead, HeadSignalled, TurnTo
  <1>3. ListInv' /\ OldestFirst'
    BY ListKept DEF SignalHead, TurnTo
  <1>4. InsideHolds'
    BY DEF TurnInv, TurnTypeOK, InsideHolds, SignalHead, TurnTo
  <1>5. NoLostTurn'
    BY <1>1 DEF NoLostTurn, SignalHead, HeadSignalled
  <1> QED  BY <1>2, <1>3, <1>4, <1>5 DEF TurnInv

LEMMA TurnNextKeeps ==
  ASSUME TurnInv, [TurnNext]_turnVars
  PROVE  TurnInv'
  <1>1. CASE UNCHANGED turnVars
    BY <1>1
       DEF turnVars, TurnInv, TurnTypeOK, ListInv, InList, OldestFirst, InsideHolds,
         NoLostTurn
  <1>2. CASE TurnNext
    BY <1>2, GoInKeeps, QueueKeeps, LeaveListKeeps, WakeOtherKeeps, LockStepKeeps,
       SignalHeadKeeps
       DEF TurnNext
  <1> QED  BY <1>1, <1>2

LEMMA TurnInvariant == TurnSpec => []TurnInv
  BY TurnInitInv, TurnNextKeeps, PTL DEF TurnSpec

-----------------------------------------------------------------------------
(***************************************************************************)
(* What is proved of stream_process_packet.                                *)
(***************************************************************************)

(* The variables keep their types, whatever the threads do.                *)
THEOREM TurnTypes == TurnSpec => []TurnTypeOK
  <1>1. TurnInv => TurnTypeOK
    BY DEF TurnInv
  <1> QED  BY <1>1, TurnInvariant, PTL

(* No wake-up is lost between stream->lock and stream->wait_lock: while    *)
(* threads wait for their turn, one is about to unlock or to take the lock,*)
(* or one of those that wait has been signalled.                           *)
THEOREM TurnNotLost == TurnSpec => []NoLostTurn
  <1>1. TurnInv => NoLostTurn
    BY DEF TurnInv
  <1> QED  BY <1>1, TurnInvariant, PTL

(* One thread at a time works on the stream: it holds stream->lock.        *)
OneInside ==
  \A t, u \in Callers : turnPc[t] = "inside" /\ turnPc[u] = "inside" => t = u

THEOREM StreamLockExcludes == TurnSpec => []OneInside
  <1>1. TurnInv => OneInside
    BY DEF TurnInv, InsideHolds, OneInside
  <1> QED  BY <1>1, TurnInvariant, PTL

(* The wait list is in the order of the packets' time stamps, so that the  *)
(* head, the only one that may go on, is never younger than another one.   *)
OldestAtHead ==
  \A t \in Callers : turnPc[t] = "waiting" => ts[waiting[1]] <= ts[t]

THEOREM HeadIsOldest == TurnSpec => []OldestAtHead
  <1>1. TurnInv => OldestAtHead
    <2> SUFFICES ASSUME TurnInv, NEW t \in Callers, turnPc[t] = "waiting"
                 PROVE  ts[waiting[1]] <= ts[t]
      BY DEF OldestAtHead
    <2>1. PICK i \in DOMAIN waiting : waiting[i] = t
      BY DEF TurnInv, ListInv, InList
    <2>2. 1 \in DOMAIN waiting /\ (i = 1 \/ 1 < i) /\ ts[t] \in Nat
      BY <2>1 DEF TurnInv, TurnTypeOK
    <2> QED  BY <2>1, <2>2 DEF TurnInv, OldestFirst
  <1> QED  BY <1>1, TurnInvariant, PTL
-----------------------------------------------------------------------------
(* Events (Event).  What is told to whom, and who still refers to what.    *)
Hearers == Listeners \cup Attachers

EventTypeOK ==
  /\ listeners \subseteq tried /\ tried \subseteq Listeners /\ ongoing \subseteq Evts
  /\ evtState \in [Evts -> {"new", "begun", "done", "freed"}] /\ evtRef \in [Evts -> Int]
  /\ holding \subseteq Users \X Evts /\ holds \in Nat
  /\ began \subseteq Hearers \X Evts /\ attached \subseteq Attachers \X Evts
  /\ ends \in [Hearers \X Evts -> Nat]

(* The table holds the events that were begun and not ended.               *)
TableHoldsBegun == ongoing = {e \in Evts : evtState[e] = "begun"}

(* Each holder of an event has one reference, and the table one.           *)
HoldersOf(e) == {u \in Users : <<u, e>> \in holding}

RefsCounted == \A e \in Evts :
  /\ IsFiniteSet(HoldersOf(e))
  /\ evtRef[e] = Cardinality(HoldersOf(e)) + (IF evtState[e] = "begun" THEN 1 ELSE 0)

(* Before an event begins, only those attached to it have heard of it.     *)
NothingHeardOfNew == \A e \in Evts : evtState[e] = "new" =>
  \A l \in Hearers : ends[<<l, e>>] = 0 /\ (<<l, e>> \in began => l \in Attachers)

AttachedHear ==
  /\ \A a \in Attachers, e \in Evts : <<a, e>> \in began <=> <<a, e>> \in attached
  /\ \A a \in Attachers, e \in Evts : <<a, e>> \notin attached => ends[<<a, e>>] = 0

OnlyTriedHear == \A l \in Listeners, e \in Evts : <<l, e>> \in began => l \in tried

EventInv ==
  /\ EventTypeOK /\ TableHoldsBegun /\ RefsCounted /\ NothingHeardOfNew
  /\ AttachedHear /\ OnlyTriedHear /\ EveryBeginEnds

-----------------------------------------------------------------------------
LEMMA EventInitial ==
  EventInit => EventInv
  <1> SUFFICES ASSUME EventInit PROVE EventInv
    OBVIOUS
  <1>1. ends \in [Hearers \X Evts -> Nat] /\ \A l \in Hearers, e \in Evts : ends[<<l, e>>] = 0
    BY DEF EventInit, Hearers
  <1>2. EventTypeOK
    BY <1>1 DEF EventInit, EventTypeOK
  <1>3. RefsCounted
    <2>1. \A e \in Evts : HoldersOf(e) = {}
      BY DEF EventInit, HoldersOf
    <2>2. IsFiniteSet({}) /\ Cardinality({}) = 0
      BY FS_EmptySet
    <2>3. \A e \in Evts : evtRef[e] = 0 /\ evtState[e] = "new"
      BY DEF EventInit
    <2> QED  BY <2>1, <2>2, <2>3 DEF RefsCounted
  <1>4. TableHoldsBegun /\ OnlyTriedHear /\ EveryBeginEnds
    BY DEF EventInit, TableHoldsBegun, OnlyTriedHear, EveryBeginEnds
  <1>5. NothingHeardOfNew /\ AttachedHear
    BY <1>1 DEF EventInit, NothingHeardOfNew, AttachedHear, Hearers
  <1> QED  BY <1>2, <1>3, <1>4, <1>5 DEF EventInv

(* What every listener was told, spelled out.                              *)
Open(e) == evtState[e] \in {"new", "begun"}
HearsStill(l, e) == Open(e) /\ (l \in listeners \/ <<l, e>> \in attached)

LEMMA BeginEndPairs ==
  ASSUME began \subseteq Hearers \X Evts
  PROVE  EveryBeginEnds <=>
           \A l \in Hearers, e \in Evts : <<l, e>> \in began /\ l \notin Filtered =>
             ends[<<l, e>>] = IF HearsStill(l, e) THEN 0 ELSE 1
  <1>1. \A p \in began : p = <<p[1], p[2]>> /\ p[1] \in Hearers /\ p[2] \in Evts
    OBVIOUS
  <1> QED  BY <1>1 DEF EveryBeginEnds, HearsStill, Open

LEMMA BeginEndPairsNext ==
  ASSUME EventTypeOK',
         (\A l \in Hearers, e \in Evts : <<l, e>> \in began /\ l \notin Filtered =>
            ends[<<l, e>>] = IF HearsStill(l, e) THEN 0 ELSE 1)'
  PROVE  EveryBeginEnds'
  <1>1. \A p \in began' : p = <<p[1], p[2]>> /\ p[1] \in Hearers /\ p[2] \in Evts
    BY DEF EventTypeOK
  <1> QED  BY <1>1 DEF EveryBeginEnds, HearsStill, Open

(* Who is told the end, and who is not.                                    *)
LEMMA CalledEnds ==
  ASSUME EventTypeOK, NEW ls, NEW es
  PROVE  /\ Called(ls, es) \in [Hearers \X Evts -> Nat]
         /\ \A l \in Hearers, e \in Evts :
              Called(ls, es)[<<l, e>>] =
                IF l \in ls /\ e \in es THEN ends[<<l, e>>] + 1 ELSE ends[<<l, e>>]
  <1>1. DOMAIN ends = Hearers \X Evts /\ \A p \in DOMAIN ends : ends[p] \in Nat
    BY DEF EventTypeOK
  <1> QED  BY <1>1 DEF Called

(* Steps that tell nobody anything and leave every event in its state.     *)
LEMMA TellNobody ==
  ASSUME EventInv, UNCHANGED <<ongoing, evtState, evtRef, holding, began, attached, ends>>,
         listeners' \subseteq tried', tried \subseteq tried', tried' \subseteq Listeners, holds' \in Nat,
         \A l \in tried : l \in listeners' <=> l \in listeners
  PROVE  EventInv'
  <1> USE DEF EventInv
  <1>1. EventTypeOK'
    BY DEF EventTypeOK
  <1>2. TableHoldsBegun' /\ RefsCounted' /\ NothingHeardOfNew' /\ AttachedHear' /\ OnlyTriedHear'
    BY
       DEF TableHoldsBegun, RefsCounted, HoldersOf, NothingHeardOfNew, AttachedHear,
         OnlyTriedHear
  <1>3. \A l \in Hearers, e \in Evts : <<l, e>> \in began /\ l \notin Filtered =>
          ends[<<l, e>>] = IF HearsStill(l, e) THEN 0 ELSE 1
    BY BeginEndPairs DEF EventTypeOK
  <1>4. \A l \in Hearers, e \in Evts : <<l, e>> \in began => (HearsStill(l, e)' <=> HearsStill(l, e))
    <2> SUFFICES ASSUME NEW l \in Hearers, NEW e \in Evts, <<l, e>> \in began
                 PROVE  HearsStill(l, e)' <=> HearsStill(l, e)
      OBVIOUS
    <2>1. l \in tried \/ <<l, e>> \in attached
      BY DEF OnlyTriedHear, AttachedHear, Hearers
    <2> QED  BY <2>1 DEF HearsStill, Open
  <1>5. (\A l \in Hearers, e \in Evts : <<l, e>> \in began /\ l \notin Filtered =>
          ends[<<l, e>>] = IF HearsStill(l, e) THEN 0 ELSE 1)'
    BY <1>3, <1>4
  <1>6. EveryBeginEnds'
    BY <1>1, <1>5, BeginEndPairsNext
  <1> QED  BY <1>1, <1>2, <1>6

LEMMA RegisterStep ==
  ASSUME EventInv, NEW l \in Listeners, Register(l)
  PROVE  EventInv'
  <1>1. /\ UNCHANGED <<ongoing, evtState, evtRef, holding, began, attached, ends>>
        /\ listeners' = listeners \cup {l} /\ tried' = tried \cup {l} /\ l \notin tried /\ holds' = holds
    BY DEF Register
  <1>2. listeners \subseteq tried /\ tried \subseteq Listeners /\ holds \in Nat
    BY DEF EventInv, EventTypeOK
  <1> QED  BY <1>1, <1>2, TellNobody

LEMMA UnregisterStep ==
  ASSUME EventInv, NEW l \in Listeners, Unregister(l)
  PROVE  EventInv'
  <1> USE DEF EventInv
  <1>1. /\ l \in listeners /\ listeners' = listeners \ {l} /\ ends' = Called({l}, ongoing)
        /\ UNCHANGED <<tried, ongoing, evtState, evtRef, holding, holds, began, attached>>
    BY DEF Unregister, EndedByLeaving
  <1>2. /\ ends' \in [Hearers \X Evts -> Nat]
        /\ \A k \in Hearers, e \in Evts :
             ends'[<<k, e>>] = IF k = l /\ evtState[e] = "begun" THEN ends[<<k, e>>] + 1 ELSE ends[<<k, e>>]
    <2>1. ongoing = {e \in Evts : evtState[e] = "begun"}
      BY DEF TableHoldsBegun
    <2>2. /\ Called({l}, ongoing) \in [Hearers \X Evts -> Nat]
          /\ \A k \in Hearers, e \in Evts :
               Called({l}, ongoing)[<<k, e>>] =
                 IF k \in {l} /\ e \in ongoing THEN ends[<<k, e>>] + 1 ELSE ends[<<k, e>>]
      BY CalledEnds
    <2> QED  BY <1>1, <2>1, <2>2
  <1>3. EventTypeOK'
    BY <1>1, <1>2 DEF EventTypeOK
  <1>4. TableHoldsBegun' /\ RefsCounted' /\ OnlyTriedHear'
    BY <1>1 DEF TableHoldsBegun, RefsCounted, HoldersOf, OnlyTriedHear
  <1>5. NothingHeardOfNew'
    BY <1>1, <1>2 DEF NothingHeardOfNew
  <1>6. AttachedHear'
    BY <1>1, <1>2, EventAssumption DEF AttachedHear, Hearers
  <1>7. EveryBeginEnds'
    <2> SUFFICES ASSUME NEW k \in Hearers, NEW e \in Evts, <<k, e>> \in began, k \notin Filtered
                 PROVE  ends'[<<k, e>>] = IF HearsStill(k, e)' THEN 0 ELSE 1
      BY <1>1, <1>3, BeginEndPairsNext
    <2>1. ends[<<k, e>>] = IF HearsStill(k, e) THEN 0 ELSE 1
      BY BeginEndPairs DEF EventTypeOK
    <2>2. CASE k # l
      BY <1>1, <1>2, <2>1, <2>2 DEF HearsStill, Open
    <2>3. CASE k = l
      <3>1. k \notin Attachers /\ <<k, e>> \notin attached
        BY <2>3, EventAssumption DEF EventTypeOK
      <3>2. evtState[e] # "new"
        BY <3>1 DEF NothingHeardOfNew
      <3>3. ~HearsStill(k, e)'
        BY <1>1, <2>3, <3>1 DEF HearsStill
      <3>4. HearsStill(k, e) <=> evtState[e] = "begun"
        BY <1>1, <2>3, <3>2 DEF HearsStill, Open
      <3> QED  BY <1>2, <2>1, <2>3, <3>3, <3>4
    <2> QED  BY <2>2, <2>3
  <1> QED  BY <1>3, <1>4, <1>5, <1>6, <1>7

LEMMA AttachStep ==
  ASSUME EventInv, NEW a \in Attachers, NEW e \in Evts, Attach(a, e)
  PROVE  EventInv'
  <1> USE DEF EventInv
  <1>1. /\ evtState[e] \in {"new", "begun"} /\ <<a, e>> \notin attached
        /\ attached' = attached \cup {<<a, e>>} /\ began' = began \cup {<<a, e>>}
        /\ UNCHANGED <<listeners, tried, ongoing, evtState, evtRef, holding, holds, ends>>
    BY DEF Attach
  <1>2. EventTypeOK'
    BY <1>1 DEF EventTypeOK, Hearers
  <1>3. TableHoldsBegun' /\ RefsCounted'
    BY <1>1 DEF TableHoldsBegun, RefsCounted, HoldersOf
  <1>4. NothingHeardOfNew' /\ AttachedHear' /\ OnlyTriedHear'
    BY <1>1, EventAssumption DEF NothingHeardOfNew, AttachedHear, OnlyTriedHear
  <1>5. EveryBeginEnds'
    <2> SUFFICES ASSUME NEW k \in Hearers, NEW f \in Evts, <<k, f>> \in began', k \notin Filtered
                 PROVE  ends'[<<k, f>>] = IF HearsStill(k, f)' THEN 0 ELSE 1
      BY <1>2, BeginEndPairsNext
    <2>1. CASE <<k, f>> = <<a, e>>
      BY <1>1, <2>1 DEF HearsStill, Open, AttachedHear
    <2>2. CASE <<k, f>> # <<a, e>>
      <3>1. <<k, f>> \in began /\ (HearsStill(k, f)' <=> HearsStill(k, f))
        BY <1>1, <2>2 DEF HearsStill, Open
      <3> QED  BY <1>1, <3>1, BeginEndPairs DEF EventTypeOK
    <2> QED  BY <2>1, <2>2
  <1> QED  BY <1>2, <1>3, <1>4, <1>5

(* What one event's end, or the whole of it, tells its listeners.          *)
LEMMA AttachedSet ==
  ASSUME EventTypeOK, NEW e \in Evts
  PROVE  \A l \in Hearers : l \in AttachedTo(e) <=> <<l, e>> \in attached
  BY DEF AttachedTo, EventTypeOK

EndIsTold(ls, e) ==
  /\ ends' \in [Hearers \X Evts -> Nat]
  /\ \A k \in Hearers, f \in Evts :
       ends'[<<k, f>>] = IF (k \in ls \/ <<k, f>> \in attached) /\ f = e
                         THEN ends[<<k, f>>] + 1 ELSE ends[<<k, f>>]

LEMMA EndToldTo ==
  ASSUME EventTypeOK, NEW e \in Evts, NEW ls, ends' = Called(ls \cup AttachedTo(e), {e})
  PROVE  EndIsTold(ls, e)
  <1>1. PICK all : all = ls \cup AttachedTo(e)
    OBVIOUS
  <1>2. \A k \in Hearers : k \in all <=> k \in ls \/ <<k, e>> \in attached
    BY <1>1, AttachedSet
  <1>3. ends' = [p \in Hearers \X Evts |-> IF p[1] \in all /\ p[2] = e THEN ends[p] + 1 ELSE ends[p]]
    BY <1>1 DEF Called, EventTypeOK
  <1>4. \A p \in Hearers \X Evts : ends[p] \in Nat
    BY DEF EventTypeOK
  <1>5. ends' \in [Hearers \X Evts -> Nat]
    <2>1. \A p \in Hearers \X Evts : (IF p[1] \in all /\ p[2] = e THEN ends[p] + 1 ELSE ends[p]) \in Nat
      BY <1>4
    <2> QED  BY <1>3, <2>1
  <1>6. \A k \in Hearers, f \in Evts :
          ends'[<<k, f>>] = IF k \in all /\ f = e THEN ends[<<k, f>>] + 1 ELSE ends[<<k, f>>]
    BY <1>3
  <1> QED  BY <1>2, <1>5, <1>6 DEF EndIsTold

LEMMA ProcessStep ==
  ASSUME EventInv, NEW e \in Evts, Process(e)
  PROVE  EventInv'
  <1> USE DEF EventInv
  <1>1. PICK ls \in Interested :
          /\ began' = began \cup (ls \X {e})
          /\ ends' = Called(ls \cup AttachedTo(e), {e})
    BY DEF Process
  <1>2. /\ evtState[e] = "new"
        /\ evtState' = [evtState EXCEPT ![e] = IF evtRef[e] = 0 THEN "freed" ELSE "done"]
        /\ UNCHANGED <<listeners, tried, ongoing, evtRef, holding, holds, attached>>
    BY DEF Process, StateAfter
  <1>3. ls \subseteq listeners /\ listeners \ Filtered \subseteq ls /\ ls \subseteq Hearers
    BY DEF Interested, EventTypeOK, Hearers
  <1>4. /\ ends' \in [Hearers \X Evts -> Nat]
        /\ \A k \in Hearers, f \in Evts :
             ends'[<<k, f>>] = IF (k \in ls \/ <<k, f>> \in attached) /\ f = e
                               THEN ends[<<k, f>>] + 1 ELSE ends[<<k, f>>]
    <2>1. ends' = Called(ls \cup AttachedTo(e), {e}) /\ EventTypeOK
      BY <1>1
    <2> HIDE DEF EventInv
    <2>2. EndIsTold(ls, e)
      BY <2>1, EndToldTo
    <2> QED  BY <2>2 DEF EndIsTold
  <1>5. EventTypeOK'
    <2>1. evtState' \in [Evts -> {"new", "begun", "done", "freed"}]
      BY <1>2 DEF EventTypeOK
    <2>2. began' \subseteq Hearers \X Evts
      BY <1>1, <1>3 DEF EventTypeOK
    <2> QED  BY <1>2, <1>4, <2>1, <2>2 DEF EventTypeOK
  <1>6. evtState'[e] \notin {"new", "begun"} /\ \A f \in Evts : f # e => evtState'[f] = evtState[f]
    BY <1>2 DEF EventTypeOK
  <1>7. TableHoldsBegun' /\ RefsCounted'
    BY <1>2, <1>6 DEF TableHoldsBegun, RefsCounted, HoldersOf
  <1>8. \A k \in Hearers, f \in Evts :
          <<k, f>> \in began' <=> <<k, f>> \in began \/ (k \in ls /\ f = e)
    BY <1>1
  <1>9. NothingHeardOfNew'
    BY <1>2, <1>4, <1>6, <1>8 DEF NothingHeardOfNew
  <1>10. AttachedHear'
    <2>1. \A a \in Attachers : a \notin ls /\ a \in Hearers
      BY <1>3, EventAssumption DEF EventTypeOK, Hearers
    <2> QED  BY <1>2, <1>4, <1>8, <2>1 DEF AttachedHear
  <1>11. OnlyTriedHear'
    BY <1>2, <1>3, <1>8 DEF OnlyTriedHear, EventTypeOK, Hearers
  <1>12. EveryBeginEnds'
    <2> SUFFICES ASSUME NEW k \in Hearers, NEW f \in Evts, <<k, f>> \in began', k \notin Filtered
                 PROVE  ends'[<<k, f>>] = IF HearsStill(k, f)' THEN 0 ELSE 1
      BY <1>5, BeginEndPairsNext
    <2>1. CASE f = e
      <3>1. ends[<<k, f>>] = 0 /\ ~HearsStill(k, f)'
        BY <1>2, <1>6, <2>1 DEF NothingHeardOfNew, HearsStill, Open
      <3>2. k \in ls \/ <<k, f>> \in attached
        BY <1>2, <1>8, <2>1 DEF NothingHeardOfNew, AttachedHear
      <3> QED  BY <1>4, <2>1, <3>1, <3>2
    <2>2. CASE f # e
      <3>1. <<k, f>> \in began /\ (HearsStill(k, f)' <=> HearsStill(k, f))
        BY <1>2, <1>6, <1>8, <2>2 DEF HearsStill, Open
      <3> QED  BY <1>4, <2>2, <3>1, BeginEndPairs DEF EventTypeOK
    <2> QED  BY <2>1, <2>2
  <1> QED  BY <1>5, <1>7, <1>9, <1>10, <1>11, <1>12

(* The holders of an event after one has come or gone.                     *)
LEMMA HoldersChange ==
  ASSUME EventInv, NEW u \in Users, NEW e \in Evts,
         \/ <<u, e>> \notin holding /\ holding' = holding \cup {<<u, e>>}
         \/ <<u, e>> \in holding /\ holding' = holding \ {<<u, e>>}
  PROVE  /\ \A f \in Evts : f # e => HoldersOf(f)' = HoldersOf(f)
         /\ IsFiniteSet(HoldersOf(e)') /\ IsFiniteSet(HoldersOf(e))
         /\ Cardinality(HoldersOf(e)) \in Nat /\ Cardinality(HoldersOf(e)') \in Nat
         /\ <<u, e>> \notin holding => Cardinality(HoldersOf(e)') = Cardinality(HoldersOf(e)) + 1
         /\ <<u, e>> \in holding => Cardinality(HoldersOf(e)') = Cardinality(HoldersOf(e)) - 1
  <1>1. \A f \in Evts : f # e => HoldersOf(f)' = HoldersOf(f)
    BY DEF HoldersOf
  <1>2. IsFiniteSet(HoldersOf(e)) /\ Cardinality(HoldersOf(e)) \in Nat
    BY FS_CardinalityType DEF EventInv, RefsCounted
  <1>3. CASE <<u, e>> \notin holding
    <2>1. HoldersOf(e)' = HoldersOf(e) \cup {u} /\ u \notin HoldersOf(e)
      BY <1>3 DEF HoldersOf
    <2>2. IsFiniteSet(HoldersOf(e)') /\ Cardinality(HoldersOf(e)') = Cardinality(HoldersOf(e)) + 1
      BY <1>2, <2>1, FS_AddElement
    <2>3. Cardinality(HoldersOf(e)') \in Nat
      BY <1>2, <2>2
    <2> QED  BY <1>1, <1>2, <1>3, <2>2, <2>3
  <1>4. CASE <<u, e>> \in holding
    <2>1. HoldersOf(e)' = HoldersOf(e) \ {u} /\ u \in HoldersOf(e)
      BY <1>4 DEF HoldersOf
    <2>2. IsFiniteSet(HoldersOf(e)') /\ Cardinality(HoldersOf(e)') = Cardinality(HoldersOf(e)) - 1
      BY <1>2, <2>1, FS_RemoveElement
    <2>3. Cardinality(HoldersOf(e)') \in Nat
      BY <2>2, FS_CardinalityType
    <2> QED  BY <1>1, <1>2, <1>4, <2>2, <2>3
  <1> QED  BY <1>3, <1>4

(* Holding an event or letting go of it.                                   *)
LEMMA HoldStep ==
  ASSUME EventInv, NEW u \in Users, NEW e \in Evts, Hold(u, e)
  PROVE  EventInv'
  <1> USE DEF EventInv
  <1>1. /\ <<u, e>> \notin holding /\ holding' = holding \cup {<<u, e>>} /\ holds' = holds + 1
        /\ evtRef' = [evtRef EXCEPT ![e] = @ + 1]
        /\ UNCHANGED <<listeners, tried, ongoing, evtState, began, attached, ends>>
    BY DEF Hold
  <1>2. EventTypeOK'
    <2>1. evtRef' \in [Evts -> Int]
      BY <1>1 DEF EventTypeOK
    <2>2. holding' \subseteq Users \X Evts /\ holds' \in Nat
      BY <1>1 DEF EventTypeOK
    <2> QED  BY <1>1, <2>1, <2>2 DEF EventTypeOK
  <1>3. RefsCounted'
    <2>1. evtRef'[e] = evtRef[e] + 1 /\ \A f \in Evts : f # e => evtRef'[f] = evtRef[f]
      BY <1>1 DEF EventTypeOK
    <2>2. /\ \A f \in Evts : f # e => HoldersOf(f)' = HoldersOf(f)
          /\ IsFiniteSet(HoldersOf(e)') /\ Cardinality(HoldersOf(e)) \in Nat
          /\ Cardinality(HoldersOf(e)') = Cardinality(HoldersOf(e)) + 1
      BY <1>1, HoldersChange
    <2> QED  BY <1>1, <2>1, <2>2 DEF RefsCounted
  <1>4. TableHoldsBegun' /\ NothingHeardOfNew' /\ AttachedHear' /\ OnlyTriedHear' /\ EveryBeginEnds'
    BY <1>1
       DEF TableHoldsBegun, NothingHeardOfNew, AttachedHear, OnlyTriedHear, EveryBeginEnds
  <1> QED  BY <1>2, <1>3, <1>4

LEMMA DropRefStep ==
  ASSUME EventInv, NEW u \in Users, NEW e \in Evts, DropRef(u, e)
  PROVE  EventInv'
  <1> USE DEF EventInv
  <1>1. /\ <<u, e>> \in holding /\ holding' = holding \ {<<u, e>>} /\ evtState[e] # "new"
        /\ evtRef' = [evtRef EXCEPT ![e] = @ - 1]
        /\ evtState' = [evtState EXCEPT ![e] = IF evtRef[e] - 1 = 0 THEN "freed" ELSE @]
        /\ UNCHANGED <<listeners, tried, ongoing, holds, began, attached, ends>>
    BY DEF DropRef, StateAfter
  <1>2. /\ \A f \in Evts : f # e => HoldersOf(f)' = HoldersOf(f)
        /\ IsFiniteSet(HoldersOf(e)') /\ Cardinality(HoldersOf(e)) \in Nat
        /\ Cardinality(HoldersOf(e)') \in Nat
        /\ Cardinality(HoldersOf(e)') = Cardinality(HoldersOf(e)) - 1
    BY <1>1, HoldersChange
  <1>3. evtRef'[e] = evtRef[e] - 1 /\ \A f \in Evts : f # e => evtRef'[f] = evtRef[f]
    BY <1>1 DEF EventTypeOK
  <1>4. /\ evtState[e] = "begun" <=> evtState'[e] = "begun"
        /\ evtState[e] = "new" <=> evtState'[e] = "new"
        /\ \A f \in Evts : f # e => evtState'[f] = evtState[f]
        /\ evtState' \in [Evts -> {"new", "begun", "done", "freed"}]
    <2>1. evtState[e] = "begun" => evtRef[e] - 1 # 0
      BY <1>2 DEF RefsCounted
    <2> QED  BY <1>1, <2>1 DEF EventTypeOK
  <1>5. EventTypeOK'
    <2>1. evtRef' \in [Evts -> Int]
      BY <1>1 DEF EventTypeOK
    <2>2. holding' \subseteq Users \X Evts
      BY <1>1 DEF EventTypeOK
    <2> QED  BY <1>1, <1>4, <2>1, <2>2 DEF EventTypeOK
  <1>6. RefsCounted'
    BY <1>2, <1>3, <1>4 DEF RefsCounted
  <1>7. TableHoldsBegun' /\ NothingHeardOfNew' /\ AttachedHear' /\ OnlyTriedHear'
    BY <1>1, <1>4 DEF TableHoldsBegun, NothingHeardOfNew, AttachedHear, OnlyTriedHear
  <1>8. EveryBeginEnds'
    <2>1. \A f \in Evts : Open(f)' <=> Open(f)
      BY <1>4 DEF Open
    <2>2. \A k \in Hearers, f \in Evts : HearsStill(k, f)' <=> HearsStill(k, f)
      BY <1>1, <2>1 DEF HearsStill
    <2>3. \A l \in Hearers, f \in Evts : <<l, f>> \in began /\ l \notin Filtered =>
             ends[<<l, f>>] = IF HearsStill(l, f) THEN 0 ELSE 1
      BY BeginEndPairs DEF EventTypeOK
    <2> QED  BY <1>1, <1>5, <2>2, <2>3, BeginEndPairsNext
  <1> QED  BY <1>5, <1>6, <1>7, <1>8

LEMMA ProcessBeginStep ==
  ASSUME EventInv, NEW e \in Evts, ProcessBegin(e)
  PROVE  EventInv'
  <1> USE DEF EventInv
  <1>1. PICK ls \in Interested : began' = began \cup (ls \X {e})
    BY DEF ProcessBegin
  <1>2. /\ evtState[e] = "new"
        /\ evtState' = [evtState EXCEPT ![e] = "begun"]
        /\ evtRef' = [evtRef EXCEPT ![e] = @ + 1]
        /\ ongoing' = ongoing \cup {e}
        /\ UNCHANGED <<listeners, tried, holding, holds, attached, ends>>
    BY DEF ProcessBegin, IntoTable
  <1>3. ls \subseteq listeners /\ listeners \ Filtered \subseteq ls /\ ls \subseteq Hearers
    BY DEF Interested, EventTypeOK, Hearers
  <1>4. EventTypeOK'
    <2>1. evtState' \in [Evts -> {"new", "begun", "done", "freed"}] /\ evtRef' \in [Evts -> Int]
      BY <1>2 DEF EventTypeOK
    <2>2. began' \subseteq Hearers \X Evts
      BY <1>1, <1>3 DEF EventTypeOK
    <2> QED  BY <1>2, <2>1, <2>2 DEF EventTypeOK
  <1>5. /\ evtState'[e] = "begun" /\ evtRef'[e] = evtRef[e] + 1
        /\ \A f \in Evts : f # e => evtState'[f] = evtState[f] /\ evtRef'[f] = evtRef[f]
    BY <1>2 DEF EventTypeOK
  <1>6. TableHoldsBegun'
    BY <1>2, <1>5 DEF TableHoldsBegun
  <1>7. RefsCounted'
    <2>1. \A f \in Evts : HoldersOf(f)' = HoldersOf(f) /\ IsFiniteSet(HoldersOf(f))
                          /\ Cardinality(HoldersOf(f)) \in Nat
      BY <1>2, FS_CardinalityType DEF HoldersOf, RefsCounted
    <2> QED  BY <1>2, <1>5, <2>1 DEF RefsCounted
  <1>8. \A k \in Hearers, f \in Evts :
          <<k, f>> \in began' <=> <<k, f>> \in began \/ (k \in ls /\ f = e)
    BY <1>1
  <1>9. \A a \in Attachers : a \notin ls /\ a \in Hearers
    BY <1>3, EventAssumption DEF EventTypeOK, Hearers
  <1>10. NothingHeardOfNew' /\ AttachedHear'
    BY <1>2, <1>5, <1>8, <1>9 DEF NothingHeardOfNew, AttachedHear
  <1>11. OnlyTriedHear'
    BY <1>2, <1>3, <1>8 DEF OnlyTriedHear, EventTypeOK, Hearers
  <1>12. EveryBeginEnds'
    <2> SUFFICES ASSUME NEW k \in Hearers, NEW f \in Evts, <<k, f>> \in began', k \notin Filtered
                 PROVE  ends[<<k, f>>] = IF HearsStill(k, f)' THEN 0 ELSE 1
      BY <1>2, <1>4, BeginEndPairsNext
    <2>1. CASE f = e
      <3>1. ends[<<k, f>>] = 0
        BY <1>2, <2>1 DEF NothingHeardOfNew
      <3>2. k \in listeners \/ <<k, f>> \in attached
        BY <1>2, <1>3, <1>8, <2>1 DEF NothingHeardOfNew, AttachedHear
      <3> QED  BY <1>2, <1>5, <2>1, <3>1, <3>2 DEF HearsStill, Open
    <2>2. CASE f # e
      <3>1. <<k, f>> \in began /\ (HearsStill(k, f)' <=> HearsStill(k, f))
        BY <1>2, <1>5, <1>8, <2>2 DEF HearsStill, Open
      <3> QED  BY <3>1, BeginEndPairs DEF EventTypeOK
    <2> QED  BY <2>1, <2>2
  <1> QED  BY <1>4, <1>6, <1>7, <1>10, <1>11, <1>12

LEMMA ProcessEndStep ==
  ASSUME EventInv, NEW e \in Evts, ProcessEnd(e)
  PROVE  EventInv'
  <1> USE DEF EventInv
  <1>1. PICK ls \in Interested : ends' = Called(ls \cup AttachedTo(e), {e})
    BY DEF ProcessEnd
  <1>2. /\ evtState[e] = "begun"
        /\ evtState' = [evtState EXCEPT ![e] = IF evtRef[e] - 1 = 0 THEN "freed" ELSE "done"]
        /\ evtRef' = [evtRef EXCEPT ![e] = @ - 1]
        /\ ongoing' = ongoing \ {e}
        /\ UNCHANGED <<listeners, tried, holding, holds, began, attached>>
    BY DEF ProcessEnd, OutOfTable, StateAfter
  <1>3. ls \subseteq listeners /\ listeners \ Filtered \subseteq ls /\ ls \subseteq Hearers
    BY DEF Interested, EventTypeOK, Hearers
  <1>4. /\ ends' \in [Hearers \X Evts -> Nat]
        /\ \A k \in Hearers, f \in Evts :
             ends'[<<k, f>>] = IF (k \in ls \/ <<k, f>> \in attached) /\ f = e
                               THEN ends[<<k, f>>] + 1 ELSE ends[<<k, f>>]
    <2>1. ends' = Called(ls \cup AttachedTo(e), {e}) /\ EventTypeOK
      BY <1>1
    <2> HIDE DEF EventInv
    <2>2. EndIsTold(ls, e)
      BY <2>1, EndToldTo
    <2> QED  BY <2>2 DEF EndIsTold
  <1>5. EventTypeOK'
    <2>1. evtState' \in [Evts -> {"new", "begun", "done", "freed"}] /\ evtRef' \in [Evts -> Int]
      BY <1>2 DEF EventTypeOK
    <2> QED  BY <1>2, <1>4, <2>1 DEF EventTypeOK
  <1>6. /\ evtState'[e] \notin {"new", "begun"} /\ evtRef'[e] = evtRef[e] - 1
        /\ \A f \in Evts : f # e => evtState'[f] = evtState[f] /\ evtRef'[f] = evtRef[f]
    BY <1>2 DEF EventTypeOK
  <1>7. TableHoldsBegun'
    BY <1>2, <1>6 DEF TableHoldsBegun
  <1>8. RefsCounted'
    <2>1. \A f \in Evts : HoldersOf(f)' = HoldersOf(f) /\ IsFiniteSet(HoldersOf(f))
                          /\ Cardinality(HoldersOf(f)) \in Nat
      BY <1>2, FS_CardinalityType DEF HoldersOf, RefsCounted
    <2> QED  BY <1>2, <1>6, <2>1 DEF RefsCounted
  <1>9. \A a \in Attachers : a \notin ls /\ a \in Hearers
    BY <1>3, EventAssumption DEF EventTypeOK, Hearers
  <1>10. NothingHeardOfNew' /\ AttachedHear' /\ OnlyTriedHear'
    BY <1>2, <1>4, <1>6, <1>9 DEF NothingHeardOfNew, AttachedHear, OnlyTriedHear
  <1>11. EveryBeginEnds'
    <2> SUFFICES ASSUME NEW k \in Hearers, NEW f \in Evts, <<k, f>> \in began, k \notin Filtered
                 PROVE  ends'[<<k, f>>] = IF HearsStill(k, f)' THEN 0 ELSE 1
      BY <1>2, <1>5, BeginEndPairsNext
    <2>1. ends[<<k, f>>] = IF HearsStill(k, f) THEN 0 ELSE 1
      BY BeginEndPairs DEF EventTypeOK
    <2>2. CASE f = e
      <3>1. ~HearsStill(k, f)'
        BY <1>6, <2>2 DEF HearsStill, Open
      <3>2. HearsStill(k, f) <=> k \in listeners \/ <<k, f>> \in attached
        BY <1>2, <2>2 DEF HearsStill, Open
      <3>3. k \in listeners <=> k \in ls
        BY <1>3
      <3> QED  BY <1>4, <2>1, <2>2, <3>1, <3>2, <3>3
    <2>3. CASE f # e
      <3>1. HearsStill(k, f)' <=> HearsStill(k, f)
        BY <1>2, <1>6, <2>3 DEF HearsStill, Open
      <3> QED  BY <1>4, <2>1, <2>3, <3>1
    <2> QED  BY <2>2, <2>3
  <1> QED  BY <1>5, <1>7, <1>8, <1>10, <1>11

LEMMA EventStep ==
  ASSUME EventInv, [EventNext]_eventVars
  PROVE  EventInv'
  <1>1. CASE UNCHANGED eventVars
    BY <1>1 DEF eventVars, EventInv, EventTypeOK, TableHoldsBegun, RefsCounted, HoldersOf,
                NothingHeardOfNew, AttachedHear, OnlyTriedHear, EveryBeginEnds
  <1>2. CASE EventNext
    BY <1>2, RegisterStep, UnregisterStep, AttachStep, ProcessStep, ProcessBeginStep,
       ProcessEndStep, HoldStep, DropRefStep DEF EventNext
  <1> QED  BY <1>1, <1>2

(* In every reachable state the table holds the events under way, with as  *)
(* many references as holders, and who was told of an event is known to    *)
(* it.                                                                     *)
THEOREM EventInvariant == EventSpec => []EventInv
  BY EventInitial, EventStep, PTL DEF EventSpec

(* A listener without a filter that was told of the begin of an event is   *)
(* told of its end, exactly once: by event_process_end, or by              *)
(* event_listener_unregister when it leaves before.                        *)
THEOREM BeginsEnd == EventSpec => []EveryBeginEnds
  <1>1. EventInv => EveryBeginEnds
    BY DEF EventInv
  <1> QED  BY <1>1, EventInvariant, PTL

(* An event has as many references as holders, and one more while it is    *)
(* under way: it is not freed before its end.                              *)
THEOREM EventRefs == EventSpec => [](EventTypeOK /\ RefsCounted)
  <1>1. EventInv => EventTypeOK /\ RefsCounted
    BY DEF EventInv
  <1> QED  BY <1>1, EventInvariant, PTL
-----------------------------------------------------------------------------
(* Connections (Tcp).                                                      *)
TcpStates ==
  {"new", "syn_sent", "syn_recv", "established", "half_closed", "closed"}

ConnTypeOK ==
  /\ conn \in [state : TcpStates, fins : SUBSET TcpDirs, known : SUBSET TcpDirs,
               assured : BOOLEAN, client : SUBSET TcpDirs, start : [TcpDirs -> Nat]]
  /\ connTimer \in TcpStates \cup {"none", "stream"}

TcpTypeOK ==
  /\ ConnTypeOK
  /\ follow \in BOOLEAN /\ toCome \subseteq Captured
  /\ stream \in [there : BOOLEAN, running : BOOLEAN, got : SUBSET TcpDirs,
                 kept : SUBSET Captured, timeout : TcpStates \cup {"none", "stream"}]
  /\ streamLock \in TcpThreads \cup {NoTcpThread}
  /\ tcpPc \in [TcpThreads -> {"away", "telling", "handing", "ending"}]
  /\ job \in [TcpThreads -> [pkt : SUBSET Captured, action : SUBSET TcpDirs,
                             start : [TcpDirs -> Nat]]]

(* The stream is locked by the one thread that hands on or ends.           *)
LockInv == \A t \in TcpThreads : tcpPc[t] \in {"handing", "ending"} <=> streamLock = t

(* Without a stream nobody is busy with it and it has no packet.           *)
FollowInv == stream.there => follow

NoStreamInv == ~stream.there =>
  /\ stream.kept = {} /\ ~stream.running
  /\ \A t \in TcpThreads : tcpPc[t] = "away"

(* A start that is known has reached the stream or is on its way there.    *)
OnItsWay(d) == \E t \in TcpThreads : tcpPc[t] # "away" /\ d \in job[t].action

StartsInv ==
  stream.there /\ ~stream.running => \A d \in conn.known : d \in stream.got \/ OnItsWay(d)

(* The timeout of the stream is the delay of missing packets, and from the *)
(* first packet it hands on that of the state of the connection.           *)
TimeoutInv == stream.there =>
  IF stream.running THEN stream.timeout = conn.state /\ conn.state # "new"
  ELSE stream.timeout = "stream"

(* The entry is queued with it, but for a thread that will do so yet.      *)
WillOffer(t) == tcpPc[t] = "telling" /\ \E p \in job[t].pkt : HasPayload(p)

TimerInv ==
  IF stream.there
  THEN streamLock = NoTcpThread /\ (\A t \in TcpThreads : ~WillOffer(t)) => connTimer = stream.timeout
  ELSE connTimer = IF conn.state = "new" THEN "none" ELSE conn.state

TcpInv == TcpTypeOK /\ LockInv /\ FollowInv /\ NoStreamInv /\ StartsInv /\ TimeoutInv /\ TimerInv

-----------------------------------------------------------------------------
LEMMA TcpInitial ==
  TcpInit => TcpInv
  <1> SUFFICES ASSUME TcpInit PROVE TcpInv
    OBVIOUS
  <1>1. /\ conn = NewConn /\ connTimer = "none" /\ stream = NoStream
        /\ follow \in BOOLEAN /\ toCome = Captured /\ streamLock = NoTcpThread
        /\ \A t \in TcpThreads : tcpPc[t] = "away"
        /\ tcpPc = [t \in TcpThreads |-> "away"] /\ job = [t \in TcpThreads |-> NoJob]
    BY DEF TcpInit
  <1>2. ConnTypeOK
    BY <1>1 DEF ConnTypeOK, NewConn, TcpStates, TcpDirs
  <1>3. stream \in [there : BOOLEAN, running : BOOLEAN, got : SUBSET TcpDirs,
                 kept : SUBSET Captured, timeout : TcpStates \cup {"none", "stream"}]
    BY <1>1 DEF NoStream
  <1>4. NoJob \in [pkt : SUBSET Captured, action : SUBSET TcpDirs, start : [TcpDirs -> Nat]]
    BY DEF NoJob
  <1>5. TcpTypeOK
    BY <1>1, <1>2, <1>3, <1>4 DEF TcpTypeOK
  <1>6. LockInv
    BY <1>1, TcpAssumption DEF LockInv
  <1>7. FollowInv /\ NoStreamInv /\ StartsInv /\ TimeoutInv /\ TimerInv
    BY <1>1 DEF FollowInv, NoStreamInv, StartsInv, TimeoutInv, TimerInv, NoStream, NewConn
  <1> QED  BY <1>5, <1>6, <1>7 DEF TcpInv

-----------------------------------------------------------------------------
(* What a packet does to the connection.                                   *)
LEMMA PacketOf ==
  ASSUME NEW p \in Captured
  PROVE  /\ p.dir \in TcpDirs /\ p.kind \in {"syn", "synack", "fin", "rst", "plain"}
         /\ p.seq \in Nat /\ p.ack \in Nat /\ Opposite(p.dir) \in TcpDirs
  <1>1. p \in [id : Nat, dir : TcpDirs, kind : {"syn", "synack", "fin", "rst", "plain"},
               acks : BOOLEAN, plen : BOOLEAN, seq : Nat, ack : Nat]
    BY TcpAssumption
  <1> QED  BY <1>1 DEF TcpDirs, Opposite

LEMMA UpdatedConn ==
  ASSUME NEW c, NEW p \in Captured,
         c \in [state : TcpStates, fins : SUBSET TcpDirs, known : SUBSET TcpDirs,
                assured : BOOLEAN, client : SUBSET TcpDirs, start : [TcpDirs -> Nat]]
  PROVE  /\ Updated(c, p) \in
              [state : TcpStates, fins : SUBSET TcpDirs, known : SUBSET TcpDirs,
               assured : BOOLEAN, client : SUBSET TcpDirs, start : [TcpDirs -> Nat]]
         /\ Updated(c, p).state = StateAfterPkt(c, p)
         /\ Updated(c, p).known = c.known
         /\ StateAfterPkt(c, p) \in TcpStates \ {"new"}
  <1>1. StateAfterPkt(c, p) \in TcpStates \ {"new"}
    BY PacketOf DEF StateAfterPkt, StateOnFin, TcpStates, Early
  <1>2. (IF p.kind = "fin" THEN c.fins \cup {p.dir} ELSE c.fins) \in SUBSET TcpDirs
    BY PacketOf
  <1> QED  BY <1>1, <1>2 DEF Updated

LEMMA LearnedConn ==
  ASSUME NEW c, NEW p \in Captured,
         c \in [state : TcpStates, fins : SUBSET TcpDirs, known : SUBSET TcpDirs,
                assured : BOOLEAN, client : SUBSET TcpDirs, start : [TcpDirs -> Nat]]
  PROVE  /\ Learned(c, p) \in
              [state : TcpStates, fins : SUBSET TcpDirs, known : SUBSET TcpDirs,
               assured : BOOLEAN, client : SUBSET TcpDirs, start : [TcpDirs -> Nat]]
         /\ Learned(c, p).state = c.state
         /\ Learned(c, p).known = c.known \cup Action(c, p)
         /\ StateAfterPkt(Learned(c, p), p) = StateAfterPkt(c, p)
         /\ Action(c, p) \in SUBSET TcpDirs
  <1>1. ToldBy(c, p) \in SUBSET TcpDirs /\ ClientOf(p) \in SUBSET TcpDirs
    BY PacketOf DEF ToldBy, ClientOf
  <1>2. \A d \in TcpDirs : FirstByte(p, d) \in Nat
    BY PacketOf DEF FirstByte
  <1>3. CASE Assures(c, p)
    <2> DEFINE begin == [c.start EXCEPT ![Opposite(p.dir)] = p.ack]
               known == c.known \cup {Opposite(p.dir)}
    <2>1. Learned(c, p) = [c EXCEPT !.start = begin, !.assured = TRUE, !.known = known]
      BY <1>3 DEF Learned
    <2>5. known \in SUBSET TcpDirs /\ known = c.known \cup {Opposite(p.dir)}
      BY PacketOf
    <2>4. begin \in [TcpDirs -> Nat]
      BY PacketOf
    <2> HIDE DEF begin
    <2>2. Action(c, p) = {Opposite(p.dir)}
      BY <1>3 DEF Action
    <2>3. Learned(c, p) \in [state : TcpStates, fins : SUBSET TcpDirs, known : SUBSET TcpDirs,
               assured : BOOLEAN, client : SUBSET TcpDirs, start : [TcpDirs -> Nat]]
          /\ Learned(c, p).state = c.state /\ Learned(c, p).fins = c.fins
          /\ Learned(c, p).known = c.known \cup {Opposite(p.dir)}
      BY <2>1, <2>4, <2>5
    <2> QED  BY <2>2, <2>3, PacketOf DEF StateAfterPkt, StateOnFin
  <1>4. CASE ~Assures(c, p)
    <2> DEFINE begin == [d \in TcpDirs |-> IF d \in ToldBy(c, p) THEN FirstByte(p, d) ELSE c.start[d]]
    <2>1. begin \in [TcpDirs -> Nat]
      BY <1>2
    <2>2. Learned(c, p) = [c EXCEPT !.start = begin, !.known = @ \cup ToldBy(c, p),
                                    !.client = @ \cup ClientOf(p)]
      BY <1>4 DEF Learned
    <2>3. Action(c, p) = ToldBy(c, p)
      BY <1>4 DEF Action
    <2> HIDE DEF begin
    <2>4. Learned(c, p) \in [state : TcpStates, fins : SUBSET TcpDirs, known : SUBSET TcpDirs,
               assured : BOOLEAN, client : SUBSET TcpDirs, start : [TcpDirs -> Nat]]
          /\ Learned(c, p).state = c.state /\ Learned(c, p).fins = c.fins
          /\ Learned(c, p).known = c.known \cup ToldBy(c, p)
      BY <1>1, <2>1, <2>2
    <2> QED  BY <1>1, <2>3, <2>4 DEF StateAfterPkt, StateOnFin
  <1> QED  BY <1>3, <1>4
-----------------------------------------------------------------------------
StreamType == [there : BOOLEAN, running : BOOLEAN, got : SUBSET TcpDirs,
               kept : SUBSET Captured, timeout : TcpStates \cup {"none", "stream"}]
JobType == [pkt : SUBSET Captured, action : SUBSET TcpDirs, start : [TcpDirs -> Nat]]

(* Packets of a connection whose payload is not of interest, or of one     *)
(* that has no stream yet and has no data: they set the timer at once.     *)
LEMMA WithoutStreamStep ==
  ASSUME TcpInv, NEW t \in TcpThreads, NEW p \in toCome, TcpProcess(t, p),
         Unfollowed(t, p) \/ WithoutStream(t, p), ~stream.there
  PROVE  TcpInv'
  <1> USE DEF TcpInv
  <1>1. /\ connTimer' = StateAfterPkt(conn, p) /\ UNCHANGED <<stream, tcpPc, job, follow, streamLock>>
        /\ toCome' \subseteq toCome /\ p \in Captured
    BY DEF TcpProcess, Unfollowed, WithoutStream, TcpTypeOK
  <1>2. /\ ConnTypeOK' /\ conn'.state = StateAfterPkt(conn, p) /\ conn'.state # "new"
        /\ connTimer' \in TcpStates
    <2>1. CASE conn' = Updated(conn, p)
      BY <1>1, <2>1, UpdatedConn DEF TcpTypeOK, ConnTypeOK
    <2>2. CASE conn' = Updated(Learned(conn, p), p)
      <3>1. Learned(conn, p) \in [state : TcpStates, fins : SUBSET TcpDirs, known : SUBSET TcpDirs,
               assured : BOOLEAN, client : SUBSET TcpDirs, start : [TcpDirs -> Nat]]
            /\ StateAfterPkt(Learned(conn, p), p) = StateAfterPkt(conn, p)
        BY <1>1, LearnedConn DEF TcpTypeOK, ConnTypeOK
      <3> QED  BY <1>1, <2>2, <3>1, UpdatedConn DEF TcpTypeOK, ConnTypeOK
    <2> QED  BY <2>1, <2>2 DEF Unfollowed, WithoutStream
  <1>3. TcpTypeOK'
    BY <1>1, <1>2 DEF TcpTypeOK
  <1>4. LockInv' /\ FollowInv' /\ NoStreamInv' /\ StartsInv' /\ TimeoutInv'
    BY <1>1 DEF LockInv, FollowInv, NoStreamInv, StartsInv, TimeoutInv
  <1>5. TimerInv'
    BY <1>1, <1>2 DEF TimerInv
  <1> QED  BY <1>3, <1>4, <1>5

(* A packet that makes the stream or finds it.                             *)
LEMMA WithStreamStep ==
  ASSUME TcpInv, NEW t \in TcpThreads, NEW p \in toCome, TcpProcess(t, p), WithStream(t, p)
  PROVE  TcpInv'
  <1> USE DEF TcpInv
  <1>1. /\ follow /\ tcpPc[t] = "away" /\ (stream.there \/ HasPayload(p))
        /\ conn' = Learned(conn, p)
        /\ stream' = IF stream.there THEN stream
                     ELSE [stream EXCEPT !.there = TRUE, !.timeout = "stream"]
        /\ job' = [job EXCEPT ![t] = [pkt |-> {p}, action |-> ToTell(conn, p),
                                      start |-> Learned(conn, p).start]]
        /\ tcpPc' = [tcpPc EXCEPT ![t] = "telling"]
        /\ UNCHANGED <<connTimer, follow, streamLock>>
        /\ toCome' \subseteq toCome /\ p \in Captured
    BY DEF TcpProcess, WithStream, Leaves, TcpTypeOK
  <1>2. /\ ConnTypeOK' /\ conn'.state = conn.state
        /\ conn'.known = conn.known \cup Action(conn, p)
        /\ Learned(conn, p).start \in [TcpDirs -> Nat]
        /\ ToTell(conn, p) \in SUBSET TcpDirs
        /\ ToTell(conn, p) = IF stream.there THEN Action(conn, p) ELSE conn'.known
    BY <1>1, LearnedConn DEF TcpTypeOK, ConnTypeOK, ToTell
  <1>3. stream' \in StreamType
    BY <1>1 DEF TcpTypeOK, StreamType
  <1>4. job' \in [TcpThreads -> JobType] /\ job'[t].action = ToTell(conn, p) /\ job'[t].pkt = {p}
        /\ \A u \in TcpThreads : u # t => job'[u] = job[u]
    <2>1. [pkt |-> {p}, action |-> ToTell(conn, p), start |-> Learned(conn, p).start] \in JobType
      BY <1>1, <1>2 DEF JobType
    <2> QED  BY <1>1, <2>1 DEF TcpTypeOK, JobType
  <1>5. tcpPc' \in [TcpThreads -> {"away", "telling", "handing", "ending"}] /\ tcpPc'[t] = "telling"
        /\ \A u \in TcpThreads : u # t => tcpPc'[u] = tcpPc[u]
    BY <1>1 DEF TcpTypeOK
  <1>6. TcpTypeOK'
    BY <1>1, <1>2, <1>3, <1>4, <1>5 DEF TcpTypeOK, StreamType, JobType
  <1>7. LockInv'
    <2>1. tcpPc[t] = "away" /\ streamLock' = streamLock
      BY <1>1
    <2> QED  BY <1>5, <2>1 DEF LockInv
  <1>8. /\ stream'.there /\ stream'.running = stream.running /\ stream'.got = stream.got
        /\ stream'.timeout = IF stream.there THEN stream.timeout ELSE "stream"
    BY <1>1 DEF TcpTypeOK
  <1>9. FollowInv' /\ NoStreamInv'
    BY <1>1, <1>8 DEF FollowInv, NoStreamInv
  <1>10. StartsInv'
    <2> SUFFICES ASSUME ~stream.running, NEW d \in conn'.known
                 PROVE  d \in stream.got \/ OnItsWay(d)'
      BY <1>8 DEF StartsInv
    <2>1. CASE d \in ToTell(conn, p)
      BY <1>4, <1>5, <2>1 DEF OnItsWay
    <2>2. CASE d \notin ToTell(conn, p)
      <3>1. stream.there /\ d \in conn.known
        BY <1>2, <2>2
      <3>2. d \in stream.got \/ \E u \in TcpThreads : tcpPc[u] # "away" /\ d \in job[u].action
        BY <3>1 DEF StartsInv, OnItsWay
      <3>3. tcpPc[t] = "away"
        BY <1>1
      <3>4. ASSUME NEW u \in TcpThreads, tcpPc[u] # "away", d \in job[u].action
            PROVE  OnItsWay(d)'
        <4>1. u # t /\ tcpPc'[u] # "away" /\ d \in job'[u].action
          BY <1>4, <1>5, <3>3, <3>4
        <4> QED  BY <4>1 DEF OnItsWay
      <3> QED  BY <3>2, <3>4
    <2> QED  BY <2>1, <2>2
  <1>11. TimeoutInv'
    BY <1>2, <1>8 DEF TimeoutInv, NoStreamInv
  <1>12. TimerInv'
    <2> SUFFICES ASSUME streamLock = NoTcpThread, \A u \in TcpThreads : ~WillOffer(u)'
                 PROVE  connTimer = stream'.timeout
      BY <1>1, <1>8 DEF TimerInv
    <2>1. ~HasPayload(p)
      BY <1>4, <1>5 DEF WillOffer
    <2>2. stream.there /\ \A u \in TcpThreads : ~WillOffer(u)
      BY <1>1, <1>4, <1>5, <2>1 DEF WillOffer
    <2> QED  BY <1>8, <2>2 DEF TimerInv
  <1> QED  BY <1>6, <1>7, <1>9, <1>10, <1>11, <1>12

LEMMA SetStartStep ==
  ASSUME TcpInv, NEW t \in TcpThreads, SetStart(t)
  PROVE  TcpInv'
  <1> USE DEF TcpInv
  <1> DEFINE d == NextStart(t)
  <1>1. /\ tcpPc[t] = "telling" /\ job[t].action # {} /\ streamLock = NoTcpThread
        /\ streamLock' = t
        /\ stream' = IF stream.running THEN stream ELSE [stream EXCEPT !.got = @ \cup {d}]
        /\ job' = [job EXCEPT ![t].action = @ \ {d}]
        /\ UNCHANGED <<follow, toCome, conn, connTimer>>
    BY DEF SetStart
  <1>2. PICK l \in {"handing", "ending"} : tcpPc' = [tcpPc EXCEPT ![t] = l]
    BY DEF SetStart, Leaves
  <1>3. job[t] \in JobType /\ job[t].action \in SUBSET TcpDirs
    BY DEF TcpTypeOK, JobType
  <1>4. d \in TcpDirs
    BY DEF NextStart, TcpDirs
  <1> HIDE DEF d
  <1>5. /\ stream' \in StreamType /\ stream'.there = stream.there /\ stream'.running = stream.running
        /\ stream'.kept = stream.kept /\ stream'.timeout = stream.timeout
        /\ ~stream.running => stream'.got = stream.got \cup {d}
    BY <1>1, <1>4 DEF TcpTypeOK, StreamType
  <1>6. /\ job' \in [TcpThreads -> JobType] /\ job'[t].action = job[t].action \ {d}
        /\ \A u \in TcpThreads : u # t => job'[u] = job[u]
    <2>1. [job[t] EXCEPT !.action = @ \ {d}] \in JobType
      BY <1>3 DEF JobType
    <2> QED  BY <1>1, <1>3, <2>1 DEF TcpTypeOK, JobType
  <1>7. /\ tcpPc' \in [TcpThreads -> {"away", "telling", "handing", "ending"}] /\ tcpPc'[t] = l
        /\ \A u \in TcpThreads : u # t => tcpPc'[u] = tcpPc[u]
    BY <1>2 DEF TcpTypeOK
  <1>8. TcpTypeOK'
    BY <1>1, <1>5, <1>6, <1>7 DEF TcpTypeOK, ConnTypeOK, StreamType, JobType
  <1>9. LockInv'
    BY <1>1, <1>2, <1>7, TcpAssumption DEF LockInv
  <1>10. stream.there
    BY <1>1 DEF NoStreamInv
  <1>11. FollowInv' /\ NoStreamInv' /\ TimeoutInv'
    BY <1>1, <1>5, <1>10 DEF FollowInv, NoStreamInv, TimeoutInv
  <1>12. StartsInv'
    <2> SUFFICES ASSUME ~stream.running, NEW e \in conn.known
                 PROVE  e \in stream'.got \/ OnItsWay(e)'
      BY <1>1, <1>5, <1>10 DEF StartsInv
    <2>1. e \in stream.got \/ \E u \in TcpThreads : tcpPc[u] # "away" /\ e \in job[u].action
      BY <1>10 DEF StartsInv, OnItsWay
    <2>2. ASSUME NEW u \in TcpThreads, tcpPc[u] # "away", e \in job[u].action, e # d
          PROVE  tcpPc'[u] # "away" /\ e \in job'[u].action
      BY <1>2, <1>6, <1>7, <2>2
    <2> QED  BY <1>5, <2>1, <2>2 DEF OnItsWay
  <1>13. TimerInv'
    BY <1>1, <1>5, <1>10, TcpAssumption DEF TimerInv
  <1> QED  BY <1>8, <1>9, <1>11, <1>12, <1>13

LEMMA OfferStep ==
  ASSUME TcpInv, NEW t \in TcpThreads, NEW p \in job[t].pkt, Offer(t, p)
  PROVE  TcpInv'
  <1> USE DEF TcpInv
  <1>1. /\ tcpPc[t] = "telling" /\ job[t].action = {} /\ streamLock = NoTcpThread
        /\ streamLock' = t
        /\ \E kept \in {{}, {p}} : stream' = [stream EXCEPT !.kept = @ \cup kept]
        /\ job' = [job EXCEPT ![t].pkt = {}]
        /\ tcpPc' = [tcpPc EXCEPT ![t] = "handing"]
        /\ UNCHANGED <<follow, toCome, conn, connTimer>>
    BY DEF Offer, Leaves
  <1>2. job[t] \in JobType /\ p \in Captured
    BY DEF TcpTypeOK, JobType
  <1>3. /\ stream' \in StreamType /\ stream'.there = stream.there /\ stream'.running = stream.running
        /\ stream'.timeout = stream.timeout /\ stream'.got = stream.got
    <2>1. PICK kept \in {{}, {p}} : stream' = [stream EXCEPT !.kept = @ \cup kept]
      BY <1>1
    <2>2. stream \in StreamType /\ stream.kept \cup kept \in SUBSET Captured
      BY <1>2, <2>1 DEF TcpTypeOK, StreamType
    <2> QED  BY <2>1, <2>2 DEF StreamType
  <1>4. /\ job' \in [TcpThreads -> JobType] /\ job'[t].action = {}
        /\ \A u \in TcpThreads : u # t => job'[u] = job[u]
    <2>1. [job[t] EXCEPT !.pkt = {}] \in JobType
      BY <1>2 DEF JobType
    <2> QED  BY <1>1, <1>2, <2>1 DEF TcpTypeOK, JobType
  <1>5. /\ tcpPc' \in [TcpThreads -> {"away", "telling", "handing", "ending"}] /\ tcpPc'[t] = "handing"
        /\ \A u \in TcpThreads : u # t => tcpPc'[u] = tcpPc[u]
    BY <1>1 DEF TcpTypeOK
  <1>6. TcpTypeOK'
    BY <1>1, <1>3, <1>4, <1>5 DEF TcpTypeOK, ConnTypeOK, StreamType, JobType
  <1>7. LockInv'
    BY <1>1, <1>5, TcpAssumption DEF LockInv
  <1>8. stream.there
    BY <1>1 DEF NoStreamInv
  <1>9. FollowInv' /\ NoStreamInv' /\ TimeoutInv'
    BY <1>1, <1>3, <1>8 DEF FollowInv, NoStreamInv, TimeoutInv
  <1>10. StartsInv'
    BY <1>1, <1>3, <1>4, <1>5, <1>8 DEF StartsInv, OnItsWay
  <1>11. TimerInv'
    BY <1>1, <1>3, <1>8, TcpAssumption DEF TimerInv
  <1> QED  BY <1>6, <1>7, <1>9, <1>10, <1>11

LEMMA NothingToOfferStep ==
  ASSUME TcpInv, NEW t \in TcpThreads, NothingToOffer(t)
  PROVE  TcpInv'
  <1> USE DEF TcpInv
  <1>1. /\ tcpPc[t] = "telling" /\ job[t].action = {} /\ \A p \in job[t].pkt : ~HasPayload(p)
        /\ job' = [job EXCEPT ![t] = NoJob] /\ tcpPc' = [tcpPc EXCEPT ![t] = "away"]
        /\ UNCHANGED <<follow, toCome, conn, connTimer, stream, streamLock>>
    BY DEF NothingToOffer, Leaves
  <1>2. /\ job' \in [TcpThreads -> JobType] /\ job'[t] = NoJob
        /\ \A u \in TcpThreads : u # t => job'[u] = job[u]
    <2>1. NoJob \in JobType
      BY DEF NoJob, JobType
    <2> QED  BY <1>1, <2>1 DEF TcpTypeOK, JobType
  <1>3. /\ tcpPc' \in [TcpThreads -> {"away", "telling", "handing", "ending"}] /\ tcpPc'[t] = "away"
        /\ \A u \in TcpThreads : u # t => tcpPc'[u] = tcpPc[u]
    BY <1>1 DEF TcpTypeOK
  <1>4. TcpTypeOK'
    BY <1>1, <1>2, <1>3 DEF TcpTypeOK, ConnTypeOK, JobType
  <1>5. LockInv'
    BY <1>1, <1>3 DEF LockInv
  <1>6. FollowInv' /\ NoStreamInv' /\ TimeoutInv'
    BY <1>1, <1>3 DEF FollowInv, NoStreamInv, TimeoutInv
  <1>7. StartsInv'
    BY <1>1, <1>2, <1>3 DEF StartsInv, OnItsWay
  <1>8. TimerInv'
    BY <1>1, <1>2, <1>3 DEF TimerInv, WillOffer
  <1> QED  BY <1>4, <1>5, <1>6, <1>7, <1>8

LEMMA HandOnStep ==
  ASSUME TcpInv, NEW t \in TcpThreads, NEW p \in stream.kept, HandOn(t, p)
  PROVE  TcpInv'
  <1> USE DEF TcpInv
  <1>1. /\ tcpPc[t] = "handing" /\ conn' = Updated(conn, p)
        /\ stream' = [stream EXCEPT !.kept = @ \ {p}, !.running = TRUE,
                                    !.timeout = StateAfterPkt(conn, p)]
        /\ UNCHANGED <<follow, toCome, connTimer, streamLock, tcpPc, job>>
    BY DEF HandOn, TimeoutSet
  <1>2. p \in Captured
    BY DEF TcpTypeOK
  <1>3. ConnTypeOK' /\ conn'.state = StateAfterPkt(conn, p) /\ conn'.state \in TcpStates \ {"new"}
    BY <1>1, <1>2, UpdatedConn DEF TcpTypeOK, ConnTypeOK
  <1>4. /\ stream' \in StreamType /\ stream'.running /\ stream'.there = stream.there
        /\ stream'.timeout = StateAfterPkt(conn, p)
    BY <1>1, <1>3 DEF TcpTypeOK, StreamType
  <1>5. TcpTypeOK'
    BY <1>1, <1>3, <1>4 DEF TcpTypeOK, StreamType
  <1>6. stream.there /\ streamLock = t
    BY <1>1 DEF FollowInv, NoStreamInv, LockInv
  <1>7. LockInv' /\ FollowInv' /\ NoStreamInv' /\ StartsInv'
    BY <1>1, <1>4, <1>6 DEF LockInv, FollowInv, NoStreamInv, StartsInv
  <1>8. TimeoutInv'
    BY <1>3, <1>4 DEF TimeoutInv
  <1>9. TimerInv'
    BY <1>1, <1>4, <1>6, TcpAssumption DEF TimerInv
  <1> QED  BY <1>5, <1>7, <1>8, <1>9

LEMMA EndProcessStep ==
  ASSUME TcpInv, NEW t \in TcpThreads, EndProcess(t)
  PROVE  TcpInv'
  <1> USE DEF TcpInv
  <1>1. /\ tcpPc[t] \in {"handing", "ending"} /\ connTimer' = stream.timeout
        /\ streamLock' = NoTcpThread /\ tcpPc' = [tcpPc EXCEPT ![t] = "telling"]
        /\ UNCHANGED <<follow, toCome, conn, stream, job>>
    BY DEF EndProcess, Leaves
  <1>2. stream.there /\ streamLock = t
    BY <1>1 DEF FollowInv, NoStreamInv, LockInv
  <1>3. /\ tcpPc' \in [TcpThreads -> {"away", "telling", "handing", "ending"}] /\ tcpPc'[t] = "telling"
        /\ \A u \in TcpThreads : u # t => tcpPc'[u] = tcpPc[u]
    BY <1>1 DEF TcpTypeOK
  <1>4. TcpTypeOK'
    BY <1>1, <1>3 DEF TcpTypeOK, ConnTypeOK
  <1>5. LockInv'
    BY <1>1, <1>2, <1>3, TcpAssumption DEF LockInv
  <1>6. FollowInv' /\ NoStreamInv' /\ TimeoutInv'
    BY <1>1, <1>2 DEF FollowInv, NoStreamInv, TimeoutInv
  <1>7. StartsInv'
    BY <1>1, <1>3 DEF StartsInv, OnItsWay
  <1>8. TimerInv'
    BY <1>1, <1>2 DEF TimerInv
  <1> QED  BY <1>4, <1>5, <1>6, <1>7, <1>8

LEMMA ConnExpiresStep ==
  ASSUME TcpInv, ConnExpires
  PROVE  TcpInv'
  <1> USE DEF TcpInv
  <1>1. /\ \A t \in TcpThreads : tcpPc[t] = "away"
        /\ conn' = NewConn /\ connTimer' = "none" /\ stream' = NoStream
        /\ UNCHANGED <<follow, toCome, streamLock, tcpPc, job>>
    BY DEF ConnExpires
  <1>2. ConnTypeOK'
    BY <1>1 DEF ConnTypeOK, NewConn, TcpStates, TcpDirs
  <1>3. stream' \in StreamType
    BY <1>1 DEF NoStream, StreamType
  <1>4. TcpTypeOK'
    BY <1>1, <1>2, <1>3 DEF TcpTypeOK, StreamType
  <1>5. LockInv'
    BY <1>1 DEF LockInv
  <1>6. FollowInv' /\ NoStreamInv' /\ StartsInv' /\ TimeoutInv' /\ TimerInv'
    BY <1>1 DEF FollowInv, NoStreamInv, StartsInv, TimeoutInv, TimerInv, NoStream, NewConn
  <1> QED  BY <1>4, <1>5, <1>6

LEMMA TcpStep ==
  ASSUME TcpInv, [TcpNext]_tcpVars
  PROVE  TcpInv'
  <1>1. CASE UNCHANGED tcpVars
    BY <1>1 DEF tcpVars, TcpInv, TcpTypeOK, ConnTypeOK, LockInv, FollowInv, NoStreamInv,
                StartsInv, OnItsWay, TimeoutInv, TimerInv, WillOffer
  <1>2. ASSUME NEW t \in TcpThreads, NEW p \in toCome, TcpProcess(t, p) PROVE TcpInv'
    <2>1. CASE WithStream(t, p)
      BY <1>2, <2>1, WithStreamStep
    <2>2. CASE Unfollowed(t, p) \/ WithoutStream(t, p)
      <3>1. ~stream.there
        BY <2>2 DEF Unfollowed, WithoutStream, TcpInv, FollowInv
      <3> QED  BY <1>2, <2>2, <3>1, WithoutStreamStep
    <2> QED  BY <1>2, <2>1, <2>2 DEF TcpProcess
  <1>3. CASE TcpNext
    BY <1>2, <1>3, SetStartStep, NothingToOfferStep, EndProcessStep, OfferStep, HandOnStep,
       ConnExpiresStep DEF TcpNext
  <1> QED  BY <1>1, <1>3

(* In every reachable state the delay with which a connection waits is     *)
(* that of its state or of its stream, whichever thread changes which      *)
(* meanwhile.                                                              *)
THEOREM TcpInvariant == TcpSpec => []TcpInv
  BY TcpInitial, TcpStep, PTL DEF TcpSpec

LEMMA QuietLock ==
  ASSUME TcpInv, Quiet
  PROVE  /\ streamLock = NoTcpThread
         /\ \A t \in TcpThreads : ~WillOffer(t)
         /\ \A d : ~OnItsWay(d)
  BY DEF TcpInv, TcpTypeOK, LockInv, Quiet, WillOffer, OnItsWay

(* When none of its packets is being handled, a connection is queued with  *)
(* the delay of its state, or of missing packets as long as its stream has *)
(* handed on nothing (proto_tcp_process, proto_tcp_process_payload and     *)
(* stream_end_process_packet).                                             *)
THEOREM ConnTimerFits == TcpSpec => []TimerFitsState
  <1>1. TcpInv => TimerFitsState
    <2> SUFFICES ASSUME TcpInv, Quiet
                 PROVE  connTimer = IF stream.there /\ ~stream.running THEN "stream"
                             ELSE IF conn.state = "new" THEN "none" ELSE conn.state
      BY DEF TimerFitsState
    <2>1. CASE stream.there
      <3>1. connTimer = stream.timeout
        BY <2>1, QuietLock DEF TcpInv, TimerInv
      <3>2. CASE stream.running
        BY <2>1, <3>1, <3>2 DEF TcpInv, TimeoutInv
      <3>3. CASE ~stream.running
        BY <2>1, <3>1, <3>3 DEF TcpInv, TimeoutInv
      <3> QED  BY <3>2, <3>3
    <2>2. CASE ~stream.there
      BY <2>2 DEF TcpInv, TimerInv
    <2> QED  BY <2>1, <2>2
  <1> QED  BY <1>1, TcpInvariant, PTL

(* A start that one thread learned reaches the stream, though another one  *)
(* may make the stream meanwhile.                                          *)
THEOREM StartsReach == TcpSpec => []StartsReachStream
  <1>1. TcpInv => StartsReachStream
    BY QuietLock DEF TcpInv, StartsInv, StartsReachStream
  <1> QED  BY <1>1, TcpInvariant, PTL
-----------------------------------------------------------------------------
(* Payloads (PloadStore).                                                  *)
PloadPcs == {"away", "asked", "reading", "waiting", "eof", "failed", "closed", "gone"}

PloadTypeOK ==
  /\ ploadPhase \in {"new", "opening", "mapping", "open", "ended"}
  /\ written \in Nat /\ opening \in Nat /\ fileSize \in Nat
  /\ ploadRef \in Int /\ ploadFreed \in BOOLEAN /\ storeRef \in Int
  /\ store \in {"none", "empty", "mapped", "complete", "freed"} /\ fdOpen \in BOOLEAN
  /\ listed \subseteq Viewers /\ told \subseteq Viewers
  /\ rPc \in [Readers -> PloadPcs] /\ pos \in [Readers -> Nat]
  /\ readMaps \subseteq Readers /\ woken \subseteq Readers /\ crashed \in BOOLEAN

(* The store is referred to by the sessions that list it, by the requests  *)
(* and by the payload that writes it, and is there as long as one of them  *)
(* is.                                                                     *)
Reading == {r \in Readers : rPc[r] \notin {"away", "gone"}}

StoreCounted ==
  /\ storeRef = Cardinality(listed) + Cardinality(Reading)
                  + (IF store = "mapped" THEN 1 ELSE 0)
  /\ store \in {"none", "freed"} <=> storeRef = 0

(* The payload is referred to by its connection, by the sessions that have *)
(* not handed it over and by its store.                                    *)
PloadCounted ==
  /\ ploadRef = Cardinality(told) + (IF ploadPhase = "ended" THEN 0 ELSE 1)
                  + (IF store \in {"none", "freed"} THEN 0 ELSE 1)
  /\ ploadFreed <=> ploadRef = 0

(* The store goes with the phase of the payload.                           *)
StorePhase ==
  /\ ploadPhase = "new" => store = "none" /\ told = {} /\ listed = {}
  /\ store = "empty" => ploadPhase \in {"opening", "mapping"}
  /\ store = "mapped" => ploadPhase = "open"
  /\ store = "complete" => ploadPhase = "ended"
  /\ ploadPhase = "mapping" => store # "none"

(* The file has all that was appended but what came before it was opened;  *)
(* who is at its end has read the file of a payload that has ended.        *)
SizeInv ==
  /\ ploadPhase \in {"opening", "mapping"} => written = opening
  /\ store \in {"mapped", "complete"} => fileSize = written \/ written = opening

ReadersInv == \A r \in Readers :
  /\ rPc[r] \in {"reading", "waiting", "eof"} => store # "empty"
  /\ rPc[r] = "eof" => store # "mapped" /\ pos[r] = fileSize

PloadInv ==
  PloadTypeOK /\ StoreCounted /\ PloadCounted /\ StorePhase /\ SizeInv /\ ReadersInv

LEMMA PloadInitial == PloadInit => PloadInv
  <1> SUFFICES ASSUME PloadInit PROVE PloadInv
    OBVIOUS
  <1>1. Reading = {}
    BY DEF PloadInit, Reading
  <1>2. Cardinality({}) = 0
    BY FS_EmptySet
  <1>3. StoreCounted
    BY <1>1, <1>2 DEF PloadInit, StoreCounted
  <1>4. PloadCounted
    BY <1>2 DEF PloadInit, PloadCounted
  <1>5. rPc \in [Readers -> PloadPcs] /\ pos \in [Readers -> Nat]
    BY DEF PloadInit, PloadPcs
  <1>6. ploadFreed \in BOOLEAN /\ fdOpen \in BOOLEAN /\ crashed \in BOOLEAN
    BY DEF PloadInit
  <1>7. PloadTypeOK
    BY <1>5, <1>6 DEF PloadInit, PloadTypeOK
  <1> QED  BY <1>3, <1>4, <1>7 DEF PloadInit, PloadInv, StorePhase, SizeInv, ReadersInv

(* The sessions and the requests are counted.                              *)
LEMMA PloadCounts ==
  ASSUME PloadTypeOK
  PROVE  /\ IsFiniteSet(listed) /\ IsFiniteSet(told) /\ IsFiniteSet(Reading)
         /\ Cardinality(listed) \in Nat /\ Cardinality(told) \in Nat
         /\ Cardinality(Reading) \in Nat
         /\ Cardinality(listed) = 0 <=> listed = {}
         /\ Cardinality(told) = 0 <=> told = {}
         /\ Cardinality(Reading) = 0 <=> Reading = {}
  <1>1. IsFiniteSet(listed) /\ IsFiniteSet(told)
    BY PloadStoreAssumption, FS_Subset DEF PloadTypeOK
  <1>2. IsFiniteSet(Reading)
    BY PloadStoreAssumption, FS_Subset DEF Reading
  <1> QED  BY <1>1, <1>2, FS_CardinalityType, FS_EmptySet

LEMMA OneLess ==
  ASSUME NEW T, IsFiniteSet(T), NEW x \in T
  PROVE  Cardinality(T \ {x}) = Cardinality(T) - 1 /\ Cardinality(T) \in Nat
  BY FS_RemoveElement, FS_CardinalityType

LEMMA BufferStep == ASSUME PloadInv, Buffer PROVE PloadInv'
  <1> USE DEF Buffer, PloadInv
  <1>1. Reading' = Reading
    BY DEF Reading
  <1>2. StoreCounted' /\ PloadCounted'
    BY <1>1 DEF StoreCounted, PloadCounted
  <1>3. PloadTypeOK'
    BY DEF PloadTypeOK
  <1>4. StorePhase' /\ SizeInv' /\ ReadersInv'
    BY DEF StorePhase, SizeInv, ReadersInv
  <1> QED  BY <1>2, <1>3, <1>4

LEMMA OpenStoredStep == ASSUME PloadInv, OpenStored PROVE PloadInv'
  <1> USE DEF PloadInv
  <1>1. PICK vs \in SUBSET Viewers :
          /\ listed' = vs /\ told' = vs
          /\ storeRef' = Cardinality(vs)
          /\ store' = (IF vs = {} THEN "none" ELSE "empty")
          /\ ploadRef' = 1 + Cardinality(vs) + (IF vs = {} THEN 0 ELSE 1)
    BY DEF OpenStored
  <1>2. /\ ploadPhase = "new" /\ ploadPhase' = "opening"
        /\ written' = written + 1 /\ opening' = written + 1
        /\ UNCHANGED <<ploadFreed, fileSize, fdOpen, rPc, pos, readMaps, woken, crashed>>
    BY DEF OpenStored
  <1>3. IsFiniteSet(vs) /\ Cardinality(vs) \in Nat /\ (Cardinality(vs) = 0 <=> vs = {})
    BY PloadStoreAssumption, FS_Subset, FS_CardinalityType, FS_EmptySet
  <1>4. store = "none" /\ told = {} /\ listed = {}
    BY <1>2 DEF StorePhase
  <1>5. Reading = {} /\ Reading' = Reading /\ ploadRef = 1
    <2>1. storeRef = 0
      BY <1>4 DEF StoreCounted
    <2>2. Cardinality(Reading) = 0
      BY <2>1, <1>4, PloadCounts DEF StoreCounted
    <2>3. ploadRef = 1
      BY <1>2, <1>4, FS_EmptySet DEF PloadCounted
    <2>4. Reading' = Reading
      BY <1>2 DEF Reading
    <2> QED  BY <2>2, <2>3, <2>4, PloadCounts
  <1>6. \A r \in Readers : rPc[r] \in {"away", "gone"}
    BY <1>5 DEF Reading
  <1>7. StoreCounted'
    BY <1>1, <1>3, <1>5, FS_EmptySet DEF StoreCounted
  <1>8. ~ ploadFreed
    BY <1>5 DEF PloadCounted
  <1>9. PloadCounted'
    BY <1>1, <1>2, <1>3, <1>8 DEF PloadCounted
  <1>10. PloadTypeOK'
    BY <1>1, <1>2, <1>3 DEF PloadTypeOK
  <1>11. StorePhase' /\ SizeInv' /\ ReadersInv'
    BY <1>1, <1>2, <1>6 DEF StorePhase, SizeInv, ReadersInv
  <1> QED  BY <1>7, <1>9, <1>10, <1>11

LEMMA SeeStoreStep == ASSUME PloadInv, SeeStore PROVE PloadInv'
  <1> USE DEF SeeStore, PloadInv
  <1>1. Reading' = Reading
    BY DEF Reading
  <1>2. StoreCounted' /\ PloadCounted'
    BY <1>1 DEF StoreCounted, PloadCounted
  <1>3. PloadTypeOK'
    BY DEF PloadTypeOK
  <1>4. StorePhase' /\ SizeInv' /\ ReadersInv'
    BY DEF StorePhase, SizeInv, ReadersInv
  <1> QED  BY <1>2, <1>3, <1>4

LEMMA MapStoreStep == ASSUME PloadInv, MapStore PROVE PloadInv'
  <1> USE DEF PloadInv
  <1>1. /\ ploadPhase = "mapping" /\ ploadPhase' = "open"
        /\ UNCHANGED <<written, opening, ploadRef, ploadFreed, fileSize, listed, told, rPc,
                       pos, readMaps, woken>>
    BY DEF MapStore
  <1>2. Reading' = Reading
    BY <1>1 DEF Reading
  <1>3. store # "mapped" /\ store # "complete"
    BY <1>1 DEF StorePhase
  <1>4. CASE store = "freed"
    <2>1. UNCHANGED <<storeRef, store, fdOpen>> /\ crashed' = TRUE
      BY <1>4 DEF MapStore
    <2>2. StoreCounted' /\ PloadCounted'
      BY <1>1, <1>2, <2>1 DEF StoreCounted, PloadCounted
    <2>3. PloadTypeOK'
      BY <1>1, <2>1 DEF PloadTypeOK
    <2>4. StorePhase' /\ SizeInv' /\ ReadersInv'
      BY <1>1, <1>4, <2>1 DEF StorePhase, SizeInv, ReadersInv
    <2> QED  BY <2>2, <2>3, <2>4
  <1>5. CASE store # "freed"
    <2>1. storeRef' = storeRef + 1 /\ store' = "mapped" /\ fdOpen' = TRUE /\ UNCHANGED crashed
      BY <1>5 DEF MapStore, Referenced
    <2>2. store # "none"
      BY <1>1 DEF StorePhase
    <2>3. StoreCounted'
      BY <1>1, <1>2, <1>3, <2>1, PloadCounts DEF StoreCounted
    <2>4. PloadCounted'
      BY <1>1, <1>5, <2>1, <2>2 DEF PloadCounted
    <2>5. PloadTypeOK'
      BY <1>1, <2>1 DEF PloadTypeOK
    <2>6. store = "empty"
      BY <1>3, <1>5, <2>2 DEF PloadTypeOK
    <2>7. StorePhase' /\ SizeInv' /\ ReadersInv'
      BY <1>1, <2>1, <2>6 DEF StorePhase, SizeInv, ReadersInv
    <2> QED  BY <2>3, <2>4, <2>5, <2>7
  <1> QED  BY <1>4, <1>5

LEMMA AppendStoredStep == ASSUME PloadInv, AppendStored PROVE PloadInv'
  <1> USE DEF PloadInv
  <1>1. /\ ploadPhase = "open" /\ written' = written + 1
        /\ UNCHANGED <<ploadPhase, opening, ploadRef, ploadFreed, storeRef, store, fdOpen,
                       listed, told, rPc, pos, readMaps, crashed>>
    BY DEF AppendStored
  <1>2. \/ store = "mapped" /\ fileSize' = written + 1
           /\ woken' = woken \cup {r \in Readers : rPc[r] = "waiting"}
        \/ store # "mapped" /\ UNCHANGED <<fileSize, woken>>
    BY DEF AppendStored, Broadcast
  <1>3. Reading' = Reading
    BY <1>1 DEF Reading
  <1>4. StoreCounted' /\ PloadCounted'
    BY <1>1, <1>3 DEF StoreCounted, PloadCounted
  <1>5. PloadTypeOK'
    BY <1>1, <1>2 DEF PloadTypeOK
  <1>6. StorePhase' /\ SizeInv' /\ ReadersInv'
    BY <1>1, <1>2 DEF StorePhase, SizeInv, ReadersInv
  <1> QED  BY <1>4, <1>5, <1>6

LEMMA EndPloadStep == ASSUME PloadInv, EndPload PROVE PloadInv'
  <1> USE DEF PloadInv
  <1>1. /\ ploadPhase \in {"new", "open"} /\ ploadPhase' = "ended"
        /\ UNCHANGED <<written, opening, fileSize, listed, told, rPc, pos, readMaps, crashed>>
    BY DEF EndPload
  <1>2. Reading' = Reading
    BY <1>1 DEF Reading
  <1>3. CASE store = "mapped"
    <2>1. /\ storeRef' = storeRef - 1
          /\ store' = IF storeRef = 1 THEN "freed" ELSE "complete"
          /\ ploadRef' = ploadRef - (IF storeRef = 1 THEN 2 ELSE 1)
          /\ ploadFreed' = (ploadRef = IF storeRef = 1 THEN 2 ELSE 1)
      BY <1>3 DEF EndPload, ReleaseStore, StoreFreedBy, DropPload
    <2>2. fdOpen' = (fdOpen /\ readMaps # {})
          /\ woken' = woken \cup {r \in Readers : rPc[r] = "waiting"}
      BY <1>3 DEF EndPload, EndSignal, Broadcast
    <2>3. StoreCounted'
      BY <1>1, <1>2, <1>3, <2>1, PloadCounts DEF StoreCounted
    <2>4. PloadCounted'
      <3>1. ploadRef = Cardinality(told) + 2 /\ ploadRef \in Int
        BY <1>1, <1>3, PloadCounts DEF PloadCounted, PloadTypeOK
      <3>2. ploadFreed' <=> ploadRef = IF storeRef = 1 THEN 2 ELSE 1
        BY <2>1
      <3>3. ploadRef' = ploadRef - (IF storeRef = 1 THEN 2 ELSE 1)
        BY <2>1
      <3>4. store' = IF storeRef = 1 THEN "freed" ELSE "complete"
        BY <2>1
      <3> QED  BY <1>1, <1>3, <3>1, <3>2, <3>3, <3>4, PloadCounts DEF PloadCounted
    <2>5. PloadTypeOK'
      <3>1. fdOpen' \in BOOLEAN /\ ploadFreed' \in BOOLEAN
        BY <2>1, <2>2
      <3> QED  BY <1>1, <2>1, <2>2, <3>1 DEF PloadTypeOK
    <2>6. StorePhase' /\ SizeInv' /\ ReadersInv'
      BY <1>1, <1>3, <2>1 DEF StorePhase, SizeInv, ReadersInv
    <2> QED  BY <2>3, <2>4, <2>5, <2>6
  <1>4. CASE store # "mapped"
    <2>1. /\ ploadRef' = ploadRef - 1 /\ ploadFreed' \in BOOLEAN /\ (ploadFreed' <=> ploadRef = 1)
          /\ UNCHANGED <<storeRef, store, fdOpen, woken>>
      BY <1>4 DEF EndPload, DropPload
    <2>2. StoreCounted'
      BY <1>1, <1>2, <2>1 DEF StoreCounted
    <2>3. PloadCounted'
      BY <1>1, <2>1, PloadCounts DEF PloadCounted
    <2>4. PloadTypeOK'
      BY <1>1, <2>1 DEF PloadTypeOK
    <2>5. StorePhase' /\ SizeInv' /\ ReadersInv'
      BY <1>1, <1>4, <2>1 DEF StorePhase, SizeInv, ReadersInv
    <2> QED  BY <2>2, <2>3, <2>4, <2>5
  <1> QED  BY <1>3, <1>4

LEMMA TellStep == ASSUME PloadInv, NEW v \in Viewers, Tell(v) PROVE PloadInv'
  <1> USE DEF PloadInv
  <1>1. /\ v \in told /\ told' = told \ {v}
        /\ ploadRef' = ploadRef - 1 /\ ploadFreed' \in BOOLEAN /\ (ploadFreed' <=> ploadRef = 1)
        /\ UNCHANGED <<ploadPhase, written, opening, storeRef, store, fileSize, fdOpen,
                       listed, rPc, pos, readMaps, woken, crashed>>
    BY DEF Tell, DropPload
  <1>2. Reading' = Reading
    BY <1>1 DEF Reading
  <1>3. Cardinality(told') = Cardinality(told) - 1
    BY <1>1, OneLess, PloadCounts
  <1>4. StoreCounted'
    BY <1>1, <1>2 DEF StoreCounted
  <1>5. PloadCounted'
    BY <1>1, <1>3, PloadCounts DEF PloadCounted
  <1>6. PloadTypeOK'
    BY <1>1 DEF PloadTypeOK
  <1>7. StorePhase' /\ SizeInv' /\ ReadersInv'
    BY <1>1 DEF StorePhase, SizeInv, ReadersInv
  <1> QED  BY <1>4, <1>5, <1>6, <1>7

(* What a release leaves behind, when one that refers to the store goes.   *)
LEMMA Released ==
  ASSUME PloadInv, ReleaseStore(store, 0), UNCHANGED <<ploadPhase, told>>,
         Cardinality(listed') + Cardinality(Reading')
           = Cardinality(listed) + Cardinality(Reading) - 1,
         Cardinality(listed') \in Nat, Cardinality(Reading') \in Nat
  PROVE  /\ StoreCounted' /\ PloadCounted'
         /\ store' = store \/ store' = "freed"
         /\ storeRef' \in Int /\ ploadRef' \in Int /\ ploadFreed' \in BOOLEAN
  <1> USE DEF PloadInv
  <1>1. /\ storeRef' = storeRef - 1
        /\ store' = (IF storeRef = 1 THEN "freed" ELSE store)
        /\ ploadRef' = ploadRef - (IF storeRef = 1 THEN 1 ELSE 0)
        /\ ploadFreed' = (ploadRef = IF storeRef = 1 THEN 1 ELSE 0)
    BY DEF ReleaseStore, StoreFreedBy, DropPload
  <1>2. storeRef \in Int /\ ploadRef \in Int
    BY DEF PloadTypeOK
  <1>3. storeRef >= 1 /\ store \notin {"none", "freed"}
    BY <1>2, PloadCounts DEF StoreCounted
  <1>4. store = "mapped" => storeRef >= 2
    BY <1>2, PloadCounts DEF StoreCounted
  <1>5. StoreCounted'
    BY <1>1, <1>2, <1>3, <1>4, PloadCounts DEF StoreCounted
  <1>6. ploadFreed' \in BOOLEAN /\ (ploadFreed' <=> ploadRef = IF storeRef = 1 THEN 1 ELSE 0)
    BY <1>1
  <1>7. ploadRef' = ploadRef - (IF storeRef = 1 THEN 1 ELSE 0)
        /\ store' = IF storeRef = 1 THEN "freed" ELSE store
    BY <1>1
  <1>8. PloadCounted'
    BY <1>2, <1>3, <1>6, <1>7, PloadCounts DEF PloadCounted
  <1> QED  BY <1>1, <1>2, <1>5, <1>6, <1>8

LEMMA UnlistStep == ASSUME PloadInv, NEW v \in Viewers, Unlist(v) PROVE PloadInv'
  <1> USE DEF PloadInv
  <1>1. /\ v \in listed /\ listed' = listed \ {v} /\ ReleaseStore(store, 0)
        /\ UNCHANGED <<ploadPhase, written, opening, fileSize, fdOpen, told, rPc, pos,
                       readMaps, woken, crashed>>
    BY DEF Unlist
  <1>2. Reading' = Reading
    BY <1>1 DEF Reading
  <1>3. Cardinality(listed') = Cardinality(listed) - 1 /\ Cardinality(listed') \in Nat
    <2>1. IsFiniteSet(listed')
      BY <1>1, FS_Subset, PloadCounts
    <2> QED  BY <1>1, <2>1, OneLess, PloadCounts, FS_CardinalityType
  <1>4. /\ StoreCounted' /\ PloadCounted'
        /\ store' = store \/ store' = "freed"
        /\ storeRef' \in Int /\ ploadRef' \in Int /\ ploadFreed' \in BOOLEAN
    BY <1>1, <1>2, <1>3, Released, PloadCounts
  <1>5. PloadTypeOK'
    BY <1>1, <1>4 DEF PloadTypeOK
  <1>6. ploadPhase # "new"
    BY <1>1 DEF StorePhase
  <1>7. StorePhase' /\ SizeInv' /\ ReadersInv'
    BY <1>1, <1>4, <1>6 DEF StorePhase, SizeInv, ReadersInv
  <1> QED  BY <1>4, <1>5, <1>7

LEMMA RequestStep == ASSUME PloadInv, NEW r \in Readers, Request(r) PROVE PloadInv'
  <1> USE DEF PloadInv
  <1>1. /\ rPc[r] = "away" /\ listed # {} /\ storeRef' = storeRef + 1
        /\ rPc' = [rPc EXCEPT ![r] = "asked"]
        /\ UNCHANGED <<ploadPhase, written, opening, ploadRef, ploadFreed, store, fileSize,
                       fdOpen, listed, told, pos, readMaps, woken, crashed>>
    BY DEF Request, TakeRef, Goes
  <1>2. PloadTypeOK'
    BY <1>1 DEF PloadTypeOK, PloadPcs
  <1>3. Reading' = Reading \cup {r} /\ r \notin Reading
    BY <1>1 DEF Reading, PloadTypeOK
  <1>4. Cardinality(Reading') = Cardinality(Reading) + 1
    BY <1>3, PloadCounts, FS_AddElement
  <1>5. StoreCounted'
    BY <1>1, <1>4, PloadCounts DEF StoreCounted
  <1>6. PloadCounted' /\ StorePhase' /\ SizeInv'
    BY <1>1 DEF PloadCounted, StorePhase, SizeInv
  <1>7. ReadersInv'
    BY <1>1 DEF ReadersInv, PloadTypeOK
  <1> QED  BY <1>2, <1>5, <1>6, <1>7

(* A request that goes on has its reference before and after.              *)
LEMMA ReaderGoesOn ==
  ASSUME PloadInv, NEW r \in Readers, NEW l \in PloadPcs \ {"away", "gone"},
         rPc[r] \notin {"away", "gone"}, rPc' = [rPc EXCEPT ![r] = l],
         UNCHANGED <<ploadPhase, written, opening, ploadRef, ploadFreed, storeRef, store,
                     fileSize, listed, told, crashed>>,
         fdOpen' \in BOOLEAN, readMaps' \subseteq Readers, woken' \subseteq Readers,
         pos' \in [Readers -> Nat], \A q \in Readers \ {r} : pos'[q] = pos[q],
         l \in {"reading", "waiting", "eof"} => store # "empty",
         l = "eof" => store # "mapped" /\ pos'[r] = fileSize
  PROVE  PloadInv'
  <1> USE DEF PloadInv
  <1>1. Reading' = Reading
    BY DEF Reading, PloadTypeOK
  <1>2. StoreCounted' /\ PloadCounted' /\ StorePhase' /\ SizeInv'
    BY <1>1 DEF StoreCounted, PloadCounted, StorePhase, SizeInv
  <1>3. PloadTypeOK'
    BY DEF PloadTypeOK
  <1>4. ReadersInv'
    BY DEF ReadersInv, PloadTypeOK
  <1> QED  BY <1>2, <1>3, <1>4

LEMMA ReadStartStep == ASSUME PloadInv, NEW r \in Readers, ReadStart(r) PROVE PloadInv'
  <1>1. /\ rPc[r] = "asked"
        /\ UNCHANGED <<ploadPhase, written, opening, ploadRef, ploadFreed, storeRef, store,
                       fileSize, listed, told, pos, woken, crashed>>
    BY DEF ReadStart
  <1>2. /\ fdOpen' \in BOOLEAN /\ readMaps' \subseteq Readers /\ woken' \subseteq Readers
        /\ pos' \in [Readers -> Nat]
    BY <1>1 DEF ReadStart, PloadInv, PloadTypeOK
  <1>3. \/ store = "empty" /\ rPc' = [rPc EXCEPT ![r] = "failed"]
        \/ store # "empty" /\ rPc' = [rPc EXCEPT ![r] = "reading"]
    BY DEF ReadStart, Goes
  <1> QED  BY <1>1, <1>2, <1>3, ReaderGoesOn DEF PloadPcs

LEMMA ReadStoredStep == ASSUME PloadInv, NEW r \in Readers, ReadStored(r) PROVE PloadInv'
  <1>1. /\ rPc[r] = "reading"
        /\ UNCHANGED <<ploadPhase, written, opening, ploadRef, ploadFreed, storeRef, store,
                       fileSize, fdOpen, listed, told, readMaps, woken, crashed>>
    BY DEF ReadStored
  <1>2. store # "empty"
    BY <1>1 DEF PloadInv, ReadersInv
  <1>3. fdOpen' \in BOOLEAN /\ readMaps' \subseteq Readers /\ woken' \subseteq Readers
    BY <1>1 DEF PloadInv, PloadTypeOK
  <1>4. CASE pos[r] < fileSize /\ UNCHANGED rPc
             /\ \E n \in pos[r] + 1 .. fileSize : pos' = [pos EXCEPT ![r] = n]
    <2>1. PICK n \in pos[r] + 1 .. fileSize : pos' = [pos EXCEPT ![r] = n]
      BY <1>4
    <2>2. n \in Nat
      BY DEF PloadInv, PloadTypeOK
    <2>3. pos' \in [Readers -> Nat] /\ \A q \in Readers \ {r} : pos'[q] = pos[q]
      BY <2>1, <2>2 DEF PloadInv, PloadTypeOK
    <2>4. rPc' = [rPc EXCEPT ![r] = "reading"]
      BY <1>1, <1>4 DEF PloadInv, PloadTypeOK
    <2> QED  BY <1>1, <1>2, <1>3, <2>3, <2>4, ReaderGoesOn DEF PloadPcs
  <1>5. CASE pos[r] = fileSize /\ UNCHANGED pos
             /\ \/ Complete /\ Goes(r, "eof")
                \/ ~Complete /\ Goes(r, "waiting")
    <2>1. pos' \in [Readers -> Nat]
      BY <1>5 DEF PloadInv, PloadTypeOK
    <2> QED  BY <1>1, <1>2, <1>3, <1>5, <2>1, ReaderGoesOn DEF PloadPcs, Complete, Goes
  <1> QED  BY <1>4, <1>5 DEF ReadStored

LEMMA WakeStep == ASSUME PloadInv, NEW r \in Readers, Wake(r) PROVE PloadInv'
  <1>1. /\ rPc[r] = "waiting" /\ rPc' = [rPc EXCEPT ![r] = "reading"]
        /\ woken' = woken \ {r}
        /\ UNCHANGED <<ploadPhase, written, opening, ploadRef, ploadFreed, storeRef, store,
                       fileSize, fdOpen, listed, told, pos, readMaps, crashed>>
    BY DEF Wake, Goes
  <1>2. /\ fdOpen' \in BOOLEAN /\ readMaps' \subseteq Readers /\ woken' \subseteq Readers
        /\ pos' \in [Readers -> Nat] /\ store # "empty"
    BY <1>1 DEF PloadInv, PloadTypeOK, ReadersInv
  <1> QED  BY <1>1, <1>2, ReaderGoesOn DEF PloadPcs

LEMMA ReadEndStep == ASSUME PloadInv, NEW r \in Readers, ReadEnd(r) PROVE PloadInv'
  <1>1. /\ rPc[r] \in {"reading", "eof", "failed"}
        /\ rPc' = [rPc EXCEPT ![r] = "closed"]
        /\ readMaps' = readMaps \ {r}
        /\ fdOpen' = (fdOpen /\ (readMaps' # {} \/ store = "mapped"))
        /\ UNCHANGED <<ploadPhase, written, opening, ploadRef, ploadFreed, storeRef, store,
                       fileSize, listed, told, pos, woken, crashed>>
    BY DEF ReadEnd, Goes
  <1>2. /\ readMaps' \subseteq Readers /\ woken' \subseteq Readers
        /\ pos' \in [Readers -> Nat]
    BY <1>1 DEF PloadInv, PloadTypeOK
  <1>3. fdOpen' \in BOOLEAN
    BY <1>1
  <1> QED  BY <1>1, <1>2, <1>3, ReaderGoesOn DEF PloadPcs

LEMMA LetGoStep == ASSUME PloadInv, NEW r \in Readers, LetGo(r) PROVE PloadInv'
  <1> USE DEF PloadInv
  <1>1. /\ rPc[r] = "closed" /\ ReleaseStore(store, 0)
        /\ rPc' = [rPc EXCEPT ![r] = "gone"]
        /\ UNCHANGED <<ploadPhase, written, opening, fileSize, fdOpen, listed, told, pos,
                       readMaps, woken, crashed>>
    BY DEF LetGo, Goes
  <1>2. Reading' = Reading \ {r} /\ r \in Reading
    BY <1>1 DEF Reading, PloadTypeOK
  <1>3. Cardinality(Reading') = Cardinality(Reading) - 1 /\ Cardinality(Reading') \in Nat
    <2>1. IsFiniteSet(Reading')
      BY <1>2, FS_Subset, PloadCounts
    <2> QED  BY <1>2, <2>1, OneLess, PloadCounts, FS_CardinalityType
  <1>4. /\ StoreCounted' /\ PloadCounted'
        /\ store' = store \/ store' = "freed"
        /\ storeRef' \in Int /\ ploadRef' \in Int /\ ploadFreed' \in BOOLEAN
    BY <1>1, <1>3, Released, PloadCounts
  <1>5. PloadTypeOK'
    BY <1>1, <1>4 DEF PloadTypeOK, PloadPcs
  <1>6. ploadPhase # "new"
    <2>1. storeRef # 0
      BY <1>2, PloadCounts DEF StoreCounted, PloadTypeOK
    <2> QED  BY <2>1 DEF StorePhase, StoreCounted
  <1>7. StorePhase' /\ SizeInv'
    BY <1>1, <1>4, <1>6 DEF StorePhase, SizeInv
  <1>8. ReadersInv'
    BY <1>1, <1>4 DEF ReadersInv, PloadTypeOK
  <1> QED  BY <1>4, <1>5, <1>7, <1>8

LEMMA PloadStep == ASSUME PloadInv, [PloadNext]_ploadVars PROVE PloadInv'
  <1>1. CASE UNCHANGED ploadVars
    BY <1>1 DEF PloadInv, PloadTypeOK, StoreCounted, PloadCounted, StorePhase, SizeInv,
                ReadersInv, Reading, ploadVars
  <1>2. CASE PloadNext
    BY <1>2, BufferStep, OpenStoredStep, SeeStoreStep, MapStoreStep, AppendStoredStep,
       EndPloadStep, TellStep, UnlistStep, RequestStep, ReadStartStep, ReadStoredStep,
       WakeStep, ReadEndStep, LetGoStep
       DEF PloadNext, PloadThread
  <1> QED  BY <1>1, <1>2

(* In every reachable state a payload and its store have as many           *)
(* references as users, and the store has as many bytes as readers were    *)
(* told.                                                                   *)
THEOREM PloadInvariant == PloadSpec => []PloadInv
  BY PloadInitial, PloadStep, PTL DEF PloadSpec

(* What a request has read when it gets to the end of a payload, and when  *)
(* the store and the payload are freed (pload.c, httpd.c).                 *)
THEOREM RequestsReadWhole == PloadSpec => []ReadsWhole
  <1>1. ASSUME PloadInv PROVE ReadsWhole
    <2> USE <1>1 DEF PloadInv
    <2>1. ASSUME NEW r \in Readers, rPc[r] = "eof"
          PROVE  pos[r] = written \/ written = opening
      <3>1. r \in Reading
        BY <2>1 DEF Reading
      <3>2. storeRef # 0
        BY <3>1, PloadCounts DEF StoreCounted, PloadTypeOK
      <3>3. store = "complete"
        BY <2>1, <3>2 DEF StoreCounted, ReadersInv, PloadTypeOK
      <3> QED  BY <2>1, <3>3 DEF ReadersInv, SizeInv
    <2>2. storeRef = 0 => listed = {} /\ \A r \in Readers : rPc[r] \in {"away", "gone"}
      <3>1. storeRef = 0 => listed = {} /\ Reading = {}
        BY PloadCounts DEF StoreCounted, PloadTypeOK
      <3> QED  BY <3>1 DEF Reading
    <2>3. store = "freed" => listed = {} /\ \A r \in Readers : rPc[r] \in {"away", "gone"}
      BY <2>2 DEF StoreCounted
    <2>4. ploadFreed => ploadPhase = "ended" /\ told = {} /\ store \in {"none", "freed"}
      BY PloadCounts DEF PloadCounted
    <2>5. ASSUME ploadPhase = "ended", told = {}, listed = {},
                 \A r \in Readers : rPc[r] \in {"away", "gone"}
          PROVE  ploadFreed /\ store # "complete"
      <3>1. Reading = {}
        BY <2>5 DEF Reading
      <3>2. storeRef = 0 /\ store \in {"none", "freed"}
        BY <2>5, <3>1, PloadCounts DEF StoreCounted, StorePhase
      <3> QED  BY <2>5, <3>2, PloadCounts DEF PloadCounted
    <2> QED  BY <2>1, <2>3, <2>4, <2>5 DEF ReadsWhole
  <1> QED  BY <1>1, PloadInvariant, PTL

-----------------------------------------------------------------------------
(***************************************************************************)
(* Expected connections (Expectation), up to the moment when a thread uses *)
(* one that another freed (broken): from there on nothing moves.           *)
(***************************************************************************)
XPlaces == {"away", "marked", "handling", "adding", "added", "timed", "expiring", "removing"}
WithConn == {"marked", "handling", "adding", "added", "timed"}
Asking == {"adding", "added", "timed"}
TimingOut == {"expiring", "removing"}

ListTypes ==
  /\ onList \subseteq Exps /\ matched \subseteq onList
  /\ xLife \in [Exps -> {"new", "live", "freed"}]
  /\ expiry \in [Exps -> {"none", "idle", "queued", "taken"}]
  /\ bound \in [Exps -> Conns \cup {NoConn}]
  /\ broken \in BOOLEAN
XThreadTypes ==
  /\ writer \in XThreads \cup {NoXThread}
  /\ entryLock \in [Conns -> XThreads \cup {NoXThread}]
  /\ xPc \in [XThreads -> XPlaces]
  /\ xConn \in [XThreads -> Conns \cup {NoConn}]
  /\ xExp \in [XThreads -> Exps \cup {NoExp}]
  /\ \A t \in XThreads : /\ xPc[t] \in WithConn => xConn[t] \in Conns
                         /\ xPc[t] \in Asking \cup TimingOut => xExp[t] \in Exps
ExpectationTypeOK == ListTypes /\ XThreadTypes

(* One thread has the write lock, and one the entry of a connection.       *)
WriterInv == \A t \in XThreads : writer = t <=> xPc[t] \in {"handling", "removing"}
EntryInv == \A t \in XThreads, c \in Conns :
              entryLock[c] = t <=> xPc[t] \in Asking /\ xConn[t] = c

(* An expectation is in the hands of one thread: the one that asks for it, *)
(* which gives it a timer last, or one that its timer has fired in.        *)
Hands == Asking \cup TimingOut
OneHand == \A t, u \in XThreads :
  xPc[t] \in Hands /\ xPc[u] \in Hands /\ xExp[t] = xExp[u] => t = u

InHand(t) ==
  /\ xPc[t] \in {"adding", "added"} => xLife[xExp[t]] = "live" /\ expiry[xExp[t]] = "none"
  /\ xPc[t] = "adding" => xExp[t] \notin onList /\ bound[xExp[t]] = NoConn
  /\ xPc[t] = "timed" => xLife[xExp[t]] # "new" /\ expiry[xExp[t]] = "idle"
  /\ xPc[t] \in TimingOut => xLife[xExp[t]] # "new" /\ expiry[xExp[t]] = "taken"
  /\ xPc[t] = "removing" => xLife[xExp[t]] = "live"
HandsInv == \A t \in XThreads : InHand(t)

(* A life: new, queued, and then bound or expired.                         *)
LifeInv == \A e \in Exps :
  /\ xLife[e] = "new" => expiry[e] = "none" /\ bound[e] = NoConn
  /\ e \in onList => xLife[e] = "live" /\ bound[e] = NoConn
  /\ expiry[e] = "queued" => xLife[e] = "live" \/ broken

ExpectationInv ==
  ExpectationTypeOK /\ WriterInv /\ EntryInv /\ OneHand /\ HandsInv /\ LifeInv

(* What is freed is not found any more: an expectation that was freed is   *)
(* not on the list proto_process goes through, nor marked, and no thread   *)
(* has it but one that is about to start its timer or to lock the list     *)
(* after its timeout: these two are the races that broken stands for.      *)
FreedNotFound ==
  /\ \A e \in Exps : xLife[e] = "freed" => e \notin onList /\ e \notin matched
  /\ \A t \in XThreads : xPc[t] \in Hands /\ xLife[xExp[t]] = "freed" =>
       xPc[t] \in {"timed", "expiring"}

(* An expectation is bound once, whichever threads marked it.              *)
BoundOnce == \A e \in Exps : bound[e] # NoConn => bound'[e] = bound[e]
(* Each step keeps it.                                                     *)
LEMMA ScanKeeps ==
  ASSUME ExpectationInv, NEW t \in XThreads, NEW c \in Conns, Scan(t, c)
  PROVE  ExpectationInv'
  <1> USE ExpectationAssumption DEF ExpectationInv, ExpectationTypeOK, ListTypes, XThreadTypes,
                               XPlaces, WithConn, Asking, TimingOut, Hands
  <1>1. ListTypes'
    BY DEF Scan, At, Move, MarkedByScan
  <1>2. XThreadTypes'
    BY DEF Scan, At, Move, MarkedByScan
  <1>3. WriterInv'
    BY DEF Scan, At, Move, MarkedByScan, WriterInv
  <1>4. EntryInv'
    BY DEF Scan, At, Move, MarkedByScan, EntryInv
  <1>5. OneHand'
    BY DEF Scan, At, Move, MarkedByScan, OneHand
  <1>6. HandsInv'
    BY DEF Scan, At, Move, MarkedByScan, HandsInv, InHand
  <1>7. LifeInv'
    BY DEF Scan, At, Move, MarkedByScan, LifeInv
  <1> QED  BY <1>1, <1>2, <1>3, <1>4, <1>5, <1>6, <1>7

LEMMA RelockKeeps ==
  ASSUME ExpectationInv, NEW t \in XThreads, Relock(t)
  PROVE  ExpectationInv'
  <1> USE ExpectationAssumption DEF ExpectationInv, ExpectationTypeOK, ListTypes, XThreadTypes,
                               XPlaces, WithConn, Asking, TimingOut, Hands
  <1>1. ListTypes'
    BY DEF Relock, TakeWriteLock, At, Move
  <1>2. XThreadTypes'
    BY DEF Relock, TakeWriteLock, At, Move
  <1>3. WriterInv'
    BY DEF Relock, TakeWriteLock, At, Move, WriterInv
  <1>4. EntryInv'
    BY DEF Relock, TakeWriteLock, At, Move, EntryInv
  <1>5. OneHand'
    BY DEF Relock, TakeWriteLock, At, Move, OneHand
  <1>6. HandsInv'
    BY DEF Relock, TakeWriteLock, At, Move, HandsInv, InHand
  <1>7. LifeInv'
    BY DEF Relock, TakeWriteLock, At, Move, LifeInv
  <1> QED  BY <1>1, <1>2, <1>3, <1>4, <1>5, <1>6, <1>7

LEMMA HandleKeeps ==
  ASSUME ExpectationInv, NEW t \in XThreads, NEW e \in Exps, Handle(t, e)
  PROVE  ExpectationInv'
  <1> USE ExpectationAssumption DEF ExpectationInv, ExpectationTypeOK, ListTypes, XThreadTypes,
                               XPlaces, WithConn, Asking, TimingOut, Hands
  <1>1. ListTypes'
    BY DEF Handle, At, Unlisted, FreedWithTimer
  <1>2. XThreadTypes'
    BY DEF Handle, At, Unlisted, FreedWithTimer
  <1>3. WriterInv'
    BY DEF Handle, At, Unlisted, FreedWithTimer, WriterInv
  <1>4. EntryInv'
    BY DEF Handle, At, Unlisted, FreedWithTimer, EntryInv
  <1>5. OneHand'
    BY DEF Handle, At, Unlisted, FreedWithTimer, OneHand
  <1>6. HandsInv'
    BY DEF Handle, At, Unlisted, FreedWithTimer, HandsInv, InHand, WriterInv
  <1>7. LifeInv'
    BY DEF Handle, At, Unlisted, FreedWithTimer, LifeInv
  <1> QED  BY <1>1, <1>2, <1>3, <1>4, <1>5, <1>6, <1>7

LEMMA EndHandlingKeeps ==
  ASSUME ExpectationInv, NEW t \in XThreads, EndHandling(t)
  PROVE  ExpectationInv'
  <1> USE ExpectationAssumption DEF ExpectationInv, ExpectationTypeOK, ListTypes, XThreadTypes,
                               XPlaces, WithConn, Asking, TimingOut, Hands
  <1>1. ListTypes'
    BY DEF EndHandling, At, Move, NoneMarked
  <1>2. XThreadTypes'
    BY DEF EndHandling, At, Move, NoneMarked
  <1>3. WriterInv'
    BY DEF EndHandling, At, Move, NoneMarked, WriterInv
  <1>4. EntryInv'
    BY DEF EndHandling, At, Move, NoneMarked, EntryInv
  <1>5. OneHand'
    BY DEF EndHandling, At, Move, NoneMarked, OneHand
  <1>6. HandsInv'
    BY DEF EndHandling, At, Move, NoneMarked, HandsInv, InHand
  <1>7. LifeInv'
    BY DEF EndHandling, At, Move, NoneMarked, LifeInv
  <1> QED  BY <1>1, <1>2, <1>3, <1>4, <1>5, <1>6, <1>7

LEMMA AskKeeps ==
  ASSUME ExpectationInv, NEW t \in XThreads, NEW c \in Conns, NEW e \in Exps, Ask(t, c, e)
  PROVE  ExpectationInv'
  <1> USE ExpectationAssumption DEF ExpectationInv, ExpectationTypeOK, ListTypes, XThreadTypes,
                               XPlaces, WithConn, Asking, TimingOut, Hands
  <1>1. ListTypes'
    BY DEF Ask, At, Move
  <1>2. XThreadTypes'
    BY DEF Ask, At, Move
  <1>3. WriterInv'
    BY DEF Ask, At, Move, WriterInv
  <1>4. EntryInv'
    BY DEF Ask, At, Move, EntryInv
  <1>5. OneHand'
    BY DEF Ask, At, Move, OneHand, HandsInv, InHand
  <1>6. HandsInv'
    BY DEF Ask, At, Move, HandsInv, InHand, LifeInv
  <1>7. LifeInv'
    BY DEF Ask, At, Move, LifeInv
  <1> QED  BY <1>1, <1>2, <1>3, <1>4, <1>5, <1>6, <1>7

LEMMA AddKeeps ==
  ASSUME ExpectationInv, NEW t \in XThreads, Add(t)
  PROVE  ExpectationInv'
  <1> USE ExpectationAssumption DEF ExpectationInv, ExpectationTypeOK, ListTypes, XThreadTypes,
                               XPlaces, WithConn, Asking, TimingOut, Hands
  <1>1. ListTypes'
    BY DEF Add, At, Move
  <1>2. XThreadTypes'
    BY DEF Add, At, Move
  <1>3. WriterInv'
    BY DEF Add, At, Move, WriterInv
  <1>4. EntryInv'
    BY DEF Add, At, Move, EntryInv
  <1>5. OneHand'
    BY DEF Add, At, Move, OneHand
  <1>6. HandsInv'
    BY DEF Add, At, Move, OneHand, HandsInv, InHand
  <1>7. LifeInv'
    BY DEF Add, At, Move, HandsInv, InHand, LifeInv
  <1> QED  BY <1>1, <1>2, <1>3, <1>4, <1>5, <1>6, <1>7

LEMMA AllocExpiryKeeps ==
  ASSUME ExpectationInv, NEW t \in XThreads, AllocExpiry(t)
  PROVE  ExpectationInv'
  <1> USE ExpectationAssumption DEF ExpectationInv, ExpectationTypeOK, ListTypes, XThreadTypes,
                               XPlaces, WithConn, Asking, TimingOut, Hands
  <1>1. ListTypes'
    BY DEF AllocExpiry, At, Move
  <1>2. XThreadTypes'
    BY DEF AllocExpiry, At, Move
  <1>3. WriterInv'
    BY DEF AllocExpiry, At, Move, WriterInv
  <1>4. EntryInv'
    BY DEF AllocExpiry, At, Move, EntryInv
  <1>5. OneHand'
    BY DEF AllocExpiry, At, Move, OneHand
  <1>6. HandsInv'
    BY DEF AllocExpiry, At, Move, OneHand, HandsInv, InHand
  <1>7. LifeInv'
    BY DEF AllocExpiry, At, Move, HandsInv, InHand, LifeInv
  <1> QED  BY <1>1, <1>2, <1>3, <1>4, <1>5, <1>6, <1>7

LEMMA StartExpiryKeeps ==
  ASSUME ExpectationInv, NEW t \in XThreads, StartExpiry(t)
  PROVE  ExpectationInv'
  <1> USE ExpectationAssumption DEF ExpectationInv, ExpectationTypeOK, ListTypes, XThreadTypes,
                               XPlaces, WithConn, Asking, TimingOut, Hands
  <1>1. ListTypes'
    BY DEF StartExpiry, At, Move
  <1>2. XThreadTypes'
    BY DEF StartExpiry, At, Move
  <1>3. WriterInv'
    BY DEF StartExpiry, At, Move, WriterInv
  <1>4. EntryInv'
    BY DEF StartExpiry, At, Move, EntryInv
  <1>5. OneHand'
    BY DEF StartExpiry, At, Move, OneHand
  <1>6. HandsInv'
    BY DEF StartExpiry, At, Move, OneHand, HandsInv, InHand
  <1>7. LifeInv'
    <2>1. xExp[t] \in Exps /\ xLife[xExp[t]] \in {"live", "freed"}
      BY DEF StartExpiry, At, HandsInv, InHand
    <2>2. xLife[xExp[t]] = "freed" => broken'
      BY DEF StartExpiry
    <2>3. ~broken
      BY DEF StartExpiry, At
    <2> QED  BY <2>1, <2>2, <2>3 DEF StartExpiry, LifeInv
  <1> QED  BY <1>1, <1>2, <1>3, <1>4, <1>5, <1>6, <1>7

LEMMA ExpireKeeps ==
  ASSUME ExpectationInv, NEW t \in XThreads, NEW e \in Exps, Expire(t, e)
  PROVE  ExpectationInv'
  <1> USE ExpectationAssumption DEF ExpectationInv, ExpectationTypeOK, ListTypes, XThreadTypes,
                               XPlaces, WithConn, Asking, TimingOut, Hands
  <1>1. ListTypes'
    BY DEF Expire, At, Move
  <1>2. XThreadTypes'
    BY DEF Expire, At, Move
  <1>3. WriterInv'
    BY DEF Expire, At, Move, WriterInv
  <1>4. EntryInv'
    BY DEF Expire, At, Move, EntryInv
  <1>5. OneHand'
    BY DEF Expire, At, Move, OneHand, HandsInv, InHand
  <1>6. HandsInv'
    BY DEF Expire, At, Move, HandsInv, InHand, LifeInv
  <1>7. LifeInv'
    BY DEF Expire, At, Move, LifeInv
  <1> QED  BY <1>1, <1>2, <1>3, <1>4, <1>5, <1>6, <1>7

LEMMA ExpireLockKeeps ==
  ASSUME ExpectationInv, NEW t \in XThreads, ExpireLock(t)
  PROVE  ExpectationInv'
  <1> USE ExpectationAssumption DEF ExpectationInv, ExpectationTypeOK, ListTypes, XThreadTypes,
                               XPlaces, WithConn, Asking, TimingOut, Hands
  <1>1. ListTypes'
    BY DEF ExpireLock, TakeWriteLock, At, Move
  <1>2. XThreadTypes'
    BY DEF ExpireLock, TakeWriteLock, At, Move
  <1>3. WriterInv'
    BY DEF ExpireLock, TakeWriteLock, At, Move, WriterInv
  <1>4. EntryInv'
    BY DEF ExpireLock, TakeWriteLock, At, Move, EntryInv
  <1>5. OneHand'
    BY DEF ExpireLock, TakeWriteLock, At, Move, OneHand
  <1>6. HandsInv'
    BY DEF ExpireLock, TakeWriteLock, At, Move, HandsInv, InHand
  <1>7. LifeInv'
    BY DEF ExpireLock, TakeWriteLock, At, Move, LifeInv
  <1> QED  BY <1>1, <1>2, <1>3, <1>4, <1>5, <1>6, <1>7

LEMMA UseFreedKeeps ==
  ASSUME ExpectationInv, NEW t \in XThreads, UseFreed(t)
  PROVE  ExpectationInv'
  <1> USE ExpectationAssumption DEF ExpectationInv, ExpectationTypeOK, ListTypes, XThreadTypes,
                               XPlaces, WithConn, Asking, TimingOut, Hands
  <1>1. ListTypes'
    BY DEF UseFreed, At
  <1>2. XThreadTypes'
    BY DEF UseFreed, At
  <1>3. WriterInv'
    BY DEF UseFreed, At, WriterInv
  <1>4. EntryInv'
    BY DEF UseFreed, At, EntryInv
  <1>5. OneHand'
    BY DEF UseFreed, At, OneHand
  <1>6. HandsInv'
    BY DEF UseFreed, At, HandsInv, InHand
  <1>7. LifeInv'
    BY DEF UseFreed, At, LifeInv
  <1> QED  BY <1>1, <1>2, <1>3, <1>4, <1>5, <1>6, <1>7

LEMMA RemoveExpiredKeeps ==
  ASSUME ExpectationInv, NEW t \in XThreads, RemoveExpired(t)
  PROVE  ExpectationInv'
  <1> USE ExpectationAssumption DEF ExpectationInv, ExpectationTypeOK, ListTypes, XThreadTypes,
                               XPlaces, WithConn, Asking, TimingOut, Hands
  <1>1. ListTypes'
    BY DEF RemoveExpired, At, Move, Unlisted
  <1>2. XThreadTypes'
    BY DEF RemoveExpired, At, Move, Unlisted
  <1>3. WriterInv'
    BY DEF RemoveExpired, At, Move, Unlisted, WriterInv
  <1>4. EntryInv'
    BY DEF RemoveExpired, At, Move, Unlisted, EntryInv
  <1>5. OneHand'
    BY DEF RemoveExpired, At, Move, Unlisted, OneHand
  <1>6. HandsInv'
    BY DEF RemoveExpired, At, Move, Unlisted, OneHand, HandsInv, InHand
  <1>7. LifeInv'
    BY DEF RemoveExpired, At, Move, Unlisted, LifeInv
  <1> QED  BY <1>1, <1>2, <1>3, <1>4, <1>5, <1>6, <1>7
LEMMA ExpectationStepKeeps == ExpectationInv /\ [ExpectationNext]_xVars => ExpectationInv'
  <1> SUFFICES ASSUME ExpectationInv, [ExpectationNext]_xVars PROVE ExpectationInv'
    OBVIOUS
  <1>1. CASE UNCHANGED xVars
    BY <1>1 DEF xVars, ExpectationInv, ExpectationTypeOK, ListTypes, XThreadTypes, WriterInv, EntryInv,
                OneHand, HandsInv, InHand, LifeInv
  <1>2. CASE ExpectationNext
    <2>1. PICK t \in XThreads :
            \/ \E c \in Conns : Scan(t, c)
            \/ \E a \in Asks : Ask(t, a[1], a[2])
            \/ \E e \in Exps : Expire(t, e)
            \/ ExpectationStep(t)
      BY <1>2 DEF ExpectationNext
    <2>2. CASE \E c \in Conns : Scan(t, c)
      BY <2>2, ScanKeeps
    <2>3. CASE \E a \in Asks : Ask(t, a[1], a[2])
      <3>1. PICK a \in Asks : Ask(t, a[1], a[2])
        BY <2>3
      <3>2. a[1] \in Conns /\ a[2] \in Exps
        BY ExpectationAssumption
      <3> QED  BY <3>1, <3>2, AskKeeps
    <2>4. CASE \E e \in Exps : Expire(t, e)
      BY <2>4, ExpireKeeps
    <2>5. CASE ExpectationStep(t)
      BY <2>5, RelockKeeps, EndHandlingKeeps, AddKeeps, AllocExpiryKeeps, StartExpiryKeeps,
         ExpireLockKeeps, UseFreedKeeps, RemoveExpiredKeeps, HandleKeeps DEF ExpectationStep
    <2> QED  BY <2>1, <2>2, <2>3, <2>4, <2>5
  <1> QED  BY <1>1, <1>2

LEMMA ExpectationStarts == ExpectationInit => ExpectationInv
  <1> SUFFICES ASSUME ExpectationInit PROVE ExpectationInv
    OBVIOUS
  <1> USE ExpectationAssumption DEF ExpectationInit, Asking, TimingOut, Hands
  <1>1. ListTypes
    BY DEF ListTypes
  <1>2. XThreadTypes
    BY DEF XThreadTypes, XPlaces, WithConn
  <1>3. WriterInv /\ EntryInv
    BY DEF WriterInv, EntryInv
  <1>4. OneHand /\ HandsInv
    BY DEF OneHand, HandsInv, InHand
  <1>5. LifeInv
    BY DEF LifeInv
  <1> QED  BY <1>1, <1>2, <1>3, <1>4, <1>5 DEF ExpectationInv, ExpectationTypeOK

(* The state is of its type; what is marked is on the list.                *)
THEOREM ExpectationTypes == ExpectationSpec => []ExpectationTypeOK
  <1>1. ExpectationInv => ExpectationTypeOK
    BY DEF ExpectationInv
  <1> QED  BY <1>1, ExpectationStarts, ExpectationStepKeeps, PTL DEF ExpectationSpec

(* An expectation that was freed is neither listed nor marked, and only    *)
(* the two races that broken stands for may still meet it.                 *)
THEOREM ExpectationFreed == ExpectationSpec => []FreedNotFound
  <1>1. ExpectationInv => FreedNotFound
    BY DEF ExpectationInv, ExpectationTypeOK, ListTypes, XThreadTypes, XPlaces, LifeInv, HandsInv, InHand,
           Hands, Asking, TimingOut, FreedNotFound
  <1> QED  BY <1>1, ExpectationStarts, ExpectationStepKeeps, PTL DEF ExpectationSpec

(* An expectation that several threads marked is bound to one connection.  *)
THEOREM ExpectationBound == ExpectationSpec => [][BoundOnce]_xVars
  <1>1. ExpectationInv /\ [ExpectationNext]_xVars => [BoundOnce]_xVars
    <2> SUFFICES ASSUME ExpectationInv, ExpectationNext PROVE BoundOnce
      OBVIOUS
    <2> SUFFICES ASSUME NEW e \in Exps, bound[e] # NoConn PROVE bound'[e] = bound[e]
      BY DEF BoundOnce
    <2>1. e \notin matched
      BY DEF ExpectationInv, ExpectationTypeOK, ListTypes, LifeInv
    <2>2. \A t \in XThreads, x \in Exps : Handle(t, x) => bound'[e] = bound[e]
      BY <2>1 DEF Handle, ExpectationInv, ExpectationTypeOK, ListTypes
    <2> QED  BY <2>2 DEF ExpectationNext, ExpectationStep, Scan, Relock, TakeWriteLock, EndHandling, Ask, Add,
                         AllocExpiry, StartExpiry, Expire, ExpireLock, UseFreed, RemoveExpired
  <1> QED  BY <1>1, ExpectationStarts, ExpectationStepKeeps, PTL DEF ExpectationSpec

-----------------------------------------------------------------------------
(***************************************************************************)
(* Sequence numbers (StreamSeq).  What stream.c decides by comparing       *)
(* numbers that wrap is what comparing the offsets in the stream would     *)
(* decide, as long as these are less than half the range apart.            *)
(***************************************************************************)
LEMMA HalfRange == Half \in Nat /\ Half > 0 /\ Modulus = 2 * Half
  BY SequenceAssumption DEF Half

Numbers == 0 .. Modulus - 1

(* Offsets in a direction that are less than half the range apart.         *)
Near(x, y) == x - y < Half /\ y - x < Half

LEMMA Remainder ==
  ASSUME NEW n \in Int
  PROVE  n % Modulus \in Numbers /\ \E k \in Int : n = (Modulus * k) + (n % Modulus)
  <1>1. Modulus \in Nat /\ Modulus > 0
    BY SequenceAssumption
  <1>2. n \div Modulus \in Int /\ n = (Modulus * (n \div Modulus)) + (n % Modulus)
    BY <1>1
  <1> QED  BY <1>1, <1>2 DEF Numbers

LEMMA SmallFactor ==
  ASSUME NEW k \in Int, Modulus * k < 2 * Modulus, -(2 * Modulus) < Modulus * k
  PROVE  k \in {-1, 0, 1}
  <1>1. Modulus \in Nat /\ Modulus > 0
    BY SequenceAssumption
  <1>2. CASE k >= 2
    BY <1>1, <1>2
  <1>3. CASE k <= -2
    BY <1>1, <1>3
  <1> QED  BY <1>2, <1>3

LEMMA TakenOver ==
  ASSUME NEW n \in Int, NEW t \in Int, NEW p \in Int, n = t + p
  PROVE  t = n - p
  OBVIOUS

(* Numbers of offsets that are near differ as these do, up to one turn.    *)
LEMMA Distance ==
  ASSUME NEW a \in Int, NEW x \in Int, NEW y \in Int, Near(x, y)
  PROVE  /\ Plus(a, x) \in Numbers /\ Plus(a, y) \in Numbers
         /\ Plus(a, y) - Plus(a, x) \in {y - x, y - x + Modulus, y - x - Modulus}
  <1>1. PICK i \in Int : a + x = (Modulus * i) + Plus(a, x)
    BY Remainder DEF Plus
  <1>2. PICK j \in Int : a + y = (Modulus * j) + Plus(a, y)
    BY Remainder DEF Plus
  <1>3. Plus(a, x) \in Numbers /\ Plus(a, y) \in Numbers
    BY Remainder DEF Plus
  <1>4. Modulus \in Nat /\ Modulus > 0
    BY SequenceAssumption
  <1>5. (Modulus * j) - (Modulus * i) = Modulus * (j - i)
    BY <1>4
  <1> DEFINE p == Plus(a, x)
             q == Plus(a, y)
             turns == Modulus * (j - i)
  <1>6. p \in Int /\ q \in Int /\ p >= 0 /\ q >= 0 /\ p < Modulus /\ q < Modulus
    BY <1>3, <1>4 DEF Numbers
  <1>7. turns = y - x - (q - p) /\ turns \in Int
    <2>1. Modulus * i \in Int /\ Modulus * j \in Int
      BY <1>4
    <2>2. Modulus * i = (a + x) - p /\ Modulus * j = (a + y) - q
      BY <1>1, <1>2, <1>6, <2>1, TakenOver
    <2>3. ((a + y) - q) - ((a + x) - p) = y - x - (q - p)
      BY <1>6
    <2> QED  BY <1>5, <1>6, <2>2, <2>3
  <1> HIDE DEF p, q, turns
  <1>8. turns < 2 * Modulus /\ -(2 * Modulus) < turns
    BY <1>4, <1>6, <1>7, HalfRange DEF Near
  <1>9. j - i \in {-1, 0, 1}
    BY <1>8, SmallFactor DEF turns
  <1>10. turns \in {-Modulus, 0, Modulus}
    BY <1>4, <1>9 DEF turns
  <1>11. q - p \in {y - x, y - x + Modulus, y - x - Modulus}
    BY <1>4, <1>6, <1>7, <1>10
  <1> QED  BY <1>3, <1>11 DEF p, q

LEMMA PlusPlus ==
  ASSUME NEW a \in Int, NEW x \in Int, NEW n \in Int
  PROVE  Plus(Plus(a, x), n) = Plus(a, x + n)
  <1>1. PICK k \in Int : a + x = (Modulus * k) + Plus(a, x)
    BY Remainder DEF Plus
  <1>2. PICK i \in Int : Plus(a, x) + n = (Modulus * i) + Plus(Plus(a, x), n)
    BY Remainder DEF Plus, Numbers
  <1>3. PICK j \in Int : a + (x + n) = (Modulus * j) + Plus(a, x + n)
    BY Remainder DEF Plus
  <1>4. Modulus \in Nat /\ Modulus > 0
    BY SequenceAssumption
  <1> DEFINE p == Plus(Plus(a, x), n)
             q == Plus(a, x + n)
             turns == Modulus * (j - k - i)
  <1>5. p \in Int /\ q \in Int /\ p >= 0 /\ q >= 0 /\ p < Modulus /\ q < Modulus
    <2>1. Plus(a, x) \in Int
      BY Remainder DEF Plus, Numbers
    <2>2. p \in Numbers
      BY <2>1, Remainder DEF Plus
    <2>3. q \in Numbers
      BY Remainder DEF Plus
    <2> QED  BY <1>4, <2>2, <2>3 DEF Numbers
  <1>6. turns = (Modulus * j) - (Modulus * k) - (Modulus * i)
    BY <1>4
  <1>7. Plus(a, x) \in Int
    BY Remainder DEF Plus, Numbers
  <1>8. turns = p - q /\ turns \in Int
    BY <1>1, <1>2, <1>3, <1>4, <1>5, <1>6, <1>7
  <1> HIDE DEF p, q, turns
  <1>9. turns < Modulus /\ -Modulus < turns
    BY <1>4, <1>5, <1>8
  <1>10. j - k - i \in {-1, 0, 1}
    BY <1>4, <1>8, <1>9, SmallFactor DEF turns
  <1>11. j - k - i = 0
    BY <1>4, <1>9, <1>10 DEF turns
  <1>12. turns = 0
    BY <1>4, <1>11 DEF turns
  <1> QED  BY <1>5, <1>8, <1>12 DEF p, q

(* The comparison by half the range is that of the offsets, for offsets    *)
(* that are less than half the range apart, wherever the numbers wrap;     *)
(* and so is the difference of two numbers.                                *)
THEOREM SequenceOrder ==
  ASSUME NEW a \in Int, NEW x \in Int, NEW y \in Int, Near(x, y)
  PROVE  /\ Before(Plus(a, x), Plus(a, y)) <=> x < y
         /\ x <= y => Minus(Plus(a, y), Plus(a, x)) = y - x
  <1> DEFINE p == Plus(a, x)
             q == Plus(a, y)
  <1>1. /\ p \in Numbers /\ q \in Numbers
        /\ q - p \in {y - x, y - x + Modulus, y - x - Modulus}
    BY Distance
  <1> HIDE DEF p, q
  <1>2. p \in Int /\ q \in Int /\ p >= 0 /\ q >= 0 /\ p < Modulus /\ q < Modulus
    BY <1>1, HalfRange DEF Numbers
  <1>3. Before(p, q) <=> x < y
    BY <1>1, <1>2, HalfRange DEF Before, Near
  <1>4. ASSUME x <= y PROVE Minus(q, p) = y - x
    <2>1. q - p = y - x \/ q - p = y - x - Modulus
      BY <1>1, <1>2, <1>4, HalfRange
    <2>2. y - x >= 0 /\ y - x < Modulus
      BY <1>4, HalfRange DEF Near
    <2>3. (y - x) % Modulus = y - x /\ (y - x - Modulus) % Modulus = y - x
      BY <2>2, HalfRange
    <2> QED  BY <2>1, <2>3 DEF Minus
  <1> QED  BY <1>3, <1>4 DEF p, q

(* A packet, which is a record, of a direction whose first byte has the    *)
(* number a.                                                               *)
Packet(p, a) ==
  /\ p = [f \in DOMAIN p |-> p[f]] /\ {"seq", "plen", "from"} \subseteq DOMAIN p
  /\ p.from \in Int /\ p.plen \in Nat /\ p.seq = Plus(a, p.from)

LEMMA EndNumber ==
  ASSUME NEW a \in Int, NEW p, Packet(p, a)
  PROVE  EndSeq(p) = Plus(a, p.from + p.plen)
  BY PlusPlus DEF EndSeq, Packet

(* A packet is an old duplicate when nothing of it lies beyond what the    *)
(* direction has reached.                                                  *)
THEOREM OldDupesOnly ==
  ASSUME NEW a \in Int, NEW p, Packet(p, a), NEW st, NEW d, NEW reached \in Int,
         st.running, st.cur[d] = Plus(a, reached), Near(p.from + p.plen, reached)
  PROVE  IsOldDupe(st, p, d) <=> p.from + p.plen <= reached
  <1> DEFINE end == p.from + p.plen
             n == EndSeq(p)
             q == st.cur[d]
  <1>1. end \in Int
    BY DEF Packet
  <1>2. n = Plus(a, end)
    BY EndNumber
  <1>3. /\ n \in Numbers /\ q \in Numbers
        /\ q - n \in {reached - end, reached - end + Modulus, reached - end - Modulus}
    BY <1>1, <1>2, Distance
  <1>4. IsOldDupe(st, p, d) <=> (q >= n /\ q - n < Half) \/ (q < n /\ n - q > Half)
    BY DEF IsOldDupe
  <1>5. Near(end, reached)
    OBVIOUS
  <1> HIDE DEF end, n, q
  <1>6. n \in Int /\ q \in Int /\ n >= 0 /\ q >= 0 /\ n < Modulus /\ q < Modulus
    BY <1>3, HalfRange DEF Numbers
  <1>7. (q >= n /\ q - n < Half) \/ (q < n /\ n - q > Half) <=> end <= reached
    BY <1>1, <1>3, <1>5, <1>6, HalfRange DEF Near
  <1> QED  BY <1>4, <1>7 DEF end

(* What stream_remove_dupe_bytes leaves of a packet that is not old is     *)
(* what lies beyond the reached offset, with the number of its first byte. *)
Trimmed(r, p, a, reached) ==
  /\ Packet(r, a) /\ DOMAIN r = DOMAIN p
  /\ r.from = (IF p.from < reached THEN reached ELSE p.from)
  /\ r.from + r.plen = p.from + p.plen
  /\ \A f \in DOMAIN p \ {"seq", "plen", "from"} : r[f] = p[f]

THEOREM TrimKeepsTheRest ==
  ASSUME NEW a \in Int, NEW p, Packet(p, a), NEW st, NEW d, NEW reached \in Int,
         st.running, st.cur[d] = Plus(a, reached), Near(p.from, reached),
         reached <= p.from + p.plen
  PROVE  Trimmed(RemoveDupeBytes(st, p, d), p, a, reached)
  <1>1. Before(p.seq, st.cur[d]) <=> p.from < reached
    BY SequenceOrder DEF Packet
  <1>2. CASE p.from < reached
    <2> DEFINE dupe == Minus(st.cur[d], p.seq)
               r == [p EXCEPT !.seq = Plus(@, dupe), !.plen = @ - dupe, !.from = @ + dupe]
    <2>1. dupe = reached - p.from
      BY <1>2, SequenceOrder DEF Packet
    <2>2. RemoveDupeBytes(st, p, d) = r
      BY <1>1, <1>2 DEF RemoveDupeBytes
    <2> HIDE DEF dupe
    <2>3. /\ DOMAIN r = DOMAIN p /\ r = [f \in DOMAIN r |-> r[f]]
          /\ r.seq = Plus(p.seq, dupe) /\ r.plen = p.plen - dupe /\ r.from = p.from + dupe
          /\ \A f \in DOMAIN p \ {"seq", "plen", "from"} : r[f] = p[f]
      BY DEF Packet
    <2> HIDE DEF r
    <2>4. r.from = reached /\ r.plen = p.from + p.plen - reached /\ r.plen \in Nat
      BY <2>1, <2>3 DEF Packet
    <2>5. r.seq = Plus(a, reached)
      <3>1. p.seq = Plus(a, p.from) /\ p.from \in Int
        BY DEF Packet
      <3>2. dupe \in Int
        BY <2>1, <3>1
      <3>3. Plus(Plus(a, p.from), dupe) = Plus(a, p.from + dupe)
        BY <3>1, <3>2, PlusPlus
      <3> QED  BY <2>1, <2>3, <3>1, <3>3
    <2>6. Packet(r, a)
      BY <2>3, <2>4, <2>5 DEF Packet
    <2>7. r.from + r.plen = p.from + p.plen
      BY <2>4 DEF Packet
    <2> QED  BY <1>2, <2>2, <2>3, <2>4, <2>6, <2>7 DEF Trimmed
  <1>3. CASE ~(p.from < reached)
    <2>1. RemoveDupeBytes(st, p, d) = p
      BY <1>1, <1>3 DEF RemoveDupeBytes
    <2> QED  BY <1>3, <2>1 DEF Trimmed, Packet
  <1> QED  BY <1>2, <1>3

(* A packet is the next one when its direction has reached its first byte  *)
(* and, in a stream of two directions, the other one what it acknowledges. *)
THEOREM NextWhenReached ==
  ASSUME NEW a \in Int, NEW p, Packet(p, a), NEW st, NEW d, NEW reached \in Int,
         st.cur[d] = Plus(a, reached), Near(p.from, reached),
         NEW b \in Int, NEW other \in Int,
         st.bidir => /\ p.back \in Int /\ p.ack = Plus(b, p.back) /\ Near(p.back, other)
                     /\ st.cur[DirReverse(d)] = Plus(b, other)
  PROVE  IsNext(st, p, d) <=> p.from <= reached /\ (st.bidir => p.back <= other)
  <1>1. Before(st.cur[d], p.seq) <=> reached < p.from
    BY SequenceOrder DEF Packet, Near
  <1>2. st.bidir => (Before(st.cur[DirReverse(d)], p.ack) <=> other < p.back)
    BY SequenceOrder DEF Near
  <1>3. /\ ~(reached < p.from) <=> p.from <= reached
        /\ st.bidir => (~(other < p.back) <=> p.back <= other)
    BY DEF Packet
  <1> QED  BY <1>1, <1>2, <1>3 DEF IsNext

(* A list of packets of one direction in the order of their offsets.       *)
Ascending(q) == \A i, j \in 1 .. Len(q) : i < j => q[i].from <= q[j].from

LEMMA GreatestPlace ==
  ASSUME NEW n \in Nat, NEW T \in SUBSET (1 .. n), T # {}
  PROVE  \E i \in T : \A j \in T : j <= i
  <1> DEFINE D == {n - i : i \in T}
  <1>1. \A i \in T : i \in Int /\ n - i \in Nat
    OBVIOUS
  <1>2. PICK m \in D : \A k \in D : m <= k
    <2>1. D \in SUBSET Nat /\ D # {}
      BY <1>1
    <2> QED  BY <2>1, LeastNat
  <1>3. PICK i \in T : m = n - i
    BY <1>2
  <1>4. \A j \in T : n - i <= n - j
    BY <1>2, <1>3
  <1>5. \A j \in T : j <= i
    BY <1>1, <1>4
  <1> QED  BY <1>5

(* A packet that is kept comes behind those that begin before it and in    *)
(* front of the others, so that a queue stays in order and loses nothing.  *)
THEOREM KeptInOrder ==
  ASSUME NEW a \in Int, NEW S, \A x \in S : Packet(x, a), NEW q \in Seq(S), NEW p \in S,
         \A i \in 1 .. Len(q) : Near(q[i].from, p.from), Ascending(q)
  PROVE  /\ Ascending(SortedIn(q, p))
         /\ \E at \in 1 .. Len(q) + 1 : InsertedAt(S, SortedIn(q, p), q, p, at)
  <1> DEFINE behind == {i \in 1 .. Len(q) :
                          ~(\/ q[i].seq >= p.seq /\ q[i].seq - p.seq < Half
                            \/ q[i].seq <= p.seq /\ p.seq - q[i].seq > Half)}
             at == IF behind = {} THEN 1 ELSE 1 + CHOOSE i \in behind : \A j \in behind : j <= i
  <1>1. SortedIn(q, p) = InsertAt(q, at, p)
    BY DEF SortedIn
  <1>2. \A i \in 1 .. Len(q) : i \in behind <=> q[i].from < p.from
    <2> SUFFICES ASSUME NEW i \in 1 .. Len(q) PROVE i \in behind <=> q[i].from < p.from
      OBVIOUS
    <2> DEFINE m == q[i].seq
               n == p.seq
               x == q[i].from
               y == p.from
    <2>1. q[i] \in S /\ Packet(q[i], a) /\ Packet(p, a)
      OBVIOUS
    <2>2. x \in Int /\ y \in Int /\ m = Plus(a, x) /\ n = Plus(a, y) /\ Near(x, y)
      BY <2>1 DEF Packet
    <2>3. i \in behind <=> ~((m >= n /\ m - n < Half) \/ (m <= n /\ n - m > Half))
      OBVIOUS
    <2> HIDE DEF m, n, x, y, behind
    <2>4. m \in Numbers /\ n \in Numbers /\ n - m \in {y - x, y - x + Modulus, y - x - Modulus}
      BY <2>2, Distance
    <2>5. m \in Int /\ n \in Int /\ m >= 0 /\ n >= 0 /\ m < Modulus /\ n < Modulus
      BY <2>4, HalfRange DEF Numbers
    <2>6. ~((m >= n /\ m - n < Half) \/ (m <= n /\ n - m > Half)) <=> x < y
      BY <2>2, <2>4, <2>5, HalfRange DEF Near
    <2> QED  BY <2>3, <2>6 DEF x, y
  <1>3. behind \subseteq 1 .. Len(q)
    OBVIOUS
  <1>4. /\ at \in 1 .. Len(q) + 1
        /\ \A i \in 1 .. Len(q) : i < at => q[i].from <= p.from
        /\ \A i \in 1 .. Len(q) : i >= at => p.from <= q[i].from
    <2> DEFINE top == CHOOSE i \in behind : \A j \in behind : j <= i
    <2>1. Len(q) \in Nat /\ \A i \in 1 .. Len(q) : q[i].from \in Int
      BY DEF Packet
    <2>2. p.from \in Int
      BY DEF Packet
    <2>3. CASE behind = {}
      <3>1. at = 1
        BY <2>3
      <3> HIDE DEF at
      <3>2. \A i \in 1 .. Len(q) : p.from <= q[i].from
        <4> HIDE DEF behind
        <4> QED  BY <1>2, <2>1, <2>2, <2>3
      <3> QED  BY <2>1, <3>1, <3>2
    <2>4. CASE behind # {}
      <3>1. at = 1 + top
        BY <2>4
      <3>2. top \in behind /\ \A j \in behind : j <= top
        <4> HIDE DEF behind
        <4> QED  BY <1>3, <2>1, <2>4, GreatestPlace
      <3> HIDE DEF at, top, behind
      <3>3. top \in 1 .. Len(q) /\ q[top].from < p.from
        BY <1>2, <1>3, <3>2
      <3>4. ASSUME NEW i \in 1 .. Len(q), i < at PROVE q[i].from <= p.from
        <4>1. i <= top
          BY <3>1, <3>3, <3>4
        <4>2. q[i].from <= q[top].from
          BY <2>1, <3>3, <4>1 DEF Ascending
        <4> QED  BY <2>1, <2>2, <3>3, <4>2
      <3>5. ASSUME NEW i \in 1 .. Len(q), i >= at PROVE p.from <= q[i].from
        <4>1. i \notin behind
          BY <3>1, <3>2, <3>3, <3>5
        <4> QED  BY <1>2, <2>1, <2>2, <4>1
      <3> QED  BY <2>1, <3>1, <3>3, <3>4, <3>5
    <2> QED  BY <2>3, <2>4
  <1> HIDE DEF at, behind
  <1>5. InsertedAt(S, InsertAt(q, at, p), q, p, at)
    BY <1>4, InsertAtPlace
  <1> DEFINE new == InsertAt(q, at, p)
  <1>6. Ascending(new)
    <2> HIDE DEF new
    <2>1. Len(q) \in Nat /\ \A i \in 1 .. Len(q) : q[i].from \in Int
      BY DEF Packet
    <2>2. p.from \in Int /\ at \in Int
      BY <1>4 DEF Packet
    <2>3. InsertedAt(S, new, q, p, at)
      BY <1>5 DEF new
    <2>4. ASSUME NEW i \in 1 .. Len(new), NEW j \in 1 .. Len(new), i < j
          PROVE  new[i].from <= new[j].from
      <3>1. Len(new) = Len(q) + 1
        BY <2>3 DEF InsertedAt
      <3>2. CASE j < at
        <4>1. new[i] = q[i] /\ new[j] = q[j]
          BY <1>4, <2>1, <2>3, <2>4, <3>2 DEF InsertedAt
        <4> QED  BY <1>4, <2>1, <2>4, <3>1, <3>2, <4>1 DEF Ascending
      <3>3. CASE j = at
        <4>1. new[i] = q[i] /\ new[j] = p
          BY <1>4, <2>1, <2>3, <2>4, <3>3 DEF InsertedAt
        <4> QED  BY <1>4, <2>1, <2>4, <3>1, <3>3, <4>1
      <3>4. CASE j > at
        <4>1. new[j] = q[j - 1] /\ j - 1 \in 1 .. Len(q) /\ j - 1 >= at
          BY <1>4, <2>1, <2>3, <2>4, <3>1, <3>4 DEF InsertedAt
        <4>2. CASE i < at
          <5>1. new[i] = q[i] /\ i \in 1 .. Len(q) /\ i < j - 1
            BY <1>4, <2>1, <2>2, <2>3, <2>4, <3>1, <3>4, <4>1, <4>2 DEF InsertedAt
          <5> QED  BY <4>1, <5>1 DEF Ascending
        <4>3. CASE i = at
          BY <1>4, <2>3, <4>1, <4>3 DEF InsertedAt
        <4>4. CASE i > at
          <5>1. new[i] = q[i - 1] /\ i - 1 \in 1 .. Len(q) /\ i - 1 < j - 1
            BY <1>4, <2>1, <2>2, <2>3, <2>4, <3>1, <4>1, <4>4 DEF InsertedAt
          <5> QED  BY <4>1, <5>1 DEF Ascending
        <4> QED  BY <2>2, <4>2, <4>3, <4>4
      <3> QED  BY <2>2, <3>2, <3>3, <3>4
    <2> QED  BY <2>4 DEF Ascending
  <1> QED  BY <1>1, <1>4, <1>5, <1>6

-----------------------------------------------------------------------------
(***************************************************************************)
(* Reading lines and bytes from a stream (StreamParser, Http).             *)
(***************************************************************************)

(* What a parser has left is the end of what was captured: the last of the *)
(* first n symbols of what flows in its direction.                         *)
EndOf(left, flow, n) ==
  /\ n \in 0 .. Len(flow) /\ Len(left) <= n
  /\ \A i \in 1 .. Len(left) : left[i] = flow[n - Len(left) + i]

Parsers(S) == [left : Seq(S), at : BOOLEAN, buff : BOOLEAN, kept : Seq(S)]

(* In the middle of a packet; and between packets, when what is left is    *)
(* what the buffer holds.                                                  *)
Reads(sp, S, flow, n) ==
  /\ sp \in Parsers(S) /\ EndOf(sp.left, flow, n)
  /\ sp.left # <<>> => sp.at
  /\ ~WillRepeat(sp)
AtRest(sp) == sp.left # <<>> => sp.buff /\ sp.kept = sp.left

LEMMA EndOfEnd ==
  ASSUME NEW S, NEW flow \in Seq(S), NEW left \in Seq(S), NEW n, EndOf(left, flow, n), NEW m \in Nat
  PROVE  /\ SubSeq(left, m + 1, Len(left)) \in Seq(S)
         /\ EndOf(SubSeq(left, m + 1, Len(left)), flow, n)
         /\ Len(SubSeq(left, m + 1, Len(left))) = IF m < Len(left) THEN Len(left) - m ELSE 0
  <1> DEFINE rest == SubSeq(left, m + 1, Len(left))
  <1>1. Len(left) \in Nat /\ Len(flow) \in Nat
    OBVIOUS
  <1>2. rest \in Seq(S)
    BY SubSeqProperties
  <1>3. /\ Len(rest) = IF m < Len(left) THEN Len(left) - m ELSE 0
        /\ \A i \in 1 .. Len(rest) : rest[i] = left[m + i]
    BY <1>1, SubSeqProperties
  <1> HIDE DEF rest
  <1>4. EndOf(rest, flow, n)
    <2>1. n \in 0 .. Len(flow) /\ Len(left) <= n /\ Len(rest) <= n
      BY <1>1, <1>3 DEF EndOf
    <2>2. ASSUME NEW i \in 1 .. Len(rest) PROVE rest[i] = flow[n - Len(rest) + i]
      <3>1. m < Len(left) /\ Len(rest) = Len(left) - m /\ i \in 1 .. Len(left) - m
        BY <1>1, <1>3, <2>2
      <3>2. m + i \in 1 .. Len(left) /\ n - Len(left) + (m + i) = n - Len(rest) + i
        BY <1>1, <2>1, <3>1
      <3>3. left[m + i] = flow[n - Len(left) + (m + i)]
        BY <3>2 DEF EndOf
      <3> QED  BY <1>3, <3>2, <3>3
    <2> QED  BY <2>1, <2>2 DEF EndOf
  <1> QED  BY <1>2, <1>3, <1>4 DEF rest

LEMMA EndOfMore ==
  ASSUME NEW S, NEW flow \in Seq(S), NEW left \in Seq(S), NEW n, EndOf(left, flow, n),
         NEW more \in Seq(S), n + Len(more) <= Len(flow),
         \A i \in 1 .. Len(more) : more[i] = flow[n + i]
  PROVE  /\ left \o more \in Seq(S)
         /\ EndOf(left \o more, flow, n + Len(more))
         /\ Len(left \o more) = Len(left) + Len(more)
  <1> DEFINE k == Len(more)
             new == left \o more
  <1>1. /\ Len(left) \in Nat /\ Len(flow) \in Nat /\ n \in 0 .. Len(flow)
        /\ Len(left) <= n /\ k \in Nat
    BY DEF EndOf
  <1>2. n + k \in 0 .. Len(flow)
    BY <1>1
  <1>3. \A i \in 1 .. k : more[i] = flow[n + i]
    OBVIOUS
  <1>4. /\ new \in Seq(S) /\ Len(new) = Len(left) + k
        /\ \A i \in 1 .. Len(left) + k : new[i] = IF i <= Len(left) THEN left[i] ELSE more[i - Len(left)]
    BY ConcatProperties, Zenon
  <1> HIDE DEF new, k
  <1>5. ASSUME NEW i \in 1 .. Len(new) PROVE new[i] = flow[(n + k) - Len(new) + i]
    <2>1. (n + k) - Len(new) + i = n - Len(left) + i
      BY <1>1, <1>4
    <2>2. CASE i <= Len(left)
      <3>1. new[i] = left[i] /\ i \in 1 .. Len(left)
        BY <1>1, <1>4, <2>2
      <3> QED  BY <2>1, <3>1 DEF EndOf
    <2>3. CASE ~(i <= Len(left))
      <3>1. new[i] = more[i - Len(left)] /\ i - Len(left) \in 1 .. k
        BY <1>1, <1>4, <2>3
      <3>2. more[i - Len(left)] = flow[n + (i - Len(left))] /\ n + (i - Len(left)) = n - Len(left) + i
        BY <1>1, <1>3, <3>1
      <3> QED  BY <2>1, <3>1, <3>2
    <2> QED  BY <2>2, <2>3
  <1>6. EndOf(new, flow, n + k)
    BY <1>1, <1>2, <1>4, <1>5 DEF EndOf
  <1> QED  BY <1>4, <1>6 DEF new, k

LEMMA ParserFields ==
  ASSUME NEW S, NEW sp \in Parsers(S)
  PROVE  sp.left \in Seq(S) /\ sp.at \in BOOLEAN /\ sp.buff \in BOOLEAN /\ sp.kept \in Seq(S) /\ Len(sp.left) \in Nat
  BY DEF Parsers

LEMMA FirstLineFeed ==
  ASSUME NEW S, NEW sp \in Parsers(S), HasLine(sp)
  PROVE  FirstLF(sp) \in 1 .. Len(sp.left) /\ sp.left # <<>>
  <1>1. LineFeeds(sp) \in SUBSET Nat /\ LineFeeds(sp) # {} /\ LineFeeds(sp) \subseteq 1 .. Len(sp.left)
    BY ParserFields DEF LineFeeds, HasLine
  <1>2. \E m \in LineFeeds(sp) : \A n \in LineFeeds(sp) : m <= n
    BY <1>1, LeastNat
  <1>3. FirstLF(sp) \in LineFeeds(sp)
    BY <1>2 DEF FirstLF
  <1> QED  BY <1>1, <1>3, ParserFields

(* What the functions of packet.c leave.                                   *)
LEMMA LineLeaves ==
  ASSUME NEW S, NEW flow \in Seq(S), NEW n, NEW sp, Reads(sp, S, flow, n), HasLine(sp)
  PROVE  Reads(AfterLine(sp), S, flow, n) /\ Len(AfterLine(sp).left) <= Len(sp.left)
  <1> DEFINE rest == SubSeq(sp.left, FirstLF(sp) + 1, Len(sp.left))
  <1>1. sp \in Parsers(S) /\ sp.left \in Seq(S) /\ Len(sp.left) \in Nat /\ FirstLF(sp) \in 1 .. Len(sp.left)
    BY ParserFields, FirstLineFeed DEF Reads
  <1>2. /\ rest \in Seq(S) /\ EndOf(rest, flow, n)
        /\ Len(rest) = IF FirstLF(sp) < Len(sp.left) THEN Len(sp.left) - FirstLF(sp) ELSE 0
    <2>1. EndOf(sp.left, flow, n) /\ FirstLF(sp) \in Nat
      BY <1>1 DEF Reads
    <2> QED  BY <1>1, <2>1, EndOfEnd
  <1>3. AfterLine(sp) = [sp EXCEPT !.left = rest, !.at = rest # <<>>]
    BY DEF AfterLine
  <1> HIDE DEF rest
  <1>4. /\ AfterLine(sp) \in Parsers(S) /\ AfterLine(sp).left = rest
        /\ AfterLine(sp).at = (rest # <<>>)
    BY <1>1, <1>2, <1>3 DEF Parsers
  <1>5. Len(rest) <= Len(sp.left)
    BY <1>1, <1>2
  <1> QED  BY <1>2, <1>4, <1>5 DEF Reads, WillRepeat

LEMMA KeepingLeaves ==
  ASSUME NEW S, NEW flow \in Seq(S), NEW n, NEW sp, Reads(sp, S, flow, n)
  PROVE  /\ Reads(KeepRest(sp), S, flow, n) /\ AtRest(KeepRest(sp))
         /\ KeepRest(sp).left = sp.left
  <1>1. sp \in Parsers(S)
    BY DEF Reads
  <1>2. CASE sp.left = <<>>
    BY <1>2 DEF KeepRest, AtRest
  <1>3. CASE sp.left # <<>>
    <2>1. KeepRest(sp) = [sp EXCEPT !.buff = TRUE, !.kept = sp.left]
      BY <1>3 DEF KeepRest
    <2>2. /\ KeepRest(sp) \in Parsers(S) /\ KeepRest(sp).left = sp.left /\ KeepRest(sp).at = sp.at
          /\ KeepRest(sp).buff /\ KeepRest(sp).kept = sp.left
      BY <1>1, <2>1 DEF Parsers
    <2> QED  BY <1>3, <2>2 DEF Reads, AtRest, WillRepeat
  <1> QED  BY <1>2, <1>3

LEMMA EmptyingLeaves ==
  ASSUME NEW S, NEW flow \in Seq(S), NEW n, NEW sp, Reads(sp, S, flow, n)
  PROVE  /\ Reads(EmptyParser(sp), S, flow, n) /\ AtRest(EmptyParser(sp))
         /\ Len(EmptyParser(sp).left) <= Len(sp.left)
  <1>1. sp \in Parsers(S) /\ Len(sp.left) \in Nat /\ n \in 0 .. Len(flow)
    BY ParserFields DEF Reads, EndOf
  <1> <<>> \in Seq(S)
    BY EmptySeq
  <1>2. EmptyParser(sp) \in Parsers(S) /\ EmptyParser(sp).left = <<>> /\ EmptyParser(sp).at = FALSE
    BY <1>1 DEF EmptyParser, Parsers
  <1>3. Len(<<>>) = 0 /\ EndOf(<<>>, flow, n)
    BY <1>1 DEF EndOf
  <1> QED  BY <1>1, <1>2, <1>3 DEF Reads, AtRest, WillRepeat

LEMMA SkippingLeaves ==
  ASSUME NEW S, NEW flow \in Seq(S), NEW n, NEW sp, Reads(sp, S, flow, n), NEW m \in Nat,
         ~WillRepeat(SkipBytes(sp, m))
  PROVE  /\ Reads(SkipBytes(sp, m), S, flow, n)
         /\ Len(SkipBytes(sp, m).left) = IF m < Len(sp.left) THEN Len(sp.left) - m ELSE 0
  <1> DEFINE rest == SubSeq(sp.left, m + 1, Len(sp.left))
  <1>1. sp \in Parsers(S) /\ sp.left \in Seq(S) /\ Len(sp.left) \in Nat
    BY ParserFields DEF Reads
  <1>2. /\ rest \in Seq(S) /\ EndOf(rest, flow, n)
        /\ Len(rest) = IF m < Len(sp.left) THEN Len(sp.left) - m ELSE 0
    BY <1>1, EndOfEnd DEF Reads
  <1>3. SkipBytes(sp, m) = [sp EXCEPT !.left = rest]
    BY DEF SkipBytes
  <1> HIDE DEF rest
  <1>4. SkipBytes(sp, m) \in Parsers(S) /\ SkipBytes(sp, m).left = rest /\ SkipBytes(sp, m).at = sp.at
    BY <1>1, <1>2, <1>3 DEF Parsers
  <1>5. rest # <<>> => sp.left # <<>>
    <2>1. rest # <<>> => Len(rest) # 0
      BY <1>2, EmptySeq
    <2> QED  BY <1>1, <1>2, <2>1
  <1> QED  BY <1>2, <1>4, <1>5 DEF Reads

(* new is sp with the k symbols after the first n put behind what it had.   *)
Joined(new, sp, S, flow, n, k) ==
  /\ new.left = sp.left \o SubSeq(flow, n + 1, n + k)
  /\ Reads(new, S, flow, n + k)
  /\ Len(new.left) = Len(sp.left) + k

(* Two packets of a stream are read as one: the bytes that were left, and  *)
(* behind them those of the new packet; nothing twice and nothing lost.    *)
THEOREM PacketsJoined ==
  ASSUME NEW S, NEW flow \in Seq(S), NEW n, NEW sp, Reads(sp, S, flow, n), AtRest(sp),
         NEW k \in 1 .. Len(flow) - n
  PROVE  Joined(AddPayload(sp, SubSeq(flow, n + 1, n + k)), sp, S, flow, n, k)
  <1> DEFINE more == SubSeq(flow, n + 1, n + k)
             new == AddPayload(sp, more)
  <1>1. sp \in Parsers(S) /\ sp.left \in Seq(S) /\ Len(sp.left) \in Nat
    BY ParserFields DEF Reads
  <1>2. more \in Seq(S) /\ Len(more) = k /\ \A i \in 1 .. k : more[i] = flow[n + i]
    <2>1. n \in Nat /\ n + 1 \in 1 .. Len(flow) /\ n + k \in 1 .. Len(flow)
          /\ (n + k) - (n + 1) + 1 = k
      BY DEF Reads, EndOf
    <2> QED  BY <2>1, SubSeqProperties
  <1> HIDE DEF more
  <1>3. /\ sp.left \o more \in Seq(S) /\ EndOf(sp.left \o more, flow, n + k)
        /\ Len(sp.left \o more) = Len(sp.left) + k
    <2>1. EndOf(sp.left, flow, n)
      BY DEF Reads
    <2>2. n \in Nat /\ n + Len(more) <= Len(flow)
      BY <1>2, <2>1 DEF EndOf
    <2>3. \A i \in 1 .. Len(more) : more[i] = flow[n + i]
      BY <1>2
    <2>4. /\ sp.left \o more \in Seq(S) /\ EndOf(sp.left \o more, flow, n + Len(more))
          /\ Len(sp.left \o more) = Len(sp.left) + Len(more)
      BY <1>1, <1>2, <2>1, <2>2, <2>3, EndOfMore
    <2> QED  BY <1>2, <2>4
  <1>4. k \in Nat /\ k > 0 /\ sp.left \o more # <<>>
    <2>1. k \in Nat /\ k > 0
      BY DEF Reads, EndOf
    <2>2. Len(sp.left \o more) # 0
      BY <1>1, <1>3, <2>1
    <2> QED  BY <2>1, <2>2
  <1>5. /\ new \in Parsers(S) /\ new.at /\ new.left = sp.left \o more
    <2>1. CASE sp.buff /\ sp.at
      <3>1. sp.kept = sp.left
        BY <2>1 DEF Reads, AtRest, WillRepeat
      <3>2. new = [left |-> sp.left \o more, at |-> TRUE, buff |-> TRUE, kept |-> sp.left \o more]
        BY <2>1, <3>1 DEF AddPayload
      <3> QED  BY <1>3, <3>2 DEF Parsers
    <2>2. CASE ~(sp.buff /\ sp.at)
      <3>1. sp.left = <<>>
        BY <2>2 DEF Reads, AtRest
      <3>2. new = [left |-> more, at |-> TRUE, buff |-> FALSE, kept |-> <<>>]
        BY <2>2 DEF AddPayload
      <3>3. sp.left \o more = more
        BY <1>2, <3>1
      <3> <<>> \in Seq(S)
        BY EmptySeq
      <3> QED  BY <1>2, <3>2, <3>3 DEF Parsers
    <2> QED  BY <2>1, <2>2
  <1> HIDE DEF new
  <1>6. Reads(new, S, flow, n + k)
    BY <1>3, <1>4, <1>5 DEF Reads, WillRepeat
  <1> QED  BY <1>3, <1>5, <1>6 DEF new, more, Joined

-----------------------------------------------------------------------------
Infos == [clen : Int, pos : Nat, chunked : BOOLEAN, size : Nat, cpos : Nat, code : Nat]
HttpStates == {"first", "headers", "body"}

(* Of a body no more is counted than it has, and nothing before it begins. *)
InfoHolds(i, st) ==
  /\ i.cpos <= i.size
  /\ i.clen # -1 => i.pos <= i.clen
  /\ st # "body" => i.pos = 0

HttpReading ==
  /\ talk \in Conversations /\ hTold \in [HttpDirs -> Nat]
  /\ inHand \in HttpDirs \cup {NoDir}
  /\ hParser \in [HttpDirs -> Parsers(HttpSymbols)]
  /\ hState \in [HttpDirs -> HttpStates]
  /\ hInfo \in [HttpDirs -> Infos]
  /\ \A d \in HttpDirs :
       /\ InfoHolds(hInfo[d], hState[d])
       /\ Reads(hParser[d], HttpSymbols, talk[d], hTold[d])
       /\ inHand # d => AtRest(hParser[d])

HttpInv == httpOdd \/ isInvalid \/ HttpReading

(* How much of a direction was read; it is never read again.               *)
ReadOf(d) == hTold[d] - Len(hParser[d].left)
ReadsOnward == \A d \in HttpDirs : ReadOf(d) <= ReadOf(d)'

LEMMA TalkTyped ==
  ASSUME HttpReading, NEW d \in HttpDirs
  PROVE  talk[d] \in Seq(HttpSymbols)
  BY HttpAssumption DEF HttpReading

LEMMA SameAt ==
  ASSUME NEW T, NEW f \in [HttpDirs -> T], NEW d \in HttpDirs
  PROVE  f = [f EXCEPT ![d] = f[d]]
  OBVIOUS

(* A turn of the loop changes what belongs to the direction in hand.       *)
LEMMA TurnOfOne ==
  ASSUME HttpReading, NEW d \in HttpDirs, inHand = d,
         NEW sp, NEW i \in Infos, NEW st \in HttpStates,
         hParser' = [hParser EXCEPT ![d] = sp], hInfo' = [hInfo EXCEPT ![d] = i],
         hState' = [hState EXCEPT ![d] = st],
         UNCHANGED <<talk, hTold>>, inHand' \in {d, NoDir},
         Reads(sp, HttpSymbols, talk[d], hTold[d]), Len(sp.left) <= Len(hParser[d].left),
         InfoHolds(i, st), inHand' = NoDir => AtRest(sp)
  PROVE  HttpReading' /\ ReadsOnward
  <1>1. sp \in Parsers(HttpSymbols)
    BY DEF Reads
  <1>2. /\ hParser' \in [HttpDirs -> Parsers(HttpSymbols)] /\ hInfo' \in [HttpDirs -> Infos]
        /\ hState' \in [HttpDirs -> HttpStates]
        /\ hParser'[d] = sp /\ hInfo'[d] = i /\ hState'[d] = st
        /\ \A e \in HttpDirs \ {d} :
             hParser'[e] = hParser[e] /\ hInfo'[e] = hInfo[e] /\ hState'[e] = hState[e]
    BY <1>1 DEF HttpReading
  <1>3. /\ talk' \in Conversations /\ hTold' \in [HttpDirs -> Nat]
        /\ inHand' \in HttpDirs \cup {NoDir}
    BY DEF HttpReading
  <1>4. ASSUME NEW e \in HttpDirs
        PROVE  /\ InfoHolds(hInfo'[e], hState'[e])
               /\ Reads(hParser'[e], HttpSymbols, talk'[e], hTold'[e])
               /\ inHand' # e => AtRest(hParser'[e])
               /\ Len(hParser'[e].left) <= Len(hParser[e].left)
    <2>1. CASE e = d
      <3>1. inHand' # e => AtRest(sp)
        BY <2>1
      <3> QED  BY <1>2, <2>1, <3>1
    <2>2. CASE e # d
      <3>1. /\ hParser'[e] = hParser[e] /\ hInfo'[e] = hInfo[e] /\ hState'[e] = hState[e]
            /\ talk' = talk /\ hTold' = hTold
        BY <1>2, <2>2
      <3>2. /\ InfoHolds(hInfo[e], hState[e])
            /\ Reads(hParser[e], HttpSymbols, talk[e], hTold[e]) /\ AtRest(hParser[e])
        BY <2>2 DEF HttpReading
      <3>3. Len(hParser[e].left) <= Len(hParser[e].left)
        BY ParserFields DEF HttpReading
      <3> QED  BY <3>1, <3>2, <3>3
    <2> QED  BY <2>1, <2>2
  <1>5. HttpReading'
    BY <1>2, <1>3, <1>4 DEF HttpReading
  <1>6. ReadsOnward
    <2> SUFFICES ASSUME NEW e \in HttpDirs PROVE ReadOf(e) <= ReadOf(e)'
      BY DEF ReadsOnward
    <2>1. Len(hParser'[e].left) \in Nat /\ Len(hParser[e].left) \in Nat
          /\ hTold[e] \in Nat /\ hTold'[e] = hTold[e]
          /\ Len(hParser'[e].left) <= Len(hParser[e].left)
      BY <1>2, <1>4, ParserFields DEF HttpReading
    <2> QED  BY <2>1 DEF ReadOf
  <1> QED  BY <1>5, <1>6

LEMMA OfOne ==
  ASSUME HttpReading, NEW d \in HttpDirs
  PROVE  /\ Reads(hParser[d], HttpSymbols, talk[d], hTold[d])
         /\ hParser[d] \in Parsers(HttpSymbols) /\ Len(hParser[d].left) \in Nat
         /\ hInfo[d] \in Infos /\ InfoHolds(hInfo[d], hState[d]) /\ hState[d] \in HttpStates
         /\ talk[d] \in Seq(HttpSymbols)
  BY TalkTyped, ParserFields DEF HttpReading

LEMMA LineOfOne ==
  ASSUME HttpReading, NEW d \in HttpDirs, HasLine(hParser[d])
  PROVE  /\ Reads(AfterLine(hParser[d]), HttpSymbols, talk[d], hTold[d])
         /\ Len(AfterLine(hParser[d]).left) <= Len(hParser[d].left)
  BY OfOne, LineLeaves

(* What a line says is one of the symbols of the conversation.             *)
LEMMA SymbolOfLine ==
  ASSUME HttpReading, NEW d \in HttpDirs, HasLine(hParser[d]), LineOf(hParser[d]) # <<>>
  PROVE  FirstOf(d) \in HttpSymbols
  <1> DEFINE sp == hParser[d]
  <1>1. sp \in Parsers(HttpSymbols) /\ FirstLF(sp) \in 1 .. Len(sp.left) /\ Len(sp.left) \in Nat
    BY OfOne, FirstLineFeed
  <1>2. PICK end \in {FirstLF(sp) - 2, FirstLF(sp) - 1} : LineOf(sp) = SubSeq(sp.left, 1, end)
    BY DEF LineOf
  <1>3. end \in Int /\ end <= Len(sp.left)
    BY <1>1, <1>2
  <1>4. \A i \in 1 .. end : sp.left[i] \in HttpSymbols
    BY <1>1, <1>3, ParserFields
  <1>5. LineOf(sp) \in Seq(HttpSymbols)
    BY <1>2, <1>3, <1>4, SubSeqProperties
  <1> HIDE DEF sp
  <1>6. LineOf(sp)[Len(LineOf(sp))] \in HttpSymbols
    <2>1. LineOf(sp) # <<>>
      BY DEF sp
    <2>2. Len(LineOf(sp)) \in Nat \ {0}
      BY <1>5, <2>1, EmptySeq
    <2> QED  BY <1>5, <2>2
  <1> QED  BY <1>6 DEF FirstOf, Last, sp

LEMMA NewInfo ==
  /\ NoInfo \in Infos
  /\ \A st : InfoHolds(NoInfo, st)
  BY DEF NoInfo, Infos, InfoHolds

-----------------------------------------------------------------------------
LEMMA KeepingTurn ==
  ASSUME HttpReading, NEW d \in HttpDirs, inHand = d,
         Parse(d, KeepRest(hParser[d])), Leave, UNCHANGED <<talk, hTold, hState, hInfo>>
  PROVE  HttpReading' /\ ReadsOnward
  <1>1. /\ Reads(KeepRest(hParser[d]), HttpSymbols, talk[d], hTold[d])
        /\ AtRest(KeepRest(hParser[d]))
        /\ KeepRest(hParser[d]).left = hParser[d].left
    <2>1. talk[d] \in Seq(HttpSymbols) /\ Reads(hParser[d], HttpSymbols, talk[d], hTold[d])
      BY OfOne
    <2> QED  BY <2>1, KeepingLeaves
  <1>2. /\ hInfo' = [hInfo EXCEPT ![d] = hInfo[d]] /\ hState' = [hState EXCEPT ![d] = hState[d]]
    BY SameAt DEF HttpReading
  <1>3. /\ hParser' = [hParser EXCEPT ![d] = KeepRest(hParser[d])] /\ inHand' \in {d, NoDir}
        /\ Len(KeepRest(hParser[d]).left) <= Len(hParser[d].left)
    BY <1>1, OfOne DEF Parse, Leave
  <1> QED  BY <1>1, <1>2, <1>3, OfOne, TurnOfOne

(* A line that leaves the state and what is known as they were, or not.    *)
LEMMA LineTurn ==
  ASSUME HttpReading, NEW d \in HttpDirs, inHand = d, HasLine(hParser[d]),
         Parse(d, AfterLine(hParser[d])), NextTurn, UNCHANGED <<talk, hTold>>,
         NEW i \in Infos, NEW st \in HttpStates, InfoHolds(i, st),
         hInfo' = [hInfo EXCEPT ![d] = i], hState' = [hState EXCEPT ![d] = st]
  PROVE  HttpReading' /\ ReadsOnward
  <1>1. hParser' = [hParser EXCEPT ![d] = AfterLine(hParser[d])] /\ inHand' = d /\ d # NoDir
    BY DEF Parse, NextTurn, HttpDirs, NoDir
  <1> QED  BY <1>1, LineOfOne, TurnOfOne

LEMMA LineTurnSame ==
  ASSUME HttpReading, NEW d \in HttpDirs, inHand = d, HasLine(hParser[d]),
         Parse(d, AfterLine(hParser[d])), NextTurn, UNCHANGED <<talk, hTold, hInfo, hState>>
  PROVE  HttpReading' /\ ReadsOnward
  <1>1. /\ hInfo' = [hInfo EXCEPT ![d] = hInfo[d]] /\ hState' = [hState EXCEPT ![d] = hState[d]]
    BY SameAt DEF HttpReading
  <1> QED  BY <1>1, OfOne, LineTurn

LEMMA FirstLineTurn ==
  ASSUME HttpReading, NEW d \in HttpDirs, FirstLine(d), ~isInvalid'
  PROVE  HttpReading' /\ ReadsOnward
  <1> DEFINE line == FirstOf(d)
             code == IF line.t = "reply" THEN line.code ELSE 0
  <1>1. /\ inHand = d /\ hState[d] = "first" /\ HasLine(hParser[d])
        /\ Parse(d, AfterLine(hParser[d])) /\ NextTurn /\ UNCHANGED <<talk, hTold>>
    BY DEF FirstLine, TheLine, Invalidate
  <1>2. CASE UNCHANGED <<hState, hInfo>>
    BY <1>1, <1>2, LineTurnSame
  <1>3. CASE Become(d, "headers") /\ Known(d, [hInfo[d] EXCEPT !.code = code])
    <2>1. line \in HttpSymbols
      BY <1>1, SymbolOfLine DEF FirstLine
    <2>2. code \in Nat
      BY <2>1, HttpAssumption
    <2> HIDE DEF code
    <2>3. /\ [hInfo[d] EXCEPT !.code = code] \in Infos
          /\ InfoHolds([hInfo[d] EXCEPT !.code = code], "headers")
      BY <1>1, <2>2, OfOne DEF Infos, InfoHolds
    <2> QED  BY <1>1, <1>3, <2>3, LineTurn DEF Become, Known, HttpStates
  <1> QED  BY <1>2, <1>3 DEF FirstLine, Invalidate

LEMMA HeaderTurn ==
  ASSUME HttpReading, NEW d \in HttpDirs, Header(d), ~isInvalid'
  PROVE  HttpReading' /\ ReadsOnward
  <1> DEFINE line == FirstOf(d)
  <1>1. /\ inHand = d /\ hState[d] = "headers" /\ HasLine(hParser[d])
        /\ Parse(d, AfterLine(hParser[d])) /\ NextTurn /\ UNCHANGED <<talk, hTold, hState>>
    BY DEF Header, TheLine, Invalidate
  <1>2. hState' = [hState EXCEPT ![d] = hState[d]] /\ "headers" \in HttpStates
    BY <1>1, SameAt DEF HttpReading, HttpStates
  <1>3. CASE line.t = "clen" /\ Known(d, [hInfo[d] EXCEPT !.clen = IF @ = -1 THEN line.v ELSE @])
    <2> DEFINE clen == IF hInfo[d].clen = -1 THEN line.v ELSE hInfo[d].clen
               i == [hInfo[d] EXCEPT !.clen = clen]
    <2>1. line.v \in Nat
      <3>1. line \in HttpSymbols
        BY <1>1, SymbolOfLine DEF Header
      <3> QED  BY <1>3, <3>1, HttpAssumption
    <2>2. clen \in Int /\ (clen # -1 => 0 <= clen)
      BY <1>1, <2>1, OfOne DEF Infos, InfoHolds
    <2>3. Known(d, i)
      BY <1>3
    <2> HIDE DEF clen
    <2>4. i \in Infos /\ InfoHolds(i, "headers")
      BY <1>1, <2>2, OfOne DEF Infos, InfoHolds
    <2> HIDE DEF i
    <2> QED  BY <1>1, <1>2, <2>3, <2>4, LineTurn DEF Known
  <1>4. CASE Known(d, [hInfo[d] EXCEPT !.chunked = TRUE])
    <2>1. /\ [hInfo[d] EXCEPT !.chunked = TRUE] \in Infos
          /\ InfoHolds([hInfo[d] EXCEPT !.chunked = TRUE], "headers")
      BY <1>1, OfOne DEF Infos, InfoHolds
    <2> QED  BY <1>1, <1>2, <1>4, <2>1, LineTurn DEF Known
  <1> QED  BY <1>3, <1>4 DEF Header, Invalidate

LEMMA EndOfHeadersTurn ==
  ASSUME HttpReading, NEW d \in HttpDirs, EndOfHeaders(d)
  PROVE  HttpReading' /\ ReadsOnward
  <1> DEFINE i == Counted(hInfo[d])
  <1>1. /\ inHand = d /\ hState[d] = "headers" /\ HasLine(hParser[d])
        /\ Parse(d, AfterLine(hParser[d])) /\ NextTurn /\ UNCHANGED <<talk, hTold>>
    BY DEF EndOfHeaders, TheLine
  <1>2. CASE Reset(d)
    BY <1>1, <1>2, NewInfo, LineTurn DEF Reset, Become, Known, HttpStates
  <1>3. CASE Become(d, "body") /\ Known(d, i)
    <2>1. i \in Infos /\ InfoHolds(i, "body")
      BY <1>1, OfOne DEF Infos, InfoHolds, Counted
    <2> HIDE DEF i
    <2> QED  BY <1>1, <1>3, <2>1, LineTurn DEF Become, Known, HttpStates
  <1> QED  BY <1>2, <1>3 DEF EndOfHeaders

LEMMA NextResponseTurn ==
  ASSUME HttpReading, NEW d \in HttpDirs, NextResponse(d)
  PROVE  HttpReading' /\ ReadsOnward
  <1>1. inHand = d /\ UNCHANGED <<talk, hTold, hParser>> /\ inHand' = d /\ d # NoDir
    BY DEF NextResponse, InBody, NextTurn, HttpDirs, NoDir
  <1>2. hParser' = [hParser EXCEPT ![d] = hParser[d]]
    BY <1>1, SameAt DEF HttpReading
  <1>3. /\ hState' = [hState EXCEPT ![d] = "first"] /\ hInfo' = [hInfo EXCEPT ![d] = NoInfo]
        /\ "first" \in HttpStates
    BY DEF NextResponse, Reset, Become, Known, HttpStates
  <1>4. Len(hParser[d].left) <= Len(hParser[d].left)
    BY OfOne
  <1> QED  BY <1>1, <1>2, <1>3, <1>4, OfOne, NewInfo, TurnOfOne

LEMMA ChunkSizeTurn ==
  ASSUME HttpReading, NEW d \in HttpDirs, ChunkSize(d)
  PROVE  HttpReading' /\ ReadsOnward
  <1> DEFINE i == [hInfo[d] EXCEPT !.size = FirstOf(d).v]
  <1>1. /\ inHand = d /\ hState[d] = "body" /\ HasLine(hParser[d]) /\ LineOf(hParser[d]) # <<>>
        /\ Parse(d, AfterLine(hParser[d])) /\ NextTurn /\ UNCHANGED <<talk, hTold, hState>>
        /\ hInfo[d].size = 0 /\ FirstOf(d).t = "size"
    BY DEF ChunkSize, IsSize, ChunkLine, InChunks, InBody, GivesSize
  <1>2. FirstOf(d).v \in Nat
    BY <1>1, SymbolOfLine, HttpAssumption
  <1>3. i \in Infos /\ InfoHolds(i, "body")
    BY <1>1, <1>2, OfOne DEF Infos, InfoHolds
  <1>4. hInfo' = [hInfo EXCEPT ![d] = i]
    BY DEF ChunkSize, Known
  <1> HIDE DEF i
  <1>5. hState' = [hState EXCEPT ![d] = hState[d]]
    BY <1>1, SameAt DEF HttpReading
  <1> QED  BY <1>1, <1>3, <1>4, <1>5, OfOne, LineTurn

LEMMA OddTells ==
  ASSUME NEW how, IsOdd(how), ~httpOdd'
  PROVE  ~how
  BY Zenon DEF IsOdd

LEMMA LastChunkTurn ==
  ASSUME HttpReading, NEW d \in HttpDirs, LastChunk(d), ~httpOdd'
  PROVE  HttpReading' /\ ReadsOnward
  <1> DEFINE sp == AfterLine(hParser[d])
             after == IF Len(sp.left) > 1 THEN SkipBytes(sp, 2) ELSE sp
  <1>1. /\ inHand = d /\ inHand' = d /\ d # NoDir /\ HasLine(hParser[d])
        /\ UNCHANGED <<talk, hTold, hInfo, hState>>
        /\ hParser' = [hParser EXCEPT ![d] = after] /\ ~WillRepeat(after)
    <2>1. IsOdd(WillRepeat(after))
      BY Zenon DEF LastChunk
    <2> QED  BY <2>1, OddTells DEF LastChunk, IsSize, ChunkLine, InChunks, InBody, NextTurn, Parse, HttpDirs, NoDir
  <1>2. /\ Reads(sp, HttpSymbols, talk[d], hTold[d]) /\ Len(sp.left) <= Len(hParser[d].left)
        /\ Len(sp.left) \in Nat
    <2>1. Reads(sp, HttpSymbols, talk[d], hTold[d]) /\ Len(sp.left) <= Len(hParser[d].left)
      BY <1>1, LineOfOne
    <2> QED  BY <2>1, ParserFields DEF Reads
  <1> HIDE DEF sp
  <1>3. Reads(after, HttpSymbols, talk[d], hTold[d]) /\ Len(after.left) <= Len(sp.left)
    <2>1. CASE Len(sp.left) > 1
      <3>1. after = SkipBytes(sp, 2) /\ talk[d] \in Seq(HttpSymbols)
        BY <2>1, OfOne
      <3>2. /\ Reads(SkipBytes(sp, 2), HttpSymbols, talk[d], hTold[d])
            /\ Len(SkipBytes(sp, 2).left) = IF 2 < Len(sp.left) THEN Len(sp.left) - 2 ELSE 0
        BY <1>1, <1>2, <3>1, SkippingLeaves
      <3> QED  BY <1>2, <3>1, <3>2
    <2>2. CASE ~(Len(sp.left) > 1)
      BY <1>2, <2>2
    <2> QED  BY <2>1, <2>2
  <1> HIDE DEF after
  <1>4. Len(after.left) <= Len(hParser[d].left)
    <2>1. Len(after.left) \in Nat /\ Len(hParser[d].left) \in Nat
      BY <1>3, OfOne, ParserFields DEF Reads
    <2> QED  BY <1>2, <1>3, <2>1
  <1>5. /\ hInfo' = [hInfo EXCEPT ![d] = hInfo[d]] /\ hState' = [hState EXCEPT ![d] = hState[d]]
    BY <1>1, SameAt DEF HttpReading
  <1> QED  BY <1>1, <1>3, <1>4, <1>5, OfOne, TurnOfOne

LEMMA EndOfChunkTurn ==
  ASSUME HttpReading, NEW d \in HttpDirs, EndOfChunk(d), ~httpOdd'
  PROVE  HttpReading' /\ ReadsOnward
  <1> DEFINE m == ChunkRest(d) + Behind(d)
             after == SkipBytes(hParser[d], m)
             i == [hInfo[d] EXCEPT !.size = 0, !.cpos = 0]
  <1>1. /\ inHand = d /\ inHand' = d /\ d # NoDir /\ hState[d] = "body"
        /\ UNCHANGED <<talk, hTold, hState>>
        /\ hParser' = [hParser EXCEPT ![d] = after] /\ ~WillRepeat(after)
        /\ hInfo' = [hInfo EXCEPT ![d] = i]
    <2>1. IsOdd(WillRepeat(after))
      BY Zenon DEF EndOfChunk
    <2> QED  BY <2>1, OddTells DEF EndOfChunk, InChunks, InBody, NextTurn, Parse, Known, HttpDirs, NoDir
  <1>2. m \in Nat
    BY OfOne DEF ChunkRest, Behind, Infos, InfoHolds
  <1>3. i \in Infos /\ InfoHolds(i, "body")
    <2>1. hInfo[d] \in Infos /\ InfoHolds(hInfo[d], "body")
      BY <1>1, OfOne
    <2>2. i \in Infos /\ i.clen = hInfo[d].clen /\ i.pos = hInfo[d].pos /\ i.size = 0 /\ i.cpos = 0
      BY <2>1 DEF Infos
    <2> QED  BY <2>1, <2>2 DEF InfoHolds
  <1> HIDE DEF m, i
  <1>4. /\ Reads(after, HttpSymbols, talk[d], hTold[d])
        /\ Len(after.left) = IF m < Len(hParser[d].left) THEN Len(hParser[d].left) - m ELSE 0
    BY <1>1, <1>2, OfOne, SkippingLeaves
  <1> HIDE DEF after
  <1>5. Len(after.left) <= Len(hParser[d].left)
    BY <1>2, <1>4, OfOne
  <1>6. hState' = [hState EXCEPT ![d] = hState[d]]
    BY <1>1, SameAt DEF HttpReading
  <1> QED  BY <1>1, <1>3, <1>4, <1>5, <1>6, OfOne, TurnOfOne

(* What is left of the packet is all of it payload.                        *)
LEMMA EmptyingTurn ==
  ASSUME HttpReading, NEW d \in HttpDirs, inHand = d,
         Parse(d, EmptyParser(hParser[d])), Leave, UNCHANGED <<talk, hTold>>,
         NEW i \in Infos, NEW st \in HttpStates, InfoHolds(i, st),
         hInfo' = [hInfo EXCEPT ![d] = i], hState' = [hState EXCEPT ![d] = st]
  PROVE  HttpReading' /\ ReadsOnward
  <1> DEFINE sp == EmptyParser(hParser[d])
  <1>1. /\ Reads(sp, HttpSymbols, talk[d], hTold[d]) /\ AtRest(sp)
        /\ Len(sp.left) <= Len(hParser[d].left)
    <2>1. talk[d] \in Seq(HttpSymbols) /\ Reads(hParser[d], HttpSymbols, talk[d], hTold[d])
      BY OfOne
    <2> QED  BY <2>1, EmptyingLeaves, Zenon
  <1>2. hParser' = [hParser EXCEPT ![d] = sp] /\ inHand' \in {d, NoDir}
    BY DEF Parse, Leave
  <1> HIDE DEF sp
  <1> QED  BY <1>1, <1>2, TurnOfOne

LEMMA InsideChunkTurn ==
  ASSUME HttpReading, NEW d \in HttpDirs, InsideChunk(d)
  PROVE  HttpReading' /\ ReadsOnward
  <1> DEFINE i == [hInfo[d] EXCEPT !.cpos = @ + Len(Left(d))]
  <1>1. /\ inHand = d /\ hState[d] = "body"
        /\ Parse(d, EmptyParser(hParser[d])) /\ Leave
        /\ UNCHANGED <<talk, hTold, hState>> /\ hInfo' = [hInfo EXCEPT ![d] = i]
        /\ Len(Left(d)) <= ChunkRest(d)
    BY DEF InsideChunk, InChunks, InBody, Known
  <1>2. i \in Infos /\ InfoHolds(i, "body")
    <2>1. hInfo[d] \in Infos /\ InfoHolds(hInfo[d], "body") /\ Len(Left(d)) \in Nat
      BY <1>1, OfOne DEF Left
    <2>2. /\ i \in Infos /\ i.clen = hInfo[d].clen /\ i.pos = hInfo[d].pos /\ i.size = hInfo[d].size
          /\ i.cpos = hInfo[d].cpos + Len(Left(d))
      BY <2>1 DEF Infos
    <2>3. i.cpos <= i.size
      BY <1>1, <2>1, <2>2 DEF Infos, ChunkRest
    <2> QED  BY <2>1, <2>2, <2>3 DEF InfoHolds
  <1> HIDE DEF i
  <1>3. hState' = [hState EXCEPT ![d] = hState[d]]
    BY <1>1, SameAt DEF HttpReading
  <1> QED  BY <1>1, <1>2, <1>3, OfOne, EmptyingTurn

LEMMA MoreThanBodyTurn ==
  ASSUME HttpReading, NEW d \in HttpDirs, MoreThanBody(d)
  PROVE  HttpReading' /\ ReadsOnward
  <1> DEFINE m == LengthLeft(d)
             after == SkipBytes(hParser[d], m)
  <1>1. /\ inHand = d /\ inHand' = d /\ d # NoDir
        /\ UNCHANGED <<talk, hTold>> /\ hParser' = [hParser EXCEPT ![d] = after]
        /\ hState' = [hState EXCEPT ![d] = "first"] /\ hInfo' = [hInfo EXCEPT ![d] = NoInfo]
        /\ "first" \in HttpStates
    BY DEF MoreThanBody, InLength, InBody, NextTurn, Parse, Reset, Become, Known, HttpStates, HttpDirs, NoDir
  <1>2. m \in Nat /\ m < Len(hParser[d].left)
    BY OfOne DEF MoreThanBody, HasLength, LengthLeft, Left, Infos, InfoHolds
  <1>3. ~WillRepeat(after)
    <2>1. /\ hParser[d].left \in Seq(HttpSymbols) /\ Len(hParser[d].left) \in Nat
          /\ EndOf(hParser[d].left, talk[d], hTold[d]) /\ talk[d] \in Seq(HttpSymbols)
      BY OfOne, ParserFields DEF Reads
    <2> DEFINE rest == SubSeq(hParser[d].left, m + 1, Len(hParser[d].left))
    <2> HIDE DEF m
    <2>2. Len(rest) = IF m < Len(hParser[d].left) THEN Len(hParser[d].left) - m ELSE 0
      BY <1>2, <2>1, EndOfEnd
    <2>3. after.left = rest
      <3>1. after = [hParser[d] EXCEPT !.left = rest]
        BY DEF SkipBytes
      <3> QED  BY <3>1, OfOne DEF Parsers
    <2>4. rest # <<>>
      <3> HIDE DEF rest
      <3> QED  BY <1>2, <2>1, <2>2, EmptySeq
    <2> QED  BY <2>3, <2>4 DEF WillRepeat
  <1> HIDE DEF m
  <1>4. /\ Reads(after, HttpSymbols, talk[d], hTold[d])
        /\ Len(after.left) = IF m < Len(hParser[d].left) THEN Len(hParser[d].left) - m ELSE 0
    BY <1>2, <1>3, OfOne, SkippingLeaves
  <1> HIDE DEF after
  <1>5. Len(after.left) <= Len(hParser[d].left)
    BY <1>2, <1>4, OfOne
  <1> QED  BY <1>1, <1>4, <1>5, NewInfo, TurnOfOne

LEMMA RestOfPacketTurn ==
  ASSUME HttpReading, NEW d \in HttpDirs, RestOfPacket(d)
  PROVE  HttpReading' /\ ReadsOnward
  <1> DEFINE i == [hInfo[d] EXCEPT !.pos = @ + Len(Left(d))]
  <1>1. /\ inHand = d /\ hState[d] = "body"
        /\ Parse(d, EmptyParser(hParser[d])) /\ Leave /\ UNCHANGED <<talk, hTold>>
    BY DEF RestOfPacket, InLength, InBody
  <1>2. CASE IsWhole(d)
    <2>1. Reset(d)
      BY <1>2 DEF RestOfPacket
    <2> QED  BY <1>1, <2>1, NewInfo, EmptyingTurn DEF Reset, Become, Known, HttpStates
  <1>3. CASE ~IsWhole(d)
    <2>1. hInfo' = [hInfo EXCEPT ![d] = i] /\ UNCHANGED hState
      BY <1>3 DEF RestOfPacket, Known
    <2>2. i \in Infos /\ InfoHolds(i, "body")
      <3>1. hInfo[d] \in Infos /\ InfoHolds(hInfo[d], "body") /\ Len(Left(d)) \in Nat
        BY <1>1, OfOne DEF Left
      <3>2. /\ i \in Infos /\ i.clen = hInfo[d].clen /\ i.pos = hInfo[d].pos + Len(Left(d))
            /\ i.size = hInfo[d].size /\ i.cpos = hInfo[d].cpos
        BY <3>1 DEF Infos
      <3>3. i.clen # -1 => i.pos <= i.clen
        BY <1>3, <3>1, <3>2 DEF IsWhole, HasLength, Infos
      <3> QED  BY <3>1, <3>2, <3>3 DEF InfoHolds
    <2> HIDE DEF i
    <2>3. hState' = [hState EXCEPT ![d] = hState[d]]
      BY <2>1, SameAt DEF HttpReading
    <2> QED  BY <1>1, <2>1, <2>2, <2>3, OfOne, EmptyingTurn
  <1> QED  BY <1>2, <1>3

-----------------------------------------------------------------------------
(* A packet: what it brings is put behind what was left.                   *)
LEMMA PacketTurn ==
  ASSUME HttpReading, NEW d \in HttpDirs, HttpPacket(d), ~isInvalid'
  PROVE  HttpReading' /\ ReadsOnward
  <1>1. PICK k \in 1 .. Len(talk[d]) - hTold[d] :
          /\ hTold' = [hTold EXCEPT ![d] = @ + k]
          /\ hParser' = [hParser EXCEPT ![d] =
                           AddPayload(hParser[d], SubSeq(talk[d], hTold[d] + 1, hTold[d] + k))]
          /\ inHand' = d
    BY DEF HttpPacket, Parse
  <1> DEFINE n == hTold[d]
             sp == AddPayload(hParser[d], SubSeq(talk[d], n + 1, n + k))
  <1>2. /\ inHand = NoDir /\ d # NoDir /\ UNCHANGED <<talk, hState, hInfo>>
    BY DEF HttpPacket, HttpDirs, NoDir
  <1>3. /\ hTold[d] \in Nat /\ hTold \in [HttpDirs -> Nat] /\ talk[d] \in Seq(HttpSymbols)
        /\ Reads(hParser[d], HttpSymbols, talk[d], hTold[d]) /\ AtRest(hParser[d])
        /\ Len(hParser[d].left) \in Nat /\ k \in Nat
    BY <1>2, OfOne DEF HttpReading
  <1>4. Reads(sp, HttpSymbols, talk[d], n + k) /\ Len(sp.left) = Len(hParser[d].left) + k
    <2> DEFINE bytes == SubSeq(talk[d], n + 1, n + k)
    <2>1. /\ Reads(hParser[d], HttpSymbols, talk[d], n) /\ AtRest(hParser[d])
          /\ talk[d] \in Seq(HttpSymbols) /\ k \in 1 .. Len(talk[d]) - n
      BY <1>3
    <2>2. Joined(AddPayload(hParser[d], bytes), hParser[d], HttpSymbols, talk[d], n, k)
      BY <2>1, PacketsJoined, Zenon
    <2> QED  BY <2>2 DEF Joined
  <1> HIDE DEF sp
  <1>5. /\ hParser' = [hParser EXCEPT ![d] = sp] /\ sp \in Parsers(HttpSymbols)
    BY <1>1, <1>4 DEF sp, Reads
  <1>6. /\ hParser' \in [HttpDirs -> Parsers(HttpSymbols)] /\ hTold' \in [HttpDirs -> Nat]
        /\ hParser'[d] = sp /\ hTold'[d] = hTold[d] + k
        /\ \A e \in HttpDirs \ {d} : hParser'[e] = hParser[e] /\ hTold'[e] = hTold[e]
    BY <1>1, <1>3, <1>5 DEF HttpReading
  <1>7. ASSUME NEW e \in HttpDirs
        PROVE  /\ InfoHolds(hInfo'[e], hState'[e])
               /\ Reads(hParser'[e], HttpSymbols, talk'[e], hTold'[e])
               /\ inHand' # e => AtRest(hParser'[e])
               /\ ReadOf(e) <= ReadOf(e)'
    <2>1. InfoHolds(hInfo'[e], hState'[e])
      BY <1>2 DEF HttpReading
    <2>2. CASE e = d
      BY <1>1, <1>2, <1>3, <1>4, <1>6, <2>1, <2>2 DEF ReadOf
    <2>3. CASE e # d
      <3>1. /\ hParser'[e] = hParser[e] /\ hTold'[e] = hTold[e] /\ talk' = talk
            /\ hTold[e] \in Nat /\ Len(hParser[e].left) \in Nat
        BY <1>2, <1>3, <1>6, <2>3, OfOne
      <3>2. Reads(hParser[e], HttpSymbols, talk[e], hTold[e]) /\ AtRest(hParser[e])
        BY <1>2, <2>3 DEF HttpReading, HttpDirs, NoDir
      <3> QED  BY <2>1, <3>1, <3>2 DEF ReadOf
    <2> QED  BY <2>2, <2>3
  <1>8. HttpReading'
    BY <1>1, <1>2, <1>6, <1>7 DEF HttpReading
  <1> QED  BY <1>7, <1>8 DEF ReadsOnward

LEMMA HttpStays ==
  ASSUME HttpReading, UNCHANGED <<talk, hTold, hParser, hState, hInfo, inHand>>
  PROVE  HttpReading' /\ ReadsOnward
  <1>1. HttpReading'
    BY DEF HttpReading
  <1>2. ASSUME NEW d \in HttpDirs PROVE ReadOf(d) <= ReadOf(d)'
    <2>1. hTold[d] \in Nat /\ Len(hParser[d].left) \in Nat
      BY OfOne DEF HttpReading
    <2> QED  BY <2>1 DEF ReadOf
  <1> QED  BY <1>1, <1>2 DEF ReadsOnward

LEMMA HttpSteps ==
  ASSUME HttpReading, [HttpNext]_httpVars, ~httpOdd', ~isInvalid'
  PROVE  HttpReading' /\ ReadsOnward
  <1>1. CASE UNCHANGED httpVars
    BY <1>1, HttpStays DEF httpVars
  <1>2. CASE HttpClose
    BY <1>2, HttpStays DEF HttpClose
  <1>3. ASSUME NEW d \in HttpDirs, HttpPacket(d) PROVE HttpReading' /\ ReadsOnward
    BY <1>3, PacketTurn
  <1>4. ASSUME NEW d \in HttpDirs, HttpTurn(d) PROVE HttpReading' /\ ReadsOnward
    <2>1. CASE NoLine(d)
      BY <2>1, KeepingTurn DEF NoLine
    <2>2. CASE EmptyFirstLine(d)
      BY <2>2, LineTurnSame DEF EmptyFirstLine, TheLine
    <2>3. CASE FirstLine(d)
      BY <2>3, FirstLineTurn
    <2>4. CASE Header(d)
      BY <2>4, HeaderTurn
    <2>5. CASE EndOfHeaders(d)
      BY <2>5, EndOfHeadersTurn
    <2>6. CASE NextResponse(d)
      BY <2>6, NextResponseTurn
    <2>7. CASE NoChunkLine(d)
      BY <2>7, KeepingTurn DEF NoChunkLine, ChunkLine, InChunks, InBody
    <2>8. CASE BadChunkLine(d)
      BY <2>8 DEF BadChunkLine, Invalidate
    <2>9. CASE ChunkSize(d)
      BY <2>9, ChunkSizeTurn
    <2>10. CASE LastChunk(d)
      BY <2>10, LastChunkTurn
    <2>11. CASE EndOfChunk(d)
      BY <2>11, EndOfChunkTurn
    <2>12. CASE InsideChunk(d)
      BY <2>12, InsideChunkTurn
    <2>13. CASE MoreThanBody(d)
      BY <2>13, MoreThanBodyTurn
    <2>14. CASE RestOfPacket(d)
      BY <2>14, RestOfPacketTurn
    <2> QED
      BY <1>4, <2>1, <2>2, <2>3, <2>4, <2>5, <2>6, <2>7, <2>8, <2>9, <2>10, <2>11, <2>12, <2>13,
         <2>14 DEF HttpTurn
  <1> QED  BY <1>1, <1>2, <1>3, <1>4 DEF HttpNext

(* A connection that is given up stays so.                                 *)
LEMMA GivenUp ==
  ASSUME [HttpNext]_httpVars
  PROVE  /\ httpOdd => httpOdd'
         /\ isInvalid => isInvalid'
  <1>1. CASE UNCHANGED httpVars
    BY <1>1 DEF httpVars
  <1>2. CASE HttpClose
    BY <1>2 DEF HttpClose
  <1>3. ASSUME NEW d \in HttpDirs, HttpPacket(d)
        PROVE  (httpOdd => httpOdd') /\ (isInvalid => isInvalid')
    BY <1>3 DEF HttpPacket
  <1>4. ASSUME NEW d \in HttpDirs, HttpTurn(d)
        PROVE  (httpOdd => httpOdd') /\ (isInvalid => isInvalid')
    <2>1. CASE \/ NoLine(d) \/ EmptyFirstLine(d) \/ EndOfHeaders(d) \/ NextResponse(d)
               \/ NoChunkLine(d) \/ ChunkSize(d) \/ InsideChunk(d) \/ MoreThanBody(d)
      <3>1. UNCHANGED <<httpOdd, isInvalid>>
        BY <2>1 DEF NoLine, EmptyFirstLine, EndOfHeaders, NextResponse, NoChunkLine, ChunkSize,
          InsideChunk, MoreThanBody
      <3> QED  BY <3>1
    <2>2. CASE FirstLine(d)
      BY <2>2, Zenon DEF FirstLine, Invalidate, IsOdd
    <2>3. CASE Header(d)
      <3>1. CASE isInvalid' = TRUE /\ UNCHANGED httpOdd
        BY <3>1
      <3>2. CASE UNCHANGED <<httpOdd, isInvalid>>
        BY <3>2
      <3> QED  BY <2>3, <3>1, <3>2 DEF Header, Invalidate
    <2>4. CASE BadChunkLine(d)
      BY <2>4, Zenon DEF BadChunkLine, Invalidate, IsOdd
    <2>5. CASE LastChunk(d) \/ EndOfChunk(d) \/ RestOfPacket(d)
      <3>1. UNCHANGED isInvalid
        BY <2>5 DEF LastChunk, EndOfChunk, RestOfPacket
      <3>2. httpOdd => httpOdd'
        BY <2>5, Zenon DEF LastChunk, EndOfChunk, RestOfPacket, IsOdd
      <3> QED  BY <3>1, <3>2
    <2> QED  BY <1>4, <2>1, <2>2, <2>3, <2>4, <2>5 DEF HttpTurn
  <1> QED  BY <1>1, <1>2, <1>3, <1>4 DEF HttpNext

LEMMA HttpBegins == HttpInit => HttpReading
  <1> SUFFICES ASSUME HttpInit PROVE HttpReading
    OBVIOUS
  <1> DEFINE S == HttpSymbols
  <1>1. <<>> \in Seq(S) /\ Len(<<>>) = 0
    BY EmptySeq
  <1>2. NewParser \in Parsers(S) /\ NewParser.left = <<>> /\ NewParser.at = FALSE
    BY <1>1 DEF NewParser, Parsers
  <1>3. ASSUME NEW d \in HttpDirs
        PROVE  /\ InfoHolds(hInfo[d], hState[d])
               /\ Reads(hParser[d], S, talk[d], hTold[d]) /\ AtRest(hParser[d])
    <2>1. hInfo[d] = NoInfo /\ hParser[d] = NewParser /\ hTold[d] = 0
      BY DEF HttpInit
    <2>2. talk[d] \in Seq(S)
      BY HttpAssumption DEF HttpInit
    <2>3. EndOf(<<>>, talk[d], 0)
      BY <1>1, <2>2 DEF EndOf
    <2> QED  BY <1>2, <2>1, <2>3, NewInfo DEF Reads, AtRest, WillRepeat
  <1>4. /\ talk \in Conversations /\ hTold \in [HttpDirs -> Nat]
        /\ inHand \in HttpDirs \cup {NoDir}
        /\ hParser \in [HttpDirs -> Parsers(S)]
        /\ hState \in [HttpDirs -> HttpStates]
        /\ hInfo \in [HttpDirs -> Infos]
    BY <1>2, NewInfo DEF HttpInit, HttpStates
  <1> QED  BY <1>3, <1>4 DEF HttpReading

(* The invariant holds at every step, unless the connection was given up.  *)
THEOREM HttpInvariant == HttpSpec => []HttpInv
  <1>1. HttpInit => HttpInv
    BY HttpBegins DEF HttpInv
  <1>2. HttpInv /\ [HttpNext]_httpVars => HttpInv'
    BY HttpSteps, GivenUp DEF HttpInv
  <1> QED  BY <1>1, <1>2, PTL DEF HttpSpec

(* What a parser has left is, at every moment, the end of what was         *)
(* captured of its direction: however the packets cut lines, chunks and    *)
(* bodies, nothing is put before, between or behind them that the stream   *)
(* does not have there; and no more of a body is counted than it has.      *)
HttpReadsInPlace ==
  httpOdd \/ isInvalid \/ \A d \in HttpDirs :
    /\ EndOf(hParser[d].left, talk[d], hTold[d])
    /\ hInfo[d].cpos <= hInfo[d].size
    /\ hInfo[d].clen # -1 => hInfo[d].pos <= hInfo[d].clen

(* proto_http_process reads in place, in every state of every conversation *)
(* and every way to cut it into packets.                                   *)
THEOREM ReadsInPlace == HttpSpec => []HttpReadsInPlace
  <1>1. HttpInv => HttpReadsInPlace
    BY DEF HttpInv, HttpReading, HttpReadsInPlace, Reads, InfoHolds
  <1> QED  BY <1>1, HttpInvariant, PTL

(* What was read of a direction is not read again: no step of the loop     *)
(* takes the parser back, and a packet only adds to it.                    *)
HttpReadsOn == httpOdd' \/ isInvalid' \/ ReadsOnward

(* ... at every step, of both directions.                                  *)
THEOREM NothingReadAgain == HttpSpec => [][HttpReadsOn]_httpVars
  <1>1. HttpInv /\ [HttpNext]_httpVars => [HttpReadsOn]_httpVars
    BY HttpSteps, GivenUp DEF HttpInv, HttpReadsOn
  <1> QED  BY <1>1, HttpInvariant, PTL DEF HttpSpec
=============================================================================
