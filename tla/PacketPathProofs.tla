-------------------------- MODULE PacketPathProofs --------------------------
(***************************************************************************)
(* OneOwner holds for every number of lines and packets.  It is inductive  *)
(* once the packets not yet read are known to be nowhere.                  *)
(***************************************************************************)
EXTENDS PacketPath, TLAPS

Unread ==
  /\ \A p \in Outside : p < next
  /\ \A l \in Lines : /\ \A p \in InLine(l) : p < next
                      /\ hand[l] # NoPkt => hand[l] < next

PathInv == TypeOK /\ OneOwner /\ Unread

USE DEF Packets

LEMMA AppendLine ==
  ASSUME TypeOK, NEW l \in Lines, NEW p \in Packets,
         line' = [line EXCEPT ![l] = Append(@, p)]
  PROVE  /\ line' \in [Lines -> Seq(Packets)]
         /\ InLine(l)' = InLine(l) \cup {p}
         /\ \A m \in Lines \ {l} : line'[m] = line[m] /\ InLine(m)' = InLine(m)
         /\ DOMAIN line'[l] = 1 .. Len(line[l]) + 1
         /\ DOMAIN line[l] = 1 .. Len(line[l])
         /\ \A k \in 1 .. Len(line[l]) : line'[l][k] = line[l][k]
         /\ line'[l][Len(line[l]) + 1] = p
         /\ Len(line[l]) \in Nat
  <1>1. line[l] \in Seq(Packets) /\ line'[l] = Append(line[l], p)
    BY DEF TypeOK
  <1>2. /\ DOMAIN line'[l] = 1 .. Len(line[l]) + 1 /\ DOMAIN line[l] = 1 .. Len(line[l])
        /\ \A k \in 1 .. Len(line[l]) : line'[l][k] = line[l][k]
        /\ line'[l][Len(line[l]) + 1] = p
        /\ Len(line[l]) \in Nat
    BY <1>1
  <1>3. InLine(l)' = InLine(l) \cup {p}
    BY <1>2 DEF InLine
  <1>4. line' \in [Lines -> Seq(Packets)]
    BY <1>1 DEF TypeOK
  <1>5. \A m \in Lines \ {l} : line'[m] = line[m] /\ InLine(m)' = InLine(m)
    BY DEF TypeOK, InLine
  <1> QED  BY <1>2, <1>3, <1>4, <1>5

LEMMA SeqInto ==
  ASSUME NEW S, NEW s \in Seq(S)
  PROVE  \A k \in DOMAIN s : s[k] \in S
  OBVIOUS

LEMMA HeadTail ==
  ASSUME NEW S, NEW s \in Seq(S), s # <<>>
  PROVE  /\ Head(s) \in S /\ Head(s) = s[1] /\ 1 \in DOMAIN s
         /\ \A k \in DOMAIN Tail(s) : /\ k + 1 \in DOMAIN s /\ k \in Nat \ {0}
                                      /\ Tail(s)[k] = s[k + 1]
  <1>1. Len(s) \in Nat /\ DOMAIN s = 1 .. Len(s) /\ Len(s) # 0
    OBVIOUS
  <1>2. DOMAIN Tail(s) = 1 .. Len(s) - 1
    BY <1>1
  <1>3. Head(s) \in S /\ Head(s) = s[1] /\ 1 \in DOMAIN s
    BY <1>1
  <1>4. \A k \in 1 .. Len(s) - 1 : Tail(s)[k] = s[k + 1]
    BY <1>1
  <1> QED  BY <1>1, <1>2, <1>3, <1>4

LEMMA TailLine ==
  ASSUME TypeOK, NEW l \in Lines, line[l] # <<>>,
         line' = [line EXCEPT ![l] = Tail(@)]
  PROVE  /\ line' \in [Lines -> Seq(Packets)]
         /\ Head(line[l]) \in InLine(l) /\ Head(line[l]) \in Packets
         /\ Head(line[l]) = line[l][1] /\ 1 \in DOMAIN line[l]
         /\ \A m \in Lines \ {l} : line'[m] = line[m]
         /\ \A k \in DOMAIN line'[l] : /\ k + 1 \in DOMAIN line[l] /\ k \in Nat \ {0}
                                       /\ line'[l][k] = line[l][k + 1]
  <1>1. line[l] \in Seq(Packets) /\ line'[l] = Tail(line[l])
    BY DEF TypeOK
  <1>2. /\ Head(line[l]) \in Packets /\ Head(line[l]) = line[l][1] /\ 1 \in DOMAIN line[l]
        /\ \A k \in DOMAIN line'[l] : /\ k + 1 \in DOMAIN line[l] /\ k \in Nat \ {0}
                                      /\ line'[l][k] = line[l][k + 1]
    <2>1. line[l] # <<>>
      OBVIOUS
    <2>2. /\ Head(line[l]) \in Packets /\ Head(line[l]) = line[l][1] /\ 1 \in DOMAIN line[l]
          /\ \A k \in DOMAIN Tail(line[l]) : /\ k + 1 \in DOMAIN line[l] /\ k \in Nat \ {0}
                                              /\ Tail(line[l])[k] = line[l][k + 1]
      BY <1>1, <2>1, HeadTail, Zenon
    <2> QED  BY <1>1, <2>2, Zenon
  <1>3. Head(line[l]) \in InLine(l)
    BY <1>2 DEF InLine
  <1>4. line' \in [Lines -> Seq(Packets)]
    BY <1>1 DEF TypeOK
  <1>5. \A m \in Lines \ {l} : line'[m] = line[m]
    BY DEF TypeOK
  <1> QED  BY <1>2, <1>3, <1>4, <1>5

LEMMA PathInit ==
  ASSUME PathAssumption, Init
  PROVE  PathInv
  BY DEF PathAssumption, Init, PathInv, TypeOK, OneOwner, Unread, Outside, InLine

LEMMA PathRead ==
  ASSUME PathAssumption, PathInv, Read
  PROVE  PathInv'
  <1>1. TypeOK'
    BY DEF PathAssumption, PathInv, TypeOK, Read
  <1>2. next \notin Outside /\ \A l \in Lines : next \notin InLine(l) /\ hand[l] # next
    BY DEF PathAssumption, PathInv, TypeOK, Unread, Read
  <1>3. Outside' = Outside \cup {next} /\ \A l \in Lines : InLine(l)' = InLine(l)
    BY DEF Read, Outside, InLine
  <1>4. OneOwner'
    BY <1>2, <1>3 DEF PathInv, OneOwner, Read, Outside
  <1>5. Unread'
    <2>1. /\ next' = next + 1 /\ next \in Nat /\ UNCHANGED hand
          /\ \A p \in Packets : p < next => p < next + 1
      BY DEF PathAssumption, PathInv, TypeOK, Read
    <2>2. /\ Outside \subseteq Packets
          /\ \A l \in Lines : InLine(l) \subseteq Packets /\ hand[l] \in Packets \cup {NoPkt}
      <3>1. \A l \in Lines : InLine(l) \subseteq Packets
        <4> TAKE l \in Lines
        <4>1. line[l] \in Seq(Packets)
          BY DEF PathInv, TypeOK
        <4>2. \A k \in DOMAIN line[l] : line[l][k] \in Packets
          BY <4>1, SeqInto, Zenon
        <4> QED  BY <4>2, Zenon DEF InLine
      <3> QED  BY <3>1 DEF PathInv, TypeOK, Outside
    <2>3. \A p \in Outside' : p < next'
      BY <1>3, <2>1, <2>2 DEF PathInv, Unread
    <2>4. \A l \in Lines : /\ \A p \in InLine(l)' : p < next'
                           /\ hand'[l] # NoPkt => hand'[l] < next'
      BY <1>3, <2>1, <2>2 DEF PathInv, Unread
    <2> QED  BY <2>3, <2>4 DEF Unread
  <1> QED  BY <1>1, <1>4, <1>5 DEF PathInv

LEMMA PathPut ==
  ASSUME PathAssumption, PathInv, NEW l \in Lines, NEW p \in offered, Put(p, l)
  PROVE  PathInv'
  <1> USE DEF PathInv
  <1>1. p \in Packets /\ Outside' = Outside \ {p}
    BY DEF TypeOK, Put, Outside, OneOwner
  <1>2. /\ line' \in [Lines -> Seq(Packets)]
        /\ InLine(l)' = InLine(l) \cup {p}
        /\ \A m \in Lines \ {l} : line'[m] = line[m] /\ InLine(m)' = InLine(m)
    BY <1>1, AppendLine DEF Put
  <1>3. TypeOK'
    BY <1>2 DEF TypeOK, Put
  <1>4. \A j, k \in DOMAIN line'[l] : line'[l][j] = line'[l][k] => j = k
    <2>1. \A k \in DOMAIN line[l] : line[l][k] # p
      BY DEF OneOwner, Outside, InLine
    <2> QED  BY <1>1, <2>1, AppendLine DEF OneOwner, Put
  <1>5. \A m \in Lines : p \notin InLine(m) /\ hand[m] # p
    BY DEF OneOwner, Outside
  <1>6. OneOwner'
    BY <1>1, <1>2, <1>4, <1>5 DEF OneOwner, Put
  <1>7. Unread'
    BY <1>1, <1>2 DEF Unread, Put, Outside
  <1> QED  BY <1>3, <1>6, <1>7

LEMMA PathGone ==
  ASSUME PathAssumption, PathInv, NEW p \in offered, Refuse(p) \/ Drop(p)
  PROVE  PathInv'
  <1>1. TypeOK'
    BY DEF PathInv, TypeOK, Refuse, Drop
  <1>2. Outside' \subseteq Outside /\ \A l \in Lines : InLine(l)' = InLine(l)
    BY DEF Refuse, Drop, Outside, InLine
  <1>3. OneOwner'
    BY <1>2 DEF PathInv, OneOwner, Refuse, Drop
  <1>4. Unread'
    BY <1>2 DEF PathInv, Unread, Refuse, Drop
  <1> QED  BY <1>1, <1>3, <1>4 DEF PathInv

LEMMA PathTake ==
  ASSUME PathAssumption, PathInv, NEW l \in Lines, Take(l)
  PROVE  PathInv'
  <1> USE DEF PathInv
  <1> DEFINE h == Head(line[l])
  <1>1. /\ line' \in [Lines -> Seq(Packets)]
        /\ h \in InLine(l) /\ h \in Packets /\ h = line[l][1] /\ 1 \in DOMAIN line[l]
        /\ \A m \in Lines \ {l} : line'[m] = line[m]
        /\ \A k \in DOMAIN line'[l] : /\ k + 1 \in DOMAIN line[l] /\ k \in Nat \ {0}
                                      /\ line'[l][k] = line[l][k + 1]
    BY TailLine DEF Take
  <1>2. TypeOK'
    BY <1>1 DEF TypeOK, Take
  <1>3. \A m \in Lines : InLine(m)' \subseteq InLine(m)
    BY <1>1 DEF InLine
  <1>4. h \notin InLine(l)'
    <2>1. \A k \in DOMAIN line'[l] : line'[l][k] # h
      BY <1>1 DEF OneOwner
    <2> QED  BY <2>1 DEF InLine
  <1>5. \A j, k \in DOMAIN line'[l] : line'[l][j] = line'[l][k] => j = k
    BY <1>1 DEF OneOwner
  <1>6. UNCHANGED <<offered, done, dropped, Outside>>
    BY DEF Take, Outside
  <1>7. hand' = [hand EXCEPT ![l] = h]
    BY DEF Take
  <1>8. /\ h \notin Outside
        /\ \A m \in Lines : hand[m] # h /\ (m # l => h \notin InLine(m))
    BY <1>1 DEF OneOwner
  <1>9. OneOwner'
    <2>1. \A m \in Lines : /\ InLine(m)' \cap Outside' = {}
                           /\ hand'[m] \notin Outside'
      BY <1>3, <1>6, <1>7, <1>8 DEF OneOwner, TypeOK
    <2>2. \A m \in Lines : \A j, k \in DOMAIN line'[m] : line'[m][j] = line'[m][k] => j = k
      BY <1>1, <1>5 DEF OneOwner
    <2>3. \A m, n \in Lines : hand'[m] \notin InLine(n)'
      BY <1>3, <1>4, <1>7, <1>8 DEF OneOwner, TypeOK
    <2>4. \A m, n \in Lines : m # n => InLine(m)' \cap InLine(n)' = {}
      BY <1>3 DEF OneOwner
    <2>5. \A m, n \in Lines : m # n /\ hand'[m] # NoPkt => hand'[m] # hand'[n]
      BY <1>7, <1>8 DEF OneOwner, TypeOK
    <2> QED  BY <1>6, <2>1, <2>2, <2>3, <2>4, <2>5 DEF OneOwner
  <1>10. Unread'
    BY <1>1, <1>3, <1>6, <1>7 DEF Unread, TypeOK, Take
  <1> QED  BY <1>2, <1>9, <1>10

LEMMA PathFinish ==
  ASSUME PathAssumption, PathInv, NEW l \in Lines, Finish(l)
  PROVE  PathInv'
  <1> USE DEF PathInv
  <1>1. TypeOK'
    BY DEF TypeOK, Finish
  <1>2. /\ Outside' = Outside \cup {hand[l]} /\ hand[l] \in Packets
        /\ \A m \in Lines : InLine(m)' = InLine(m)
    BY DEF TypeOK, Finish, Outside, InLine
  <1>3. hand[l] # NoPkt /\ hand' = [hand EXCEPT ![l] = NoPkt]
    BY DEF Finish
  <1>4. /\ NoPkt \notin Outside'
        /\ \A m \in Lines : NoPkt \notin InLine(m)
    <2>1. NoPkt \notin Outside'
      BY <1>2 DEF PathAssumption, TypeOK, Outside
    <2>2. \A m \in Lines : InLine(m) \subseteq Packets
      <3> TAKE m \in Lines
      <3>1. line[m] \in Seq(Packets)
        BY DEF TypeOK
      <3>2. \A k \in DOMAIN line[m] : line[m][k] \in Packets
        BY <3>1, SeqInto, Zenon
      <3> QED  BY <3>2, Zenon DEF InLine
    <2> QED  BY <2>1, <2>2 DEF PathAssumption
  <1>5. OneOwner'
    <2>1. UNCHANGED <<offered, line, dropped>> /\ done' = done \cup {hand[l]}
      BY DEF Finish
    <2>2. /\ offered' \cap done' = {} /\ offered' \cap dropped' = {}
          /\ done' \cap dropped' = {}
      BY <1>3, <2>1 DEF OneOwner, Outside
    <2>3. \A m \in Lines : InLine(m)' \cap Outside' = {} /\ hand'[m] \notin Outside'
      BY <1>2, <1>3, <1>4 DEF OneOwner, TypeOK
    <2>4. \A m, n \in Lines : hand'[m] \notin InLine(n)'
      BY <1>2, <1>3, <1>4 DEF OneOwner, TypeOK
    <2>5. \A m, n \in Lines : m # n /\ hand'[m] # NoPkt => hand'[m] # hand'[n]
      BY <1>3 DEF OneOwner, TypeOK
    <2> QED  BY <1>2, <2>1, <2>2, <2>3, <2>4, <2>5 DEF OneOwner
  <1>6. Unread'
    BY <1>2, <1>3 DEF Unread, TypeOK, Finish
  <1> QED  BY <1>1, <1>5, <1>6

LEMMA PathDiscard ==
  ASSUME PathAssumption, PathInv, NEW l \in Lines, Discard(l)
  PROVE  PathInv'
  <1> USE DEF PathInv
  <1>1. TypeOK'
    BY DEF TypeOK, Discard
  <1>2. /\ DOMAIN line'[l] = {}
        /\ \A m \in Lines \ {l} : line'[m] = line[m]
        /\ \A m \in Lines : InLine(m)' \subseteq InLine(m)
    BY DEF TypeOK, Discard, InLine
  <1>3. OneOwner'
    BY <1>2 DEF OneOwner, Discard, Outside
  <1>4. Unread'
    BY <1>2 DEF Unread, Discard, Outside
  <1> QED  BY <1>1, <1>3, <1>4

(* However many threads serve the queues, no packet is in two places.      *)
THEOREM OneOwnerCorrect ==
  ASSUME PathAssumption
  PROVE  Spec => []OneOwner
  <1>0. Init => PathInv
    BY PathInit
  <1>1. PathInv /\ [Next]_pathVars => PathInv'
    <2> SUFFICES ASSUME PathInv, [Next]_pathVars PROVE PathInv'
      OBVIOUS
    <2>1. CASE UNCHANGED pathVars
      <3>1. Outside' = Outside /\ \A l \in Lines : InLine(l)' = InLine(l)
        BY <2>1 DEF pathVars, Outside, InLine
      <3>2. TypeOK'
        BY <2>1 DEF pathVars, PathInv, TypeOK
      <3>3. OneOwner'
        BY <2>1, <3>1 DEF pathVars, PathInv, OneOwner
      <3>4. Unread'
        BY <2>1, <3>1 DEF pathVars, PathInv, Unread
      <3> QED  BY <3>2, <3>3, <3>4 DEF PathInv
    <2>2. CASE Next
      BY <2>2, PathRead, PathPut, PathGone, PathTake, PathFinish, PathDiscard DEF Next
    <2> QED  BY <2>1, <2>2
  <1>2. PathInv => OneOwner
    BY DEF PathInv
  <1> QED  BY <1>0, <1>1, <1>2, PTL DEF Spec
=============================================================================
