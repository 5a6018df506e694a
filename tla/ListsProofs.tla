----------------------------- MODULE ListsProofs ----------------------------
(***************************************************************************)
(* Proofs about the lists whose order and places matter: the queues of timers *)
(* (Timers), the parts of a datagram and what holds their packets (Fragments), *)
(* and the cached names in the order of their expiry (Dns).  The modules share no variable: each has its own *)
(* invariant, in a section of its own, after lemmas about lists they all need. *)
(***************************************************************************)
EXTENDS Timers, Fragments, Dns, FiniteSetTheorems, SequenceTheorems,
        WellFoundedInduction, TLAPS

-----------------------------------------------------------------------------
(* Sets of naturals have a least element, finite ones a greatest.          *)
SmallerNat == {pair \in Nat \X Nat : pair[1] < pair[2]}

LEMMA LeastNat ==
  ASSUME NEW T \in SUBSET Nat, T # {}
  PROVE  \E m \in T : \A n \in T : m <= n
  <1>1. IsWellFoundedOn(SmallerNat, Nat)
    BY NatLessThanWellFounded DEF OpToRel, SmallerNat
  <1>2. PICK m \in T : \A n \in T : ~ (<<n, m>> \in SmallerNat)
    BY <1>1, WFMin
  <1>3. ASSUME NEW n \in T PROVE m <= n
    <2>1. n \in Nat /\ m \in Nat /\ <<n, m>> \notin SmallerNat
      BY <1>2
    <2> QED  BY <2>1 DEF SmallerNat
  <1> QED  BY <1>3

LEMMA MinOfNats ==
  ASSUME NEW T \in SUBSET Nat, T # {}
  PROVE  Min(T) \in T /\ \A n \in T : Min(T) <= n
  BY LeastNat DEF Min

LEMMA GreatestNat ==
  ASSUME NEW T \in SUBSET Nat, T # {}, IsFiniteSet(T)
  PROVE  \E m \in T : \A n \in T : n <= m
  <1> DEFINE Above(e) == {s \in T : s > e}
             sizes == {Cardinality(Above(e)) : e \in T}
  <1>1. \A e \in T : IsFiniteSet(Above(e)) /\ Cardinality(Above(e)) \in Nat
    <2> TAKE e \in T
    <2>1. Above(e) \in SUBSET T
      OBVIOUS
    <2> QED  BY <2>1, FS_Subset, FS_CardinalityType
  <1>2. sizes \subseteq Nat /\ sizes # {}
    BY <1>1
  <1>3. PICK size \in sizes : \A n \in sizes : size <= n
    <2> HIDE DEF sizes
    <2> QED  BY <1>2, LeastNat
  <1>4. PICK m \in T : size = Cardinality(Above(m))
    BY <1>3
  <1>5. ASSUME NEW n \in T, n > m PROVE FALSE
    <2>1. Above(n) \in SUBSET Above(m) /\ n \in Above(m) /\ n \notin Above(n)
      <3>1. T \subseteq Nat /\ n \in Nat /\ m \in Nat
        OBVIOUS
      <3>2. \A s \in Nat : s > n => s > m
        BY <1>5, <3>1
      <3>3. Above(n) \in SUBSET Above(m)
        BY <3>1, <3>2
      <3>4. n \in Above(m) /\ n \notin Above(n)
        BY <1>5, <3>1
      <3> QED  BY <3>3, <3>4
    <2>2. Cardinality(Above(n)) <= Cardinality(Above(m)) /\ Cardinality(Above(n)) # Cardinality(Above(m))
      BY <1>1, <2>1, FS_Subset
    <2>3. size <= Cardinality(Above(n))
      BY <1>3, <1>5
    <2> HIDE DEF Above
    <2> QED  BY <1>1, <1>4, <2>2, <2>3
  <1> QED  BY <1>5

LEMMA MaxOfNats ==
  ASSUME NEW T \in SUBSET Nat, T # {}, IsFiniteSet(T)
  PROVE  Max(T) \in T /\ \A n \in T : n <= Max(T)
  <1>1. \E m \in T : \A n \in T : m >= n
    BY GreatestNat
  <1> QED  BY <1>1 DEF Max

-----------------------------------------------------------------------------
(* A queue without one of its places: what is left, from which places.     *)
LEMMA RemovedPlace ==
  ASSUME NEW S, NEW q \in Seq(S), NEW k \in DOMAIN q
  PROVE  /\ RemoveAt(q, k) \in Seq(S)
         /\ Len(RemoveAt(q, k)) = Len(q) - 1
         /\ \A i \in DOMAIN RemoveAt(q, k) :
              RemoveAt(q, k)[i] = q[IF i < k THEN i ELSE i + 1]
  <1> DEFINE u == SubSeq(q, 1, k - 1)
             v == SubSeq(q, k + 1, Len(q))
  <1>1. /\ Len(q) \in Nat /\ DOMAIN q = 1 .. Len(q) /\ k \in 1 .. Len(q)
        /\ \A i \in 1 .. Len(q) : q[i] \in S
    OBVIOUS
  <1>2. /\ u \in Seq(S) /\ Len(u) = k - 1
        /\ \A i \in 1 .. k - 1 : u[i] = q[i]
    <2>1. \A i \in 1 .. k - 1 : q[i] \in S
      BY <1>1
    <2> QED  BY <1>1, <2>1, SubSeqProperties
  <1>3. /\ v \in Seq(S) /\ Len(v) = Len(q) - k
        /\ \A i \in 1 .. Len(q) - k : v[i] = q[k + i]
    <2>1. \A i \in k + 1 .. Len(q) : q[i] \in S
      BY <1>1
    <2> QED  BY <1>1, <2>1, SubSeqProperties
  <1> HIDE DEF u, v
  <1>4. /\ u \o v \in Seq(S) /\ Len(u \o v) = Len(u) + Len(v)
        /\ \A i \in 1 .. Len(u) + Len(v) : (u \o v)[i] = IF i <= Len(u) THEN u[i] ELSE v[i - Len(u)]
    BY <1>2, <1>3, ConcatProperties
  <1>5. RemoveAt(q, k) = u \o v
    BY DEF RemoveAt, u, v
  <1> DEFINE w == u \o v
  <1>6. w \in Seq(S) /\ Len(w) = Len(q) - 1
    BY <1>1, <1>2, <1>3, <1>4
  <1>7. ASSUME NEW i \in 1 .. Len(q) - 1 PROVE w[i] = q[IF i < k THEN i ELSE i + 1]
    <2>1. CASE i < k
      BY <1>1, <1>2, <1>3, <1>4, <1>7, <2>1
    <2>2. CASE ~(i < k)
      <3>1. i - (k - 1) \in 1 .. Len(q) - k /\ k + (i - (k - 1)) = i + 1
        BY <1>1, <2>2
      <3>2. w[i] = v[i - (k - 1)]
        BY <1>1, <1>2, <1>3, <1>4, <1>7, <2>2, SMTT(30)
      <3>3. v[i - (k - 1)] = q[k + (i - (k - 1))]
        BY <1>3, <3>1
      <3> QED  BY <2>2, <3>1, <3>2, <3>3
    <2> QED  BY <2>1, <2>2
  <1>8. DOMAIN w = 1 .. Len(q) - 1
    <2>1. DOMAIN w = 1 .. Len(w)
      BY <1>6
    <2> HIDE DEF w
    <2> QED  BY <1>6, <2>1
  <1> HIDE DEF w
  <1> QED  BY <1>5, <1>6, <1>7, <1>8 DEF w
-----------------------------------------------------------------------------
(* The invariant.  One thread at most is in a pass, and the flag says so   *)
(* for as long as it is, for ever if a handler failed.                     *)
InPass(t) == tPc[t] \in {"walk", "handler", "dead"}

TimersTypeOK ==
  /\ clock \in [Workers -> Nat] /\ now \in [Workers -> Nat]
  /\ queues \in [Expiries -> Seq(Timers)] /\ expires \in [Timers -> Nat]
  /\ alive \subseteq Timers /\ touched \subseteq Expiries
  /\ tPc \in [Workers -> {"idle", "timers", "walk", "handler", "packet", "dead"}]
  /\ at \in [Workers -> Expiries] /\ taken \in [Workers -> Timers \cup {NoTimer}]
  /\ known \in [Workers -> SUBSET Workers]
  /\ processing \in BOOLEAN /\ packets \in Nat /\ changes \in Nat

OnePass == \A t \in Workers : InPass(t) =>
  processing /\ \A u \in Workers : InPass(u) => u = t

(* A timer that waits is allocated, and waits in one place.                *)
Once(qs) == \A e, f \in Expiries : \A i \in DOMAIN qs[e], j \in DOMAIN qs[f] :
  qs[e][i] = qs[f][j] => e = f /\ i = j

Holds(q, x) == \E i \in DOMAIN q : q[i] = x

QueuedOnce ==
  /\ \A x \in Timers, e \in Expiries : Holds(queues[e], x) => x \in alive
  /\ Once(queues)

(* The timer whose handler runs is allocated.  It may wait again already.  *)
TakenInv == \A t \in Workers :
  IF tPc[t] = "handler" THEN taken[t] \in alive ELSE taken[t] = NoTimer

(* No clock that counted when the pass began has gone back since.          *)
ClocksAhead == \A t \in Workers : tPc[t] \in {"walk", "handler"} =>
  \A u \in known[t] : now[t] <= clock[u]

(* The queues the pass has left behind.                                    *)
NothingDueBehind == \A t \in Workers : tPc[t] \in {"walk", "handler"} =>
  \A e \in Expiries \ touched : e < at[t] => DueHeads(queues[e], now[t]) = {}

TimersInv == TimersTypeOK /\ OnePass /\ QueuedOnce /\ TakenInv /\ ClocksAhead /\ NothingDueBehind
-----------------------------------------------------------------------------
LEMMA TimersInitial ==
  TimersInit => TimersInv
  <1> SUFFICES ASSUME TimersInit PROVE TimersInv
    OBVIOUS
  <1> USE TimersAssumption
  <1>1. Min(Expiries) \in Expiries
    BY MinOfNats
  <1>2. TimersTypeOK
    <2>1. <<>> \in Seq(Timers)
      OBVIOUS
    <2>2. queues \in [Expiries -> Seq(Timers)]
      BY <2>1 DEF TimersInit
    <2>3. clock \in [Workers -> Nat] /\ now \in [Workers -> Nat] /\ expires \in [Timers -> Nat]
      BY DEF TimersInit
    <2>4. /\ tPc \in [Workers -> {"idle", "timers", "walk", "handler", "packet", "dead"}]
          /\ at \in [Workers -> Expiries] /\ taken \in [Workers -> Timers \cup {NoTimer}]
          /\ known \in [Workers -> SUBSET Workers]
      BY <1>1 DEF TimersInit
    <2> QED  BY <2>2, <2>3, <2>4 DEF TimersInit, TimersTypeOK
  <1>3. QueuedOnce
    BY DEF TimersInit, QueuedOnce, Once, Holds
  <1> QED  BY <1>2, <1>3
              DEF TimersInit, TimersInv, OnePass, InPass, TakenInv, ClocksAhead,
                NothingDueBehind

LEMMA ShrunkOnce ==
  ASSUME NEW q, NEW r, Once(q),
         \A e \in Expiries : \E g \in [DOMAIN r[e] -> DOMAIN q[e]] :
           /\ \A i, j \in DOMAIN r[e] : g[i] = g[j] => i = j
           /\ \A i \in DOMAIN r[e] : r[e][i] = q[e][g[i]]
  PROVE  Once(r)
  <1> SUFFICES ASSUME NEW e \in Expiries, NEW f \in Expiries,
                      NEW i \in DOMAIN r[e], NEW j \in DOMAIN r[f], r[e][i] = r[f][j]
               PROVE  e = f /\ i = j
    BY DEF Once
  <1>1. PICK g \in [DOMAIN r[e] -> DOMAIN q[e]] :
           /\ \A a, b \in DOMAIN r[e] : g[a] = g[b] => a = b
           /\ \A a \in DOMAIN r[e] : r[e][a] = q[e][g[a]]
    OBVIOUS
  <1>2. PICK h \in [DOMAIN r[f] -> DOMAIN q[f]] :
           /\ \A a, b \in DOMAIN r[f] : h[a] = h[b] => a = b
           /\ \A a \in DOMAIN r[f] : r[f][a] = q[f][h[a]]
    OBVIOUS
  <1>3. g[i] \in DOMAIN q[e] /\ h[j] \in DOMAIN q[f] /\ q[e][g[i]] = q[f][h[j]]
    BY <1>1, <1>2
  <1>4. e = f /\ g[i] = h[j]
    BY <1>3 DEF Once
  <1>5. q[e][g[i]] = r[e][i] /\ \A a \in DOMAIN r[e] : q[e][g[a]] = r[e][a]
    BY <1>1
  <1>6. q[e][g[j]] = q[e][g[i]] /\ g[j] \in DOMAIN q[e] /\ j \in DOMAIN r[e]
    BY <1>1, <1>4, <1>5
  <1>7. g[j] = g[i]
    BY <1>3, <1>6 DEF Once
  <1> QED  BY <1>1, <1>4, <1>6, <1>7

LEMMA ShiftShrinks ==
  ASSUME NEW S, NEW q \in Seq(S), NEW k \in DOMAIN q
  PROVE  \E g \in [DOMAIN RemoveAt(q, k) -> DOMAIN q] :
           /\ \A i, j \in DOMAIN RemoveAt(q, k) : g[i] = g[j] => i = j
           /\ \A i \in DOMAIN RemoveAt(q, k) : RemoveAt(q, k)[i] = q[g[i]]
           /\ \A i \in DOMAIN RemoveAt(q, k) : g[i] # k
  <1> DEFINE r == RemoveAt(q, k)
  <1>1. /\ r \in Seq(S) /\ Len(r) = Len(q) - 1
        /\ \A i \in DOMAIN r : r[i] = q[IF i < k THEN i ELSE i + 1]
    BY RemovedPlace
  <1> HIDE DEF r
  <1>2. PICK n \in Nat : n = Len(q)
    OBVIOUS
  <1>3. DOMAIN q = 1 .. n /\ k \in 1 .. n
    BY <1>2
  <1>4. DOMAIN r = 1 .. n - 1
    <2>1. DOMAIN r = 1 .. Len(r)
      BY <1>1
    <2> QED  BY <1>1, <1>2, <2>1
  <1> DEFINE g == [i \in DOMAIN r |-> IF i < k THEN i ELSE i + 1]
  <1>5. g \in [DOMAIN r -> DOMAIN q]
    BY <1>3, <1>4
  <1>6. \A i, j \in DOMAIN r : g[i] = g[j] => i = j
    BY <1>3, <1>4
  <1>7. \A i \in DOMAIN r : r[i] = q[g[i]]
    BY <1>1
  <1>8. \A i \in DOMAIN r : g[i] # k
    BY <1>3, <1>4
  <1> HIDE DEF g
  <1> QED  BY <1>5, <1>6, <1>7, <1>8 DEF r

(* Without x: no place of x is left, and what is left was there.           *)
LEMMA WithoutQueues ==
  ASSUME TimersTypeOK, QueuedOnce, NEW x \in Timers
  PROVE  /\ Without(x) \in [Expiries -> Seq(Timers)]
         /\ Once(Without(x))
         /\ \A e \in Expiries :
              /\ ~Holds(Without(x)[e], x)
              /\ \A y : Holds(Without(x)[e], y) => Holds(queues[e], y)
              /\ ~Holds(queues[e], x) => Without(x)[e] = queues[e]
  <1> DEFINE w == Without(x)
             Map(e, g) ==
               /\ \A i, j \in DOMAIN w[e] : g[i] = g[j] => i = j
               /\ \A i \in DOMAIN w[e] : w[e][i] = queues[e][g[i]]
               /\ \A i \in DOMAIN w[e] : queues[e][g[i]] # x
  <1>1. ASSUME NEW e \in Expiries
        PROVE  /\ w[e] \in Seq(Timers)
               /\ \E g \in [DOMAIN w[e] -> DOMAIN queues[e]] : Map(e, g)
               /\ ~Holds(queues[e], x) => w[e] = queues[e]
    <2> DEFINE q == queues[e]
               k == PlaceIn(q, x)
    <2>1. q \in Seq(Timers)
      BY DEF TimersTypeOK
    <2>2. x \in Range(q) <=> Holds(q, x)
      BY DEF Range, Holds
    <2>3. CASE Holds(q, x)
      <3>1. k \in DOMAIN q /\ q[k] = x
        BY <2>3 DEF PlaceIn, Holds
      <3>2. w[e] = RemoveAt(q, k)
        BY <2>2, <2>3 DEF Without
      <3> HIDE DEF k
      <3>3. RemoveAt(q, k) \in Seq(Timers)
        BY <2>1, <3>1, RemovedPlace
      <3>4. PICK g \in [DOMAIN RemoveAt(q, k) -> DOMAIN q] :
              /\ \A i, j \in DOMAIN RemoveAt(q, k) : g[i] = g[j] => i = j
              /\ \A i \in DOMAIN RemoveAt(q, k) : RemoveAt(q, k)[i] = q[g[i]]
              /\ \A i \in DOMAIN RemoveAt(q, k) : g[i] # k
        BY <2>1, <3>1, ShiftShrinks
      <3>5. \A i \in DOMAIN q : i # k => q[i] # x
        BY <3>1 DEF QueuedOnce, Once
      <3>6. Map(e, g)
        BY <3>2, <3>4, <3>5
      <3>7. g \in [DOMAIN w[e] -> DOMAIN queues[e]]
        BY <3>2, <3>4
      <3> HIDE DEF Map, w
      <3> QED  BY <2>3, <3>2, <3>3, <3>6, <3>7
    <2>4. CASE ~Holds(q, x)
      <3>1. w[e] = q
        BY <2>2, <2>4 DEF Without
      <3> DEFINE g == [i \in DOMAIN q |-> i]
      <3>2. g \in [DOMAIN q -> DOMAIN q] /\ \A i \in DOMAIN q : g[i] = i
        OBVIOUS
      <3> HIDE DEF g, w
      <3>3. Map(e, g)
        BY <2>4, <3>1, <3>2 DEF Holds
      <3> HIDE DEF Map
      <3> QED  BY <2>1, <3>1, <3>2, <3>3
    <2> QED  BY <2>3, <2>4
  <1>2. w \in [Expiries -> Seq(Timers)]
    <2>1. w = [e \in Expiries |-> w[e]]
      BY DEF Without
    <2> HIDE DEF w
    <2> QED  BY <1>1, <2>1
  <1> HIDE DEF w
  <1>3. ASSUME NEW e \in Expiries
        PROVE  \E g \in [DOMAIN w[e] -> DOMAIN queues[e]] :
                 /\ \A i, j \in DOMAIN w[e] : g[i] = g[j] => i = j
                 /\ \A i \in DOMAIN w[e] : w[e][i] = queues[e][g[i]]
    BY <1>1
  <1>4. Once(w)
    BY <1>3, ShrunkOnce DEF QueuedOnce
  <1>5. ASSUME NEW e \in Expiries
        PROVE  /\ ~Holds(w[e], x)
               /\ \A y : Holds(w[e], y) => Holds(queues[e], y)
    <2>1. PICK g \in [DOMAIN w[e] -> DOMAIN queues[e]] : Map(e, g)
      BY <1>1
    <2> QED  BY <2>1 DEF Holds
  <1> QED  BY <1>1, <1>2, <1>4, <1>5 DEF w
-----------------------------------------------------------------------------
(* What a queue keeps: its timers, in their places, due when they were.    *)
LEMMA ClocksNat ==
  ASSUME TimersTypeOK
  PROVE  /\ Clocks \subseteq Nat /\ GetClock \in Nat /\ GetClockLast \in Nat
         /\ \A t \in Workers : clock[t] # 0 => GetClock <= clock[t]
  <1> USE TimersAssumption
  <1>1. 0 \in Workers
    BY DEF Workers
  <1>2. Clocks \in SUBSET Nat /\ Clocks # {}
    BY <1>1 DEF Clocks, TimersTypeOK
  <1>3. IsFiniteSet(Clocks)
    <2>1. IsFiniteSet(Workers)
      BY FS_Interval DEF Workers
    <2> DEFINE running == {u \in Workers : clock[u] # 0} \cup {0}
               f == [u \in running |-> clock[u]]
    <2>2. running \in SUBSET Workers
      BY <1>1
    <2>3. IsFiniteSet(running)
      <3> HIDE DEF running
      <3> QED  BY <2>1, <2>2, FS_Subset
    <2>4. f \in Surjection(running, Clocks)
      BY DEF Surjection, Clocks
    <2> HIDE DEF running, f
    <2> QED  BY <2>3, <2>4, FS_Surjection
  <1>4. GetClock \in Clocks /\ \A n \in Clocks : GetClock <= n
    BY <1>2, MinOfNats DEF GetClock
  <1>5. GetClockLast \in Clocks
    BY <1>2, <1>3, MaxOfNats DEF GetClockLast
  <1>6. \A t \in Workers : clock[t] # 0 => clock[t] \in Clocks
    BY DEF Clocks
  <1> QED  BY <1>2, <1>4, <1>5, <1>6

SameQueue(e) == queues'[e] = queues[e]

LEMMA QueueTimerEffect ==
  ASSUME TimersTypeOK, QueuedOnce, NEW x \in Timers, NEW e \in Expiries, NEW time \in Nat,
         QueueTimer(x, e, time), alive \subseteq alive', x \in alive'
  PROVE  /\ queues' \in [Expiries -> Seq(Timers)] /\ expires' \in [Timers -> Nat]
         /\ touched' \subseteq Expiries /\ touched \subseteq touched'
         /\ QueuedOnce'
         /\ \A f \in Expiries \ touched' : queues'[f] = queues[f] /\ ~Holds(queues[f], x)
         /\ \A y \in Timers : y # x => expires'[y] = expires[y]
         /\ \A f \in Expiries, y \in Timers : y # x /\ Holds(queues'[f], y) => Holds(queues[f], y)
  <1> USE TimersAssumption
  <1> DEFINE w == Without(x)
  <1>1. /\ w \in [Expiries -> Seq(Timers)]
        /\ Once(w)
        /\ \A f \in Expiries :
             /\ ~Holds(w[f], x)
             /\ \A y : Holds(w[f], y) => Holds(queues[f], y)
             /\ ~Holds(queues[f], x) => w[f] = queues[f]
    BY WithoutQueues
  <1>2. queues' = [w EXCEPT ![e] = Append(@, x)]
    BY DEF QueueTimer
  <1> HIDE DEF w
  <1>3. /\ expires' = [expires EXCEPT ![x] = time + e]
        /\ touched' = touched \cup {e} \cup QueueOf(x)
    BY DEF QueueTimer, Put, ExpiresAt
  <1>4. QueueOf(x) = {f \in Expiries : Holds(queues[f], x)}
    BY DEF QueueOf, Range, Holds
  <1>5. Append(w[e], x) \in Seq(Timers)
    BY <1>1
  <1>6. queues' \in [Expiries -> Seq(Timers)] /\ queues'[e] = Append(w[e], x)
        /\ \A f \in Expiries : f # e => queues'[f] = w[f]
    BY <1>1, <1>2, <1>5
  <1>7. expires' \in [Timers -> Nat] /\ \A y \in Timers : y # x => expires'[y] = expires[y]
    <2>1. time + e \in Nat
      OBVIOUS
    <2> QED  BY <1>3, <2>1 DEF TimersTypeOK
  <1>8. touched' \subseteq Expiries /\ touched \subseteq touched'
    BY <1>3, <1>4 DEF TimersTypeOK
  <1>9. \A f \in Expiries \ touched' : queues'[f] = queues[f] /\ ~Holds(queues[f], x)
    BY <1>1, <1>3, <1>4, <1>6
  <1>10. PICK n \in Nat : n = Len(w[e])
    BY <1>1
  <1>11. /\ DOMAIN w[e] = 1 .. n /\ DOMAIN queues'[e] = 1 .. n + 1
         /\ queues'[e][n + 1] = x
         /\ \A i \in 1 .. n : queues'[e][i] = w[e][i]
    BY <1>1, <1>6, <1>10
  <1>12. ASSUME NEW f \in Expiries, NEW y \in Timers, y # x, Holds(queues'[f], y)
         PROVE  Holds(queues[f], y)
    <2>1. Holds(w[f], y)
      <3>1. CASE f = e
        <4>1. PICK i \in 1 .. n + 1 : queues'[e][i] = y
          BY <1>11, <1>12, <3>1 DEF Holds
        <4>2. i \in 1 .. n
          BY <1>11, <1>12, <4>1
        <4> QED  BY <1>11, <3>1, <4>1, <4>2 DEF Holds
      <3>2. CASE f # e
        BY <1>6, <1>12, <3>2
      <3> QED  BY <3>1, <3>2
    <2> QED  BY <1>1, <2>1
  <1>13. Once(queues')
    <2> SUFFICES ASSUME NEW f \in Expiries, NEW g \in Expiries,
                        NEW i \in DOMAIN queues'[f], NEW j \in DOMAIN queues'[g],
                        queues'[f][i] = queues'[g][j]
                 PROVE  f = g /\ i = j
      BY DEF Once
    <2>1. ASSUME NEW h \in Expiries, NEW k \in DOMAIN queues'[h]
          PROVE  IF h = e /\ k = n + 1 THEN queues'[h][k] = x
                 ELSE k \in DOMAIN w[h] /\ queues'[h][k] = w[h][k] /\ queues'[h][k] # x
      <3>1. CASE h = e
        <4>1. CASE k = n + 1
          BY <1>11, <3>1, <4>1
        <4>2. CASE k # n + 1
          <5>1. k \in 1 .. n
            BY <1>11, <2>1, <3>1, <4>2
          <5>2. w[e][k] # x
            BY <1>1, <1>11, <5>1 DEF Holds
          <5> QED  BY <1>11, <3>1, <4>2, <5>1, <5>2
        <4> QED  BY <4>1, <4>2
      <3>2. CASE h # e
        BY <1>1, <1>6, <2>1, <3>2 DEF Holds
      <3> QED  BY <3>1, <3>2
    <2>2. CASE f = e /\ i = n + 1
      BY <2>1, <2>2
    <2>3. CASE g = e /\ j = n + 1
      BY <2>1, <2>3
    <2>4. CASE ~(f = e /\ i = n + 1) /\ ~(g = e /\ j = n + 1)
      <3>1. i \in DOMAIN w[f] /\ j \in DOMAIN w[g] /\ w[f][i] = w[g][j]
        BY <2>1, <2>4
      <3> QED  BY <1>1, <3>1 DEF Once
    <2> QED  BY <2>2, <2>3, <2>4
  <1>14. QueuedOnce'
    <2>1. ASSUME NEW y \in Timers, NEW f \in Expiries, Holds(queues'[f], y) PROVE y \in alive'
      BY <1>12, <2>1 DEF QueuedOnce
    <2> QED  BY <1>13, <2>1 DEF QueuedOnce, Once, Holds
  <1> QED  BY <1>6, <1>7, <1>8, <1>9, <1>12, <1>14

LEMMA FreeTimerEffect ==
  ASSUME TimersTypeOK, QueuedOnce, NEW x \in Timers, FreeTimer(x)
  PROVE  /\ queues' \in [Expiries -> Seq(Timers)] /\ expires' = expires
         /\ touched' \subseteq Expiries /\ touched \subseteq touched'
         /\ alive' = alive \ {x}
         /\ QueuedOnce'
         /\ \A f \in Expiries \ touched' : queues'[f] = queues[f] /\ ~Holds(queues[f], x)
         /\ \A f \in Expiries, y \in Timers : Holds(queues'[f], y) => Holds(queues[f], y)
  <1>1. /\ queues' = Without(x) /\ alive' = alive \ {x} /\ expires' = expires
        /\ touched' = touched \cup QueueOf(x)
    BY DEF FreeTimer
  <1>2. /\ queues' \in [Expiries -> Seq(Timers)]
        /\ Once(queues')
        /\ \A f \in Expiries :
             /\ ~Holds(queues'[f], x)
             /\ \A y : Holds(queues'[f], y) => Holds(queues[f], y)
             /\ ~Holds(queues[f], x) => queues'[f] = queues[f]
    BY <1>1, WithoutQueues
  <1>3. QueueOf(x) = {f \in Expiries : Holds(queues[f], x)}
    BY DEF QueueOf, Range, Holds
  <1>4. ASSUME NEW y \in Timers, NEW f \in Expiries, Holds(queues'[f], y) PROVE y \in alive'
    BY <1>1, <1>2, <1>4 DEF QueuedOnce
  <1>5. QueuedOnce'
    BY <1>2, <1>4 DEF QueuedOnce, Once, Holds
  <1> QED  BY <1>1, <1>2, <1>3, <1>5 DEF TimersTypeOK
-----------------------------------------------------------------------------
LEMMA ExpiriesMinMax ==
  /\ Min(Expiries) \in Expiries /\ \A e \in Expiries : Min(Expiries) <= e
  /\ Max(Expiries) \in Expiries /\ \A e \in Expiries : e <= Max(Expiries)
  <1>1. Expiries \in SUBSET Nat /\ Expiries # {} /\ IsFiniteSet(Expiries)
    BY TimersAssumption
  <1> QED  BY <1>1, MinOfNats, MaxOfNats

(* Steps that touch neither timers nor the pass.                           *)
LEMMA OutsideThePass ==
  ASSUME TimersInv, NEW t \in Workers, NEW l \in {"idle", "timers", "packet"},
         ~InPass(t), Goto(t, l), clock' \in [Workers -> Nat],
         \A w \in Workers : clock[w] <= clock'[w],
         UNCHANGED <<alive, queues, expires, processing, at, taken, now, known, touched, changes>>,
         packets' \in Nat
  PROVE  TimersInv'
  <1>1. TimersTypeOK'
    BY DEF TimersInv, TimersTypeOK, Goto
  <1>2. /\ tPc'[t] = l /\ \A w \in Workers : w # t => tPc'[w] = tPc[w]
        /\ \A w \in Workers : InPass(w)' => InPass(w)
        /\ \A w \in Workers : tPc'[w] \in {"walk", "handler"} <=> tPc[w] \in {"walk", "handler"}
        /\ \A w \in Workers : tPc'[w] = "handler" <=> tPc[w] = "handler"
    BY DEF Goto, TimersInv, TimersTypeOK, InPass
  <1>3. OnePass'
    BY <1>2 DEF TimersInv, OnePass
  <1>4. QueuedOnce' /\ TakenInv' /\ NothingDueBehind'
    BY <1>2
       DEF TimersInv, QueuedOnce, Once, Holds, TakenInv, NothingDueBehind, DueHeads, Due
  <1>5. ClocksAhead'
    <2> SUFFICES ASSUME NEW w \in Workers, tPc[w] \in {"walk", "handler"}, NEW o \in known[w]
                 PROVE  now[w] <= clock'[o]
      BY <1>2 DEF ClocksAhead
    <2>1. o \in Workers /\ now[w] \in Nat /\ clock[o] \in Nat /\ clock'[o] \in Nat
      BY <1>1 DEF TimersInv, TimersTypeOK
    <2>2. now[w] <= clock[o] /\ clock[o] <= clock'[o]
      BY <2>1 DEF TimersInv, ClocksAhead
    <2> QED  BY <2>1, <2>2
  <1> QED  BY <1>1, <1>3, <1>4, <1>5 DEF TimersInv

LEMMA PacketStep ==
  ASSUME TimersInv, NEW t \in Workers, NEW stamp \in 1 .. MaxTs, Packet(t, stamp)
  PROVE  TimersInv'
  <1>1. clock \in [Workers -> Nat] /\ stamp \in Nat /\ packets' \in Nat
    BY TimersAssumption DEF TimersInv, TimersTypeOK, Packet
  <1>2. clock' = IF clock[t] < stamp THEN [clock EXCEPT ![t] = stamp] ELSE clock
    BY DEF Packet, Put
  <1>3. clock' \in [Workers -> Nat]
    BY <1>1, <1>2
  <1>4. \A w \in Workers : clock[w] <= clock'[w]
    BY <1>1, <1>2
  <1>5. /\ ~InPass(t) /\ Goto(t, "timers")
        /\ UNCHANGED <<alive, queues, expires, processing, at, taken, now, known, touched, changes>>
    BY DEF Packet, InPass
  <1> QED  BY <1>1, <1>3, <1>4, <1>5, OutsideThePass

LEMMA OutsideStep ==
  ASSUME TimersInv, NEW t \in Workers, GiveUp(t) \/ PacketDone(t)
  PROVE  TimersInv'
  <1>1. clock \in [Workers -> Nat] /\ packets \in Nat
    BY DEF TimersInv, TimersTypeOK
  <1>2. clock' = clock /\ packets' = packets /\ ~InPass(t)
        /\ UNCHANGED <<alive, queues, expires, processing, at, taken, now, known, touched, changes>>
    BY DEF GiveUp, PacketDone, InPass
  <1>3. \A w \in Workers : clock[w] <= clock'[w]
    BY <1>1, <1>2
  <1>4. \E l \in {"idle", "timers", "packet"} : Goto(t, l)
    BY DEF GiveUp, PacketDone
  <1> QED  BY <1>1, <1>2, <1>3, <1>4, OutsideThePass

LEMMA BeginStep ==
  ASSUME TimersInv, NEW t \in Workers, Begin(t)
  PROVE  TimersInv'
  <1> USE DEF TimersInv
  <1>1. /\ tPc[t] = "timers" /\ ~processing /\ processing' = TRUE
        /\ now' = [now EXCEPT ![t] = GetClock] /\ at' = [at EXCEPT ![t] = Min(Expiries)]
        /\ known' = [known EXCEPT ![t] = {o \in Workers : clock[o] # 0}]
        /\ touched' = {} /\ tPc' = [tPc EXCEPT ![t] = "walk"]
        /\ UNCHANGED <<clock, alive, queues, expires, taken, packets, changes>>
    BY DEF Begin, MayStart, Goto, Put
  <1>2. TimersTypeOK'
    BY <1>1, ClocksNat, ExpiriesMinMax DEF TimersTypeOK
  <1>3. \A w \in Workers : ~InPass(w)
    BY <1>1 DEF OnePass
  <1>4. /\ tPc'[t] = "walk" /\ now'[t] = GetClock /\ at'[t] = Min(Expiries)
        /\ known'[t] = {o \in Workers : clock[o] # 0}
        /\ \A w \in Workers : w # t => tPc'[w] = tPc[w] /\ ~InPass(w)'
    BY <1>1, <1>3 DEF TimersTypeOK, InPass
  <1>5. OnePass'
    BY <1>1, <1>4 DEF OnePass
  <1>6. QueuedOnce'
    BY <1>1 DEF QueuedOnce, Once, Holds
  <1>7. TakenInv'
    BY <1>1, <1>3, <1>4 DEF TakenInv, InPass
  <1>8. ClocksAhead'
    BY <1>1, <1>4, ClocksNat DEF ClocksAhead, InPass
  <1>9. NothingDueBehind'
    <2>1. ASSUME NEW e \in Expiries, e < at'[t] PROVE FALSE
      <3>1. e \in Nat /\ Min(Expiries) \in Nat
        BY ExpiriesMinMax, TimersAssumption
      <3> QED  BY <1>4, <2>1, <3>1, ExpiriesMinMax
    <2> QED  BY <1>4, <2>1 DEF NothingDueBehind, InPass
  <1> QED  BY <1>2, <1>5, <1>6, <1>7, <1>8, <1>9

LEMMA TakeStep ==
  ASSUME TimersInv, NEW t \in Workers, Take(t)
  PROVE  TimersInv'
  <1> USE DEF TimersInv
  <1> DEFINE e == at[t]
             q == queues[e]
  <1>1. PICK x \in DueHeads(q, now[t]) : taken' = [taken EXCEPT ![t] = x]
    BY DEF Take, Put
  <1>2. /\ tPc[t] = "walk" /\ tPc' = [tPc EXCEPT ![t] = "handler"]
        /\ queues' = [queues EXCEPT ![e] = Tail(@)]
        /\ UNCHANGED <<clock, alive, expires, processing, at, now, known, touched, packets, changes>>
    BY DEF Take, Goto
  <1>3. e \in Expiries /\ q \in Seq(Timers) /\ now[t] \in Nat
    BY DEF TimersTypeOK
  <1>4. Holds(q, x) /\ x = Head(q) /\ expires[x] < now[t]
    BY <1>1 DEF DueHeads, Due, Range, Holds
  <1>5. q # <<>> /\ x \in Timers /\ 1 \in DOMAIN q /\ q[1] = x
    BY <1>3, <1>4 DEF Holds
  <1>6. PICK n \in Nat : n = Len(q)
    BY <1>3
  <1>7. /\ Tail(q) \in Seq(Timers) /\ DOMAIN q = 1 .. n /\ DOMAIN Tail(q) = 1 .. n - 1
        /\ \A i \in 1 .. n - 1 : Tail(q)[i] = q[i + 1]
    BY <1>3, <1>5, <1>6, HeadTailProperties
  <1> HIDE DEF e, q
  <1>8. TimersTypeOK'
    <2>1. queues' \in [Expiries -> Seq(Timers)]
      BY <1>2, <1>3, <1>7 DEF TimersTypeOK, q
    <2>2. tPc' \in [Workers -> {"idle", "timers", "walk", "handler", "packet", "dead"}]
      BY <1>2 DEF TimersTypeOK
    <2>3. taken' \in [Workers -> Timers \cup {NoTimer}]
      BY <1>1, <1>5 DEF TimersTypeOK
    <2> QED  BY <1>2, <2>1, <2>2, <2>3 DEF TimersTypeOK
  <1>9. queues'[e] = Tail(q) /\ \A f \in Expiries : f # e => queues'[f] = queues[f]
    BY <1>2, <1>3 DEF TimersTypeOK, q
  <1>10. /\ tPc'[t] = "handler" /\ taken'[t] = x
         /\ \A w \in Workers : w # t => tPc'[w] = tPc[w] /\ taken'[w] = taken[w] /\ ~InPass(w)
    BY <1>1, <1>2 DEF TimersTypeOK, OnePass, InPass
  <1>11. OnePass'
    BY <1>2, <1>10 DEF OnePass, InPass
  <1>12. \A f \in Expiries : \E g \in [DOMAIN queues'[f] -> DOMAIN queues[f]] :
           /\ \A i, j \in DOMAIN queues'[f] : g[i] = g[j] => i = j
           /\ \A i \in DOMAIN queues'[f] : queues'[f][i] = queues[f][g[i]]
           /\ f = e => \A i \in DOMAIN queues'[f] : g[i] # 1
    <2> TAKE f \in Expiries
    <2>1. CASE f = e
      <3> DEFINE g == [i \in 1 .. n - 1 |-> i + 1]
      <3>1. g \in [1 .. n - 1 -> 1 .. n] /\ \A i \in 1 .. n - 1 : g[i] = i + 1
        OBVIOUS
      <3> HIDE DEF g
      <3>2. \A i, j \in 1 .. n - 1 : g[i] = g[j] => i = j
        BY <3>1
      <3>3. \A i \in 1 .. n - 1 : Tail(q)[i] = q[g[i]] /\ g[i] # 1
        BY <1>7, <3>1
      <3>4. queues'[f] = Tail(q) /\ queues[f] = q
        BY <1>9, <2>1 DEF q
      <3>5. DOMAIN queues'[f] = 1 .. n - 1 /\ DOMAIN queues[f] = 1 .. n
        BY <1>7, <3>4
      <3>6. g \in [DOMAIN queues'[f] -> DOMAIN queues[f]]
        BY <3>1, <3>5
      <3>7. \A i, j \in DOMAIN queues'[f] : g[i] = g[j] => i = j
        BY <3>2, <3>5
      <3>8. \A i \in DOMAIN queues'[f] : queues'[f][i] = queues[f][g[i]] /\ g[i] # 1
        BY <3>3, <3>4, <3>5
      <3> WITNESS g \in [DOMAIN queues'[f] -> DOMAIN queues[f]]
      <3> QED  BY <3>7, <3>8
    <2>2. CASE f # e
      <3> DEFINE g == [i \in DOMAIN queues[f] |-> i]
      <3>1. g \in [DOMAIN queues[f] -> DOMAIN queues[f]] /\ \A i \in DOMAIN queues[f] : g[i] = i
        OBVIOUS
      <3> HIDE DEF g
      <3> QED  BY <1>9, <2>2, <3>1
    <2> QED  BY <2>1, <2>2
  <1>13. Once(queues) /\ Once(queues')
    BY <1>12, ShrunkOnce DEF QueuedOnce
  <1>14. \A f \in Expiries, y \in Timers : Holds(queues'[f], y) => Holds(queues[f], y) /\ y # x
    <2> SUFFICES ASSUME NEW f \in Expiries, NEW i \in DOMAIN queues'[f]
                 PROVE  Holds(queues[f], queues'[f][i]) /\ queues'[f][i] # x
      BY DEF Holds
    <2>1. PICK g \in [DOMAIN queues'[f] -> DOMAIN queues[f]] :
           /\ \A k \in DOMAIN queues'[f] : queues'[f][k] = queues[f][g[k]]
           /\ f = e => \A k \in DOMAIN queues'[f] : g[k] # 1
      BY <1>12
    <2>2. g[i] \in DOMAIN queues[f] /\ queues'[f][i] = queues[f][g[i]] /\ (f = e => g[i] # 1)
      BY <2>1
    <2>3. queues[e][1] = x /\ 1 \in DOMAIN queues[e]
      BY <1>5 DEF q
    <2>4. queues[f][g[i]] # x
      BY <1>3, <1>13, <2>2, <2>3 DEF Once
    <2> QED  BY <2>2, <2>4 DEF Holds
  <1>15. x \in alive
    BY <1>3, <1>4, <1>5 DEF QueuedOnce, q
  <1>16. QueuedOnce'
    BY <1>2, <1>13, <1>14 DEF QueuedOnce, Once, Holds
  <1>17. TakenInv'
    BY <1>2, <1>10, <1>15 DEF TakenInv, InPass
  <1>18. ClocksAhead'
    BY <1>2, <1>10 DEF ClocksAhead, InPass
  <1>19. NothingDueBehind'
    <2> SUFFICES ASSUME NEW f \in Expiries \ touched, f < at[t]
                 PROVE  (DueHeads(queues[f], now[t]) = {})'
      BY <1>2, <1>10 DEF NothingDueBehind, InPass
    <2>1. f # e
      <3>1. e \in Nat /\ f < e
        BY <1>3, TimersAssumption DEF e
      <3> HIDE DEF e
      <3> QED  BY <3>1
    <2>2. queues'[f] = queues[f] /\ DueHeads(queues[f], now[t]) = {}
      BY <1>2, <1>9, <2>1 DEF NothingDueBehind
    <2>3. expires' = expires /\ now' = now
      BY <1>2
    <2> QED  BY <2>2, <2>3 DEF DueHeads, Due
  <1> QED  BY <1>8, <1>11, <1>16, <1>17, <1>18, <1>19

LEMMA NextQueueStep ==
  ASSUME TimersInv, NEW t \in Workers, NextQueue(t)
  PROVE  TimersInv'
  <1> USE DEF TimersInv
  <1> DEFINE beyond == {e \in Expiries : e > at[t]}
  <1>1. /\ tPc[t] = "walk" /\ HeadNotDue(t) /\ at[t] # Max(Expiries)
        /\ at' = [at EXCEPT ![t] = Min(beyond)]
        /\ UNCHANGED <<clock, alive, queues, expires, processing, tPc, taken, now, known,
                       touched, packets, changes>>
    BY DEF NextQueue, Put
  <1>2. at[t] \in Expiries /\ \A e \in Expiries : e \in Nat
    BY TimersAssumption DEF TimersTypeOK
  <1>3. beyond \in SUBSET Nat /\ beyond # {}
    BY <1>1, <1>2, ExpiriesMinMax
  <1> HIDE DEF beyond
  <1>4. Min(beyond) \in beyond /\ \A e \in beyond : Min(beyond) <= e
    BY <1>3, MinOfNats
  <1>5. \A e \in Expiries : e < Min(beyond) => e <= at[t]
    BY <1>2, <1>4 DEF beyond
  <1>6. TimersTypeOK'
    BY <1>1, <1>4 DEF TimersTypeOK, beyond
  <1>7. OnePass' /\ QueuedOnce' /\ TakenInv' /\ ClocksAhead'
    BY <1>1 DEF OnePass, InPass, QueuedOnce, Once, Holds, TakenInv, ClocksAhead
  <1>8. at'[t] = Min(beyond) /\ \A w \in Workers : w # t => ~InPass(w)
    BY <1>1 DEF TimersTypeOK, OnePass, InPass
  <1>9. NothingDueBehind'
    <2> SUFFICES ASSUME NEW f \in Expiries \ touched, f < Min(beyond)
                 PROVE  DueHeads(queues[f], now[t]) = {}
      BY <1>1, <1>8 DEF NothingDueBehind, InPass, DueHeads, Due
    <2>1. f = at[t] \/ f < at[t]
      BY <1>2, <1>5
    <2> QED  BY <1>1, <2>1 DEF NothingDueBehind, HeadNotDue
  <1> QED  BY <1>6, <1>7, <1>9

(* Steps that end the pass of t, or its handler and with it its thread.    *)
LEMMA PassEnds ==
  ASSUME TimersInv, NEW t \in Workers, EndPass(t) \/ HandlerFails(t)
  PROVE  TimersInv'
  <1> USE DEF TimersInv
  <1>1. /\ InPass(t)
        /\ UNCHANGED <<clock, alive, queues, expires, at, now, known, touched, packets, changes>>
    BY DEF EndPass, HandlerFails, Handled, InPass
  <1>2. \E l \in {"packet", "dead"} :
          /\ tPc' = [tPc EXCEPT ![t] = l]
          /\ l = "dead" => processing' = processing
          /\ processing' \in BOOLEAN
    BY DEF EndPass, HandlerFails, Handled, Goto, TimersTypeOK
  <1>3. PICK l \in {"packet", "dead"} :
          /\ tPc' = [tPc EXCEPT ![t] = l]
          /\ l = "dead" => processing' = processing
          /\ processing' \in BOOLEAN
    BY <1>2
  <1>4. taken' \in [Workers -> Timers \cup {NoTimer}] /\ taken'[t] = NoTimer
        /\ \A w \in Workers : w # t => taken'[w] = taken[w]
    BY DEF EndPass, HandlerFails, Handled, Put, TimersTypeOK, TakenInv
  <1>5. TimersTypeOK'
    BY <1>1, <1>3, <1>4 DEF TimersTypeOK
  <1>6. /\ tPc'[t] = l
        /\ \A w \in Workers : w # t => tPc'[w] = tPc[w] /\ ~InPass(w) /\ ~InPass(w)'
    BY <1>1, <1>3 DEF TimersTypeOK, OnePass, InPass
  <1>7. OnePass'
    BY <1>1, <1>3, <1>6 DEF OnePass, InPass
  <1>8. QueuedOnce'
    BY <1>1 DEF QueuedOnce, Once, Holds
  <1>9. TakenInv'
    BY <1>1, <1>4, <1>6 DEF TakenInv, InPass, Holds
  <1>10. ClocksAhead' /\ NothingDueBehind'
    BY <1>6 DEF ClocksAhead, NothingDueBehind, InPass
  <1> QED  BY <1>5, <1>7, <1>8, <1>9, <1>10

LEMMA TimerHandledStep ==
  ASSUME TimersInv, NEW t \in Workers, TimerHandled(t)
  PROVE  TimersInv'
  <1> USE DEF TimersInv
  <1> DEFINE x == taken[t]
  <1>1. /\ tPc[t] = "handler" /\ taken' = [taken EXCEPT ![t] = NoTimer]
        /\ tPc' = [tPc EXCEPT ![t] = "walk"]
        /\ UNCHANGED <<clock, processing, at, now, known, packets, changes>>
    BY DEF TimerHandled, Handled, Goto, Put
  <1>2. x \in alive /\ x \in Timers
    BY <1>1 DEF TakenInv, TimersTypeOK
  <1> HIDE DEF x
  <1>3. /\ queues' \in [Expiries -> Seq(Timers)] /\ expires' \in [Timers -> Nat]
        /\ touched' \subseteq Expiries /\ touched \subseteq touched'
        /\ alive' \subseteq alive
        /\ QueuedOnce'
        /\ \A f \in Expiries \ touched' :
             queues'[f] = queues[f] /\ (Holds(queues[f], x) => expires' = expires)
        /\ \A y \in Timers : y # x => expires'[y] = expires[y]
    <2>1. CASE UNCHANGED <<alive, queues, expires, touched>>
      <3>1. QueuedOnce'
        BY <2>1 DEF QueuedOnce, Once, Holds
      <3> QED  BY <2>1, <3>1 DEF TimersTypeOK
    <2>2. CASE FreeTimer(x)
      <3>1. expires' \in [Timers -> Nat]
        BY <1>2, <2>2, FreeTimerEffect DEF TimersTypeOK
      <3> QED  BY <1>2, <2>2, <3>1, FreeTimerEffect
    <2>3. ASSUME NEW e \in Expiries, QueueTimer(x, e, GetClockLast), alive' = alive
          PROVE  <1>3!:
      BY <1>2, <2>3, ClocksNat, QueueTimerEffect
    <2> QED  BY <2>1, <2>2, <2>3 DEF TimerHandled, x
  <1>4. /\ tPc'[t] = "walk" /\ taken'[t] = NoTimer
        /\ \A w \in Workers : w # t => tPc'[w] = tPc[w] /\ taken'[w] = taken[w] /\ ~InPass(w)
    BY <1>1 DEF TimersTypeOK, OnePass, InPass
  <1>5. TimersTypeOK'
    <2>1. tPc' \in [Workers -> {"idle", "timers", "walk", "handler", "packet", "dead"}]
      BY <1>1 DEF TimersTypeOK
    <2>2. taken' \in [Workers -> Timers \cup {NoTimer}] /\ alive' \subseteq Timers
      BY <1>1, <1>3 DEF TimersTypeOK
    <2> QED  BY <1>1, <1>3, <2>1, <2>2 DEF TimersTypeOK
  <1>6. OnePass'
    BY <1>1, <1>4 DEF OnePass, InPass
  <1>7. TakenInv'
    BY <1>4 DEF TakenInv, InPass
  <1>8. ClocksAhead'
    BY <1>1, <1>4 DEF ClocksAhead, InPass
  <1>9. NothingDueBehind'
    <2> SUFFICES ASSUME NEW f \in Expiries \ touched', f < at[t]
                 PROVE  (DueHeads(queues[f], now[t]) = {})'
      BY <1>1, <1>4 DEF NothingDueBehind, InPass
    <2>1. /\ queues'[f] = queues[f] /\ f \notin touched
          /\ Holds(queues[f], x) => expires' = expires
      BY <1>3
    <2>2. DueHeads(queues[f], now[t]) = {}
      BY <1>1, <2>1 DEF NothingDueBehind
    <2>3. \A y \in Range(queues[f]) : expires'[y] = expires[y]
      BY <1>3, <2>1 DEF Range, Holds, TimersTypeOK
    <2> QED  BY <1>1, <2>1, <2>2, <2>3 DEF DueHeads, Due
  <1> QED  BY <1>3, <1>5, <1>6, <1>7, <1>8, <1>9

LEMMA UseStep ==
  ASSUME TimersInv, NEW t \in Workers, NEW x \in Timers, Use(t, x)
  PROVE  TimersInv'
  <1> USE DEF TimersInv
  <1>1. /\ changes' = changes + 1
        /\ UNCHANGED <<clock, processing, tPc, at, taken, now, known, packets>>
    BY DEF Use
  <1>2. /\ queues' \in [Expiries -> Seq(Timers)] /\ expires' \in [Timers -> Nat]
        /\ touched' \subseteq Expiries /\ touched \subseteq touched'
        /\ alive' \subseteq Timers
        /\ \A w \in Workers : taken[w] \in alive => taken[w] \in alive'
        /\ QueuedOnce'
        /\ \A f \in Expiries \ touched' : queues'[f] = queues[f] /\ ~Holds(queues[f], x)
        /\ \A y \in Timers : y # x => expires'[y] = expires[y]
        /\ \A f \in Expiries, y \in Timers : y # x /\ Holds(queues'[f], y) => Holds(queues[f], y)
    <2>1. alive \subseteq Timers
      BY DEF TimersTypeOK
    <2>2. CASE x \in alive /\ (\A u \in Workers : taken[u] # x) /\ FreeTimer(x)
      <3>1. expires' \in [Timers -> Nat]
        BY <2>2, FreeTimerEffect DEF TimersTypeOK
      <3> QED  BY <2>1, <2>2, <3>1, FreeTimerEffect
    <2>3. ASSUME NEW e \in Expiries, NEW time \in {clock[t], GetClockLast},
                 QueueTimer(x, e, time), alive' = alive \cup {x}
          PROVE  <1>2!:
      <3>1. time \in Nat
        BY ClocksNat DEF TimersTypeOK
      <3>2. alive \subseteq alive' /\ x \in alive' /\ alive' \subseteq Timers
        BY <2>1, <2>3
      <3> QED  BY <2>3, <3>1, <3>2, QueueTimerEffect
    <2> QED  BY <2>2, <2>3 DEF Use
  <1>3. TimersTypeOK'
    BY <1>1, <1>2 DEF TimersTypeOK
  <1>4. OnePass' /\ ClocksAhead'
    BY <1>1 DEF OnePass, InPass, ClocksAhead
  <1>5. TakenInv'
    BY <1>1, <1>2 DEF TakenInv
  <1>6. NothingDueBehind'
    <2> SUFFICES ASSUME NEW w \in Workers, tPc[w] \in {"walk", "handler"},
                        NEW f \in Expiries \ touched', f < at[w]
                 PROVE  (DueHeads(queues[f], now[w]) = {})'
      BY <1>1 DEF NothingDueBehind
    <2>1. queues'[f] = queues[f] /\ ~Holds(queues[f], x) /\ f \notin touched
      BY <1>2
    <2>2. DueHeads(queues[f], now[w]) = {}
      BY <2>1 DEF NothingDueBehind
    <2>3. \A y \in Range(queues[f]) : expires'[y] = expires[y]
      BY <1>2, <2>1 DEF Range, Holds, TimersTypeOK
    <2> QED  BY <1>1, <2>1, <2>2, <2>3 DEF DueHeads, Due
  <1> QED  BY <1>2, <1>3, <1>4, <1>5, <1>6

LEMMA TimersStepKeeps ==
  ASSUME TimersInv, [TimersNext]_timerVars
  PROVE  TimersInv'
  <1>1. CASE UNCHANGED timerVars
    BY <1>1
       DEF timerVars, TimersInv, TimersTypeOK, OnePass, InPass, QueuedOnce, Once, Holds,
                TakenInv, ClocksAhead, NothingDueBehind, DueHeads, Due
  <1>2. ASSUME NEW t \in Workers, NEW stamp \in 1 .. MaxTs, Packet(t, stamp) PROVE TimersInv'
    BY <1>2, PacketStep
  <1>3. ASSUME NEW t \in Workers, NEW x \in Timers, Use(t, x) PROVE TimersInv'
    BY <1>3, UseStep
  <1>4. ASSUME NEW t \in Workers, TimersStep(t) \/ HandlerFails(t) PROVE TimersInv'
    BY <1>4, BeginStep, OutsideStep, TakeStep, NextQueueStep, PassEnds, TimerHandledStep
       DEF TimersStep
  <1> QED  BY <1>1, <1>2, <1>3, <1>4 DEF TimersNext

(* In every reachable state a waiting timer is queued once, one thread at  *)
(* most is in a pass of timers_process, and no timer that is due is behind *)
(* the place where the pass stands.                                        *)
THEOREM TimersInvariant == TimersSpec => []TimersInv
  BY TimersInitial, TimersStepKeeps, PTL DEF TimersSpec

-----------------------------------------------------------------------------
(* The variables of timer.c keep their types.                              *)
THEOREM TimersTypes == TimersSpec => []TimersTypeOK
  <1>1. TimersInv => TimersTypeOK
    BY DEF TimersInv
  <1> QED  BY <1>1, TimersInvariant, PTL

(* A timer that waits is allocated and is in one queue, once, whatever     *)
(* packets and handlers do with it: timer_queue_now and timer_cleanup take *)
(* it from where it waits, and the handler's timer may wait again.         *)
THEOREM QueuedOnlyOnce == TimersSpec => []QueuedOnce
  <1>1. TimersInv => QueuedOnce
    BY DEF TimersInv
  <1> QED  BY <1>1, TimersInvariant, PTL

(* No timer is taken for a time that a thread with a clock has yet to      *)
(* reach: timers_process goes by the slowest of them, and no clock goes    *)
(* back.                                                                   *)
THEOREM TimersFireBehind == TimersSpec => FiresBehindEveryThread
  <1> DEFINE FireBehind == \A t \in Workers : tPc[t] = "walk" /\ tPc'[t] = "handler" =>
        \A u \in known[t] : expires[taken'[t]] < clock[u]
  <1>1. TimersInv /\ [TimersNext]_timerVars => [FireBehind]_timerVars
    <2> SUFFICES ASSUME TimersInv, TimersNext, NEW t \in Workers,
                        tPc[t] = "walk", tPc'[t] = "handler", NEW u \in known[t]
                 PROVE  expires[taken'[t]] < clock[u]
      OBVIOUS
    <2>1. /\ tPc \in [Workers -> {"idle", "timers", "walk", "handler", "packet", "dead"}]
          /\ taken \in [Workers -> Timers \cup {NoTimer}] /\ queues[at[t]] \in Seq(Timers)
          /\ u \in Workers
      BY DEF TimersInv, TimersTypeOK
    <2>2. Take(t)
      BY <2>1
         DEF TimersNext, TimersStep, Packet, Use, Begin, GiveUp, Take, NextQueue, EndPass,
                  TimerHandled, HandlerFails, Handled, PacketDone, Goto
    <2>3. PICK x \in DueHeads(queues[at[t]], now[t]) : taken' = [taken EXCEPT ![t] = x]
      BY <2>2 DEF Take, Put
    <2>4. x \in Timers /\ expires[x] < now[t] /\ taken'[t] = x
      BY <2>1, <2>3 DEF DueHeads, Due, Range
    <2>5. now[t] <= clock[u]
      BY DEF TimersInv, ClocksAhead
    <2>6. expires[x] \in Nat /\ now[t] \in Nat /\ clock[u] \in Nat
      BY <2>1, <2>4 DEF TimersInv, TimersTypeOK
    <2> QED  BY <2>4, <2>5, <2>6
  <1> QED  BY <1>1, TimersInvariant, PTL DEF FiresBehindEveryThread, TimersSpec

(* When a pass ends, the timer at the head of every queue nobody changed   *)
(* during the pass is not due.                                             *)
THEOREM PassFiresAllDue == TimersSpec => DueFired
  <1> DEFINE Fired == \A t \in Workers : tPc[t] = "walk" /\ tPc'[t] = "packet" =>
        \A e \in Expiries \ touched : DueHeads(queues[e], now[t]) = {}
  <1>1. TimersInv /\ [TimersNext]_timerVars => [Fired]_timerVars
    <2> SUFFICES ASSUME TimersInv, TimersNext, NEW t \in Workers,
                        tPc[t] = "walk", tPc'[t] = "packet", NEW e \in Expiries \ touched
                 PROVE  DueHeads(queues[e], now[t]) = {}
      OBVIOUS
    <2>1. tPc \in [Workers -> {"idle", "timers", "walk", "handler", "packet", "dead"}]
      BY DEF TimersInv, TimersTypeOK
    <2>2. EndPass(t)
      BY <2>1
         DEF TimersNext, TimersStep, Packet, Use, Begin, GiveUp, Take, NextQueue, EndPass,
                  TimerHandled, HandlerFails, Handled, PacketDone, Goto
    <2>3. at[t] = Max(Expiries) /\ DueHeads(queues[at[t]], now[t]) = {}
      BY <2>2 DEF EndPass, HeadNotDue
    <2>4. e = at[t] \/ e < at[t]
      <3>1. e \in Nat /\ at[t] \in Nat /\ e <= at[t]
        BY <2>3, ExpiriesMinMax, TimersAssumption
      <3> QED  BY <3>1
    <2> QED  BY <2>3, <2>4 DEF TimersInv, NothingDueBehind
  <1> QED  BY <1>1, TimersInvariant, PTL DEF DueFired, TimersSpec
-----------------------------------------------------------------------------
(* Fragments (Fragments).  Who holds packets: the datagram that is being   *)
(* gathered, and each thread, those that it has to release or the one with *)
(* the fragment it handles.                                                *)
Gathering == CHOOSE h : h \notin FThreads
Holders == FThreads \cup {Gathering}
Pkts(list) == [i \in DOMAIN list |-> list[i].pkt]

HeldOf(parts, pc, mine, rel) == [h \in Holders |->
  IF h = Gathering THEN Pkts(parts)
  ELSE IF pc[h] = "fragment" THEN <<mine[h]>> ELSE rel[h]]

Held == HeldOf(multipart.parts, fPc, own, toRelease)

(* The places where p is held, which its references are the number of.     *)
ClaimsOn(held, p) ==
  {c \in Holders \X Nat : c[2] \in DOMAIN held[c[1]] /\ held[c[1]][c[2]] = p}

Counted(held, count, freed, last) == \A p \in Packets :
  /\ IsFiniteSet(ClaimsOn(held, p))
  /\ p \in freed => ClaimsOn(held, p) = {}
  /\ p \notin freed => count[p] = Cardinality(ClaimsOn(held, p))
  /\ p > last => p \notin freed /\ ClaimsOn(held, p) = {}

(* What h holds becomes w; what g holds is moved in front of what t holds. *)
Given(held, h, w, held2) ==
  /\ held2 \in [Holders -> Seq(Packets)] /\ held2[h] = w
  /\ \A g \in Holders : g # h => held2[g] = held[g]

Moved(held, g, t, held2) ==
  /\ held2 \in [Holders -> Seq(Packets)]
  /\ held2[g] = <<>> /\ held2[t] = held[g] \o held[t]
  /\ \A h \in Holders : h # g /\ h # t => held2[h] = held[h]

LEMMA GatheringIsNone == Gathering \notin FThreads
  BY NoSetContainsEverything DEF Gathering

LEMMA Relabelled ==
  ASSUME NEW S, NEW T, NEW f \in [S -> T],
         \A x, y \in S : f[x] = f[y] => x = y, \A t \in T : \E x \in S : f[x] = t
  PROVE  /\ IsFiniteSet(S) => IsFiniteSet(T) /\ Cardinality(T) = Cardinality(S)
         /\ IsFiniteSet(T) => IsFiniteSet(S) /\ Cardinality(T) = Cardinality(S)
  <1>1. f \in Injection(S, T) /\ f \in Surjection(S, T) /\ f \in Bijection(S, T)
    BY DEF Injection, IsInjective, Surjection, Bijection
  <1>2. IsFiniteSet(S) => IsFiniteSet(T) /\ Cardinality(T) = Cardinality(S)
    BY <1>1, FS_Bijection DEF ExistsBijection
  <1>3. IsFiniteSet(T) => IsFiniteSet(S)
    BY <1>1, FS_Injection
  <1> QED  BY <1>2, <1>3

(* A packet is put in a sequence, at any place.                            *)
Inserted(s, k, q, w) ==
  /\ k \in 0 .. Len(s) /\ Len(w) = Len(s) + 1
  /\ \A i \in 1 .. Len(s) + 1 :
       w[i] = IF i <= k THEN s[i] ELSE IF i = k + 1 THEN q ELSE s[i - 1]

(* held2 has one claim more than held, on q.                               *)
OneMore(held, held2, p, q) ==
  /\ IsFiniteSet(ClaimsOn(held, p)) /\ IsFiniteSet(ClaimsOn(held2, p))
  /\ Cardinality(ClaimsOn(held, p)) \in Nat
  /\ p = q => Cardinality(ClaimsOn(held2, p)) = Cardinality(ClaimsOn(held, p)) + 1
  /\ p # q => Cardinality(ClaimsOn(held2, p)) = Cardinality(ClaimsOn(held, p))

LEMMA InsertedClaims ==
  ASSUME NEW held \in [Holders -> Seq(Packets)], NEW h \in Holders, NEW w \in Seq(Packets),
         NEW k, NEW q \in Packets, Inserted(held[h], k, q, w), NEW p \in Packets,
         NEW held2, Given(held, h, w, held2),
         IsFiniteSet(ClaimsOn(held, p)) \/ IsFiniteSet(ClaimsOn(held2, p))
  PROVE  OneMore(held, held2, p, q)
  <1> DEFINE S == ClaimsOn(held, p)
             U == ClaimsOn(held2, p)
             new == <<h, k + 1>>
             T == U \ {new}
             move(c) == IF c[1] = h /\ c[2] > k THEN <<h, c[2] + 1>> ELSE c
             f == [c \in S |-> move(c)]
  <1>1. PICK n \in Nat : n = Len(held[h])
    OBVIOUS
  <1>2. /\ k \in 0 .. n /\ DOMAIN held[h] = 1 .. n /\ DOMAIN w = 1 .. n + 1
        /\ \A i \in 1 .. n + 1 :
             w[i] = IF i <= k THEN held[h][i] ELSE IF i = k + 1 THEN q ELSE held[h][i - 1]
    BY <1>1 DEF Inserted
  <1>3. held2 \in [Holders -> Seq(Packets)] /\ held2[h] = w
        /\ \A g \in Holders \ {h} : held2[g] = held[g]
    BY DEF Given
  <1>4. ASSUME NEW c \in S PROVE move(c) \in T
    <2>1. PICK g \in Holders, i \in Nat : c = <<g, i>>
      BY DEF ClaimsOn
    <2>2. i \in DOMAIN held[g] /\ held[g][i] = p
      BY <2>1 DEF ClaimsOn
    <2>3. CASE g = h /\ i > k
      <3>1. i + 1 \in 1 .. n + 1 /\ w[i + 1] = p /\ i + 1 # k + 1
        BY <1>2, <2>2, <2>3
      <3>2. <<h, i + 1>> \in U
        BY <1>2, <1>3, <3>1 DEF ClaimsOn
      <3>3. move(c) = <<h, i + 1>> /\ <<h, i + 1>> # new
        BY <1>2, <2>1, <2>3
      <3> QED  BY <3>2, <3>3
    <2>4. CASE g = h /\ i <= k
      <3>1. i \in 1 .. n + 1 /\ w[i] = p /\ i # k + 1
        BY <1>2, <2>2, <2>4
      <3>2. <<g, i>> \in U
        BY <1>2, <1>3, <2>4, <3>1 DEF ClaimsOn
      <3>3. move(c) = <<g, i>> /\ <<g, i>> # new
        BY <1>2, <2>1, <2>4
      <3> QED  BY <3>2, <3>3
    <2>5. CASE g # h
      <3>1. <<g, i>> \in U
        BY <1>3, <2>2, <2>5 DEF ClaimsOn
      <3>2. move(c) = <<g, i>> /\ <<g, i>> # new
        BY <2>1, <2>5
      <3> QED  BY <3>1, <3>2
    <2> QED  BY <1>2, <2>3, <2>4, <2>5
  <1>5. ASSUME NEW c \in S, NEW d \in S, move(c) = move(d) PROVE c = d
    <2>1. PICK g \in Holders, i \in Nat : c = <<g, i>>
      BY DEF ClaimsOn
    <2>2. PICK e \in Holders, j \in Nat : d = <<e, j>>
      BY DEF ClaimsOn
    <2> QED  BY <1>2, <1>5, <2>1, <2>2
  <1>6. ASSUME NEW d \in T PROVE \E c \in S : move(c) = d
    <2>1. PICK g \in Holders, i \in Nat : d = <<g, i>>
      BY DEF ClaimsOn
    <2>2. i \in DOMAIN held2[g] /\ held2[g][i] = p /\ d # new
      BY <2>1 DEF ClaimsOn
    <2>3. CASE g = h /\ i > k
      <3>1. i \in 1 .. n + 1 /\ i # k + 1
        BY <1>2, <1>3, <2>1, <2>2, <2>3
      <3>2. i - 1 \in 1 .. n /\ held[h][i - 1] = p /\ i - 1 > k /\ i - 1 \in Nat
        BY <1>2, <1>3, <2>2, <2>3, <3>1
      <3>3. <<h, i - 1>> \in S
        BY <1>2, <3>2 DEF ClaimsOn
      <3>4. move(<<h, i - 1>>) = <<g, i>>
        BY <2>3, <3>2
      <3> QED  BY <2>1, <3>3, <3>4
    <2>4. CASE g = h /\ i <= k
      <3>1. i \in 1 .. n /\ held[h][i] = p
        BY <1>2, <1>3, <2>2, <2>4
      <3>2. <<g, i>> \in S
        BY <1>2, <2>4, <3>1 DEF ClaimsOn
      <3>3. move(<<g, i>>) = <<g, i>>
        BY <1>2, <2>4
      <3> QED  BY <2>1, <3>2, <3>3
    <2>5. CASE g # h
      <3>1. <<g, i>> \in S
        BY <1>3, <2>2, <2>5 DEF ClaimsOn
      <3>2. move(<<g, i>>) = <<g, i>>
        BY <2>5
      <3> QED  BY <2>1, <3>1, <3>2
    <2> QED  BY <1>2, <2>3, <2>4, <2>5
  <1>7. new \in U <=> p = q
    <2>1. k + 1 \in 1 .. n + 1 /\ w[k + 1] = q /\ k + 1 \in Nat
      BY <1>2
    <2> QED  BY <1>2, <1>3, <2>1 DEF ClaimsOn
  <1>8. f \in [S -> T] /\ \A c \in S : f[c] = move(c)
    BY <1>4
  <1> HIDE DEF S, U, T, f, move
  <1>9. /\ IsFiniteSet(S) => IsFiniteSet(T) /\ Cardinality(T) = Cardinality(S)
        /\ IsFiniteSet(T) => IsFiniteSet(S) /\ Cardinality(T) = Cardinality(S)
    <2>1. \A x, y \in S : f[x] = f[y] => x = y
      BY <1>5, <1>8
    <2>2. \A t \in T : \E x \in S : f[x] = t
      BY <1>6, <1>8
    <2> QED  BY <1>8, <2>1, <2>2, Relabelled
  <1>10. IsFiniteSet(S) \/ IsFiniteSet(U)
    BY DEF S, U
  <1>11. IsFiniteSet(T) <=> IsFiniteSet(U)
    <2>1. IsFiniteSet(T) => IsFiniteSet(T \cup {new})
      BY FS_AddElement
    <2>2. U = T \/ U = T \cup {new}
      BY DEF T
    <2>3. T \subseteq U
      BY DEF T
    <2> QED  BY <2>1, <2>2, <2>3, FS_Subset
  <1>12. IsFiniteSet(S) /\ IsFiniteSet(T) /\ IsFiniteSet(U) /\ Cardinality(T) = Cardinality(S)
    BY <1>9, <1>10, <1>11
  <1>13. p = q => Cardinality(U) = Cardinality(T) + 1
    <2> SUFFICES ASSUME p = q PROVE Cardinality(U) = Cardinality(T) + 1
      OBVIOUS
    <2>1. U = T \cup {new} /\ new \notin T
      BY <1>7 DEF T
    <2> QED  BY <1>12, <2>1, FS_AddElement
  <1>14. p # q => U = T
    BY <1>7 DEF T
  <1>15. Cardinality(S) \in Nat
    BY <1>12, FS_CardinalityType
  <1> QED  BY <1>12, <1>13, <1>14, <1>15 DEF OneMore, S, U

(* What InsertAt puts in a sequence, behind place k.                       *)
LEMMA InsertedPlace ==
  ASSUME NEW S, NEW s \in Seq(S), NEW k \in 0 .. Len(s), NEW q \in S
  PROVE  InsertAt(s, k + 1, q) \in Seq(S) /\ Inserted(s, k, q, InsertAt(s, k + 1, q))
  <1> DEFINE u == SubSeq(s, 1, k)
             v == SubSeq(s, k + 1, Len(s))
  <1>1. Len(s) \in Nat /\ k \in Nat /\ \A i \in 1 .. Len(s) : s[i] \in S
    OBVIOUS
  <1>2. u \in Seq(S) /\ Len(u) = k /\ \A i \in 1 .. k : u[i] = s[i]
    BY <1>1, SubSeqProperties
  <1>3. v \in Seq(S) /\ Len(v) = Len(s) - k /\ \A i \in 1 .. Len(s) - k : v[i] = s[k + i]
    BY <1>1, SubSeqProperties
  <1> HIDE DEF u, v
  <1>4. <<q>> \in Seq(S) /\ Len(<<q>>) = 1 /\ <<q>>[1] = q
    OBVIOUS
  <1> DEFINE m == u \o <<q>>
  <1>5. /\ m \in Seq(S) /\ Len(m) = k + 1
        /\ \A i \in 1 .. k + 1 : m[i] = IF i <= k THEN s[i] ELSE q
    <2>1. m \in Seq(S) /\ Len(m) = k + 1
      BY <1>1, <1>2, <1>4, ConcatProperties
    <2>2. \A i \in 1 .. Len(u) + Len(<<q>>) : m[i] = IF i <= Len(u) THEN u[i] ELSE <<q>>[i - Len(u)]
      BY <1>2, <1>4, ConcatProperties
    <2> HIDE DEF m
    <2> QED  BY <1>1, <1>2, <1>4, <2>1, <2>2
  <1> HIDE DEF m
  <1> DEFINE w == m \o v
  <1>6. /\ w \in Seq(S) /\ Len(w) = Len(s) + 1
        /\ \A i \in 1 .. Len(s) + 1 : w[i] = IF i <= k + 1 THEN m[i] ELSE v[i - (k + 1)]
    <2>1. w \in Seq(S) /\ Len(w) = Len(m) + Len(v)
      BY <1>3, <1>5, ConcatProperties
    <2>2. \A i \in 1 .. Len(m) + Len(v) : w[i] = IF i <= Len(m) THEN m[i] ELSE v[i - Len(m)]
      BY <1>3, <1>5, ConcatProperties
    <2> HIDE DEF w
    <2> QED  BY <1>1, <1>3, <1>5, <2>1, <2>2
  <1>7. InsertAt(s, k + 1, q) = w
    <2>1. (k + 1) - 1 = k
      BY <1>1
    <2> QED  BY <2>1 DEF InsertAt, w, m, u, v
  <1> HIDE DEF w
  <1>8. ASSUME NEW i \in 1 .. Len(s) + 1
        PROVE  w[i] = IF i <= k THEN s[i] ELSE IF i = k + 1 THEN q ELSE s[i - 1]
    <2>1. CASE i <= k + 1
      BY <1>1, <1>5, <1>6, <1>8, <2>1
    <2>2. CASE ~(i <= k + 1)
      <3>1. i - (k + 1) \in 1 .. Len(s) - k /\ k + (i - (k + 1)) = i - 1
        BY <1>1, <2>2
      <3>2. w[i] = v[i - (k + 1)]
        BY <1>6, <2>2
      <3>3. v[i - (k + 1)] = s[k + (i - (k + 1))]
        BY <1>3, <3>1
      <3>4. i \in Nat /\ ~(i <= k) /\ i # k + 1
        BY <1>1, <2>2
      <3> QED  BY <3>1, <3>2, <3>3, <3>4
    <2> QED  BY <2>1, <2>2
  <1> QED  BY <1>6, <1>7, <1>8 DEF Inserted

LEMMA InsertCounted ==
  ASSUME NEW held \in [Holders -> Seq(Packets)], NEW h \in Holders, NEW w \in Seq(Packets),
         NEW k, NEW q \in Packets, Inserted(held[h], k, q, w),
         NEW count \in [Packets -> Int], NEW freed, NEW last \in Nat, NEW last2 \in Nat,
         Counted(held, count, freed, last), q \notin freed, last <= last2, q <= last2,
         NEW count2 \in [Packets -> Int], count2[q] = count[q] + 1,
         \A p \in Packets : p # q => count2[p] = count[p],
         NEW held2, Given(held, h, w, held2)
  PROVE  Counted(held2, count2, freed, last2)
  <1> SUFFICES ASSUME NEW p \in Packets
               PROVE  /\ IsFiniteSet(ClaimsOn(held2, p))
                      /\ p \in freed => ClaimsOn(held2, p) = {}
                      /\ p \notin freed => count2[p] = Cardinality(ClaimsOn(held2, p))
                      /\ p > last2 => p \notin freed /\ ClaimsOn(held2, p) = {}
    BY DEF Counted
  <1>1. /\ IsFiniteSet(ClaimsOn(held, p))
        /\ p \in freed => ClaimsOn(held, p) = {}
        /\ p \notin freed => count[p] = Cardinality(ClaimsOn(held, p))
        /\ p > last => p \notin freed /\ ClaimsOn(held, p) = {}
    BY DEF Counted
  <1>2. /\ IsFiniteSet(ClaimsOn(held2, p))
        /\ Cardinality(ClaimsOn(held, p)) \in Nat
        /\ p = q => Cardinality(ClaimsOn(held2, p)) = Cardinality(ClaimsOn(held, p)) + 1
        /\ p # q => Cardinality(ClaimsOn(held2, p)) = Cardinality(ClaimsOn(held, p))
    <2>1. OneMore(held, held2, p, q)
      BY <1>1, InsertedClaims
    <2> QED  BY <2>1 DEF OneMore
  <1>3. p # q /\ ClaimsOn(held, p) = {} => ClaimsOn(held2, p) = {}
    BY <1>1, <1>2, FS_EmptySet
  <1>4. Packets \subseteq Nat
    BY DEF Packets
  <1>5. p > last2 => p > last /\ p # q
    BY <1>4
  <1> QED  BY <1>1, <1>2, <1>3, <1>5

(* A claim on q is gone, the last one if q is freed.                       *)
OneLess(held2, count, freed, last, q) ==
  /\ q \in Packets \ freed
  /\ \A count2 : /\ count2 \in [Packets -> Int] /\ count2[q] = count[q] - 1
                 /\ \A p \in Packets : p # q => count2[p] = count[p]
       => Counted(held2, count2, freed, last)
  /\ ~(count[q] > 1) => Counted(held2, count, freed \cup {q}, last)

LEMMA TailCounted ==
  ASSUME NEW held \in [Holders -> Seq(Packets)], NEW h \in Holders, held[h] # <<>>,
         NEW count \in [Packets -> Int], NEW freed, NEW last \in Nat,
         Counted(held, count, freed, last),
         NEW held2, Given(held, h, Tail(held[h]), held2), NEW q, q = Head(held[h])
  PROVE  OneLess(held2, count, freed, last, q)
  <1>1. q = Head(held[h])
    OBVIOUS
  <1>2. PICK n \in Nat : n = Len(held[h])
    OBVIOUS
  <1>3. PICK s \in Seq(Packets) : s = held[h]
    OBVIOUS
  <1>4. /\ n \in Nat \ {0} /\ DOMAIN s = 1 .. n /\ q = s[1] /\ q \in Packets
        /\ Tail(s) \in Seq(Packets) /\ Len(Tail(s)) = n - 1
        /\ \A i \in 1 .. n - 1 : Tail(s)[i] = s[i + 1]
    <2>1. s # <<>> /\ Len(s) = n /\ q = Head(s)
      BY <1>1, <1>2, <1>3
    <2> QED  BY <2>1, HeadTailProperties
  <1>5. held2 \in [Holders -> Seq(Packets)] /\ held2[h] = Tail(s)
    BY <1>3 DEF Given
  <1>6. Inserted(held2[h], 0, q, s)
    <2>1. Len(held2[h]) = n - 1 /\ Len(s) = n
      BY <1>2, <1>3, <1>4, <1>5
    <2>2. \A i \in 1 .. n : s[i] = IF i <= 0 THEN held2[h][i] ELSE IF i = 0 + 1 THEN q ELSE held2[h][i - 1]
      <3> TAKE i \in 1 .. n
      <3>1. CASE i = 1
        BY <1>4, <3>1
      <3>2. CASE i # 1
        <4>1. i - 1 \in 1 .. n - 1 /\ (i - 1) + 1 = i /\ ~(i <= 0) /\ i # 0 + 1
          BY <3>2
        <4>2. held2[h][i - 1] = s[(i - 1) + 1]
          BY <1>4, <1>5, <4>1
        <4> QED  BY <4>1, <4>2
      <3> QED  BY <3>1, <3>2
    <2> QED  BY <1>4, <2>1, <2>2 DEF Inserted
  <1>7. Given(held2, h, s, held)
    BY <1>3 DEF Given
  <1>8. ASSUME NEW p \in Packets
        PROVE  /\ IsFiniteSet(ClaimsOn(held2, p)) /\ IsFiniteSet(ClaimsOn(held, p))
               /\ Cardinality(ClaimsOn(held2, p)) \in Nat
               /\ p = q => Cardinality(ClaimsOn(held, p)) = Cardinality(ClaimsOn(held2, p)) + 1
               /\ p # q => Cardinality(ClaimsOn(held, p)) = Cardinality(ClaimsOn(held2, p))
    <2>1. IsFiniteSet(ClaimsOn(held, p))
      BY DEF Counted
    <2>2. s \in Seq(Packets) /\ q \in Packets
      BY <1>4
    <2>3. OneMore(held2, held, p, q)
      BY <1>5, <1>6, <1>7, <2>1, <2>2, InsertedClaims
    <2> QED  BY <2>3 DEF OneMore
  <1>9. /\ q \notin freed /\ ~(q > last)
        /\ count[q] = Cardinality(ClaimsOn(held2, q)) + 1
    <2>1. ClaimsOn(held, q) # {}
      <3>1. Cardinality(ClaimsOn(held, q)) # 0
        BY <1>4, <1>8
      <3> QED  BY <1>4, <1>8, <3>1, FS_EmptySet
    <2> QED  BY <1>4, <1>8, <2>1 DEF Counted
  <1>10. ASSUME NEW p \in Packets, p # q
         PROVE  /\ p \in freed => ClaimsOn(held2, p) = {}
                /\ p \notin freed => count[p] = Cardinality(ClaimsOn(held2, p))
                /\ p > last => p \notin freed /\ ClaimsOn(held2, p) = {}
    <2>1. Cardinality(ClaimsOn(held, p)) = Cardinality(ClaimsOn(held2, p))
      BY <1>8, <1>10
    <2>2. ClaimsOn(held, p) = {} => ClaimsOn(held2, p) = {}
      BY <1>8, <2>1, FS_EmptySet
    <2> QED  BY <2>1, <2>2 DEF Counted
  <1>11. ASSUME NEW count2, count2 \in [Packets -> Int], count2[q] = count[q] - 1,
                \A p \in Packets : p # q => count2[p] = count[p]
         PROVE  Counted(held2, count2, freed, last)
    <2> SUFFICES ASSUME NEW p \in Packets
                 PROVE  /\ IsFiniteSet(ClaimsOn(held2, p))
                        /\ p \in freed => ClaimsOn(held2, p) = {}
                        /\ p \notin freed => count2[p] = Cardinality(ClaimsOn(held2, p))
                        /\ p > last => p \notin freed /\ ClaimsOn(held2, p) = {}
      BY DEF Counted
    <2>1. CASE p = q
      <3>1. Cardinality(ClaimsOn(held2, q)) \in Nat /\ IsFiniteSet(ClaimsOn(held2, q))
        BY <1>4, <1>8
      <3>2. count2[q] = Cardinality(ClaimsOn(held2, q))
        BY <1>9, <1>11, <3>1
      <3> QED  BY <1>9, <2>1, <3>1, <3>2
    <2>2. CASE p # q
      BY <1>8, <1>10, <1>11, <2>2
    <2> QED  BY <2>1, <2>2
  <1>12. ASSUME ~(count[q] > 1) PROVE Counted(held2, count, freed \cup {q}, last)
    <2> SUFFICES ASSUME NEW p \in Packets
                 PROVE  /\ IsFiniteSet(ClaimsOn(held2, p))
                        /\ p \in freed \cup {q} => ClaimsOn(held2, p) = {}
                        /\ p \notin freed \cup {q} => count[p] = Cardinality(ClaimsOn(held2, p))
                        /\ p > last => p \notin freed \cup {q} /\ ClaimsOn(held2, p) = {}
      BY DEF Counted
    <2>1. CASE p = q
      <3>1. Cardinality(ClaimsOn(held2, q)) \in Nat /\ IsFiniteSet(ClaimsOn(held2, q))
        BY <1>4, <1>8
      <3>2. Cardinality(ClaimsOn(held2, q)) = 0
        BY <1>9, <1>12, <3>1
      <3>3. ClaimsOn(held2, q) = {}
        BY <3>1, <3>2, FS_EmptySet
      <3> QED  BY <1>9, <2>1, <3>1, <3>3
    <2>2. CASE p # q
      BY <1>8, <1>10, <2>2
    <2> QED  BY <2>1, <2>2
  <1> QED  BY <1>4, <1>9, <1>11, <1>12 DEF OneLess

(* Packets that g holds are moved in front of those of t.                  *)
LEMMA MovedClaims ==
  ASSUME NEW held \in [Holders -> Seq(Packets)], NEW g \in Holders, NEW t \in Holders, g # t,
         NEW p \in Packets, IsFiniteSet(ClaimsOn(held, p)),
         NEW held2, Moved(held, g, t, held2)
  PROVE  /\ IsFiniteSet(ClaimsOn(held2, p))
         /\ Cardinality(ClaimsOn(held2, p)) = Cardinality(ClaimsOn(held, p))
  <1>1. PICK n \in Nat : n = Len(held[g])
    OBVIOUS
  <1> DEFINE S == ClaimsOn(held, p)
             T == ClaimsOn(held2, p)
             move(c) == IF c[1] = g THEN <<t, c[2]>> ELSE IF c[1] = t THEN <<t, n + c[2]>> ELSE c
             f == [c \in S |-> move(c)]
  <1>2. PICK m \in Nat : m = Len(held[t])
    OBVIOUS
  <1>3. PICK w \in Seq(Packets) : w = held[g] \o held[t]
    BY ConcatProperties
  <1>4. /\ DOMAIN held[g] = 1 .. n /\ DOMAIN held[t] = 1 .. m
        /\ Len(w) = n + m
        /\ \A i \in 1 .. n + m : w[i] = IF i <= n THEN held[g][i] ELSE held[t][i - n]
    BY <1>1, <1>2, <1>3, ConcatProperties
  <1>5. DOMAIN w = 1 .. n + m
    <2>1. DOMAIN w = 1 .. Len(w)
      OBVIOUS
    <2> QED  BY <1>4, <2>1
  <1>6. /\ held2[g] = <<>> /\ held2[t] = w
        /\ \A h \in Holders : h # g /\ h # t => held2[h] = held[h]
    BY <1>3 DEF Moved
  <1>7. ASSUME NEW c \in S PROVE move(c) \in T
    <2>1. PICK h \in Holders, i \in Nat : c = <<h, i>>
      BY DEF ClaimsOn
    <2>2. i \in DOMAIN held[h] /\ held[h][i] = p
      BY <2>1 DEF ClaimsOn
    <2>3. CASE h = g
      <3>1. i \in 1 .. n + m /\ w[i] = p
        BY <1>4, <2>2, <2>3
      <3>2. <<t, i>> \in T
        BY <1>5, <1>6, <3>1 DEF ClaimsOn
      <3> QED  BY <2>1, <2>3, <3>2
    <2>4. CASE h = t
      <3>1. n + i \in 1 .. n + m /\ ~(n + i <= n) /\ (n + i) - n = i
        BY <1>4, <2>2, <2>4
      <3>2. w[n + i] = p /\ n + i \in Nat
        BY <1>4, <2>2, <2>4, <3>1
      <3>3. <<t, n + i>> \in T
        BY <1>5, <1>6, <3>1, <3>2 DEF ClaimsOn
      <3>4. move(c) = <<t, n + i>>
        BY <2>1, <2>4
      <3> QED  BY <3>3, <3>4
    <2>5. CASE h # g /\ h # t
      <3>1. <<h, i>> \in T
        BY <1>6, <2>2, <2>5 DEF ClaimsOn
      <3> QED  BY <2>1, <2>5, <3>1
    <2> QED  BY <2>3, <2>4, <2>5
  <1>8. ASSUME NEW c \in S, NEW d \in S, move(c) = move(d) PROVE c = d
    <2>1. PICK h \in Holders, i \in Nat : c = <<h, i>>
      BY DEF ClaimsOn
    <2>2. PICK e \in Holders, j \in Nat : d = <<e, j>>
      BY DEF ClaimsOn
    <2>3. h = g => i \in 1 .. n
      BY <1>4, <2>1 DEF ClaimsOn
    <2>4. e = g => j \in 1 .. n
      BY <1>4, <2>2 DEF ClaimsOn
    <2>5. /\ h = t => i \in 1 .. m
          /\ e = t => j \in 1 .. m
      BY <1>4, <2>1, <2>2 DEF ClaimsOn
    <2> QED  BY <1>8, <2>1, <2>2, <2>3, <2>4, <2>5
  <1>9. ASSUME NEW d \in T PROVE \E c \in S : move(c) = d
    <2>1. PICK h \in Holders, i \in Nat : d = <<h, i>>
      BY DEF ClaimsOn
    <2>2. i \in DOMAIN held2[h] /\ held2[h][i] = p
      BY <2>1 DEF ClaimsOn
    <2>3. h # g
      BY <1>6, <2>2
    <2>4. CASE h = t /\ i <= n
      <3>1. i \in 1 .. n /\ held[g][i] = p
        BY <1>4, <1>5, <1>6, <2>2, <2>4
      <3>2. <<g, i>> \in S
        BY <1>4, <3>1 DEF ClaimsOn
      <3>3. move(<<g, i>>) = <<h, i>>
        BY <2>4
      <3> QED  BY <2>1, <3>2, <3>3
    <2>5. CASE h = t /\ ~(i <= n)
      <3>1. i \in 1 .. n + m
        BY <1>5, <1>6, <2>2, <2>5
      <3>2. i - n \in 1 .. m /\ i - n \in Nat /\ n + (i - n) = i
        BY <2>5, <3>1
      <3>3. held[t][i - n] = p
        BY <1>4, <1>6, <2>2, <2>5, <3>1
      <3>4. <<t, i - n>> \in S
        BY <1>4, <3>2, <3>3 DEF ClaimsOn
      <3>5. move(<<t, i - n>>) = <<h, i>>
        BY <2>5, <3>2
      <3> QED  BY <2>1, <3>4, <3>5
    <2>6. CASE h # t
      <3>1. <<h, i>> \in S
        BY <1>6, <2>2, <2>3, <2>6 DEF ClaimsOn
      <3>2. move(<<h, i>>) = <<h, i>>
        BY <2>3, <2>6
      <3> QED  BY <2>1, <3>1, <3>2
    <2> QED  BY <2>4, <2>5, <2>6
  <1>10. f \in [S -> T] /\ \A c \in S : f[c] = move(c)
    BY <1>7
  <1>11. IsFiniteSet(S)
    OBVIOUS
  <1> HIDE DEF S, T, f, move
  <1>12. IsFiniteSet(T) /\ Cardinality(T) = Cardinality(S)
    <2>1. \A x, y \in S : f[x] = f[y] => x = y
      BY <1>8, <1>10
    <2>2. \A y \in T : \E x \in S : f[x] = y
      BY <1>9, <1>10
    <2> QED  BY <1>10, <1>11, <2>1, <2>2, Relabelled
  <1> QED  BY <1>12 DEF S, T

LEMMA MoveCounted ==
  ASSUME NEW held \in [Holders -> Seq(Packets)], NEW g \in Holders, NEW t \in Holders, g # t,
         NEW count, NEW freed, NEW last, Counted(held, count, freed, last),
         NEW held2, Moved(held, g, t, held2)
  PROVE  Counted(held2, count, freed, last)
  <1> SUFFICES ASSUME NEW p \in Packets
               PROVE  /\ IsFiniteSet(ClaimsOn(held2, p))
                      /\ p \in freed => ClaimsOn(held2, p) = {}
                      /\ p \notin freed => count[p] = Cardinality(ClaimsOn(held2, p))
                      /\ p > last => p \notin freed /\ ClaimsOn(held2, p) = {}
    BY DEF Counted
  <1>1. IsFiniteSet(ClaimsOn(held, p))
    BY DEF Counted
  <1>2. /\ IsFiniteSet(ClaimsOn(held2, p))
        /\ Cardinality(ClaimsOn(held2, p)) = Cardinality(ClaimsOn(held, p))
    BY <1>1, MovedClaims
  <1>3. ClaimsOn(held, p) = {} => ClaimsOn(held2, p) = {}
    BY <1>1, <1>2, FS_EmptySet
  <1> QED  BY <1>2, <1>3 DEF Counted

-----------------------------------------------------------------------------
(* The invariant: every packet has as many references as it is held.       *)
Part == [off : Nat, len : Nat, pkt : Packets]
MultiParts == [parts : Seq(Part), gaps : Int, cur : Nat]

FragTypeOK ==
  /\ received \in Nat /\ timeouts \in Nat /\ lastPkt \in Nat
  /\ refcount \in [Packets -> Int] /\ freedPkts \subseteq Packets
  /\ fragState \in {"none", "open", "processed"} /\ gotLast \in BOOLEAN
  /\ multipart \in MultiParts
  /\ fPc \in [FThreads -> {"idle", "fragment", "datagram", "release", "decrement"}]
  /\ own \in [FThreads -> Nat] /\ cut \in [FThreads -> Cuts]
  /\ toRelease \in [FThreads -> Seq(Packets)] /\ handed \in [FThreads -> MultiParts]

(* A thread with a fragment has a packet of its own and none to release.   *)
InHand == \A t \in FThreads :
  /\ fPc[t] = "fragment" => own[t] \in Packets
  /\ fPc[t] \in {"idle", "fragment"} => toRelease[t] = <<>>
  /\ fPc[t] = "decrement" => toRelease[t] # <<>>

(* A fragment takes a packet for itself and one for its copy.              *)
Bearers == {t \in FThreads : fPc[t] = "fragment"}
PacketsLeft == lastPkt + Cardinality(Bearers) <= 2 * received /\ received <= MaxFragments

RefsHeld == Counted(Held, refcount, freedPkts, lastPkt)

FragInv == FragTypeOK /\ InHand /\ PacketsLeft /\ RefsHeld

-----------------------------------------------------------------------------
LEMMA PktsOf ==
  ASSUME NEW list \in Seq(Part)
  PROVE  /\ Pkts(list) \in Seq(Packets) /\ Len(Pkts(list)) = Len(list)
         /\ \A i \in 1 .. Len(list) : Pkts(list)[i] = list[i].pkt
  <1>1. PICK n \in Nat : n = Len(list)
    OBVIOUS
  <1>2. DOMAIN list = 1 .. n /\ \A i \in 1 .. n : list[i] \in Part
    BY <1>1
  <1>3. \A i \in 1 .. n : list[i].pkt \in Packets
    BY <1>2 DEF Part
  <1>4. Pkts(list) = [i \in 1 .. n |-> list[i].pkt]
    BY <1>2 DEF Pkts
  <1>5. Pkts(list) \in [1 .. n -> Packets] /\ \A i \in 1 .. n : Pkts(list)[i] = list[i].pkt
    BY <1>3, <1>4
  <1>6. Pkts(list) \in Seq(Packets) /\ Len(Pkts(list)) = n
    BY <1>5, SeqDef, LenProperties
  <1> QED  BY <1>1, <1>5, <1>6

LEMMA HoldingsOf ==
  ASSUME NEW parts \in Seq(Part), NEW pc, NEW mine, NEW rel \in [FThreads -> Seq(Packets)],
         \A t \in FThreads : pc[t] = "fragment" => mine[t] \in Packets
  PROVE  /\ HeldOf(parts, pc, mine, rel) \in [Holders -> Seq(Packets)]
         /\ HeldOf(parts, pc, mine, rel)[Gathering] = Pkts(parts)
         /\ \A t \in FThreads : /\ t # Gathering /\ t \in Holders
              /\ HeldOf(parts, pc, mine, rel)[t] = IF pc[t] = "fragment" THEN <<mine[t]>> ELSE rel[t]
         /\ Gathering \in Holders
  <1>1. \A h \in Holders : h = Gathering \/ (h # Gathering /\ h \in FThreads)
    BY DEF Holders
  <1>2. Gathering \in Holders /\ \A t \in FThreads : t # Gathering /\ t \in Holders
    BY GatheringIsNone DEF Holders
  <1>3. \A h \in Holders :
          (IF h = Gathering THEN Pkts(parts) ELSE IF pc[h] = "fragment" THEN <<mine[h]>> ELSE rel[h])
             \in Seq(Packets)
    <2> TAKE h \in Holders
    <2>1. CASE h = Gathering
      BY <2>1, PktsOf
    <2>2. CASE h # Gathering /\ pc[h] = "fragment"
      BY <1>1, <2>2
    <2>3. CASE h # Gathering /\ pc[h] # "fragment"
      BY <1>1, <2>3
    <2> QED  BY <2>1, <2>2, <2>3
  <1> QED  BY <1>2, <1>3 DEF HeldOf

(* The place of a fragment is in the list or in front of it.               *)
LEMMA PlaceIsThere ==
  ASSUME NEW list \in Seq(Part), NEW c
  PROVE  Place(list, c) \in 0 .. Len(list)
  <1> DEFINE ended == {i \in DOMAIN list : PartEnd(list[i]) <= c.off}
  <1>1. PICK n \in Nat : n = Len(list) /\ DOMAIN list = 1 .. n
    OBVIOUS
  <1>2. ended \in SUBSET Nat /\ ended \in SUBSET (1 .. n)
    BY <1>1
  <1>3. Place(list, c) = IF ended = {} THEN 0 ELSE Max(ended)
    BY DEF Place
  <1> HIDE DEF ended
  <1>4. IsFiniteSet(ended)
    <2>1. IsFiniteSet(1 .. n)
      BY FS_Interval
    <2> QED  BY <1>2, <2>1, FS_Subset
  <1>5. CASE ended = {}
    BY <1>1, <1>3, <1>5
  <1>6. CASE ended # {}
    <2>1. Max(ended) \in ended
      BY <1>2, <1>4, <1>6, MaxOfNats
    <2>2. Max(ended) \in 1 .. n /\ Place(list, c) = Max(ended)
      BY <1>2, <1>3, <1>6, <2>1
    <2> QED  BY <1>1, <2>2
  <1> QED  BY <1>5, <1>6

(* What is with to a datagram.                                            *)
LEMMA AddedPart ==
  ASSUME NEW m \in MultiParts, NEW c \in Cuts, NEW q \in Packets
  PROVE  /\ Added(m, c, q) \in MultiParts
         /\ \E k : Inserted(Pkts(m.parts), k, q, Pkts(Added(m, c, q).parts))
  <1>1. m.parts \in Seq(Part) /\ m.gaps \in Int /\ m.cur \in Nat
    BY DEF MultiParts
  <1>2. c.off \in Nat /\ c.len \in Nat
    BY FragmentsAssumption
  <1>3. PICK k \in 0 .. Len(m.parts) : k = Place(m.parts, c)
    BY <1>1, PlaceIsThere
  <1>4. PICK part \in Part : part = [off |-> c.off, len |-> c.len, pkt |-> q]
    BY <1>2 DEF Part
  <1>5. PICK w \in Seq(Part) : w = InsertAt(m.parts, k + 1, part) /\ Inserted(m.parts, k, part, w)
    BY <1>1, <1>3, <1>4, InsertedPlace
  <1>6. GapChange(m.parts, k, c) \in Int
    BY DEF GapChange, GapAtHead, GapAtTail, GapBetween
  <1>7. Added(m, c, q) = [parts |-> w, gaps |-> m.gaps + GapChange(m.parts, k, c), cur |-> m.cur + c.len]
    BY <1>3, <1>4, <1>5 DEF Added
  <1>8. Added(m, c, q) \in MultiParts /\ Added(m, c, q).parts = w
    BY <1>1, <1>2, <1>5, <1>6, <1>7 DEF MultiParts
  <1>9. Inserted(Pkts(m.parts), k, q, Pkts(w))
    <2>1. PICK n \in Nat : n = Len(m.parts)
      BY <1>1
    <2>2. /\ k \in 0 .. n /\ Len(w) = n + 1
          /\ \A i \in 1 .. n + 1 :
               w[i] = IF i <= k THEN m.parts[i] ELSE IF i = k + 1 THEN part ELSE m.parts[i - 1]
      BY <1>5, <2>1 DEF Inserted
    <2>3. /\ Len(Pkts(w)) = n + 1 /\ \A i \in 1 .. n + 1 : Pkts(w)[i] = w[i].pkt
          /\ Len(Pkts(m.parts)) = n /\ \A i \in 1 .. n : Pkts(m.parts)[i] = m.parts[i].pkt
      BY <1>1, <2>1, <2>2, PktsOf
    <2>4. part.pkt = q
      BY <1>4
    <2>5. ASSUME NEW i \in 1 .. n + 1
          PROVE  Pkts(w)[i] = IF i <= k THEN Pkts(m.parts)[i] ELSE IF i = k + 1 THEN q ELSE Pkts(m.parts)[i - 1]
      <3>1. CASE i <= k
        <4>1. i \in 1 .. n /\ w[i] = m.parts[i]
          BY <2>2, <3>1
        <4> QED  BY <2>3, <3>1, <4>1
      <3>2. CASE i = k + 1
        BY <2>2, <2>3, <2>4, <3>2
      <3>3. CASE ~(i <= k) /\ i # k + 1
        <4>1. i - 1 \in 1 .. n
          BY <2>2, <3>3
        <4> QED  BY <2>2, <2>3, <3>3, <4>1
      <3> QED  BY <3>1, <3>2, <3>3
    <2> QED  BY <2>2, <2>3, <2>5 DEF Inserted
  <1> QED  BY <1>8, <1>9
-----------------------------------------------------------------------------
(* What is held before and after a step, by name.                          *)
HeldAs(held, parts, pc, mine, rel) ==
  /\ held \in [Holders -> Seq(Packets)] /\ held[Gathering] = Pkts(parts)
  /\ \A t \in FThreads :
       /\ pc[t] = "fragment" => held[t] = <<mine[t]>>
       /\ pc[t] # "fragment" => held[t] = rel[t]

LEMMA HoldingsAs ==
  ASSUME NEW parts \in Seq(Part), NEW pc, NEW mine, NEW rel \in [FThreads -> Seq(Packets)],
         \A t \in FThreads : pc[t] = "fragment" => mine[t] \in Packets
  PROVE  HeldAs(HeldOf(parts, pc, mine, rel), parts, pc, mine, rel)
  <1> DEFINE held == HeldOf(parts, pc, mine, rel)
  <1>1. /\ held \in [Holders -> Seq(Packets)] /\ held[Gathering] = Pkts(parts)
        /\ \A t \in FThreads : held[t] = IF pc[t] = "fragment" THEN <<mine[t]>> ELSE rel[t]
    BY HoldingsOf
  <1> HIDE DEF held
  <1>2. HeldAs(held, parts, pc, mine, rel)
    BY <1>1 DEF HeldAs
  <1> QED  BY <1>2 DEF held

LEMMA HeldNow ==
  ASSUME FragTypeOK, InHand
  PROVE  HeldAs(Held, multipart.parts, fPc, own, toRelease)
  <1>1. /\ multipart.parts \in Seq(Part) /\ toRelease \in [FThreads -> Seq(Packets)]
        /\ \A t \in FThreads : fPc[t] = "fragment" => own[t] \in Packets
    BY DEF FragTypeOK, InHand, MultiParts
  <1> QED  BY <1>1, HoldingsAs DEF Held

LEMMA HeldNext ==
  ASSUME FragTypeOK', InHand'
  PROVE  HeldAs(Held', multipart'.parts, fPc', own', toRelease')
  <1>1. /\ multipart'.parts \in Seq(Part) /\ toRelease' \in [FThreads -> Seq(Packets)]
        /\ \A t \in FThreads : fPc'[t] = "fragment" => own'[t] \in Packets
    BY DEF FragTypeOK, InHand, MultiParts
  <1>2. Held' = HeldOf(multipart'.parts, fPc', own', toRelease')
    BY DEF Held
  <1>3. PICK parts, pc, mine, rel : /\ parts = multipart'.parts /\ pc = fPc'
                                    /\ mine = own' /\ rel = toRelease'
    OBVIOUS
  <1>4. /\ parts \in Seq(Part) /\ rel \in [FThreads -> Seq(Packets)]
        /\ \A t \in FThreads : pc[t] = "fragment" => mine[t] \in Packets
    BY <1>1, <1>3
  <1>5. HeldAs(HeldOf(parts, pc, mine, rel), parts, pc, mine, rel)
    BY <1>4, HoldingsAs
  <1> QED  BY <1>2, <1>3, <1>5

LEMMA ThreadsHold ==
  Gathering \in Holders /\ \A t \in FThreads : t \in Holders /\ t # Gathering
  BY GatheringIsNone DEF Holders

(* A packet that somebody holds has not been freed.                        *)
LEMMA HeldNotFreed ==
  ASSUME NEW held \in [Holders -> Seq(Packets)], NEW count, NEW freed, NEW last,
         Counted(held, count, freed, last), NEW h \in Holders, NEW i \in DOMAIN held[h]
  PROVE  held[h][i] \in Packets \ freed /\ ~(held[h][i] > last)
  <1>1. i \in Nat /\ held[h][i] \in Packets
    <2>1. PICK s \in Seq(Packets) : s = held[h]
      OBVIOUS
    <2>2. i \in DOMAIN s
      BY <2>1
    <2>3. i \in Nat /\ s[i] \in Packets
      BY <2>2
    <2> QED  BY <2>1, <2>3
  <1>2. <<h, i>> \in ClaimsOn(held, held[h][i])
    BY <1>1 DEF ClaimsOn
  <1> QED  BY <1>1, <1>2 DEF Counted

(* A packet that was never allocated has no reference.                     *)
LEMMA NewUncounted ==
  ASSUME NEW held, NEW count, NEW freed, NEW last \in Nat, last + 1 \in Packets,
         Counted(held, count, freed, last)
  PROVE  last + 1 \notin freed /\ count[last + 1] = 0
  <1>1. last + 1 > last
    OBVIOUS
  <1>2. last + 1 \notin freed /\ ClaimsOn(held, last + 1) = {}
    BY <1>1 DEF Counted
  <1>3. count[last + 1] = Cardinality(ClaimsOn(held, last + 1))
    BY <1>2 DEF Counted
  <1> QED  BY <1>2, <1>3, FS_EmptySet

LEMMA TypesOfFields ==
  ASSUME FragTypeOK
  PROVE  /\ multipart.parts \in Seq(Part)
         /\ Packets \subseteq Nat /\ MaxFragments \in Nat
         /\ Packets = 1 .. 2 * MaxFragments
  BY FragmentsAssumption DEF FragTypeOK, MultiParts, Packets

-----------------------------------------------------------------------------
(* There is room for the packets of the fragments that are handled.        *)
LEMMA BearersFinite ==
  IsFiniteSet(Bearers) /\ Cardinality(Bearers) \in Nat
  <1>1. Bearers \in SUBSET FThreads
    BY DEF Bearers
  <1> QED  BY <1>1, FragmentsAssumption, FS_Subset, FS_CardinalityType

LEMMA OneBearerLess ==
  ASSUME NEW t \in FThreads, NEW T, T = Bearers, fPc[t] = "fragment"
  PROVE  Cardinality(T \ {t}) = Cardinality(T) - 1 /\ Cardinality(T) \in Nat \ {0}
  <1>1. t \in T /\ IsFiniteSet(T)
    BY BearersFinite DEF Bearers
  <1>2. Cardinality(T \ {t}) = Cardinality(T) - 1 /\ IsFiniteSet(T \ {t})
    BY <1>1, FS_RemoveElement
  <1>3. Cardinality(T \ {t}) \in Nat /\ Cardinality(T) \in Nat
    BY <1>1, <1>2, FS_CardinalityType
  <1> QED  BY <1>2, <1>3

LEMMA RoomForOne ==
  ASSUME FragTypeOK, PacketsLeft
  PROVE  /\ received < MaxFragments => lastPkt + 1 \in Packets
         /\ \A t \in FThreads : fPc[t] = "fragment" => lastPkt + 1 \in Packets
  <1>1. Cardinality(Bearers) \in Nat
    BY BearersFinite
  <1>2. lastPkt \in Nat /\ received \in Nat /\ MaxFragments \in Nat
    BY FragmentsAssumption DEF FragTypeOK
  <1>3. \A t \in FThreads : fPc[t] = "fragment" => Cardinality(Bearers) \in Nat \ {0}
    BY OneBearerLess
  <1> QED  BY <1>1, <1>2, <1>3 DEF PacketsLeft, Packets

-----------------------------------------------------------------------------
(* The claims after the lock of the datagram was released.                 *)
LEMMA GatheredCounted ==
  ASSUME NEW t \in FThreads, NEW m \in MultiParts, FragTypeOK, FragTypeOK', InHand', Gathered(t, m),
         fPc[t] = "fragment",
         NEW held, HeldAs(held, m.parts, fPc, own, toRelease),
         NEW count, NEW last, Counted(held, count, freedPkts, last)
  PROVE  Counted(Held', count, freedPkts, last)
  <1>1. HeldAs(Held', multipart'.parts, fPc', own', toRelease')
    BY HeldNext
  <1>2. PICK held2 : held2 = Held'
    OBVIOUS
  <1>3. /\ held2 \in [Holders -> Seq(Packets)] /\ held2[Gathering] = Pkts(multipart'.parts)
        /\ held2[t] = toRelease'[t]
        /\ \A s \in FThreads \ {t} : held2[s] = held[s]
    <2>1. fPc'[t] # "fragment" /\ own' = own
      BY DEF Gathered, FragTypeOK
    <2>2. \A s \in FThreads \ {t} : fPc'[s] = fPc[s] /\ toRelease'[s] = toRelease[s]
      BY DEF Gathered, FragTypeOK
    <2> QED  BY <1>1, <1>2, <2>1, <2>2 DEF HeldAs
  <1>4. held \in [Holders -> Seq(Packets)] /\ held[Gathering] = Pkts(m.parts) /\ held[t] = <<own[t]>>
    BY DEF HeldAs
  <1>5. CASE (gotLast \/ PartEnd(cut[t]) = DatagramLen) /\ m.gaps = 0
    <2>1. multipart' = NoParts /\ toRelease'[t] = Pkts(m.parts) \o <<own[t]>>
      BY <1>5 DEF Gathered, FragTypeOK, Pkts
    <2>2. Pkts(NoParts.parts) = <<>>
      BY DEF Pkts, NoParts
    <2>3. Moved(held, Gathering, t, held2)
      <3>1. held2[Gathering] = <<>> /\ held2[t] = held[Gathering] \o held[t]
        BY <1>3, <1>4, <2>1, <2>2
      <3>2. \A h \in Holders : h # Gathering /\ h # t => held2[h] = held[h]
        BY <1>3 DEF Holders
      <3> QED  BY <1>3, <3>1, <3>2 DEF Moved
    <2> QED  BY <1>2, <1>4, <2>3, MoveCounted, ThreadsHold
  <1>6. CASE ~((gotLast \/ PartEnd(cut[t]) = DatagramLen) /\ m.gaps = 0)
    <2>1. multipart' = m /\ toRelease'[t] = <<>> \o <<own[t]>>
      BY <1>6 DEF Gathered, FragTypeOK
    <2>2. toRelease'[t] = <<own[t]>>
      <3>1. PICK w \in Seq(Packets) : w = <<own[t]>>
        BY <1>4, ThreadsHold
      <3>2. <<>> \o w = w
        BY <3>1, ConcatEmptySeq
      <3> QED  BY <2>1, <3>1, <3>2
    <2>3. \A h \in Holders : held2[h] = held[h]
      BY <1>3, <1>4, <2>1, <2>2 DEF Holders
    <2>4. held2 = held
      BY <1>3, <1>4, <2>3
    <2> QED  BY <1>2, <2>4
  <1> QED  BY <1>5, <1>6
-----------------------------------------------------------------------------
(* One step of a thread keeps types and what threads have in hand.         *)
FragTypes == FragTypeOK /\ InHand

LEMMA GatheredTypes ==
  ASSUME NEW t \in FThreads, NEW m \in MultiParts, FragTypes, fPc[t] = "fragment", Gathered(t, m),
         refcount' \in [Packets -> Int], lastPkt' \in Nat
  PROVE  FragTypes'
  <1>1. own[t] \in Packets
    BY DEF FragTypes, InHand
  <1>2. NoParts \in MultiParts
    BY DEF NoParts, MultiParts
  <1>3. multipart' \in MultiParts /\ handed' \in [FThreads -> MultiParts]
    BY <1>2 DEF Gathered, FragTypes, FragTypeOK
  <1>4. gotLast' \in BOOLEAN /\ fragState' \in {"none", "open", "processed"}
    BY DEF Gathered, FragTypes, FragTypeOK
  <1>5. toRelease' \in [FThreads -> Seq(Packets)]
    <2>1. m.parts \in Seq(Part)
      BY DEF MultiParts
    <2>2. PICK u \in Seq(Packets) : u = Pkts(m.parts)
      BY <2>1, PktsOf
    <2>3. PICK w \in Seq(Packets) : w = <<own[t]>>
      <3>1. PICK p \in Packets : p = own[t]
        BY <1>1
      <3>2. <<p>> \in Seq(Packets)
        OBVIOUS
      <3> QED  BY <3>1, <3>2
    <2>4. u \o w \in Seq(Packets) /\ <<>> \o w \in Seq(Packets)
      BY ConcatProperties, ConcatEmptySeq
    <2>5. toRelease' = [toRelease EXCEPT ![t] = u \o w] \/ toRelease' = [toRelease EXCEPT ![t] = <<>> \o w]
      BY <2>2, <2>3 DEF Gathered, Pkts
    <2> QED  BY <2>4, <2>5 DEF FragTypes, FragTypeOK
  <1>6. fPc' \in [FThreads -> {"idle", "fragment", "datagram", "release", "decrement"}]
    BY DEF Gathered, FragTypes, FragTypeOK
  <1>7. FragTypeOK'
    BY <1>3, <1>4, <1>5, <1>6 DEF Gathered, FragTypes, FragTypeOK
  <1>8. fPc'[t] \in {"datagram", "release"}
    BY DEF Gathered, FragTypes, FragTypeOK
  <1>9. \A s \in FThreads \ {t} : fPc'[s] = fPc[s] /\ toRelease'[s] = toRelease[s] /\ own'[s] = own[s]
    BY DEF Gathered, FragTypes, FragTypeOK
  <1>10. InHand'
    BY <1>8, <1>9 DEF FragTypes, InHand
  <1> QED  BY <1>7, <1>10 DEF FragTypes

LEMMA ClonedTypes ==
  ASSUME FragTypes, NEW q, NEW t, Clone(t, q), q \in Packets
  PROVE  refcount' \in [Packets -> Int] /\ lastPkt' \in Nat
  <1>1. CASE q = own[t]
    BY <1>1 DEF Clone, CloneShared, FragTypes, FragTypeOK
  <1>2. CASE q # own[t]
    <2>1. lastPkt' = q /\ refcount' = [refcount EXCEPT ![q] = 1] /\ q \in Nat
      BY <1>2, TypesOfFields DEF Clone, Alloc, FragTypes
    <2> QED  BY <2>1 DEF FragTypes, FragTypeOK
  <1> QED  BY <1>1, <1>2

LEMMA FragTypesStep ==
  ASSUME FragTypes, PacketsLeft, NEW t \in FThreads,
         \/ \E c \in Cuts : Receive(t, c)
         \/ AddFragment(t) \/ SkipDouble(t) \/ DropLate(t) \/ Datagram(t) \/ TimeOut(t)
         \/ See(t) \/ Decrement(t) \/ Free(t) \/ Released(t)
  PROVE  FragTypes'
  <1>1. ASSUME NEW c \in Cuts, Receive(t, c) PROVE FragTypes'
    <2>1. lastPkt + 1 \in Packets
      BY <1>1, RoomForOne DEF Receive, FragTypes
    <2>2. FragTypeOK'
      BY <1>1, <2>1 DEF Receive, Alloc, FragTypes, FragTypeOK
    <2>3. InHand'
      BY <1>1, <2>1 DEF Receive, Alloc, FragTypes, FragTypeOK, InHand
    <2> QED  BY <2>2, <2>3 DEF FragTypes
  <1>2. ASSUME AddFragment(t) PROVE FragTypes'
    <2>1. PICK q \in Clones(t) : Clone(t, q) /\ Gathered(t, Added(multipart, cut[t], q))
      BY <1>2 DEF AddFragment
    <2>2. fPc[t] = "fragment"
      BY <1>2 DEF AddFragment
    <2>3. q \in Packets
      BY <2>1, <2>2, RoomForOne DEF Clones, FragTypes, InHand
    <2>4. Added(multipart, cut[t], q) \in MultiParts
      BY <2>3, AddedPart DEF FragTypes, FragTypeOK
    <2>5. refcount' \in [Packets -> Int] /\ lastPkt' \in Nat
      BY <2>1, <2>3, ClonedTypes
    <2> QED  BY <2>1, <2>2, <2>4, <2>5, GatheredTypes
  <1>3. ASSUME SkipDouble(t) PROVE FragTypes'
    <2>1. refcount' \in [Packets -> Int] /\ lastPkt' \in Nat /\ multipart \in MultiParts
      BY <1>3 DEF SkipDouble, FragTypes, FragTypeOK
    <2> QED  BY <1>3, <2>1, GatheredTypes DEF SkipDouble
  <1>4. ASSUME DropLate(t) PROVE FragTypes'
    <2>1. own[t] \in Packets
      BY <1>4 DEF DropLate, FragTypes, InHand
    <2>2. FragTypeOK'
      BY <1>4, <2>1 DEF DropLate, FragTypes, FragTypeOK
    <2>3. InHand'
      BY <1>4 DEF DropLate, FragTypes, FragTypeOK, InHand
    <2> QED  BY <2>2, <2>3 DEF FragTypes
  <1>5. ASSUME Datagram(t) PROVE FragTypes'
    <2>1. NoParts \in MultiParts
      BY DEF NoParts, MultiParts
    <2>2. FragTypeOK'
      BY <1>5, <2>1 DEF Datagram, FragTypes, FragTypeOK
    <2>3. InHand'
      BY <1>5 DEF Datagram, FragTypes, FragTypeOK, InHand
    <2> QED  BY <2>2, <2>3 DEF FragTypes
  <1>6. ASSUME TimeOut(t) PROVE FragTypes'
    <2>1. NoParts \in MultiParts
      BY DEF NoParts, MultiParts
    <2>2. PICK u \in Seq(Packets) : u = Pkts(multipart.parts)
      BY PktsOf, TypesOfFields DEF FragTypes
    <2>3. toRelease' = [toRelease EXCEPT ![t] = u]
      BY <1>6, <2>2 DEF TimeOut, Pkts
    <2>4. FragTypeOK'
      <3>1. multipart' \in MultiParts /\ timeouts' \in Nat /\ fragState' = "none" /\ gotLast' = FALSE
        BY <1>6, <2>1 DEF TimeOut, FragTypes, FragTypeOK
      <3>2. toRelease' \in [FThreads -> Seq(Packets)]
        BY <2>3 DEF FragTypes, FragTypeOK
      <3>3. fPc' \in [FThreads -> {"idle", "fragment", "datagram", "release", "decrement"}]
        BY <1>6 DEF TimeOut, FragTypes, FragTypeOK
      <3> QED  BY <1>6, <3>1, <3>2, <3>3 DEF TimeOut, FragTypes, FragTypeOK
    <2>5. InHand'
      BY <1>6, <2>3 DEF TimeOut, FragTypes, FragTypeOK, InHand
    <2> QED  BY <2>4, <2>5 DEF FragTypes
  <1>7. ASSUME See(t) \/ Released(t) PROVE FragTypes'
    <2>1. FragTypeOK'
      BY <1>7 DEF See, Released, ReleaseOne, FragTypes, FragTypeOK
    <2>2. InHand'
      BY <1>7 DEF See, Released, ReleaseOne, FragTypes, FragTypeOK, InHand
    <2> QED  BY <2>1, <2>2 DEF FragTypes
  <1>8. ASSUME Decrement(t) \/ Free(t) PROVE FragTypes'
    <2>1. toRelease[t] # <<>>
      BY <1>8 DEF Decrement, Free, FragTypes, InHand
    <2>2. PICK s \in Seq(Packets) : s = toRelease[t]
      BY DEF FragTypes, FragTypeOK
    <2>3. Head(s) \in Packets /\ Tail(s) \in Seq(Packets)
      BY <2>1, <2>2, HeadTailProperties
    <2>4. PICK p \in Packets, w \in Seq(Packets) : p = Head(toRelease[t]) /\ w = Tail(toRelease[t])
      BY <2>2, <2>3
    <2>5. toRelease' = [toRelease EXCEPT ![t] = w]
      BY <1>8, <2>4 DEF Decrement, Free
    <2>6. refcount' \in [Packets -> Int] /\ freedPkts' \subseteq Packets
      BY <1>8, <2>4 DEF Decrement, Free, FragTypes, FragTypeOK
    <2>7. fPc' = [fPc EXCEPT ![t] = "release"]
      BY <1>8 DEF Decrement, Free, ReleaseOne
    <2>8. FragTypeOK'
      BY <1>8, <2>5, <2>6, <2>7 DEF Decrement, Free, ReleaseOne, FragTypes, FragTypeOK
    <2>9. InHand'
      BY <1>8, <2>5, <2>7 DEF Decrement, Free, ReleaseOne, FragTypes, FragTypeOK, InHand
    <2> QED  BY <2>8, <2>9 DEF FragTypes
  <1> QED  BY <1>1, <1>2, <1>3, <1>4, <1>5, <1>6, <1>7, <1>8

-----------------------------------------------------------------------------
(* The room for packets, step by step.                                     *)
LEMMA PacketsLeftStep ==
  ASSUME FragTypes, PacketsLeft, NEW t \in FThreads,
         \/ \E c \in Cuts : Receive(t, c)
         \/ AddFragment(t) \/ SkipDouble(t) \/ DropLate(t) \/ Datagram(t) \/ TimeOut(t)
         \/ See(t) \/ Decrement(t) \/ Free(t) \/ Released(t)
  PROVE  PacketsLeft'
  <1>1. PICK T : T = Bearers
    OBVIOUS
  <1>2. PICK T2 : T2 = Bearers'
    OBVIOUS
  <1>3. IsFiniteSet(T) /\ Cardinality(T) \in Nat
    BY <1>1, BearersFinite
  <1>4. /\ lastPkt \in Nat /\ received \in Nat /\ MaxFragments \in Nat
        /\ lastPkt + Cardinality(T) <= 2 * received /\ received <= MaxFragments
    BY <1>1, FragmentsAssumption DEF FragTypes, FragTypeOK, PacketsLeft
  <1>5. SUFFICES lastPkt' + Cardinality(T2) <= 2 * received' /\ received' <= MaxFragments
    BY <1>2 DEF PacketsLeft
  <1>6. T2 = {s \in FThreads : fPc'[s] = "fragment"} /\ T = {s \in FThreads : fPc[s] = "fragment"}
    BY <1>1, <1>2 DEF Bearers
  <1>7. ASSUME NEW c \in Cuts, Receive(t, c)
        PROVE  lastPkt' + Cardinality(T2) <= 2 * received' /\ received' <= MaxFragments
    <2>1. /\ fPc[t] = "idle" /\ fPc' = [fPc EXCEPT ![t] = "fragment"]
          /\ lastPkt' = lastPkt + 1 /\ received' = received + 1 /\ received < MaxFragments
      BY <1>7 DEF Receive, Alloc
    <2>2. T2 = T \cup {t} /\ t \notin T
      BY <1>6, <2>1 DEF FragTypes, FragTypeOK
    <2>3. Cardinality(T2) = Cardinality(T) + 1
      BY <1>3, <2>2, FS_AddElement
    <2> QED  BY <1>3, <1>4, <2>1, <2>3
  <1>8. ASSUME AddFragment(t) \/ SkipDouble(t) \/ DropLate(t)
        PROVE  lastPkt' + Cardinality(T2) <= 2 * received' /\ received' <= MaxFragments
    <2>1. fPc[t] = "fragment"
      BY <1>8 DEF AddFragment, SkipDouble, DropLate
    <2>2. received' = received /\ \E l \in {"datagram", "release"} : fPc' = [fPc EXCEPT ![t] = l]
      BY <1>8 DEF AddFragment, SkipDouble, DropLate, Gathered
    <2>3. lastPkt' = lastPkt \/ lastPkt' = lastPkt + 1
      BY <1>8 DEF AddFragment, SkipDouble, DropLate, Clones, Clone, CloneShared, Alloc
    <2>4. T2 = T \ {t}
      BY <1>6, <2>2 DEF FragTypes, FragTypeOK
    <2>5. Cardinality(T2) = Cardinality(T) - 1
      BY <1>1, <2>1, <2>4, OneBearerLess
    <2> QED  BY <1>3, <1>4, <2>2, <2>3, <2>5
  <1>9. ASSUME Datagram(t) \/ TimeOut(t) \/ See(t) \/ Decrement(t) \/ Free(t) \/ Released(t)
        PROVE  lastPkt' + Cardinality(T2) <= 2 * received' /\ received' <= MaxFragments
    <2>1. received' = received /\ lastPkt' = lastPkt
      BY <1>9 DEF Datagram, TimeOut, See, Decrement, Free, Released, ReleaseOne
    <2>2. fPc[t] # "fragment" /\ \E l \in {"release", "decrement", "idle"} : fPc' = [fPc EXCEPT ![t] = l]
      BY <1>9 DEF Datagram, TimeOut, See, Decrement, Free, Released, ReleaseOne
    <2>3. T2 = T
      BY <1>6, <2>2 DEF FragTypes, FragTypeOK
    <2> QED  BY <1>4, <2>1, <2>3
  <1> QED  BY <1>7, <1>8, <1>9

-----------------------------------------------------------------------------
(* The references, step by step.                                           *)
LEMMA FragRefsStep ==
  ASSUME FragTypes, PacketsLeft, RefsHeld, FragTypes', NEW t \in FThreads,
         \/ \E c \in Cuts : Receive(t, c)
         \/ AddFragment(t) \/ SkipDouble(t) \/ DropLate(t) \/ Datagram(t) \/ TimeOut(t)
         \/ See(t) \/ Decrement(t) \/ Free(t) \/ Released(t)
  PROVE  RefsHeld'
  <1>1. PICK held : held = Held
    OBVIOUS
  <1>2. PICK held2 : held2 = Held'
    OBVIOUS
  <1>3. HeldAs(held, multipart.parts, fPc, own, toRelease)
    BY <1>1, HeldNow DEF FragTypes
  <1>4. HeldAs(held2, multipart'.parts, fPc', own', toRelease')
    BY <1>2, HeldNext DEF FragTypes
  <1>5. Counted(held, refcount, freedPkts, lastPkt)
    BY <1>1 DEF RefsHeld
  <1>6. SUFFICES Counted(held2, refcount', freedPkts', lastPkt')
    BY <1>2 DEF RefsHeld
  <1>7. /\ held \in [Holders -> Seq(Packets)] /\ held[Gathering] = Pkts(multipart.parts)
        /\ fPc[t] = "fragment" => held[t] = <<own[t]>>
        /\ fPc[t] # "fragment" => held[t] = toRelease[t]
    BY <1>3 DEF HeldAs
  <1>8. /\ held2 \in [Holders -> Seq(Packets)] /\ held2[Gathering] = Pkts(multipart'.parts)
        /\ fPc'[t] = "fragment" => held2[t] = <<own'[t]>>
        /\ fPc'[t] # "fragment" => held2[t] = toRelease'[t]
    BY <1>4 DEF HeldAs
  <1>9. t \in Holders /\ Gathering \in Holders /\ t # Gathering
    BY ThreadsHold
  <1>10. /\ refcount \in [Packets -> Int] /\ refcount' \in [Packets -> Int]
         /\ lastPkt \in Nat /\ lastPkt' \in Nat /\ multipart \in MultiParts
         /\ fPc \in [FThreads -> {"idle", "fragment", "datagram", "release", "decrement"}]
         /\ fPc' \in [FThreads -> {"idle", "fragment", "datagram", "release", "decrement"}]
    BY DEF FragTypes, FragTypeOK
  (* What the other threads hold stays.                                    *)
  <1>11. ASSUME \A s \in FThreads \ {t} : /\ fPc'[s] = fPc[s] /\ own'[s] = own[s]
                                          /\ toRelease'[s] = toRelease[s]
         PROVE  \A h \in Holders : h # t /\ h # Gathering => held2[h] = held[h]
    BY <1>3, <1>4, <1>11 DEF HeldAs, Holders
  <1>12. ASSUME NEW c \in Cuts, Receive(t, c)
         PROVE  Counted(held2, refcount', freedPkts', lastPkt')
    <2>1. PICK q \in Packets : q = lastPkt + 1
      BY <1>12, RoomForOne DEF Receive, FragTypes
    <2>2. /\ fPc[t] = "idle" /\ fPc'[t] = "fragment" /\ own'[t] = q /\ multipart' = multipart
          /\ \A s \in FThreads \ {t} : /\ fPc'[s] = fPc[s] /\ own'[s] = own[s]
                                       /\ toRelease'[s] = toRelease[s]
      BY <1>12, <2>1 DEF Receive, Alloc, FragTypes, FragTypeOK
    <2>3. held[t] = <<>>
      BY <1>7, <2>2 DEF FragTypes, InHand
    <2>4. PICK w \in Seq(Packets) : w = <<q>>
      <3>1. <<q>> \in Seq(Packets)
        OBVIOUS
      <3> QED  BY <3>1
    <2>5. Given(held, t, w, held2)
      BY <1>7, <1>8, <1>9, <1>11, <2>2, <2>4 DEF Given
    <2>6. Inserted(held[t], 0, q, w)
      BY <2>3, <2>4 DEF Inserted
    <2>7. q \notin freedPkts /\ refcount[q] = 0
      BY <1>5, <1>10, <2>1, NewUncounted
    <2>8. /\ lastPkt' = q /\ refcount'[q] = refcount[q] + 1 /\ freedPkts' = freedPkts
          /\ \A p \in Packets : p # q => refcount'[p] = refcount[p]
          /\ lastPkt <= lastPkt' /\ q <= lastPkt'
      BY <1>10, <1>12, <2>1, <2>7 DEF Receive, Alloc
    <2>9. Counted(held2, refcount', freedPkts, lastPkt')
      BY <1>5, <1>7, <1>9, <1>10, <2>5, <2>6, <2>7, <2>8, InsertCounted
    <2> QED  BY <2>8, <2>9
  <1>13. ASSUME AddFragment(t)
         PROVE  Counted(held2, refcount', freedPkts', lastPkt')
    <2>1. PICK q \in Clones(t) : Clone(t, q) /\ Gathered(t, Added(multipart, cut[t], q))
      BY <1>13 DEF AddFragment
    <2>2. fPc[t] = "fragment" /\ own[t] \in Packets /\ cut[t] \in Cuts
      BY <1>13 DEF AddFragment, FragTypes, FragTypeOK, InHand
    <2>3. q \in Packets
      BY <2>1, <2>2, RoomForOne DEF Clones, FragTypes
    <2>4. PICK m, k : /\ m \in MultiParts /\ m = Added(multipart, cut[t], q)
                      /\ Inserted(Pkts(multipart.parts), k, q, Pkts(m.parts))
      BY <1>10, <2>2, <2>3, AddedPart
    <2>5. PICK w \in Seq(Packets) : w = Pkts(m.parts)
      BY <2>4, PktsOf DEF MultiParts
    <2>6. Inserted(held[Gathering], k, q, w)
      BY <1>7, <2>4, <2>5
    <2>7. own[t] \in Packets \ freedPkts /\ ~(own[t] > lastPkt)
      <3>1. held[t] = <<own[t]>> /\ 1 \in DOMAIN held[t] /\ held[t][1] = own[t]
        BY <1>7, <2>2
      <3>2. held[t][1] \in Packets \ freedPkts /\ ~(held[t][1] > lastPkt)
        BY <1>5, <1>7, <1>9, <3>1, HeldNotFreed
      <3> QED  BY <3>1, <3>2
    <2>8. /\ q \notin freedPkts /\ refcount'[q] = refcount[q] + 1
          /\ lastPkt <= lastPkt' /\ q <= lastPkt'
      <3>1. CASE q = own[t]
        <4>1. lastPkt' = lastPkt /\ refcount'[q] = refcount[q] + 1
          BY <1>10, <2>1, <2>3, <3>1 DEF Clone, CloneShared
        <4>2. q \in Nat /\ ~(q > lastPkt)
          BY <2>7, <3>1, TypesOfFields DEF FragTypes
        <4> QED  BY <1>10, <2>7, <3>1, <4>1, <4>2
      <3>2. CASE q # own[t]
        <4>1. q = lastPkt + 1 /\ lastPkt' = q /\ refcount' = [refcount EXCEPT ![q] = 1]
          BY <2>1, <3>2 DEF Clones, Clone, Alloc
        <4>2. q \notin freedPkts /\ refcount[q] = 0
          BY <1>5, <1>10, <2>3, <4>1, NewUncounted
        <4> QED  BY <1>10, <2>3, <4>1, <4>2
      <3> QED  BY <3>1, <3>2
    <2>9. \A p \in Packets : p # q => refcount'[p] = refcount[p]
      BY <1>10, <2>1 DEF Clone, CloneShared, Alloc
    <2>10. PICK with : with = [held EXCEPT ![Gathering] = w]
      OBVIOUS
    <2>11. Given(held, Gathering, w, with)
      BY <1>7, <1>9, <2>10 DEF Given
    <2>12. Counted(with, refcount', freedPkts, lastPkt')
      BY <1>5, <1>7, <1>9, <1>10, <2>3, <2>6, <2>8, <2>9, <2>11, InsertCounted
    <2>13. HeldAs(with, m.parts, fPc, own, toRelease)
      <3>1. with \in [Holders -> Seq(Packets)] /\ with[Gathering] = w
        BY <2>11 DEF Given
      <3>2. \A s \in FThreads : with[s] = held[s]
        BY <2>11, ThreadsHold DEF Given
      <3> QED  BY <1>3, <2>5, <3>1, <3>2 DEF HeldAs
    <2>14. Counted(Held', refcount', freedPkts, lastPkt')
      BY <2>1, <2>2, <2>4, <2>12, <2>13, GatheredCounted DEF FragTypes
    <2>15. freedPkts' = freedPkts
      BY <2>1 DEF Gathered
    <2> QED  BY <1>2, <2>14, <2>15
  <1>14. ASSUME SkipDouble(t)
         PROVE  Counted(held2, refcount', freedPkts', lastPkt')
    <2>1. /\ fPc[t] = "fragment" /\ Gathered(t, multipart)
          /\ refcount' = refcount /\ lastPkt' = lastPkt /\ freedPkts' = freedPkts
      BY <1>14 DEF SkipDouble, Gathered
    <2>2. Counted(Held', refcount, freedPkts, lastPkt)
      BY <1>3, <1>5, <1>10, <2>1, GatheredCounted DEF FragTypes
    <2> QED  BY <1>2, <2>1, <2>2
  <1>15. ASSUME DropLate(t) \/ Datagram(t) \/ See(t) \/ Released(t)
         PROVE  Counted(held2, refcount', freedPkts', lastPkt')
    <2>1. /\ \A s \in FThreads \ {t} : /\ fPc'[s] = fPc[s] /\ own'[s] = own[s]
                                       /\ toRelease'[s] = toRelease[s]
          /\ refcount' = refcount /\ lastPkt' = lastPkt /\ freedPkts' = freedPkts
          /\ multipart' = multipart /\ fPc'[t] # "fragment"
      BY <1>15 DEF DropLate, Datagram, See, Released, ReleaseOne, FragTypes, FragTypeOK
    <2>2. held2[t] = held[t]
      <3>1. CASE DropLate(t)
        <4>1. fPc[t] = "fragment" /\ toRelease'[t] = <<own[t]>>
          BY <3>1 DEF DropLate, FragTypes, FragTypeOK
        <4> QED  BY <1>7, <1>8, <2>1, <4>1
      <3>2. CASE Datagram(t) \/ See(t) \/ Released(t)
        <4>1. fPc[t] # "fragment" /\ toRelease' = toRelease
          BY <3>2 DEF Datagram, See, Released
        <4> QED  BY <1>7, <1>8, <2>1, <4>1
      <3> QED  BY <1>15, <3>1, <3>2
    <2>3. \A h \in Holders : held2[h] = held[h]
      BY <1>7, <1>8, <1>11, <2>1, <2>2
    <2>4. held2 = held
      BY <1>7, <1>8, <2>3
    <2> QED  BY <1>5, <2>1, <2>4
  <1>16. ASSUME TimeOut(t)
         PROVE  Counted(held2, refcount', freedPkts', lastPkt')
    <2>1. /\ \A s \in FThreads \ {t} : /\ fPc'[s] = fPc[s] /\ own'[s] = own[s]
                                       /\ toRelease'[s] = toRelease[s]
          /\ refcount' = refcount /\ lastPkt' = lastPkt /\ freedPkts' = freedPkts
          /\ multipart' = NoParts /\ fPc[t] = "idle" /\ fPc'[t] = "release"
          /\ toRelease'[t] = Pkts(multipart.parts)
      BY <1>16 DEF TimeOut, FragTypes, FragTypeOK, Pkts
    <2>2. Pkts(NoParts.parts) = <<>>
      BY DEF Pkts, NoParts
    <2>3. held[t] = <<>>
      BY <1>7, <2>1 DEF FragTypes, InHand
    <2>4. held2[t] = held[Gathering] \o held[t]
      <3>1. PICK w \in Seq(Packets) : w = held[Gathering]
        BY <1>7, <1>9
      <3>2. w \o <<>> = w
        BY ConcatEmptySeq
      <3>3. held2[t] = w
        BY <1>7, <1>8, <2>1, <3>1
      <3> QED  BY <2>3, <3>1, <3>2, <3>3
    <2>5. Moved(held, Gathering, t, held2)
      BY <1>8, <1>11, <2>1, <2>2, <2>4 DEF Moved
    <2>6. Counted(held2, refcount, freedPkts, lastPkt)
      BY <1>5, <1>7, <1>9, <2>5, MoveCounted
    <2> QED  BY <2>1, <2>6
  <1>17. ASSUME Decrement(t) \/ Free(t)
         PROVE  Counted(held2, refcount', freedPkts', lastPkt')
    <2>1. /\ \A s \in FThreads \ {t} : /\ fPc'[s] = fPc[s] /\ own'[s] = own[s]
                                       /\ toRelease'[s] = toRelease[s]
          /\ lastPkt' = lastPkt /\ multipart' = multipart
          /\ fPc[t] # "fragment" /\ fPc'[t] # "fragment" /\ toRelease'[t] = Tail(toRelease[t])
      BY <1>17 DEF Decrement, Free, ReleaseOne, FragTypes, FragTypeOK
    <2>2. held[t] = toRelease[t] /\ held[t] # <<>>
      BY <1>7, <1>17, <2>1 DEF Decrement, Free, FragTypes, InHand
    <2>3. Given(held, t, Tail(held[t]), held2)
      BY <1>7, <1>8, <1>11, <2>1, <2>2 DEF Given
    <2>4. PICK q : q = Head(held[t])
      OBVIOUS
    <2>5. /\ q \in Packets \ freedPkts
          /\ \A count2 : /\ count2 \in [Packets -> Int] /\ count2[q] = refcount[q] - 1
                         /\ \A p \in Packets : p # q => count2[p] = refcount[p]
               => Counted(held2, count2, freedPkts, lastPkt)
          /\ ~(refcount[q] > 1) => Counted(held2, refcount, freedPkts \cup {q}, lastPkt)
      <3>1. OneLess(held2, refcount, freedPkts, lastPkt, q)
        BY <1>5, <1>7, <1>9, <1>10, <2>2, <2>3, <2>4, TailCounted
      <3> QED  BY <3>1 DEF OneLess
    <2>6. CASE Decrement(t)
      <3>1. /\ refcount'[q] = refcount[q] - 1 /\ freedPkts' = freedPkts
            /\ \A p \in Packets : p # q => refcount'[p] = refcount[p]
        BY <1>10, <2>2, <2>4, <2>5, <2>6 DEF Decrement
      <3>2. Counted(held2, refcount', freedPkts, lastPkt)
        BY <1>10, <2>5, <3>1
      <3> QED  BY <2>1, <3>1, <3>2
    <2>7. CASE Free(t)
      <3>1. /\ ~(refcount[q] > 1) /\ refcount' = refcount
            /\ freedPkts' = freedPkts \cup {q}
        BY <2>2, <2>4, <2>7 DEF Free, Others
      <3> QED  BY <2>1, <2>5, <3>1
    <2> QED  BY <1>17, <2>6, <2>7
  <1> QED  BY <1>12, <1>13, <1>14, <1>15, <1>16, <1>17

-----------------------------------------------------------------------------
LEMMA FragInit ==
  ASSUME FragmentsInit
  PROVE  FragInv
  <1>1. NoParts \in MultiParts /\ Pkts(NoParts.parts) = <<>>
    BY DEF NoParts, MultiParts, Pkts
  <1>2. (CHOOSE c \in Cuts : TRUE) \in Cuts
    BY FragmentsAssumption
  <1>3. FragTypeOK
    <2>1. /\ own \in [FThreads -> Nat] /\ cut \in [FThreads -> Cuts]
          /\ handed \in [FThreads -> MultiParts] /\ multipart \in MultiParts
      BY <1>1, <1>2 DEF FragmentsInit, NoPacket
    <2>2. toRelease \in [FThreads -> Seq(Packets)]
      BY DEF FragmentsInit
    <2>3. refcount \in [Packets -> Int] /\ lastPkt \in Nat
      BY DEF FragmentsInit, NoPacket
    <2> QED  BY <2>1, <2>2, <2>3 DEF FragmentsInit, FragTypeOK
  <1>4. InHand
    BY DEF FragmentsInit, InHand
  <1>5. Bearers = {}
    BY DEF FragmentsInit, Bearers
  <1>6. PacketsLeft
    BY <1>5, FragmentsAssumption, FS_EmptySet DEF FragmentsInit, PacketsLeft, NoPacket
  <1>7. PICK held : held = Held
    OBVIOUS
  <1>8. HeldAs(held, multipart.parts, fPc, own, toRelease)
    BY <1>3, <1>4, <1>7, HeldNow
  <1>9. \A h \in Holders : held[h] = <<>>
    BY <1>1, <1>8 DEF HeldAs, Holders, FragmentsInit
  <1>10. \A p \in Packets : ClaimsOn(held, p) = {}
    BY <1>9 DEF ClaimsOn
  <1>11. Counted(held, refcount, freedPkts, lastPkt)
    BY <1>10, FS_EmptySet DEF Counted, FragmentsInit
  <1>12. RefsHeld
    BY <1>7, <1>11 DEF RefsHeld
  <1> QED  BY <1>3, <1>4, <1>6, <1>12 DEF FragInv

LEMMA FragStep ==
  ASSUME FragInv, [FragmentsNext]_fVars
  PROVE  FragInv'
  <1>1. CASE FragmentsNext
    <2>1. FragTypes
      BY DEF FragInv, FragTypes
    <2>2. PICK t \in FThreads :
            \/ \E c \in Cuts : Receive(t, c)
            \/ AddFragment(t) \/ SkipDouble(t) \/ DropLate(t) \/ Datagram(t) \/ TimeOut(t)
            \/ See(t) \/ Decrement(t) \/ Free(t) \/ Released(t)
      BY <1>1 DEF FragmentsNext
    <2>3. FragTypes'
      BY <2>1, <2>2, FragTypesStep DEF FragInv
    <2>4. PacketsLeft'
      BY <2>1, <2>2, PacketsLeftStep DEF FragInv
    <2>5. RefsHeld'
      BY <2>1, <2>2, <2>3, FragRefsStep DEF FragInv
    <2> QED  BY <2>3, <2>4, <2>5 DEF FragInv, FragTypes
  <1>2. CASE UNCHANGED fVars
    BY <1>2
       DEF FragInv, FragTypeOK, InHand, PacketsLeft, Bearers, RefsHeld, Held, HeldOf, fVars
  <1> QED  BY <1>1, <1>2

LEMMA FragMeans ==
  ASSUME FragInv
  PROVE  FreedPacketUnused
  <1>1. PICK held : held = Held
    OBVIOUS
  <1>2. HeldAs(held, multipart.parts, fPc, own, toRelease)
    BY <1>1, HeldNow DEF FragInv
  <1>3. /\ held \in [Holders -> Seq(Packets)] /\ held[Gathering] = Pkts(multipart.parts)
        /\ \A t \in FThreads : /\ fPc[t] = "fragment" => held[t] = <<own[t]>>
                               /\ fPc[t] # "fragment" => held[t] = toRelease[t]
    BY <1>2 DEF HeldAs
  <1>4. Counted(held, refcount, freedPkts, lastPkt)
    BY <1>1 DEF FragInv, RefsHeld
  <1>5. \A h \in Holders : \A i \in DOMAIN held[h] : held[h][i] \notin freedPkts
    BY <1>3, <1>4, HeldNotFreed
  <1>6. ASSUME NEW i \in DOMAIN multipart.parts
        PROVE  multipart.parts[i].pkt \notin freedPkts
    <2>1. i \in DOMAIN Pkts(multipart.parts) /\ Pkts(multipart.parts)[i] = multipart.parts[i].pkt
      BY <1>6 DEF Pkts
    <2> QED  BY <1>3, <1>5, <2>1, ThreadsHold
  <1>7. ASSUME NEW t \in FThreads, fPc[t] = "fragment"
        PROVE  own[t] \notin freedPkts
    <2>1. held[t] = <<own[t]>> /\ 1 \in DOMAIN held[t] /\ held[t][1] = own[t]
      BY <1>3, <1>7
    <2> QED  BY <1>5, <2>1, ThreadsHold
  <1>8. ASSUME NEW t \in FThreads, NEW p \in freedPkts
        PROVE  p \notin Range(toRelease[t])
    <2>1. CASE fPc[t] = "fragment"
      BY <2>1 DEF FragInv, InHand, Range
    <2>2. CASE fPc[t] # "fragment"
      BY <1>3, <1>5, <2>2, ThreadsHold DEF Range
    <2> QED  BY <2>1, <2>2
  <1> QED  BY <1>6, <1>7, <1>8 DEF FreedPacketUnused

(* Fragments have packets, packets have references, and as many as there   *)
(* are places that hold them: in the list of the datagram that is being    *)
(* gathered, in the hand of a thread, and among those that it will         *)
(* release.                                                                *)
THEOREM FragmentsInvariant == FragmentsSpec => []FragInv
  <1> QED  BY FragInit, FragStep, PTL DEF FragmentsSpec

(* However many threads release the parts of a datagram at once, no packet *)
(* is freed while a multipart has it, a thread handles it, or it has to be *)
(* released still: two that both saw a second reference leak the packet,   *)
(* and never free it twice.                                                *)
THEOREM FreedPacketsUnused == FragmentsSpec => []FreedPacketUnused
  <1> QED  BY FragmentsInvariant, FragMeans, PTL
-----------------------------------------------------------------------------
(* Fragments (Fragments).  The bytes of a list of parts, and where one     *)
(* begins behind a gap.  When fragments are cut in the same places however *)
(* often they are sent, what the code counts as gaps is never less than    *)
(* the gaps there are.                                                     *)
CutOnce == \A c, d \in Cuts : c = d \/ PartEnd(c) <= d.off \/ PartEnd(d) <= c.off

BytesOf(list) == {b \in Nat : \E i \in DOMAIN list : list[i].off <= b /\ b < PartEnd(list[i])}
GapEnds(bytes) == {b \in bytes : b > 0 /\ b - 1 \notin bytes}

AreCuts(list) == \A i \in DOMAIN list : [off |-> list[i].off, len |-> list[i].len] \in Cuts
InPlace(list) == \A i, j \in DOMAIN list : i < j => PartEnd(list[i]) <= list[j].off

GapsCounted(m) ==
  /\ AreCuts(m.parts) /\ InPlace(m.parts)
  /\ m.cur = Cardinality(BytesOf(m.parts))
  /\ Cardinality(GapEnds(BytesOf(m.parts))) <= m.gaps

HasLast(m) == \E i \in DOMAIN m.parts : PartEnd(m.parts[i]) = DatagramLen

DatagramInv ==
  /\ GapsCounted(multipart)
  /\ gotLast /\ fragState # "processed" => HasLast(multipart)
  /\ \A t \in FThreads : fPc[t] = "datagram" =>
       GapsCounted(handed[t]) /\ HasLast(handed[t]) /\ handed[t].gaps = 0

LEMMA CutTypes ==
  /\ DatagramLen \in Nat \ {0}
  /\ \A c \in Cuts : /\ c.off \in Nat /\ c.len \in Nat \ {0} /\ PartEnd(c) = c.off + c.len
                     /\ PartEnd(c) \in Nat /\ PartEnd(c) <= DatagramLen /\ c.off < PartEnd(c)
                     /\ c = [off |-> c.off, len |-> c.len]
  BY FragmentsAssumption DEF PartEnd

(* The parts of a list, one by one.                                        *)
LEMMA PartTypes ==
  ASSUME NEW list \in Seq(Part), AreCuts(list), NEW i \in DOMAIN list
  PROVE  /\ i \in 1 .. Len(list) /\ list[i].off \in Nat /\ list[i].len \in Nat \ {0}
         /\ PartEnd(list[i]) = list[i].off + list[i].len /\ PartEnd(list[i]) \in Nat
         /\ PartEnd(list[i]) <= DatagramLen /\ list[i].off < PartEnd(list[i])
         /\ PartEnd(list[i]) - 1 \in BytesOf(list) /\ list[i].off \in BytesOf(list)
  <1>1. PICK c \in Cuts : c = [off |-> list[i].off, len |-> list[i].len]
    BY DEF AreCuts
  <1>2. c.off = list[i].off /\ c.len = list[i].len
    BY <1>1
  <1>3. PartEnd(list[i]) = PartEnd(c)
    BY <1>2 DEF PartEnd
  <1>4. /\ c.off \in Nat /\ c.len \in Nat \ {0} /\ PartEnd(c) = c.off + c.len
        /\ PartEnd(c) \in Nat /\ PartEnd(c) <= DatagramLen /\ c.off < PartEnd(c)
    BY CutTypes
  <1>5. PartEnd(c) - 1 \in Nat /\ c.off <= PartEnd(c) - 1 /\ PartEnd(c) - 1 < PartEnd(c)
    BY <1>4
  <1>6. PartEnd(list[i]) - 1 \in BytesOf(list) /\ list[i].off \in BytesOf(list)
    BY <1>2, <1>3, <1>4, <1>5 DEF BytesOf
  <1>7. i \in 1 .. Len(list)
    OBVIOUS
  <1> QED  BY <1>2, <1>3, <1>4, <1>6, <1>7

LEMMA BytesFinite ==
  ASSUME NEW list \in Seq(Part), AreCuts(list)
  PROVE  /\ BytesOf(list) \subseteq 0 .. DatagramLen - 1 /\ BytesOf(list) \subseteq Nat
         /\ IsFiniteSet(BytesOf(list))
  <1>1. BytesOf(list) \in SUBSET (0 .. DatagramLen - 1)
    <2> SUFFICES ASSUME NEW b \in BytesOf(list) PROVE b \in 0 .. DatagramLen - 1
      OBVIOUS
    <2>1. PICK i \in DOMAIN list : b \in Nat /\ b < PartEnd(list[i])
      BY DEF BytesOf
    <2>2. PartEnd(list[i]) \in Nat /\ PartEnd(list[i]) <= DatagramLen
      BY PartTypes
    <2> QED  BY <2>1, <2>2, CutTypes
  <1>2. IsFiniteSet(0 .. DatagramLen - 1)
    <2>1. 0 \in Int /\ DatagramLen - 1 \in Int
      BY CutTypes
    <2> QED  BY <2>1, FS_Interval
  <1> QED  BY <1>1, <1>2, FS_Subset DEF BytesOf

(* A fragment that is not there yet lies between the parts around it.      *)
LEMMA PlaceBetween ==
  ASSUME CutOnce, NEW list \in Seq(Part), AreCuts(list), InPlace(list), NEW c \in Cuts,
         ~IsDouble(list, c)
  PROVE  /\ Place(list, c) \in 0 .. Len(list)
         /\ \A i \in 1 .. Len(list) :
              /\ i <= Place(list, c) => PartEnd(list[i]) <= c.off
              /\ i > Place(list, c) => PartEnd(c) <= list[i].off
  <1> DEFINE ended == {i \in DOMAIN list : PartEnd(list[i]) <= c.off}
  <1>1. PICK n \in Nat : n = Len(list) /\ DOMAIN list = 1 .. n
    OBVIOUS
  <1>2. PICK k \in 0 .. n : k = Place(list, c)
    BY <1>1, PlaceIsThere
  <1>3. ended \in SUBSET Nat /\ IsFiniteSet(ended) /\ \A i \in ended : i \in 1 .. n
    <2>1. ended \in SUBSET (1 .. n) /\ IsFiniteSet(1 .. n)
      BY <1>1, FS_Interval
    <2> QED  BY <2>1, FS_Subset
  <1>4. k = IF ended = {} THEN 0 ELSE Max(ended)
    BY <1>2 DEF Place
  <1>5. /\ ended # {} => k \in ended
        /\ \A i \in ended : i <= k
    <2> HIDE DEF ended
    <2> QED  BY <1>3, <1>4, MaxOfNats
  <1>6. c.off \in Nat /\ PartEnd(c) \in Nat
    BY CutTypes
  <1>7. ASSUME NEW i \in 1 .. n, i <= k PROVE PartEnd(list[i]) <= c.off
    <2>1. k \in ended /\ k \in DOMAIN list
      BY <1>1, <1>4, <1>5, <1>7
    <2>2. /\ PartEnd(list[i]) \in Nat /\ list[k].off \in Nat /\ PartEnd(list[k]) \in Nat
          /\ list[k].off < PartEnd(list[k])
      BY <1>1, <2>1, PartTypes
    <2>3. PartEnd(list[k]) <= c.off
      BY <2>1
    <2>4. i < k => PartEnd(list[i]) <= list[k].off
      BY <1>1, <2>1 DEF InPlace
    <2> QED  BY <1>6, <1>7, <2>2, <2>3, <2>4
  <1>8. ASSUME NEW i \in 1 .. n, i > k PROVE PartEnd(c) <= list[i].off
    <2>1. i \notin ended /\ i \in DOMAIN list
      BY <1>1, <1>2, <1>5, <1>8
    <2>2. ~(PartEnd(list[i]) <= c.off)
      BY <2>1
    <2>3. PICK d \in Cuts : d = [off |-> list[i].off, len |-> list[i].len]
      BY <2>1 DEF AreCuts
    <2>4. d.off = list[i].off /\ PartEnd(d) = PartEnd(list[i])
      BY <2>3 DEF PartEnd
    <2>5. list[i].off # c.off
      BY <1>1, <1>2, <1>8 DEF IsDouble
    <2> QED  BY <2>2, <2>4, <2>5 DEF CutOnce
  <1> QED  BY <1>1, <1>2, <1>7, <1>8

(* The bytes and the gaps once the bytes a .. e - 1 are there as well.     *)
Filled(C, D, a, e) ==
  /\ Cardinality(D) = Cardinality(C) + (e - a)
  /\ Cardinality(GapEnds(C)) \in Nat /\ Cardinality(GapEnds(D)) \in Nat
  /\ Cardinality(GapEnds(D)) <= Cardinality(GapEnds(C)) + 1
  /\ a = 0 \/ a - 1 \in C \/ e \in C =>
       Cardinality(GapEnds(D)) <= Cardinality(GapEnds(C))
  /\ (a = 0 \/ a - 1 \in C) /\ e \in C =>
       Cardinality(GapEnds(D)) <= Cardinality(GapEnds(C)) - 1

LEMMA GapsGrow ==
  ASSUME NEW C \in SUBSET Nat, IsFiniteSet(C), NEW a \in Nat, NEW e \in Nat, a < e,
         \A b \in a .. e - 1 : b \notin C, NEW D, D = C \cup (a .. e - 1)
  PROVE  Filled(C, D, a, e)
  <1> DEFINE I == a .. e - 1
             G == GapEnds(C)
             G2 == GapEnds(D)
             R == G \ {e}
  <1>1. IsFiniteSet(I) /\ Cardinality(I) = e - a /\ C \cap I = {}
    BY FS_Interval
  <1>2. Cardinality(D) = Cardinality(C) + (e - a) /\ IsFiniteSet(D) /\ Cardinality(C) \in Nat
    <2>1. IsFiniteSet(C \cup I) /\ Cardinality(C \cup I) = Cardinality(C) + Cardinality(I) - Cardinality(C \cap I)
      BY <1>1, FS_Union
    <2>2. Cardinality(C \cap I) = 0
      BY <1>1, FS_EmptySet
    <2>3. Cardinality(C) \in Nat
      BY FS_CardinalityType
    <2> QED  BY <1>1, <2>1, <2>2, <2>3
  <1>3. IsFiniteSet(G) /\ IsFiniteSet(G2) /\ Cardinality(G) \in Nat /\ Cardinality(G2) \in Nat
    <2>1. G \in SUBSET C /\ G2 \in SUBSET D
      BY DEF GapEnds
    <2>2. IsFiniteSet(G) /\ IsFiniteSet(G2)
      BY <1>2, <2>1, FS_Subset
    <2> QED  BY <2>2, FS_CardinalityType
  <1>4. \A b \in Nat : b \in I <=> a <= b /\ b < e
    OBVIOUS
  <1>5. e \in G <=> e \in C
    <2>1. e > 0 /\ e - 1 \in I
      OBVIOUS
    <2> QED  BY <1>1, <2>1 DEF GapEnds
  <1>6. ASSUME NEW b \in G2 PROVE b \in R \/ (b = a /\ ~(a = 0 \/ a - 1 \in C))
    <2>1. b \in Nat /\ b > 0 /\ b - 1 \notin C /\ b - 1 \notin I /\ b \in C \cup I
      BY DEF GapEnds
    <2>2. CASE b \in C
      <3>1. b # e
        BY <1>4, <2>1
      <3> QED  BY <2>1, <2>2, <3>1 DEF GapEnds
    <2>3. CASE b \in I
      <3>1. b = a
        BY <1>4, <2>1, <2>3
      <3> QED  BY <2>1, <3>1
    <2> QED  BY <2>1, <2>2, <2>3
  <1> HIDE DEF I, G, G2, R
  <1>7. IsFiniteSet(R) /\ Cardinality(R) = IF e \in C THEN Cardinality(G) - 1 ELSE Cardinality(G)
    BY <1>3, <1>5, FS_RemoveElement DEF R
  <1>8. Cardinality(R) \in Nat
    BY <1>7, FS_CardinalityType
  <1>9. a = 0 \/ a - 1 \in C => Cardinality(G2) <= Cardinality(R)
    <2> SUFFICES ASSUME a = 0 \/ a - 1 \in C PROVE Cardinality(G2) <= Cardinality(R)
      OBVIOUS
    <2>1. G2 \in SUBSET R
      BY <1>6
    <2> QED  BY <1>7, <2>1, FS_Subset
  <1>10. Cardinality(G2) <= Cardinality(R) + 1
    <2>1. G2 \in SUBSET (R \cup {a})
      BY <1>6
    <2>2. IsFiniteSet(R \cup {a}) /\ (Cardinality(R \cup {a}) = Cardinality(R) \/ Cardinality(R \cup {a}) = Cardinality(R) + 1)
      BY <1>7, FS_AddElement
    <2>3. Cardinality(G2) <= Cardinality(R \cup {a})
      BY <2>1, <2>2, FS_Subset
    <2> QED  BY <1>3, <1>8, <2>2, <2>3
  <1>11. /\ Cardinality(G2) <= Cardinality(G) + 1
         /\ a = 0 \/ a - 1 \in C \/ e \in C => Cardinality(G2) <= Cardinality(G)
         /\ (a = 0 \/ a - 1 \in C) /\ e \in C => Cardinality(G2) <= Cardinality(G) - 1
    <2>1. CASE e \in C
      BY <1>3, <1>7, <1>8, <1>9, <1>10, <2>1
    <2>2. CASE e \notin C
      BY <1>3, <1>7, <1>8, <1>9, <1>10, <2>2
    <2> QED  BY <2>1, <2>2
  <1> QED  BY <1>2, <1>3, <1>11 DEF Filled, G, G2

(* What the code adds to its count of gaps is enough.                      *)
LEMMA GapChangeEnough ==
  ASSUME CutOnce, NEW list \in Seq(Part), AreCuts(list), InPlace(list), NEW c \in Cuts,
         ~IsDouble(list, c), NEW k, k = Place(list, c),
         NEW C, C = BytesOf(list), NEW D, D = C \cup (c.off .. PartEnd(c) - 1),
         \A b \in c.off .. PartEnd(c) - 1 : b \notin C
  PROVE  /\ Cardinality(D) = Cardinality(C) + c.len
         /\ Cardinality(GapEnds(C)) \in Nat /\ Cardinality(GapEnds(D)) \in Nat
         /\ GapChange(list, k, c) \in Int
         /\ Cardinality(GapEnds(D)) <= Cardinality(GapEnds(C)) + GapChange(list, k, c)
  <1>1. PICK n \in Nat : n = Len(list) /\ DOMAIN list = 1 .. n
    OBVIOUS
  <1>2. /\ k \in 0 .. n
        /\ \A i \in 1 .. n : /\ i <= k => PartEnd(list[i]) <= c.off
                             /\ i > k => PartEnd(c) <= list[i].off
    BY <1>1, PlaceBetween
  <1>3. PICK a \in Nat, e \in Nat : a = c.off /\ e = PartEnd(c) /\ a < e /\ e = a + c.len /\ c.len \in Nat
    BY CutTypes
  <1>4. \A i \in 1 .. n : /\ list[i].off \in C /\ PartEnd(list[i]) - 1 \in C
                          /\ list[i].off \in Nat /\ PartEnd(list[i]) \in Nat
    BY <1>1, PartTypes
  <1>5. C \in SUBSET Nat /\ IsFiniteSet(C)
    BY BytesFinite
  <1> DEFINE G == Cardinality(GapEnds(C))
             H == Cardinality(GapEnds(D))
  <1>6. /\ Cardinality(D) = Cardinality(C) + (e - a)
        /\ G \in Nat /\ H \in Nat
        /\ H <= G + 1
        /\ a = 0 \/ a - 1 \in C \/ e \in C => H <= G
        /\ (a = 0 \/ a - 1 \in C) /\ e \in C => H <= G - 1
    <2>1. D = C \cup (a .. e - 1) /\ \A b \in a .. e - 1 : b \notin C
      BY <1>3
    <2>2. Filled(C, D, a, e)
      BY <1>3, <1>5, <2>1, GapsGrow
    <2> QED  BY <2>2 DEF Filled
  <1> HIDE DEF G, H
  <1>7. GapChange(list, k, c) \in {-1, 0, 1} /\ H <= G + GapChange(list, k, c)
    <2>1. CASE k = 0
      <3>1. GapChange(list, k, c) = GapAtHead(list, c)
        BY <2>1 DEF GapChange
      <3>2. CASE a # 0
        BY <1>3, <1>6, <3>1, <3>2 DEF GapAtHead
      <3>3. CASE a = 0 /\ list # <<>> /\ c.len = list[1].off
        <4>1. e \in C
          <5>1. n # 0
            BY <1>1, <3>3
          <5> QED  BY <1>1, <1>3, <1>4, <3>3, <5>1
        <4>2. GapAtHead(list, c) = -1
          BY <1>3, <3>3 DEF GapAtHead
        <4> QED  BY <1>6, <3>1, <3>3, <4>1, <4>2
      <3>4. CASE a = 0 /\ ~(list # <<>> /\ c.len = list[1].off)
        BY <1>3, <1>6, <3>1, <3>4 DEF GapAtHead
      <3> QED  BY <3>2, <3>3, <3>4
    <2>2. CASE k # 0
      <3>1. /\ k \in 1 .. n /\ PartEnd(list[k]) <= a /\ PartEnd(list[k]) \in Nat
            /\ PartEnd(list[k]) - 1 \in C
        BY <1>2, <1>3, <1>4, <2>2, SMTT(30)
      <3>2. PartEnd(list[k]) = a => a - 1 \in C
        BY <3>1
      <3>3. CASE k = n
        <4>1. GapChange(list, k, c) = GapAtTail(list[k], c)
          BY <1>1, <2>2, <3>3 DEF GapChange
        <4>2. GapAtTail(list[k], c) = IF PartEnd(list[k]) < a THEN 1 ELSE 0
          BY <1>3 DEF GapAtTail
        <4> QED  BY <1>6, <3>1, <3>2, <4>1, <4>2
      <3>4. CASE k # n
        <4>1. k + 1 \in 1 .. n /\ k + 1 > k
          BY <3>1, <3>4
        <4>2. e <= list[k + 1].off /\ list[k + 1].off \in C /\ list[k + 1].off \in Nat
          BY <1>2, <1>3, <1>4, <4>1
        <4>3. GapChange(list, k, c) = GapBetween(list[k], list[k + 1], c)
          BY <1>1, <2>2, <3>4 DEF GapChange
        <4>4. GapBetween(list[k], list[k + 1], c) =
                IF list[k + 1].off = e /\ PartEnd(list[k]) = a THEN -1
                ELSE IF list[k + 1].off > e /\ PartEnd(list[k]) < a THEN 1 ELSE 0
          BY <1>3 DEF GapBetween
        <4>5. CASE list[k + 1].off = e /\ PartEnd(list[k]) = a
          BY <1>6, <3>2, <4>2, <4>3, <4>4, <4>5
        <4>6. CASE list[k + 1].off > e /\ PartEnd(list[k]) < a
          BY <1>6, <3>1, <4>2, <4>3, <4>4, <4>6
        <4>7. CASE /\ ~(list[k + 1].off = e /\ PartEnd(list[k]) = a)
                   /\ ~(list[k + 1].off > e /\ PartEnd(list[k]) < a)
          <5>1. list[k + 1].off = e \/ PartEnd(list[k]) = a
            BY <3>1, <4>2, <4>7
          <5>2. H <= G
            BY <1>6, <3>2, <4>2, <5>1
          <5> QED  BY <1>6, <4>3, <4>4, <4>7, <5>2
        <4> QED  BY <4>5, <4>6, <4>7
      <3> QED  BY <3>3, <3>4
    <2> QED  BY <2>1, <2>2
  <1>8. Cardinality(C) \in Nat /\ e - a = c.len
    BY <1>3, <1>5, FS_CardinalityType
  <1> QED  BY <1>6, <1>7, <1>8 DEF G, H

(* A fragment put between the parts around it.                             *)
LEMMA InsertedGood ==
  ASSUME CutOnce, NEW list \in Seq(Part), AreCuts(list), InPlace(list), NEW c \in Cuts,
         ~IsDouble(list, c), NEW part \in Part, part.off = c.off, part.len = c.len,
         NEW w \in Seq(Part), Inserted(list, Place(list, c), part, w)
  PROVE  /\ AreCuts(w) /\ InPlace(w)
         /\ BytesOf(w) = BytesOf(list) \cup (c.off .. PartEnd(c) - 1)
         /\ \A b \in c.off .. PartEnd(c) - 1 : b \notin BytesOf(list)
  <1>1. PICK n \in Nat : n = Len(list) /\ DOMAIN list = 1 .. n
    OBVIOUS
  <1>2. PICK k \in 0 .. n : /\ k = Place(list, c)
        /\ \A i \in 1 .. n : /\ i <= k => PartEnd(list[i]) <= c.off
                             /\ i > k => PartEnd(c) <= list[i].off
    BY <1>1, PlaceBetween
  <1>3. /\ Len(w) = n + 1 /\ DOMAIN w = 1 .. n + 1
        /\ \A i \in 1 .. n + 1 :
             w[i] = IF i <= k THEN list[i] ELSE IF i = k + 1 THEN part ELSE list[i - 1]
    BY <1>1, <1>2 DEF Inserted
  <1>4. PICK a \in Nat, e \in Nat : a = c.off /\ e = PartEnd(c) /\ a < e
    BY CutTypes
  <1>5. PartEnd(part) = e
    BY <1>4 DEF PartEnd
  <1>6. \A i \in 1 .. n : /\ list[i].off \in Nat /\ PartEnd(list[i]) \in Nat
                          /\ list[i].off < PartEnd(list[i])
    BY <1>1, PartTypes
  <1>7. AreCuts(w)
    <2>1. SUFFICES ASSUME NEW i \in 1 .. n + 1
                   PROVE  [off |-> w[i].off, len |-> w[i].len] \in Cuts
      BY <1>3 DEF AreCuts
    <2>2. CASE i <= k
      BY <1>1, <1>3, <2>2, SMTT(30) DEF AreCuts
    <2>3. CASE i = k + 1
      <3>1. w[i] = part
        BY <1>2, <1>3, <2>3
      <3> QED  BY <3>1, CutTypes
    <2>4. CASE i > k + 1
      <3>1. w[i] = list[i - 1] /\ i - 1 \in DOMAIN list
        BY <1>1, <1>2, <1>3, <2>4
      <3> QED  BY <3>1 DEF AreCuts
    <2> QED  BY <1>2, <2>2, <2>3, <2>4
  <1>8. InPlace(w)
    <2>1. SUFFICES ASSUME NEW i \in 1 .. n + 1, NEW j \in 1 .. n + 1, i < j
                   PROVE  PartEnd(w[i]) <= w[j].off
      BY <1>3 DEF InPlace
    <2>2. \A g, h \in 1 .. n : g < h => PartEnd(list[g]) <= list[h].off
      BY <1>1 DEF InPlace
    <2>3. CASE j <= k
      <3>1. i <= k /\ i \in 1 .. n /\ j \in 1 .. n
        BY <1>2, <2>1, <2>3
      <3>2. w[i] = list[i] /\ w[j] = list[j]
        BY <1>3, <2>3, <3>1
      <3> QED  BY <2>1, <2>2, <3>1, <3>2
    <2>4. CASE j = k + 1
      <3>1. w[j] = part /\ w[i] = list[i] /\ i \in 1 .. n /\ i <= k
        BY <1>2, <1>3, <2>1, <2>4
      <3> QED  BY <1>2, <3>1
    <2>5. CASE j > k + 1
      <3>1. w[j] = list[j - 1] /\ j - 1 \in 1 .. n /\ j - 1 > k
        BY <1>2, <1>3, <2>5
      <3>2. CASE i <= k
        <4>1. w[i] = list[i] /\ i \in 1 .. n /\ i < j - 1
          BY <1>2, <1>3, <2>5, <3>2
        <4> QED  BY <2>2, <3>1, <4>1
      <3>3. CASE i = k + 1
        <4>1. w[i] = part
          BY <1>2, <1>3, <3>3
        <4> QED  BY <1>2, <1>4, <1>5, <3>1, <4>1
      <3>4. CASE i > k + 1
        <4>1. w[i] = list[i - 1] /\ i - 1 \in 1 .. n /\ i - 1 < j - 1
          BY <1>2, <1>3, <2>1, <3>4
        <4> QED  BY <2>2, <3>1, <4>1
      <3> QED  BY <1>2, <3>2, <3>3, <3>4
    <2> QED  BY <1>2, <2>3, <2>4, <2>5
  <1>9. ASSUME NEW b \in BytesOf(w) PROVE b \in BytesOf(list) \cup (a .. e - 1)
    <2>1. PICK i \in 1 .. n + 1 : b \in Nat /\ w[i].off <= b /\ b < PartEnd(w[i])
      BY <1>3 DEF BytesOf
    <2>2. CASE i <= k
      <3>1. w[i] = list[i] /\ i \in DOMAIN list
        BY <1>1, <1>2, <1>3, <2>2
      <3> QED  BY <2>1, <3>1 DEF BytesOf
    <2>3. CASE i = k + 1
      <3>1. w[i] = part
        BY <1>2, <1>3, <2>3
      <3> QED  BY <1>4, <1>5, <2>1, <3>1
    <2>4. CASE i > k + 1
      <3>1. w[i] = list[i - 1] /\ i - 1 \in DOMAIN list
        BY <1>1, <1>2, <1>3, <2>4
      <3> QED  BY <2>1, <3>1 DEF BytesOf
    <2> QED  BY <1>2, <2>2, <2>3, <2>4
  <1>10. ASSUME NEW b \in a .. e - 1 PROVE b \in BytesOf(w)
    <2>1. k + 1 \in DOMAIN w /\ w[k + 1] = part
      BY <1>2, <1>3
    <2>2. b \in Nat /\ part.off <= b /\ b < PartEnd(part)
      BY <1>4, <1>5
    <2> QED  BY <2>1, <2>2 DEF BytesOf
  <1>11. ASSUME NEW b \in BytesOf(list) PROVE b \in BytesOf(w) /\ b \notin a .. e - 1
    <2>1. PICK i \in 1 .. n : b \in Nat /\ list[i].off <= b /\ b < PartEnd(list[i])
      BY <1>1 DEF BytesOf
    <2>2. CASE i <= k
      <3>1. w[i] = list[i] /\ i \in DOMAIN w /\ PartEnd(list[i]) <= a
        BY <1>2, <1>3, <1>4, <2>2
      <3>2. b < a
        BY <1>6, <2>1, <3>1
      <3> QED  BY <2>1, <3>1, <3>2 DEF BytesOf
    <2>3. CASE i > k
      <3>1. i + 1 \in DOMAIN w /\ w[i + 1] = list[i] /\ e <= list[i].off
        <4>1. i + 1 \in 1 .. n + 1 /\ ~(i + 1 <= k) /\ i + 1 # k + 1 /\ (i + 1) - 1 = i
          BY <1>2, <2>3
        <4> QED  BY <1>2, <1>3, <1>4, <2>3, <4>1
      <3>2. b >= e
        BY <1>6, <2>1, <3>1
      <3>3. b \in BytesOf(w)
        BY <2>1, <3>1 DEF BytesOf
      <3> QED  BY <3>2, <3>3
    <2> QED  BY <1>2, <2>2, <2>3
  <1> QED  BY <1>4, <1>7, <1>8, <1>9, <1>10, <1>11

LEMMA AddedGood ==
  ASSUME CutOnce, NEW m \in MultiParts, GapsCounted(m), NEW c \in Cuts,
         ~IsDouble(m.parts, c), NEW p \in Packets, NEW m2, m2 = Added(m, c, p)
  PROVE  /\ GapsCounted(m2) /\ (HasLast(m) \/ PartEnd(c) = DatagramLen => HasLast(m2))
  <1>1. PICK list, k : list \in Seq(Part) /\ list = m.parts /\ k = Place(list, c)
    BY DEF MultiParts
  <1>2. m.gaps \in Int /\ m.cur \in Nat /\ AreCuts(list) /\ InPlace(list)
        /\ m.cur = Cardinality(BytesOf(list)) /\ Cardinality(GapEnds(BytesOf(list))) <= m.gaps
    BY <1>1 DEF MultiParts, GapsCounted
  <1>3. PICK part \in Part : part = [off |-> c.off, len |-> c.len, pkt |-> p]
    BY CutTypes DEF Part
  <1>4. part.off = c.off /\ part.len = c.len /\ PartEnd(part) = PartEnd(c)
    BY <1>3 DEF PartEnd
  <1>5. k \in 0 .. Len(list)
    BY <1>1, <1>2, PlaceBetween
  <1>6. PICK w \in Seq(Part) : w = InsertAt(list, k + 1, part) /\ Inserted(list, k, part, w)
    BY <1>1, <1>5, InsertedPlace
  <1>7. /\ AreCuts(w) /\ InPlace(w)
        /\ BytesOf(w) = BytesOf(list) \cup (c.off .. PartEnd(c) - 1)
        /\ \A b \in c.off .. PartEnd(c) - 1 : b \notin BytesOf(list)
    BY <1>1, <1>2, <1>4, <1>6, InsertedGood
  <1>8. /\ Cardinality(BytesOf(w)) = Cardinality(BytesOf(list)) + c.len
        /\ Cardinality(GapEnds(BytesOf(list))) \in Nat /\ Cardinality(GapEnds(BytesOf(w))) \in Nat
        /\ GapChange(list, k, c) \in Int
        /\ Cardinality(GapEnds(BytesOf(w))) <= Cardinality(GapEnds(BytesOf(list))) + GapChange(list, k, c)
    BY <1>1, <1>2, <1>7, GapChangeEnough
  <1>9. /\ m2.parts = w /\ m2.gaps = m.gaps + GapChange(list, k, c) /\ m2.cur = m.cur + c.len
    BY <1>1, <1>3, <1>6 DEF Added
  <1>10. GapsCounted(m2)
    <2>1. m2.cur = Cardinality(BytesOf(m2.parts))
      BY <1>2, <1>8, <1>9
    <2>2. Cardinality(GapEnds(BytesOf(m2.parts))) <= m2.gaps
      <3>1. PICK g \in Nat, h \in Nat, d \in Int :
              /\ g = Cardinality(GapEnds(BytesOf(list))) /\ h = Cardinality(GapEnds(BytesOf(w)))
              /\ d = GapChange(list, k, c)
        BY <1>8
      <3>2. g <= m.gaps /\ h <= g + d
        BY <1>2, <1>8, <3>1
      <3> QED  BY <1>2, <1>9, <3>1, <3>2
    <2> QED  BY <1>7, <1>9, <2>1, <2>2 DEF GapsCounted
  <1>11. ASSUME HasLast(m) \/ PartEnd(c) = DatagramLen PROVE HasLast(m2)
    <2>1. PICK n \in Nat : n = Len(list) /\ DOMAIN list = 1 .. n
      BY <1>1
    <2>2. /\ DOMAIN w = 1 .. n + 1 /\ k \in 0 .. n
          /\ \A i \in 1 .. n + 1 :
               w[i] = IF i <= k THEN list[i] ELSE IF i = k + 1 THEN part ELSE list[i - 1]
      BY <1>5, <1>6, <2>1 DEF Inserted
    <2>3. CASE PartEnd(c) = DatagramLen
      <3>1. k + 1 \in DOMAIN w /\ w[k + 1] = part
        BY <2>2
      <3> QED  BY <1>4, <1>9, <2>3, <3>1 DEF HasLast
    <2>4. CASE HasLast(m)
      <3>1. PICK i \in 1 .. n : PartEnd(list[i]) = DatagramLen
        BY <1>1, <2>1, <2>4 DEF HasLast
      <3>2. CASE i <= k
        <4>1. i \in DOMAIN w /\ w[i] = list[i]
          BY <2>2, <3>2
        <4> QED  BY <1>9, <3>1, <4>1 DEF HasLast
      <3>3. CASE i > k
        <4>1. i + 1 \in 1 .. n + 1 /\ ~(i + 1 <= k) /\ i + 1 # k + 1 /\ (i + 1) - 1 = i
          BY <2>2, <3>3
        <4>2. i + 1 \in DOMAIN w /\ w[i + 1] = list[i]
          BY <2>2, <4>1
        <4> QED  BY <1>9, <3>1, <4>2 DEF HasLast
      <3> QED  BY <2>2, <3>2, <3>3
    <2> QED  BY <1>11, <2>3, <2>4
  <1> QED  BY <1>10, <1>11

(* A double of a fragment was added before.                                *)
LEMMA DoubleWasThere ==
  ASSUME CutOnce, NEW m \in MultiParts, GapsCounted(m), NEW c \in Cuts,
         IsDouble(m.parts, c), PartEnd(c) = DatagramLen
  PROVE  HasLast(m)
  <1>1. PICK list \in Seq(Part) : list = m.parts /\ AreCuts(list)
    BY DEF MultiParts, GapsCounted
  <1>2. PICK i \in DOMAIN list : list[i].off = c.off
    <2>1. PICK n \in Nat : n = Len(list) /\ DOMAIN list = 1 .. n
      OBVIOUS
    <2>2. Place(list, c) \in 0 .. n
      BY <2>1, PlaceIsThere
    <2>3. PICK j \in Place(list, c) + 1 .. n : list[j].off = c.off
      BY <1>1, <2>1 DEF IsDouble
    <2>4. j \in 1 .. n
      BY <2>2, <2>3
    <2> QED  BY <2>1, <2>3, <2>4
  <1>3. PICK d \in Cuts : d = [off |-> list[i].off, len |-> list[i].len]
    BY <1>1, <1>2 DEF AreCuts
  <1>4. d.off = c.off /\ PartEnd(d) = PartEnd(list[i])
    BY <1>2, <1>3 DEF PartEnd
  <1>5. d.off < PartEnd(d) /\ c.off < PartEnd(c) /\ d.off \in Nat /\ PartEnd(d) \in Nat /\ PartEnd(c) \in Nat
    BY CutTypes
  <1>6. c = d
    BY <1>4, <1>5 DEF CutOnce
  <1> QED  BY <1>1, <1>2, <1>4, <1>6 DEF HasLast

(* Without a gap and with its last fragment, the datagram is whole.        *)
LEMMA WholeDatagram ==
  ASSUME NEW m \in MultiParts, GapsCounted(m), HasLast(m), m.gaps = 0
  PROVE  BytesOf(m.parts) = 0 .. DatagramLen - 1 /\ m.cur = DatagramLen
  <1>1. PICK list \in Seq(Part) : list = m.parts /\ AreCuts(list)
    BY DEF MultiParts, GapsCounted
  <1>2. PICK C \in SUBSET Nat : C = BytesOf(list) /\ IsFiniteSet(C) /\ C \subseteq 0 .. DatagramLen - 1
    BY <1>1, BytesFinite
  <1>3. GapEnds(C) = {}
    <2>1. GapEnds(C) \in SUBSET C
      BY DEF GapEnds
    <2>2. IsFiniteSet(GapEnds(C)) /\ Cardinality(GapEnds(C)) \in Nat
      BY <1>2, <2>1, FS_Subset, FS_CardinalityType
    <2>3. Cardinality(GapEnds(C)) <= 0
      BY <1>1, <1>2 DEF GapsCounted
    <2>4. Cardinality(GapEnds(C)) = 0
      BY <2>2, <2>3
    <2> QED  BY <2>2, <2>4, FS_EmptySet
  <1>4. DatagramLen \in Nat /\ DatagramLen - 1 \in C
    <2>1. PICK i \in DOMAIN list : PartEnd(list[i]) = DatagramLen
      BY <1>1 DEF HasLast
    <2> QED  BY <1>1, <1>2, <2>1, PartTypes, CutTypes
  <1>5. ASSUME NEW b \in 0 .. DatagramLen - 1 PROVE b \in C
    <2> SUFFICES ASSUME b \notin C PROVE FALSE
      OBVIOUS
    <2> DEFINE T == {x \in C : x > b}
    <2>1. T \in SUBSET Nat /\ DatagramLen - 1 \in T
      <3>1. DatagramLen - 1 > b
        BY <1>4, <1>5
      <3> QED  BY <1>2, <1>4, <3>1
    <2>2. PICK e \in T : \A x \in T : e <= x
      <3> HIDE DEF T
      <3> QED  BY <2>1, LeastNat
    <2>3. e \in C /\ e \in Nat /\ e > b /\ b \in Nat
      BY <1>2, <1>5, <2>1
    <2>4. e - 1 \notin C
      <3>1. CASE e - 1 = b
        BY <3>1
      <3>2. CASE e - 1 # b
        <4>1. e - 1 > b /\ ~(e <= e - 1)
          BY <2>3, <3>2
        <4> QED  BY <2>2, <4>1
      <3> QED  BY <3>1, <3>2
    <2>5. e \in GapEnds(C)
      BY <2>3, <2>4 DEF GapEnds
    <2> QED  BY <1>3, <2>5
  <1>6. C = 0 .. DatagramLen - 1
    BY <1>2, <1>5
  <1>7. Cardinality(0 .. DatagramLen - 1) = DatagramLen
    <2>1. 0 \in Int /\ DatagramLen - 1 \in Int /\ 0 <= DatagramLen - 1 /\ (DatagramLen - 1) - 0 + 1 = DatagramLen
      BY CutTypes
    <2> QED  BY <2>1, FS_Interval
  <1>8. m.cur = Cardinality(C)
    BY <1>1, <1>2 DEF GapsCounted
  <1> QED  BY <1>1, <1>2, <1>6, <1>7, <1>8

LEMMA NoPartsGood ==
  GapsCounted(NoParts)
  <1>1. NoParts.parts = <<>> /\ NoParts.gaps = 0 /\ NoParts.cur = 0 /\ DOMAIN <<>> = {}
    BY DEF NoParts
  <1>2. BytesOf(NoParts.parts) = {}
    BY <1>1 DEF BytesOf
  <1>3. GapEnds(BytesOf(NoParts.parts)) = {}
    BY <1>2 DEF GapEnds
  <1>4. Cardinality(BytesOf(NoParts.parts)) = 0 /\ Cardinality(GapEnds(BytesOf(NoParts.parts))) = 0
    BY <1>2, <1>3, FS_EmptySet
  <1>5. AreCuts(NoParts.parts) /\ InPlace(NoParts.parts)
    BY <1>1 DEF AreCuts, InPlace
  <1> QED  BY <1>1, <1>4, <1>5 DEF GapsCounted

LEMMA GatheredGood ==
  ASSUME NEW t \in FThreads, NEW m \in MultiParts, FragTypes, DatagramInv, Gathered(t, m),
         GapsCounted(m), gotLast \/ PartEnd(cut[t]) = DatagramLen => HasLast(m)
  PROVE  DatagramInv'
  <1> DEFINE last == gotLast \/ PartEnd(cut[t]) = DatagramLen
             complete == last /\ m.gaps = 0
  <1>1. /\ gotLast' = last
        /\ fragState' = IF complete THEN "processed" ELSE "open"
        /\ multipart' = IF complete THEN NoParts ELSE m
    BY DEF Gathered
  <1>2. /\ handed'[t] = IF complete THEN m ELSE NoParts
        /\ fPc'[t] = IF complete THEN "datagram" ELSE "release"
        /\ \A s \in FThreads : s # t => handed'[s] = handed[s] /\ fPc'[s] = fPc[s]
    BY DEF Gathered, FragTypes, FragTypeOK
  <1>3. last => HasLast(m)
    OBVIOUS
  <1> HIDE DEF last
  <1>4. PICK m2, last2, frag2, hand2, pc2 :
          m2 = multipart' /\ last2 = gotLast' /\ frag2 = fragState' /\ hand2 = handed' /\ pc2 = fPc'
    OBVIOUS
  <1>5. GapsCounted(m2) /\ (last2 /\ frag2 # "processed" => HasLast(m2))
    BY <1>1, <1>3, <1>4, NoPartsGood
  <1>6. ASSUME NEW s \in FThreads, pc2[s] = "datagram"
        PROVE  GapsCounted(hand2[s]) /\ HasLast(hand2[s]) /\ hand2[s].gaps = 0
    <2>1. CASE s = t
      BY <1>2, <1>3, <1>4, <1>6, <2>1
    <2>2. CASE s # t
      BY <1>2, <1>4, <1>6, <2>2 DEF DatagramInv
    <2> QED  BY <2>1, <2>2
  <1>7. /\ GapsCounted(multipart')
        /\ gotLast' /\ fragState' # "processed" => HasLast(multipart')
        /\ \A s \in FThreads : fPc'[s] = "datagram" =>
             GapsCounted(handed'[s]) /\ HasLast(handed'[s]) /\ handed'[s].gaps = 0
    BY <1>4, <1>5, <1>6
  <1> QED  BY <1>7
              DEF DatagramInv, GapsCounted, HasLast, AreCuts, InPlace, BytesOf, GapEnds,
                PartEnd

LEMMA DatagramInit ==
  ASSUME FragmentsInit
  PROVE  DatagramInv
  BY NoPartsGood DEF FragmentsInit, DatagramInv

LEMMA DatagramStep ==
  ASSUME CutOnce, FragInv, DatagramInv, [FragmentsNext]_fVars
  PROVE  DatagramInv'
  <1>1. FragTypes /\ PacketsLeft
    BY DEF FragInv, FragTypes
  <1>2. multipart \in MultiParts /\ GapsCounted(multipart)
    BY <1>1 DEF FragTypes, FragTypeOK, DatagramInv
  <1>3. ASSUME NEW t \in FThreads, AddFragment(t) PROVE DatagramInv'
    <2>1. PICK q \in Clones(t) : Clone(t, q) /\ Gathered(t, Added(multipart, cut[t], q))
      BY <1>3 DEF AddFragment
    <2>2. /\ fPc[t] = "fragment" /\ own[t] \in Packets /\ cut[t] \in Cuts
          /\ fragState # "processed" /\ ~IsDouble(multipart.parts, cut[t])
      BY <1>1, <1>3 DEF AddFragment, FragTypes, FragTypeOK, InHand
    <2>3. q \in Packets
      BY <1>1, <2>1, <2>2, RoomForOne DEF Clones, FragTypes
    <2>4. PICK m : m \in MultiParts /\ m = Added(multipart, cut[t], q)
      BY <1>2, <2>2, <2>3, AddedPart
    <2>5. GapsCounted(m) /\ (HasLast(multipart) \/ PartEnd(cut[t]) = DatagramLen => HasLast(m))
      BY <1>2, <2>2, <2>3, <2>4, AddedGood
    <2>6. gotLast => HasLast(multipart)
      BY <2>2 DEF DatagramInv
    <2>7. Gathered(t, m)
      BY <2>1, <2>4
    <2> QED  BY <1>1, <2>4, <2>5, <2>6, <2>7, GatheredGood
  <1>4. ASSUME NEW t \in FThreads, SkipDouble(t) PROVE DatagramInv'
    <2>1. /\ cut[t] \in Cuts /\ fragState # "processed" /\ IsDouble(multipart.parts, cut[t])
          /\ Gathered(t, multipart)
      BY <1>1, <1>4 DEF SkipDouble, FragTypes, FragTypeOK
    <2>2. gotLast => HasLast(multipart)
      BY <2>1 DEF DatagramInv
    <2>3. PartEnd(cut[t]) = DatagramLen => HasLast(multipart)
      BY <1>2, <2>1, DoubleWasThere
    <2> QED  BY <1>1, <1>2, <2>1, <2>2, <2>3, GatheredGood
  <1>5. ASSUME NEW t \in FThreads, TimeOut(t) PROVE DatagramInv'
    <2>1. /\ multipart' = NoParts /\ ~gotLast' /\ handed' = handed
          /\ \A s \in FThreads : fPc'[s] = "datagram" => fPc[s] = "datagram"
      BY <1>1, <1>5 DEF TimeOut, FragTypes, FragTypeOK
    <2>2. GapsCounted(multipart')
      BY <2>1, NoPartsGood
    <2>3. \A s \in FThreads : fPc'[s] = "datagram" =>
            GapsCounted(handed'[s]) /\ HasLast(handed'[s]) /\ handed'[s].gaps = 0
      BY <2>1 DEF DatagramInv
    <2> QED  BY <2>1, <2>2, <2>3
                DEF DatagramInv, GapsCounted, HasLast, AreCuts, InPlace, BytesOf,
                  GapEnds, PartEnd
  <1>6. ASSUME NEW t \in FThreads,
               \/ \E c \in Cuts : Receive(t, c)
               \/ DropLate(t) \/ Datagram(t) \/ See(t) \/ Decrement(t) \/ Free(t) \/ Released(t)
        PROVE  DatagramInv'
    <2>1. multipart' = multipart /\ gotLast' = gotLast /\ fragState' = fragState
      BY <1>6 DEF Receive, DropLate, Datagram, See, Decrement, Free, Released, ReleaseOne
    <2>2. \A s \in FThreads : fPc'[s] = "datagram" => fPc[s] = "datagram" /\ handed'[s] = handed[s]
      BY <1>1, <1>6
         DEF Receive, DropLate, Datagram, See, Decrement, Free, Released, ReleaseOne,
           FragTypes, FragTypeOK
    <2>3. GapsCounted(multipart')
      BY <1>2, <2>1
    <2>4. gotLast' /\ fragState' # "processed" => HasLast(multipart')
      BY <2>1 DEF DatagramInv
    <2>5. \A s \in FThreads : fPc'[s] = "datagram" =>
            GapsCounted(handed'[s]) /\ HasLast(handed'[s]) /\ handed'[s].gaps = 0
      BY <2>2 DEF DatagramInv
    <2> QED  BY <2>3, <2>4, <2>5
                DEF DatagramInv, GapsCounted, HasLast, AreCuts, InPlace, BytesOf,
                  GapEnds, PartEnd
  <1>7. CASE FragmentsNext
    BY <1>3, <1>4, <1>5, <1>6, <1>7 DEF FragmentsNext
  <1>8. CASE UNCHANGED fVars
    BY <1>8, ZenonT(30)
       DEF fVars, DatagramInv, GapsCounted, HasLast, AreCuts, InPlace, BytesOf, GapEnds,
         PartEnd
  <1> QED  BY <1>7, <1>8

LEMMA DatagramMeans ==
  ASSUME FragInv, DatagramInv
  PROVE  NoHole
  <1> SUFFICES ASSUME NEW t \in FThreads, fPc[t] = "datagram"
               PROVE  /\ handed[t].cur = DatagramLen
                      /\ \A byte \in 0 .. DatagramLen - 1 :
                           \E i \in DOMAIN handed[t].parts :
                             handed[t].parts[i].off <= byte /\ byte < PartEnd(handed[t].parts[i])
    BY DEF NoHole
  <1>1. PICK m \in MultiParts : m = handed[t]
    BY DEF FragInv, FragTypeOK
  <1>2. GapsCounted(m) /\ HasLast(m) /\ m.gaps = 0
    BY <1>1 DEF DatagramInv
  <1>3. BytesOf(m.parts) = 0 .. DatagramLen - 1 /\ m.cur = DatagramLen
    BY <1>2, WholeDatagram
  <1> QED  BY <1>1, <1>3 DEF BytesOf

(* If the fragments of a datagram are always cut in the same places, or    *)
(* never overlap otherwise, then the datagram that is handed over is whole:*)
(* the count of gaps is never less than the gaps there are, in whatever    *)
(* order the fragments come and however often, and whatever the timeouts.  *)
THEOREM NoHoles ==
  ASSUME CutOnce
  PROVE  FragmentsSpec => []NoHole
  <1> DEFINE Both == FragInv /\ DatagramInv
  <1>1. FragmentsInit => Both
    BY FragInit, DatagramInit
  <1>2. Both /\ [FragmentsNext]_fVars => Both'
    BY FragStep, DatagramStep
  <1>3. Both => NoHole
    BY DatagramMeans
  <1> QED  BY <1>1, <1>2, <1>3, PTL DEF FragmentsSpec
-----------------------------------------------------------------------------
(* Dns (Dns).  r waits in place i of queue q, there and nowhere else.      *)
OnlyAt(chains, r, q, i) ==
  /\ q \in CacheQueues /\ i \in DOMAIN chains[q] /\ chains[q][i] = r
  /\ \A p \in CacheQueues : \A j \in DOMAIN chains[p] : chains[p][j] = r => p = q /\ j = i

Nowhere(chains, r) == \A q \in CacheQueues : \A i \in DOMAIN chains[q] : chains[q][i] # r

(* Those of W wait in one place each, and nobody else does.                *)
Waiting(chains, W) ==
  /\ chains \in [CacheQueues -> Seq(Names)]
  /\ \A r \in W : \E q, i : OnlyAt(chains, r, q, i)
  /\ \A r \in Names \ W : Nowhere(chains, r)

(* Each queue is in the order of expiry.                                   *)
InTime(chains, exp) ==
  \A q \in CacheQueues : \A i, j \in DOMAIN chains[q] :
    i < j => exp[chains[q][i]] <= exp[chains[q][j]]

DnsTypeOK ==
  /\ dnsClock \in Nat \ {0} /\ collected \in Nat /\ collected <= dnsClock
  /\ cached \subseteq Names /\ expiry \in [Names -> Nat]

DnsInv ==
  /\ DnsTypeOK
  /\ Waiting(cacheQueues, cached) /\ InTime(cacheQueues, expiry)
  /\ links = backLinks /\ links \subseteq cached \X cached
  /\ \A r \in cached : expiry[r] >= collected
  /\ \A r \in Names \ cached : expiry[r] = 0

LEMMA UnlinkedIsOut ==
  ASSUME NEW chains, NEW W \in SUBSET Names, NEW exp \in [Names -> Nat],
         Waiting(chains, W), InTime(chains, exp), NEW r \in Names,
         NEW out, out = Unlinked(chains, r)
  PROVE  Waiting(out, W \ {r}) /\ InTime(out, exp)
  <1> DEFINE pl(q) == {i \in DOMAIN chains[q] : chains[q][i] = r}
  <1>1. chains \in [CacheQueues -> Seq(Names)]
    BY DEF Waiting
  <1>2. \A q \in CacheQueues : out[q] = IF pl(q) = {} THEN chains[q] ELSE RemoveAt(chains[q], Min(pl(q)))
    BY DEF Unlinked
  <1>3. out = [q \in CacheQueues |-> out[q]]
    BY DEF Unlinked
  <1>4. CASE r \notin W
    <2>1. \A q \in CacheQueues : pl(q) = {}
      BY <1>4 DEF Waiting, Nowhere
    <2>2. \A q \in CacheQueues : out[q] = chains[q]
      BY <1>2, <2>1
    <2>3. out = chains
      BY <1>1, <1>3, <2>2
    <2>4. W \ {r} = W
      BY <1>4
    <2> QED  BY <2>3, <2>4
  <1>5. CASE r \in W
    <2>1. PICK g, k : OnlyAt(chains, r, g, k)
      BY <1>5 DEF Waiting
    <2>2. /\ g \in CacheQueues /\ k \in DOMAIN chains[g] /\ chains[g][k] = r
          /\ \A p \in CacheQueues : \A j \in DOMAIN chains[p] : chains[p][j] = r => p = g /\ j = k
      BY <2>1 DEF OnlyAt
    <2>3. pl(g) = {k} /\ \A q \in CacheQueues : q # g => pl(q) = {}
      BY <2>2
    <2>4. Min(pl(g)) = k
      <3>1. k \in Nat
        BY <1>1, <2>2
      <3>2. {k} \in SUBSET Nat /\ {k} # {}
        BY <3>1
      <3>3. Min({k}) \in {k}
        BY <3>2, MinOfNats
      <3> QED  BY <2>3, <3>3
    <2>5. out[g] = RemoveAt(chains[g], k) /\ \A q \in CacheQueues : q # g => out[q] = chains[q]
      BY <1>2, <2>2, <2>3, <2>4
    <2> HIDE DEF pl
    <2>6. PICK list \in Seq(Names) : list = chains[g]
      BY <1>1, <2>2
    <2>7. PICK w \in Seq(Names) :
            /\ w = out[g] /\ Len(w) = Len(list) - 1
            /\ \A i \in DOMAIN w : w[i] = list[IF i < k THEN i ELSE i + 1]
      <3>1. k \in DOMAIN list
        BY <2>2, <2>6
      <3>2. /\ RemoveAt(list, k) \in Seq(Names) /\ Len(RemoveAt(list, k)) = Len(list) - 1
            /\ \A i \in DOMAIN RemoveAt(list, k) : RemoveAt(list, k)[i] = list[IF i < k THEN i ELSE i + 1]
        BY <3>1, RemovedPlace
      <3> QED  BY <2>5, <2>6, <3>2
    <2>8. PICK n \in Nat : n = Len(list) /\ DOMAIN list = 1 .. n /\ DOMAIN w = 1 .. n - 1 /\ k \in 1 .. n
      BY <2>2, <2>6, <2>7, SMTT(30)
    <2>9. \A i \in 1 .. n - 1 : w[i] = list[IF i < k THEN i ELSE i + 1]
      BY <2>7, <2>8
    <2>10. out \in [CacheQueues -> Seq(Names)]
      <3>1. \A q \in CacheQueues : out[q] \in Seq(Names)
        BY <1>1, <2>5, <2>7
      <3> QED  BY <1>3, <3>1
    <2>11. Nowhere(out, r)
      <3> SUFFICES ASSUME NEW q \in CacheQueues, NEW i \in DOMAIN out[q] PROVE out[q][i] # r
        BY DEF Nowhere
      <3>1. CASE q # g
        BY <2>2, <2>5, <3>1
      <3>2. CASE q = g
        <4>1. i \in 1 .. n - 1 /\ out[q][i] = list[IF i < k THEN i ELSE i + 1]
          BY <2>7, <2>8, <2>9, <3>2
        <4>2. (IF i < k THEN i ELSE i + 1) \in 1 .. n /\ (IF i < k THEN i ELSE i + 1) # k
          BY <2>8, <4>1
        <4> QED  BY <2>2, <2>6, <2>8, <4>1, <4>2
      <3> QED  BY <3>1, <3>2
    <2>12. ASSUME NEW s \in W, s # r PROVE \E q, i : OnlyAt(out, s, q, i)
      <3>1. PICK q, i : OnlyAt(chains, s, q, i)
        BY <2>12 DEF Waiting
      <3>2. /\ q \in CacheQueues /\ i \in DOMAIN chains[q] /\ chains[q][i] = s
            /\ \A p \in CacheQueues : \A j \in DOMAIN chains[p] : chains[p][j] = s => p = q /\ j = i
        BY <3>1 DEF OnlyAt
      <3>3. CASE q # g
        <4>1. ASSUME NEW p \in CacheQueues, NEW j \in DOMAIN out[p], out[p][j] = s PROVE p = q /\ j = i
          <5>1. CASE p # g
            BY <2>5, <3>2, <4>1, <5>1
          <5>2. CASE p = g
            <6>1. j \in 1 .. n - 1 /\ out[p][j] = list[IF j < k THEN j ELSE j + 1]
              BY <2>7, <2>8, <2>9, <4>1, <5>2
            <6>2. (IF j < k THEN j ELSE j + 1) \in 1 .. n
              BY <6>1
            <6> QED  BY <2>6, <2>8, <3>2, <3>3, <4>1, <5>2, <6>1, <6>2
          <5> QED  BY <5>1, <5>2
        <4>2. i \in DOMAIN out[q] /\ out[q][i] = s
          BY <2>5, <3>2, <3>3
        <4> QED  BY <3>2, <4>1, <4>2 DEF OnlyAt
      <3>4. CASE q = g
        <4>1. i \in 1 .. n /\ i # k /\ list[i] = s
          BY <2>2, <2>6, <2>8, <2>12, <3>2, <3>4
        <4>2. PICK h : h = IF i < k THEN i ELSE i - 1
          OBVIOUS
        <4>3. h \in 1 .. n - 1 /\ (IF h < k THEN h ELSE h + 1) = i
          BY <2>8, <4>1, <4>2
        <4>4. h \in DOMAIN out[g] /\ out[g][h] = s
          BY <2>7, <2>8, <2>9, <4>1, <4>3
        <4>5. ASSUME NEW p \in CacheQueues, NEW j \in DOMAIN out[p], out[p][j] = s PROVE p = g /\ j = h
          <5>1. CASE p # g
            BY <2>5, <3>2, <3>4, <4>5, <5>1
          <5>2. CASE p = g
            <6>1. j \in 1 .. n - 1 /\ out[p][j] = list[IF j < k THEN j ELSE j + 1]
              BY <2>7, <2>8, <2>9, <4>5, <5>2
            <6>2. (IF j < k THEN j ELSE j + 1) \in 1 .. n
              BY <6>1
            <6>3. (IF j < k THEN j ELSE j + 1) = i
              BY <2>6, <2>8, <3>2, <3>4, <4>5, <6>1, <6>2
            <6> QED  BY <2>8, <4>1, <4>2, <5>2, <6>1, <6>3, SMTT(30)
          <5> QED  BY <5>1, <5>2
        <4> QED  BY <2>2, <4>4, <4>5 DEF OnlyAt
      <3> QED  BY <3>3, <3>4
    <2>13. ASSUME NEW s \in Names \ W PROVE Nowhere(out, s)
      <3> SUFFICES ASSUME NEW q \in CacheQueues, NEW i \in DOMAIN out[q] PROVE out[q][i] # s
        BY DEF Nowhere
      <3>1. \A p \in CacheQueues : \A j \in DOMAIN chains[p] : chains[p][j] # s
        BY <2>13 DEF Waiting, Nowhere
      <3>2. CASE q # g
        BY <2>5, <3>1, <3>2
      <3>3. CASE q = g
        <4>1. i \in 1 .. n - 1 /\ out[q][i] = list[IF i < k THEN i ELSE i + 1]
          BY <2>7, <2>8, <2>9, <3>3
        <4>2. (IF i < k THEN i ELSE i + 1) \in DOMAIN chains[g]
          <5>1. (IF i < k THEN i ELSE i + 1) \in 1 .. n
            BY <4>1
          <5> QED  BY <2>6, <2>8, <5>1
        <4> QED  BY <2>2, <2>6, <3>1, <4>1, <4>2
      <3> QED  BY <3>2, <3>3
    <2>14. Waiting(out, W \ {r})
      <3>1. \A s \in W \ {r} : \E q, i : OnlyAt(out, s, q, i)
        BY <2>12
      <3>2. \A s \in Names \ (W \ {r}) : Nowhere(out, s)
        BY <2>11, <2>13
      <3> QED  BY <2>10, <3>1, <3>2 DEF Waiting
    <2>15. InTime(out, exp)
      <3> SUFFICES ASSUME NEW q \in CacheQueues, NEW i \in DOMAIN out[q], NEW j \in DOMAIN out[q], i < j
                   PROVE  exp[out[q][i]] <= exp[out[q][j]]
        BY DEF InTime
      <3>1. \A x, y \in DOMAIN chains[q] : x < y => exp[chains[q][x]] <= exp[chains[q][y]]
        BY DEF InTime
      <3>2. CASE q # g
        BY <2>5, <3>1, <3>2
      <3>3. CASE q = g
        <4>1. /\ i \in 1 .. n - 1 /\ out[q][i] = list[IF i < k THEN i ELSE i + 1]
              /\ j \in 1 .. n - 1 /\ out[q][j] = list[IF j < k THEN j ELSE j + 1]
          BY <2>7, <2>8, <2>9, <3>3
        <4>4. (IF i < k THEN i ELSE i + 1) \in 1 .. n
          BY <4>1
        <4>5. (IF j < k THEN j ELSE j + 1) \in 1 .. n
          BY <4>1
        <4>2. PICK x \in 1 .. n, y \in 1 .. n : x = (IF i < k THEN i ELSE i + 1) /\ y = IF j < k THEN j ELSE j + 1
          BY <4>4, <4>5, Zenon
        <4>3. x < y
          <5>1. k \in Int /\ i \in Int /\ j \in Int /\ i < j
            BY <2>8, <4>1
          <5> QED  BY <4>2, <5>1
        <4> QED  BY <2>6, <2>8, <3>1, <3>3, <4>1, <4>2, <4>3
      <3> QED  BY <3>2, <3>3
    <2> QED  BY <2>14, <2>15
  <1> QED  BY <1>4, <1>5

LEMMA PutIsIn ==
  ASSUME NEW chains, NEW W \in SUBSET Names, NEW exp \in [Names -> Nat],
         Waiting(chains, W), InTime(chains, exp), NEW r \in Names \ W, NEW g \in CacheQueues,
         NEW k \in 0 .. Len(chains[g]), NEW until, exp[r] = until,
         \A i \in DOMAIN chains[g] : /\ i <= k => exp[chains[g][i]] <= until
                                     /\ i > k => until <= exp[chains[g][i]],
         NEW in, in = PutBehind(chains, g, k, r)
  PROVE  Waiting(in, W \cup {r}) /\ InTime(in, exp)
  <1>1. chains \in [CacheQueues -> Seq(Names)]
    BY DEF Waiting
  <1>2. PICK list \in Seq(Names) : list = chains[g]
    BY <1>1
  <1>3. PICK w \in Seq(Names) : w = InsertAt(list, k + 1, r) /\ Inserted(list, k, r, w)
    BY <1>2, InsertedPlace
  <1>4. /\ in \in [CacheQueues -> Seq(Names)] /\ in[g] = w
        /\ \A q \in CacheQueues : q # g => in[q] = chains[q]
    BY <1>1, <1>2, <1>3 DEF PutBehind
  <1>5. PICK n \in Nat : n = Len(list) /\ DOMAIN list = 1 .. n /\ DOMAIN w = 1 .. n + 1 /\ k \in 0 .. n
    BY <1>2, <1>3 DEF Inserted
  <1>6. \A i \in 1 .. n + 1 : w[i] = IF i <= k THEN list[i] ELSE IF i = k + 1 THEN r ELSE list[i - 1]
    BY <1>3, <1>5 DEF Inserted
  <1>7. \A q \in CacheQueues : \A i \in DOMAIN chains[q] : chains[q][i] # r
    BY DEF Waiting, Nowhere
  <1>8. OnlyAt(in, r, g, k + 1)
    <2>1. k + 1 \in 1 .. n + 1 /\ w[k + 1] = r
      BY <1>5, <1>6
    <2>2. ASSUME NEW p \in CacheQueues, NEW j \in DOMAIN in[p], in[p][j] = r PROVE p = g /\ j = k + 1
      <3>1. p = g
        BY <1>4, <1>7, <2>2
      <3>2. j \in 1 .. n + 1 /\ w[j] = r
        BY <1>4, <1>5, <2>2, <3>1
      <3>3. CASE j <= k
        <4>1. j \in DOMAIN chains[g] /\ chains[g][j] = r
          BY <1>2, <1>5, <1>6, <3>2, <3>3
        <4> QED  BY <1>7, <4>1
      <3>4. CASE j > k + 1
        <4>1. j - 1 \in 1 .. n /\ w[j] = list[j - 1]
          BY <1>5, <1>6, <3>2, <3>4
        <4> QED  BY <1>2, <1>5, <1>7, <3>2, <4>1
      <3> QED  BY <1>5, <3>1, <3>2, <3>3, <3>4
    <2> QED  BY <1>4, <1>5, <2>1, <2>2 DEF OnlyAt
  <1>9. ASSUME NEW s \in W PROVE \E q, i : OnlyAt(in, s, q, i)
    <2>1. PICK q, i : OnlyAt(chains, s, q, i)
      BY DEF Waiting
    <2>2. /\ q \in CacheQueues /\ i \in DOMAIN chains[q] /\ chains[q][i] = s /\ s # r
          /\ \A p \in CacheQueues : \A j \in DOMAIN chains[p] : chains[p][j] = s => p = q /\ j = i
      BY <2>1 DEF OnlyAt
    <2>3. PICK h : h = IF q = g /\ i > k THEN i + 1 ELSE i
      OBVIOUS
    <2>4. h \in DOMAIN in[q] /\ in[q][h] = s
      <3>1. CASE q # g
        BY <1>4, <2>2, <2>3, <3>1
      <3>2. CASE q = g
        <4>1. i \in 1 .. n /\ list[i] = s
          BY <1>2, <1>5, <2>2, <3>2
        <4>2. CASE i <= k
          <5>1. i \in 1 .. n + 1 /\ h = i
            BY <1>5, <2>3, <4>1, <4>2
          <5> QED  BY <1>4, <1>5, <1>6, <3>2, <4>1, <4>2, <5>1
        <4>3. CASE i > k
          <5>1. i + 1 \in 1 .. n + 1 /\ h = i + 1 /\ ~(i + 1 <= k) /\ i + 1 # k + 1 /\ (i + 1) - 1 = i
            <6>1. h = i + 1
              BY <2>3, <3>2, <4>3
            <6> QED  BY <1>5, <4>1, <4>3, <6>1, SMTT(30)
          <5>2. w[i + 1] = list[i]
            <6>1. w[i + 1] = list[(i + 1) - 1]
              BY <1>6, <5>1
            <6> QED  BY <5>1, <6>1
          <5> QED  BY <1>4, <1>5, <3>2, <4>1, <5>1, <5>2
        <4> QED  BY <1>5, <4>1, <4>2, <4>3
      <3> QED  BY <3>1, <3>2
    <2>5. ASSUME NEW p \in CacheQueues, NEW j \in DOMAIN in[p], in[p][j] = s PROVE p = q /\ j = h
      <3>1. CASE p # g
        BY <1>4, <2>2, <2>3, <2>5, <3>1
      <3>2. CASE p = g
        <4>1. j \in 1 .. n + 1 /\ w[j] = s
          BY <1>4, <1>5, <2>5, <3>2
        <4>2. j # k + 1
          BY <1>5, <1>6, <2>2, <4>1
        <4>3. CASE j <= k
          <5>1. j \in DOMAIN chains[g] /\ chains[g][j] = s
            BY <1>2, <1>5, <1>6, <4>1, <4>3, SMTT(30)
          <5>2. q = g /\ j = i
            BY <2>2, <5>1
          <5> QED  BY <1>5, <2>3, <3>2, <4>1, <4>3, <5>2
        <4>4. CASE j > k + 1
          <5>1. j - 1 \in 1 .. n /\ w[j] = list[j - 1] /\ j - 1 > k
            BY <1>5, <1>6, <4>1, <4>4
          <5>2. q = g /\ j - 1 = i
            BY <1>2, <1>5, <2>2, <4>1, <5>1
          <5> QED  BY <1>5, <2>3, <3>2, <4>1, <5>1, <5>2
        <4> QED  BY <1>5, <4>1, <4>2, <4>3, <4>4
      <3> QED  BY <3>1, <3>2
    <2>6. OnlyAt(in, s, q, h)
      BY <2>2, <2>4, <2>5 DEF OnlyAt
    <2> QED  BY <2>6
  <1>10. ASSUME NEW s \in Names \ (W \cup {r}) PROVE Nowhere(in, s)
    <2> SUFFICES ASSUME NEW q \in CacheQueues, NEW i \in DOMAIN in[q] PROVE in[q][i] # s
      BY DEF Nowhere
    <2>1. \A p \in CacheQueues : \A j \in DOMAIN chains[p] : chains[p][j] # s
      BY <1>10 DEF Waiting, Nowhere
    <2>2. CASE q # g
      BY <1>4, <2>1, <2>2
    <2>3. CASE q = g
      <3>1. i \in 1 .. n + 1 /\ in[q][i] = w[i]
        BY <1>4, <1>5, <2>3
      <3>2. CASE i <= k
        <4>1. i \in DOMAIN chains[g] /\ w[i] = chains[g][i]
          BY <1>2, <1>5, <1>6, <3>1, <3>2
        <4> QED  BY <2>1, <3>1, <4>1
      <3>3. CASE i = k + 1
        BY <1>5, <1>6, <1>10, <3>1, <3>3
      <3>4. CASE i > k + 1
        <4>1. i - 1 \in 1 .. n /\ w[i] = list[i - 1]
          BY <1>5, <1>6, <3>1, <3>4
        <4> QED  BY <1>2, <1>5, <2>1, <3>1, <4>1
      <3> QED  BY <1>5, <3>1, <3>2, <3>3, <3>4
    <2> QED  BY <2>2, <2>3
  <1>11. Waiting(in, W \cup {r})
    <2>1. \A s \in W \cup {r} : \E q, i : OnlyAt(in, s, q, i)
      BY <1>8, <1>9
    <2> QED  BY <1>4, <1>10, <2>1 DEF Waiting
  <1>12. InTime(in, exp)
    <2> SUFFICES ASSUME NEW q \in CacheQueues, NEW i \in DOMAIN in[q], NEW j \in DOMAIN in[q], i < j
                 PROVE  exp[in[q][i]] <= exp[in[q][j]]
      BY DEF InTime
    <2>1. \A x, y \in DOMAIN chains[q] : x < y => exp[chains[q][x]] <= exp[chains[q][y]]
      BY DEF InTime
    <2>2. CASE q # g
      BY <1>4, <2>1, <2>2
    <2>3. CASE q = g
      <3>1. \A x, y \in 1 .. n : x < y => exp[list[x]] <= exp[list[y]]
        BY <1>2, <1>5, <2>1, <2>3
      <3>2. \A x \in 1 .. n : /\ x <= k => exp[list[x]] <= until
                              /\ x > k => until <= exp[list[x]]
        BY <1>2, <1>5
      <3>3. i \in 1 .. n + 1 /\ j \in 1 .. n + 1 /\ in[q][i] = w[i] /\ in[q][j] = w[j] /\ i < j
        BY <1>4, <1>5, <2>3
      <3>4. CASE j <= k
        <4>1. i \in 1 .. n /\ j \in 1 .. n /\ w[i] = list[i] /\ w[j] = list[j]
          BY <1>5, <1>6, <3>3, <3>4, SMTT(30)
        <4> QED  BY <3>1, <3>3, <4>1
      <3>5. CASE j = k + 1
        <4>1. i \in 1 .. n /\ i <= k /\ w[i] = list[i] /\ w[j] = r
          BY <1>5, <1>6, <3>3, <3>5, SMTT(30)
        <4> QED  BY <3>2, <3>3, <4>1
      <3>6. CASE j > k + 1
        <4>1. j - 1 \in 1 .. n /\ j - 1 > k /\ w[j] = list[j - 1]
          <5>1. j - 1 \in 1 .. n /\ j - 1 > k /\ ~(j <= k) /\ j # k + 1
            <6>1. j \in Int /\ k \in Int /\ n \in Int /\ j <= n + 1 /\ 0 <= k /\ j > k + 1
              BY <1>5, <3>3, <3>6
            <6> QED  BY <6>1
          <5> QED  BY <1>6, <3>3, <5>1
        <4>2. CASE i <= k
          <5>1. i \in 1 .. n /\ i < j - 1 /\ w[i] = list[i]
            BY <1>5, <1>6, <3>3, <3>6, <4>2
          <5> QED  BY <3>1, <3>3, <4>1, <5>1
        <4>3. CASE i = k + 1
          <5>1. w[i] = r
            BY <1>5, <1>6, <3>3, <4>3
          <5> QED  BY <3>2, <3>3, <4>1, <5>1
        <4>4. CASE i > k + 1
          <5>1. i - 1 \in 1 .. n /\ i - 1 < j - 1 /\ w[i] = list[i - 1]
            BY <1>5, <1>6, <3>3, <4>4
          <5> QED  BY <3>1, <3>3, <4>1, <5>1
        <4> QED  BY <1>5, <3>3, <4>2, <4>3, <4>4
      <3> QED  BY <1>5, <3>3, <3>4, <3>5, <3>6
    <2> QED  BY <2>2, <2>3
  <1> QED  BY <1>11, <1>12

(* Where a new entry goes, from the tail.                                  *)
LEMMA BehindEarlier ==
  ASSUME NEW chains \in [CacheQueues -> Seq(Names)], expiry \in [Names -> Nat],
         InTime(chains, expiry), NEW g \in CacheQueues, NEW until \in Nat
  PROVE  /\ Behind(chains[g], until) \in 0 .. Len(chains[g])
         /\ \A i \in DOMAIN chains[g] :
              /\ i <= Behind(chains[g], until) => expiry[chains[g][i]] <= until
              /\ i > Behind(chains[g], until) => until <= expiry[chains[g][i]]
  <1>1. PICK list \in Seq(Names) : list = chains[g]
    OBVIOUS
  <1>2. PICK n \in Nat : n = Len(list) /\ DOMAIN list = 1 .. n
    OBVIOUS
  <1> DEFINE earlier == {i \in DOMAIN list : expiry[list[i]] <= until}
             k == Behind(list, until)
  <1>3. k = IF earlier = {} THEN 0 ELSE Max(earlier)
    BY DEF Behind
  <1>4. earlier \in SUBSET (1 .. n) /\ earlier \in SUBSET Nat /\ IsFiniteSet(earlier)
    <2>1. earlier \in SUBSET (1 .. n) /\ IsFiniteSet(1 .. n)
      BY <1>2, FS_Interval
    <2> QED  BY <2>1, FS_Subset
  <1>5. k \in 0 .. n /\ (k # 0 => k \in earlier) /\ \A i \in earlier : i <= k
    <2> HIDE DEF earlier, k
    <2>1. CASE earlier = {}
      BY <1>3, <2>1
    <2>2. CASE earlier # {}
      <3>1. Max(earlier) \in earlier /\ \A i \in earlier : i <= Max(earlier)
        BY <1>4, <2>2, MaxOfNats
      <3> QED  BY <1>3, <1>4, <2>2, <3>1
    <2> QED  BY <2>1, <2>2
  <1> HIDE DEF k
  <1>6. ASSUME NEW i \in 1 .. n
        PROVE  /\ i <= k => expiry[list[i]] <= until
               /\ i > k => until <= expiry[list[i]]
    <2>1. expiry[list[i]] \in Nat
      BY <1>2
    <2>2. CASE i > k
      <3>1. i \notin earlier
        BY <1>5, <2>2
      <3> QED  BY <1>2, <1>5, <2>1, <2>2, <3>1
    <2>3. CASE i = k
      BY <1>2, <1>5, <2>1, <2>3
    <2>4. CASE i < k
      <3>1. k \in 1 .. n /\ expiry[list[k]] <= until /\ expiry[list[k]] \in Nat
        BY <1>2, <1>5, <2>4
      <3>2. expiry[list[i]] <= expiry[list[k]]
        BY <1>1, <1>2, <2>4, <3>1 DEF InTime
      <3>3. expiry[list[i]] <= until
        BY <2>1, <3>1, <3>2
      <3> QED  BY <1>5, <2>4, <3>3
    <2> QED  BY <1>5, <2>2, <2>3, <2>4
  <1> QED  BY <1>1, <1>2, <1>5, <1>6 DEF k

LEMMA UpdatedQueues ==
  ASSUME DnsInv, NEW query \in Names, NEW response \in Names, query # response,
         NEW ttl \in Ttls, UpdateExpiry(query, response, ttl)
  PROVE  /\ Waiting(cacheQueues', cached \cup {query, response})
         /\ InTime(cacheQueues', expiry') /\ expiry' \in [Names -> Nat]
         /\ \A r \in cached \cup {query, response} : expiry'[r] >= collected
         /\ \A r \in Names \ (cached \cup {query, response}) : expiry'[r] = 0
  <1>1. PICK until \in Nat : until = dnsClock + ttl /\ until > 0 /\ until >= collected
    BY DnsAssumption DEF DnsInv, DnsTypeOK
  <1>2. PICK g \in CacheQueues : g = QueueOfTtl[ttl]
    BY DEF CacheQueues
  <1>3. PICK moved \in SUBSET {query, response} : moved = Extended(query, response, until)
    BY DEF Extended
  <1>4. \A r \in {query, response} : r \in moved <=> expiry[r] < until
    BY <1>3 DEF Extended
  <1>5. PICK W \in SUBSET Names : W = cached /\ Waiting(cacheQueues, W)
    BY DEF DnsInv, DnsTypeOK
  <1>6. PICK exp \in [Names -> Nat] : exp = expiry' /\ \A r \in Names : exp[r] = IF r \in moved THEN until ELSE expiry[r]
    <2>1. expiry' = [r \in Names |-> IF r \in moved THEN until ELSE expiry[r]]
      BY <1>1, <1>3 DEF UpdateExpiry
    <2> QED  BY <1>1, <2>1 DEF DnsInv, DnsTypeOK
  <1>7. PICK one : /\ one = IF query \in moved THEN Unlinked(cacheQueues, query) ELSE cacheQueues
                   /\ Waiting(one, IF query \in moved THEN W \ {query} ELSE W) /\ InTime(one, expiry)
    <2>1. PICK out : out = Unlinked(cacheQueues, query)
      OBVIOUS
    <2>2. Waiting(out, W \ {query}) /\ InTime(out, expiry)
      BY <1>5, <2>1, UnlinkedIsOut DEF DnsInv, DnsTypeOK
    <2> QED  BY <1>5, <2>1, <2>2 DEF DnsInv
  <1>8. PICK left : /\ left = IF response \in moved THEN Unlinked(one, response) ELSE one
                    /\ Waiting(left, W \ moved) /\ InTime(left, expiry)
    <2>1. PICK V \in SUBSET Names : V = IF query \in moved THEN W \ {query} ELSE W
      OBVIOUS
    <2>4. PICK out : out = Unlinked(one, response)
      OBVIOUS
    <2>2. Waiting(out, V \ {response}) /\ InTime(out, expiry)
      BY <1>7, <2>1, <2>4, UnlinkedIsOut DEF DnsInv, DnsTypeOK
    <2>3. W \ moved = IF response \in moved THEN V \ {response} ELSE V
      BY <1>3, <2>1
    <2> QED  BY <1>7, <2>1, <2>2, <2>3, <2>4
  <1>9. PICK k : k = Behind(left[g], until)
    OBVIOUS
  <1>10. /\ k \in 0 .. Len(left[g]) /\ left \in [CacheQueues -> Seq(Names)]
         /\ \A i \in DOMAIN left[g] : /\ i <= k => expiry[left[g][i]] <= until
                                      /\ i > k => until <= expiry[left[g][i]]
    BY <1>1, <1>2, <1>8, <1>9, BehindEarlier DEF Waiting, DnsInv, DnsTypeOK
  (* Of those that are in the queues now, none was given a new expiry.      *)
  <1>11. \A q \in CacheQueues : \A i \in DOMAIN left[q] :
           exp[left[q][i]] = expiry[left[q][i]] /\ left[q][i] \in Names
    <2> SUFFICES ASSUME NEW q \in CacheQueues, NEW i \in DOMAIN left[q]
                 PROVE  exp[left[q][i]] = expiry[left[q][i]] /\ left[q][i] \in Names
      OBVIOUS
    <2>1. left[q][i] \in Names
      BY <1>10
    <2>2. left[q][i] \notin moved
      BY <1>3, <1>8, <2>1 DEF Waiting, Nowhere
    <2> QED  BY <1>6, <2>1, <2>2
  <1>12. InTime(left, exp)
    BY <1>8, <1>11 DEF InTime
  <1>13. PICK back : /\ back = IF response \in moved THEN PutBehind(left, g, k, response) ELSE left
                     /\ Waiting(back, (W \ moved) \cup (moved \ {query})) /\ InTime(back, exp)
                     /\ k \in 0 .. Len(back[g])
                     /\ \A i \in DOMAIN back[g] : /\ i <= k => exp[back[g][i]] <= until
                                                  /\ i > k => until <= exp[back[g][i]]
    <2>1. CASE response \notin moved
      <3>1. (W \ moved) \cup (moved \ {query}) = W \ moved
        BY <1>3, <2>1
      <3> QED  BY <1>2, <1>8, <1>10, <1>11, <1>12, <2>1, <3>1, ZenonT(30)
    <2>2. CASE response \in moved
      <3>1. PICK in : in = PutBehind(left, g, k, response)
        OBVIOUS
      <3>2. response \in Names \ (W \ moved) /\ exp[response] = until
        BY <1>6, <2>2
      <3>3. \A i \in DOMAIN left[g] : /\ i <= k => exp[left[g][i]] <= until
                                      /\ i > k => until <= exp[left[g][i]]
        BY <1>2, <1>10, <1>11
      <3>4. Waiting(in, (W \ moved) \cup {response}) /\ InTime(in, exp)
        BY <1>2, <1>8, <1>10, <1>12, <3>1, <3>2, <3>3, PutIsIn
      <3>5. (W \ moved) \cup (moved \ {query}) = (W \ moved) \cup {response}
        BY <1>3, <2>2
      <3>6. PICK list \in Seq(Names) : list = left[g]
        BY <1>2, <1>10
      <3>7. PICK w \in Seq(Names) : w = InsertAt(list, k + 1, response) /\ Inserted(list, k, response, w)
        BY <1>10, <3>6, InsertedPlace
      <3>8. in[g] = w
        BY <1>2, <1>10, <3>1, <3>6, <3>7 DEF PutBehind
      <3>9. PICK n \in Nat : n = Len(list) /\ DOMAIN list = 1 .. n /\ Len(w) = n + 1 /\ DOMAIN w = 1 .. n + 1 /\ k \in 0 .. n
        BY <1>10, <3>6, <3>7 DEF Inserted
      <3>10. ASSUME NEW i \in DOMAIN in[g]
             PROVE  /\ i <= k => exp[in[g][i]] <= until
                    /\ i > k => until <= exp[in[g][i]]
        <4>1. i \in 1 .. n + 1 /\ in[g][i] = IF i <= k THEN list[i] ELSE IF i = k + 1 THEN response ELSE list[i - 1]
          BY <3>7, <3>8, <3>9, SMTT(30) DEF Inserted
        <4>2. CASE i <= k
          <5>1. i \in 1 .. n /\ in[g][i] = list[i]
            BY <3>9, <4>1, <4>2
          <5> QED  BY <3>3, <3>6, <3>9, <4>2, <5>1
        <4>3. CASE i = k + 1
          <5>1. in[g][i] = response /\ ~(i <= k)
            BY <3>9, <4>1, <4>3
          <5> QED  BY <3>2, <5>1
        <4>4. CASE i > k + 1
          <5>3. i \in 1 .. n + 1 /\ k \in 0 .. n /\ ~(i <= k) /\ i # k + 1
            BY <3>9, <4>1, <4>4
          <5>4. i - 1 \in 1 .. n /\ i - 1 > k
            BY <4>4, <5>3
          <5>5. in[g][i] = list[i - 1]
            BY <4>1, <5>3
          <5>1. i - 1 \in 1 .. n /\ i - 1 > k /\ in[g][i] = list[i - 1]
            BY <5>4, <5>5
          <5>2. i - 1 \in DOMAIN left[g] /\ in[g][i] = left[g][i - 1] /\ ~(i <= k)
            <6>1. i \in Int /\ k \in Int /\ i > k + 1
              BY <3>9, <4>1, <4>4
            <6> QED  BY <3>6, <3>9, <5>1, <6>1
          <5> QED  BY <3>3, <5>1, <5>2
        <4> QED  BY <3>9, <4>1, <4>2, <4>3, <4>4
      <3>11. k \in 0 .. Len(in[g])
        BY <3>8, <3>9
      <3> QED  BY <2>2, <3>1, <3>4, <3>5, <3>10, <3>11
    <2> QED  BY <2>1, <2>2
  <1>14. PICK last : /\ last = IF query \in moved THEN PutBehind(back, g, k, query) ELSE back
                     /\ Waiting(last, W \cup {query, response}) /\ InTime(last, exp)
    <2>1. \A r \in {query, response} : r \notin moved => r \in W
      <3>1. \A r \in {query, response} : r \notin moved => expiry[r] # 0
        BY <1>1, <1>4
      <3> QED  BY <1>5, <3>1 DEF DnsInv
    <2>2. CASE query \notin moved
      <3>1. (W \ moved) \cup (moved \ {query}) = W \cup {query, response}
        BY <1>3, <2>1, <2>2
      <3> QED  BY <1>13, <2>2, <3>1
    <2>3. CASE query \in moved
      <3>1. PICK V \in SUBSET Names : V = (W \ moved) \cup (moved \ {query})
        BY <1>3
      <3>5. PICK in : in = PutBehind(back, g, k, query)
        OBVIOUS
      <3>2. query \in Names \ V /\ exp[query] = until
        BY <1>6, <2>3, <3>1
      <3>3. Waiting(in, V \cup {query}) /\ InTime(in, exp)
        BY <1>2, <1>13, <3>1, <3>2, <3>5, PutIsIn
      <3>4. V \cup {query} = W \cup {query, response}
        BY <1>3, <2>1, <2>3, <3>1
      <3> QED  BY <2>3, <3>1, <3>3, <3>4, <3>5
    <2> QED  BY <2>2, <2>3
  <1>15. cacheQueues' = last
    BY <1>1, <1>2, <1>3, <1>7, <1>8, <1>9, <1>13, <1>14 DEF UpdateExpiry
  <1>16. ASSUME NEW r \in W \cup {query, response} PROVE exp[r] >= collected
    <2>1. CASE r \in moved
      BY <1>1, <1>6, <2>1
    <2>2. CASE r \notin moved
      <3>1. exp[r] = expiry[r] /\ expiry[r] \in Nat
        BY <1>6, <2>2 DEF DnsInv, DnsTypeOK
      <3>2. CASE r \in W
        BY <1>5, <3>1, <3>2 DEF DnsInv
      <3>3. CASE r \in {query, response}
        BY <1>1, <1>4, <2>2, <3>1, <3>3 DEF DnsInv, DnsTypeOK
      <3> QED  BY <3>2, <3>3
    <2> QED  BY <2>1, <2>2
  <1>17. \A r \in Names \ (W \cup {query, response}) : exp[r] = 0
    BY <1>3, <1>5, <1>6 DEF DnsInv
  <1> QED  BY <1>5, <1>6, <1>14, <1>15, <1>16, <1>17

(* The collector takes those that are due, and no other.                   *)
LEMMA DueAtHead ==
  ASSUME expiry \in [Names -> Nat], NEW list \in Seq(Names), NEW time \in Nat,
         \A i, j \in DOMAIN list : i < j => expiry[list[i]] <= expiry[list[j]]
  PROVE  /\ DueOf(list, time) \in 0 .. Len(list)
         /\ \A i \in DOMAIN list : i <= DueOf(list, time) <=> expiry[list[i]] < time
  <1>1. PICK n \in Nat : n = Len(list) /\ DOMAIN list = 1 .. n
    OBVIOUS
  <1> DEFINE later == {i \in DOMAIN list : expiry[list[i]] >= time}
  <1>2. DueOf(list, time) = IF later = {} THEN n ELSE Min(later) - 1
    BY <1>1 DEF DueOf
  <1>3. \A i \in 1 .. n : expiry[list[i]] \in Nat /\ (i \in later <=> ~(expiry[list[i]] < time))
    BY <1>1
  <1>4. CASE later = {}
    <2>1. \A i \in 1 .. n : expiry[list[i]] < time
      BY <1>3, <1>4
    <2> QED  BY <1>1, <1>2, <1>4, <2>1
  <1>5. CASE later # {}
    <2>1. later \in SUBSET Nat
      BY <1>1
    <2>2. PICK k : k = Min(later)
      OBVIOUS
    <2>3. k \in later /\ \A i \in later : k <= i
      <3> HIDE DEF later
      <3> QED  BY <1>5, <2>1, <2>2, MinOfNats
    <2>4. k \in 1 .. n /\ expiry[list[k]] >= time /\ expiry[list[k]] \in Nat
      BY <1>1, <1>3, <2>3
    <2>5. ASSUME NEW i \in 1 .. n PROVE i <= k - 1 <=> expiry[list[i]] < time
      <3>1. CASE i < k
        <4>1. i \notin later
          BY <2>3, <2>4, <3>1
        <4> QED  BY <1>3, <2>4, <3>1, <4>1
      <3>2. CASE i = k
        BY <2>4, <3>2
      <3>3. CASE i > k
        <4>1. expiry[list[k]] <= expiry[list[i]] /\ expiry[list[i]] \in Nat
          BY <1>1, <1>3, <2>4, <3>3
        <4> QED  BY <2>4, <3>3, <4>1
      <3> QED  BY <2>4, <3>1, <3>2, <3>3
    <2>6. k - 1 \in 0 .. n
      BY <2>4
    <2> QED  BY <1>1, <1>2, <1>5, <2>2, <2>5, <2>6
  <1> QED  BY <1>4, <1>5

LEMMA CollectedQueues ==
  ASSUME DnsInv, DnsGc
  PROVE  DnsInv'
  <1>1. PICK clk \in Nat \ {0} : clk = dnsClock
    BY DEF DnsInv, DnsTypeOK
  <1>2. /\ cacheQueues \in [CacheQueues -> Seq(Names)] /\ expiry \in [Names -> Nat]
        /\ cached \in SUBSET Names /\ collected \in Nat
    BY DEF DnsInv, DnsTypeOK, Waiting
  <1>3. PICK due : due = [q \in CacheQueues |-> DueOf(cacheQueues[q], clk)]
    OBVIOUS
  <1>4. PICK dead : dead = UNION {{cacheQueues[q][i] : i \in 1 .. due[q]} : q \in CacheQueues}
    OBVIOUS
  <1>5. /\ cacheQueues' = [q \in CacheQueues |->
                            SubSeq(cacheQueues[q], due[q] + 1, Len(cacheQueues[q]))]
        /\ cached' = cached \ dead
        /\ expiry' = [r \in Names |-> IF r \in dead THEN 0 ELSE expiry[r]]
        /\ links' = LinksCut(links, dead) /\ backLinks' = LinksCut(backLinks, dead)
        /\ collected' = clk /\ dnsClock' = clk
    BY <1>1, <1>3, <1>4 DEF DnsGc
  <1>6. ASSUME NEW q \in CacheQueues
        PROVE  /\ due[q] \in 0 .. Len(cacheQueues[q])
               /\ \A i \in DOMAIN cacheQueues[q] : i <= due[q] <=> expiry[cacheQueues[q][i]] < clk
    <2>1. \A i, j \in DOMAIN cacheQueues[q] : i < j =>
            expiry[cacheQueues[q][i]] <= expiry[cacheQueues[q][j]]
      BY DEF DnsInv, InTime
    <2>2. cacheQueues[q] \in Seq(Names) /\ due[q] = DueOf(cacheQueues[q], clk)
      BY <1>2, <1>3
    <2> QED  BY <1>2, <2>1, <2>2, DueAtHead
  <1>7. ASSUME NEW r PROVE r \in dead <=> r \in cached /\ expiry[r] < clk
    <2>1. ASSUME r \in dead PROVE r \in cached /\ expiry[r] < clk
      <3>4. PICK q \in CacheQueues : r \in {cacheQueues[q][i] : i \in 1 .. due[q]}
        BY <1>4, <2>1
      <3>1. PICK i \in 1 .. due[q] : r = cacheQueues[q][i]
        BY <3>4
      <3>2. i \in DOMAIN cacheQueues[q] /\ r \in Names /\ i <= due[q]
        BY <1>2, <1>6, <3>1
      <3>3. r \in cached
        BY <3>1, <3>2 DEF DnsInv, Waiting, Nowhere
      <3> QED  BY <1>6, <3>1, <3>2, <3>3
    <2>2. ASSUME r \in cached, expiry[r] < clk PROVE r \in dead
      <3>1. PICK q, i : OnlyAt(cacheQueues, r, q, i)
        BY <2>2 DEF DnsInv, Waiting
      <3>2. q \in CacheQueues /\ i \in DOMAIN cacheQueues[q] /\ r = cacheQueues[q][i]
        BY <3>1 DEF OnlyAt
      <3>3. i \in 1 .. due[q]
        BY <1>2, <1>6, <2>2, <3>2
      <3> QED  BY <1>4, <3>2, <3>3
    <2> QED  BY <2>1, <2>2
  <1>8. ASSUME NEW q \in CacheQueues
        PROVE  /\ cacheQueues'[q] \in Seq(Names)
               /\ Len(cacheQueues'[q]) = Len(cacheQueues[q]) - due[q]
               /\ \A i \in 1 .. Len(cacheQueues[q]) - due[q] :
                    cacheQueues'[q][i] = cacheQueues[q][due[q] + i]
    <2>1. PICK list \in Seq(Names), d \in Nat, n \in Nat :
            /\ list = cacheQueues[q] /\ d = due[q] /\ n = Len(list) /\ d \in 0 .. n
            /\ DOMAIN list = 1 .. n
      BY <1>2, <1>6
    <2>2. cacheQueues'[q] = SubSeq(list, d + 1, n)
      BY <1>5, <2>1
    <2>3. /\ SubSeq(list, d + 1, n) \in Seq(Names) /\ Len(SubSeq(list, d + 1, n)) = n - d
          /\ \A i \in 1 .. n - d : SubSeq(list, d + 1, n)[i] = list[d + i]
      <3>1. \A i \in d + 1 .. n : list[i] \in Names
        BY <2>1
      <3>2. d + 1 \in Int /\ n \in Int
        BY <2>1
      <3>3. PICK w : w = SubSeq(list, d + 1, n)
        OBVIOUS
      <3>4. /\ w \in Seq(Names)
            /\ Len(w) = IF d + 1 <= n THEN n - (d + 1) + 1 ELSE 0
            /\ \A i \in 1 .. n - (d + 1) + 1 : w[i] = list[(d + 1) + i - 1]
        BY <3>1, <3>2, <3>3, SubSeqProperties
      <3>5. Len(w) = n - d
        BY <2>1, <3>4
      <3>6. ASSUME NEW i \in 1 .. n - d PROVE w[i] = list[d + i]
        <4>1. i \in 1 .. n - (d + 1) + 1 /\ (d + 1) + i - 1 = d + i
          BY <2>1
        <4>2. w[i] = list[(d + 1) + i - 1]
          BY <3>4, <4>1
        <4> QED  BY <4>1, <4>2
      <3> QED  BY <3>3, <3>4, <3>5, <3>6
    <2> QED  BY <2>1, <2>2, <2>3
  <1>9. PICK after2 : after2 = cacheQueues'
    OBVIOUS
  <1>10. ASSUME NEW q \in CacheQueues
         PROVE  \E n \in Nat, d \in Nat :
                  /\ d = due[q] /\ d <= n /\ DOMAIN cacheQueues[q] = 1 .. n /\ DOMAIN after2[q] = 1 .. n - d
                  /\ \A i \in 1 .. n - d : after2[q][i] = cacheQueues[q][d + i]
    <2>1. PICK n \in Nat, d \in Nat : n = Len(cacheQueues[q]) /\ d = due[q] /\ d <= n
      BY <1>2, <1>6
    <2>2. DOMAIN cacheQueues[q] = 1 .. n /\ DOMAIN after2[q] = 1 .. n - d
      BY <1>2, <1>8, <1>9, <2>1
    <2> QED  BY <1>8, <1>9, <2>1, <2>2
  <1>11. after2 \in [CacheQueues -> Seq(Names)]
    <2>1. after2 = [q \in CacheQueues |-> after2[q]]
      BY <1>5, <1>9
    <2> QED  BY <1>8, <1>9, <2>1
  <1>12. ASSUME NEW r \in cached \ dead PROVE \E q, i : OnlyAt(after2, r, q, i)
    <2>1. PICK q, i : OnlyAt(cacheQueues, r, q, i)
      BY DEF DnsInv, Waiting
    <2>2. /\ q \in CacheQueues /\ i \in DOMAIN cacheQueues[q] /\ cacheQueues[q][i] = r
          /\ \A p \in CacheQueues : \A j \in DOMAIN cacheQueues[p] :
               cacheQueues[p][j] = r => p = q /\ j = i
      BY <2>1 DEF OnlyAt
    <2>3. PICK n \in Nat, d \in Nat :
             /\ d = due[q] /\ d <= n /\ DOMAIN cacheQueues[q] = 1 .. n /\ DOMAIN after2[q] = 1 .. n - d
             /\ \A k \in 1 .. n - d : after2[q][k] = cacheQueues[q][d + k]
      BY <1>10, <2>2
    <2>4. i > d
      <3>1. r \in Names /\ ~(expiry[r] < clk)
        BY <1>2, <1>7
      <3> QED  BY <1>6, <2>2, <2>3, <3>1
    <2>5. i - d \in 1 .. n - d /\ d + (i - d) = i
      BY <2>2, <2>3, <2>4
    <2>6. i - d \in DOMAIN after2[q] /\ after2[q][i - d] = r
      BY <2>2, <2>3, <2>5
    <2>7. ASSUME NEW p \in CacheQueues, NEW j \in DOMAIN after2[p], after2[p][j] = r
          PROVE  p = q /\ j = i - d
      <3>1. PICK m \in Nat, e \in Nat :
              /\ e = due[p] /\ e <= m /\ DOMAIN cacheQueues[p] = 1 .. m /\ DOMAIN after2[p] = 1 .. m - e
              /\ \A k \in 1 .. m - e : after2[p][k] = cacheQueues[p][e + k]
        BY <1>10
      <3>2. e + j \in 1 .. m /\ after2[p][j] = cacheQueues[p][e + j] /\ j \in Int
        BY <2>7, <3>1
      <3>3. p = q /\ e + j = i
        BY <2>2, <2>7, <3>1, <3>2
      <3>4. e = d
        BY <2>3, <3>1, <3>3
      <3> QED  BY <2>3, <3>2, <3>3, <3>4
    <2>8. OnlyAt(after2, r, q, i - d)
      BY <2>2, <2>6, <2>7 DEF OnlyAt
    <2> QED  BY <2>8
  <1>13. ASSUME NEW r \in Names \ (cached \ dead) PROVE Nowhere(after2, r)
    <2> SUFFICES ASSUME NEW q \in CacheQueues, NEW j \in DOMAIN after2[q], after2[q][j] = r PROVE FALSE
      BY DEF Nowhere
    <2>1. PICK m \in Nat, e \in Nat :
            /\ e = due[q] /\ e <= m /\ DOMAIN cacheQueues[q] = 1 .. m /\ DOMAIN after2[q] = 1 .. m - e
            /\ \A k \in 1 .. m - e : after2[q][k] = cacheQueues[q][e + k]
      BY <1>10
    <2>2. e + j \in DOMAIN cacheQueues[q] /\ cacheQueues[q][e + j] = r /\ ~(e + j <= e)
      BY <2>1
    <2>3. ~(expiry[r] < clk)
      BY <1>6, <2>1, <2>2
    <2>4. r \notin dead
      BY <1>7, <2>3
    <2>5. r \in cached
      BY <2>2 DEF DnsInv, Waiting, Nowhere
    <2> QED  BY <2>4, <2>5
  <1>14. Waiting(after2, cached \ dead)
    BY <1>11, <1>12, <1>13 DEF Waiting
  <1>15. PICK exp \in [Names -> Nat] : exp = expiry' /\ \A r \in Names : exp[r] = IF r \in dead THEN 0 ELSE expiry[r]
    BY <1>2, <1>5
  <1>16. InTime(after2, exp)
    <2> SUFFICES ASSUME NEW q \in CacheQueues, NEW i \in DOMAIN after2[q], NEW j \in DOMAIN after2[q], i < j
                 PROVE  exp[after2[q][i]] <= exp[after2[q][j]]
      BY DEF InTime
    <2>1. PICK m \in Nat, e \in Nat :
            /\ e = due[q] /\ e <= m /\ DOMAIN cacheQueues[q] = 1 .. m /\ DOMAIN after2[q] = 1 .. m - e
            /\ \A k \in 1 .. m - e : after2[q][k] = cacheQueues[q][e + k]
      BY <1>10
    <2>2. \A k \in 1 .. m - e : exp[after2[q][k]] = expiry[cacheQueues[q][e + k]]
      <3> SUFFICES ASSUME NEW k \in 1 .. m - e PROVE exp[after2[q][k]] = expiry[cacheQueues[q][e + k]]
        OBVIOUS
      <3>1. after2[q][k] = cacheQueues[q][e + k] /\ e + k \in DOMAIN cacheQueues[q] /\ ~(e + k <= e)
        BY <2>1
      <3>2. ~(expiry[cacheQueues[q][e + k]] < clk)
        BY <1>6, <2>1, <3>1
      <3>3. cacheQueues[q][e + k] \in Names /\ cacheQueues[q][e + k] \notin dead
        BY <1>2, <1>7, <3>1, <3>2
      <3> QED  BY <1>15, <3>1, <3>3
    <2>3. e + i \in DOMAIN cacheQueues[q] /\ e + j \in DOMAIN cacheQueues[q] /\ e + i < e + j
      BY <2>1
    <2>4. expiry[cacheQueues[q][e + i]] <= expiry[cacheQueues[q][e + j]]
      BY <2>3 DEF DnsInv, InTime
    <2> QED  BY <2>1, <2>2, <2>4
  <1>17. \A r \in cached \ dead : exp[r] >= clk
    <2> SUFFICES ASSUME NEW r \in cached \ dead PROVE exp[r] >= clk
      OBVIOUS
    <2>1. r \in Names /\ exp[r] = expiry[r] /\ ~(expiry[r] < clk) /\ expiry[r] \in Nat
      BY <1>2, <1>7, <1>15
    <2> QED  BY <2>1
  <1>18. \A r \in Names \ (cached \ dead) : exp[r] = 0
    BY <1>15 DEF DnsInv
  <1>19. links' = backLinks' /\ links' \subseteq cached' \X cached'
    <2>1. links = backLinks /\ links \subseteq cached \X cached
      BY DEF DnsInv
    <2>2. links' = backLinks'
      BY <1>5, <2>1
    <2>3. ASSUME NEW p \in links' PROVE p \in cached' \X cached'
      <3>1. p \in links /\ p[1] \notin dead /\ p[2] \notin dead
        BY <1>5 DEF LinksCut
      <3>2. PICK x \in cached, y \in cached : p = <<x, y>>
        BY <2>1, <3>1
      <3> QED  BY <1>5, <3>1, <3>2
    <2> QED  BY <2>2, <2>3
  <1>20. DnsTypeOK'
    BY <1>2, <1>5, <1>15 DEF DnsTypeOK
  <1>21. Waiting(cacheQueues', cached') /\ InTime(cacheQueues', expiry')
    BY <1>5, <1>9, <1>14, <1>15, <1>16
  <1>22. /\ \A r \in cached' : expiry'[r] >= collected'
         /\ \A r \in Names \ cached' : expiry'[r] = 0
    BY <1>5, <1>15, <1>17, <1>18
  <1> QED  BY <1>19, <1>20, <1>21, <1>22 DEF DnsInv, Waiting, InTime, OnlyAt, Nowhere

LEMMA DnsBegins ==
  ASSUME DnsInit
  PROVE  DnsInv
  <1>1. cacheQueues \in [CacheQueues -> Seq(Names)] /\ \A q \in CacheQueues : DOMAIN cacheQueues[q] = {}
    BY DEF DnsInit
  <1>2. Waiting(cacheQueues, cached) /\ InTime(cacheQueues, expiry)
    BY <1>1 DEF DnsInit, Waiting, InTime, Nowhere
  <1> QED  BY <1>2 DEF DnsInit, DnsInv, DnsTypeOK

LEMMA DnsStep ==
  ASSUME DnsInv, [DnsNext]_dnsVars
  PROVE  DnsInv'
  <1>1. ASSUME NEW a \in Answers, NEW ttl \in Ttls, DnsProcessEvent(a[1], a[2], ttl) PROVE DnsInv'
    <2>1. PICK query \in Names, response \in Names : query = a[1] /\ response = a[2] /\ query # response
      BY DnsAssumption
    <2>2. UpdateExpiry(query, response, ttl) /\ cached' = cached \cup {query, response}
      BY <1>1, <2>1 DEF DnsProcessEvent
    <2>3. /\ Waiting(cacheQueues', cached \cup {query, response})
          /\ InTime(cacheQueues', expiry') /\ expiry' \in [Names -> Nat]
          /\ \A r \in cached \cup {query, response} : expiry'[r] >= collected
          /\ \A r \in Names \ (cached \cup {query, response}) : expiry'[r] = 0
      BY <2>1, <2>2, UpdatedQueues
    <2>4. dnsClock' = dnsClock /\ collected' = collected
      BY <1>1 DEF DnsProcessEvent
    <2>5. links' = backLinks' /\ links' \subseteq cached' \X cached'
      <3>1. links = backLinks /\ links \subseteq cached \X cached
        BY DEF DnsInv
      <3>2. links' = backLinks' /\ (links' = links \/ links' = links \cup {<<query, response>>})
        BY <1>1, <2>1, <3>1 DEF DnsProcessEvent
      <3> QED  BY <2>2, <3>1, <3>2
    <2>6. DnsTypeOK'
      BY <2>2, <2>3, <2>4 DEF DnsInv, DnsTypeOK
    <2>7. Waiting(cacheQueues', cached') /\ \A r \in cached' : expiry'[r] >= collected'
      BY <2>2, <2>3, <2>4
    <2>8. \A r \in Names \ cached' : expiry'[r] = 0
      BY <2>2, <2>3
    <2> QED  BY <2>3, <2>5, <2>6, <2>7, <2>8 DEF DnsInv, Waiting, InTime, OnlyAt, Nowhere
  <1>2. ASSUME DnsTimePasses PROVE DnsInv'
    BY <1>2 DEF DnsTimePasses, DnsInv, DnsTypeOK, Waiting, InTime, OnlyAt, Nowhere
  <1>3. CASE DnsNext
    BY <1>1, <1>2, <1>3, CollectedQueues DEF DnsNext
  <1>4. CASE UNCHANGED dnsVars
    BY <1>4 DEF dnsVars, DnsInv, DnsTypeOK, Waiting, InTime, OnlyAt, Nowhere
  <1> QED  BY <1>3, <1>4

LEMMA DnsMeans ==
  ASSUME DnsInv
  PROVE  CacheIsSound
  <1>1. ASSUME NEW r \in cached PROVE Cardinality(WaitingPlaces(r)) = 1
    <2>1. PICK q, i : OnlyAt(cacheQueues, r, q, i)
      BY DEF DnsInv, Waiting
    <2>2. WaitingPlaces(r) = {<<q, i>>}
      BY <2>1 DEF OnlyAt, WaitingPlaces
    <2> QED  BY <2>2, FS_Singleton
  <1>2. ASSUME NEW r \in Names \ cached PROVE Cardinality(WaitingPlaces(r)) = 0
    <2>1. Nowhere(cacheQueues, r)
      BY DEF DnsInv, Waiting
    <2>2. WaitingPlaces(r) = {}
      BY <2>1 DEF Nowhere, WaitingPlaces
    <2> QED  BY <2>2, FS_EmptySet
  <1>3. \A p \in links : {p[1], p[2]} \subseteq cached
    BY DEF DnsInv
  <1> QED  BY <1>1, <1>2, <1>3 DEF CacheIsSound, DnsInv

(* Every answer that is kept waits in one queue, the queues are in the     *)
(* order of expiry, and what the collector left when it ran last had not   *)
(* expired then.                                                           *)
THEOREM DnsInvariant == DnsSpec => []DnsInv
  <1> QED  BY DnsBegins, DnsStep, PTL DEF DnsSpec

(* The cache of names stays sound, however answers are renewed, for a      *)
(* shorter or a longer time, and moved between queues: linked both ways    *)
(* between entries of the table, each in one queue, and none older than    *)
(* the last collection.                                                    *)
THEOREM CacheStaysSound == DnsSpec => []CacheIsSound
  <1> QED  BY DnsInvariant, DnsMeans, PTL DEF DnsSpec
=============================================================================
