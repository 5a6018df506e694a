-------------------------- MODULE ConntrackProofs --------------------------
(***************************************************************************)
(* Proofs about Conntrack, for every set of threads, entries and keys.     *)
(***************************************************************************)
EXTENDS Conntrack, FiniteSetTheorems, SequenceTheorems, TLAPS

-----------------------------------------------------------------------------
(***************************************************************************)
(* What the protocols keep to.  Those that look their connection up with   *)
(* conntrack_get_unique(_from_parent) never give it a timer, and what has  *)
(* no timer has no children.                                               *)
(***************************************************************************)
Layered ==
  /\ Unique \subseteq Untimed
  /\ \A p \in Paths : \A n \in 1 .. Len(p) - 1 : p[n] \notin Untimed

(* Connections without a timer of their own end with their parent; they    *)
(* have one, and it does not rely on them to be cleaned up.                *)
Ending ==
  \A p \in Paths :
    /\ p[1] \notin Untimed
    /\ \A n \in 1 .. Len(p) - 1 : p[n] \in Cancels => p[n + 1] \notin Untimed

-----------------------------------------------------------------------------
(***************************************************************************)
(* The inductive invariant.                                                *)
(***************************************************************************)
(* The references to an entry: places in the stacks, counted from below.   *)
Slots(e) ==
  {s \in Threads \X Nat : /\ s[2] \in 1 .. Len(held[s[1]])
                          /\ held[s[1]][Len(held[s[1]]) + 1 - s[2]] = e}

RefsCounted == \A e \in Entries : IsFiniteSet(Slots(e)) /\ refs[e] = Cardinality(Slots(e))

(* What a stack holds is in the table, each on its parent or an entry      *)
(* without one; what comes next may have the last one as its parent.       *)
StackInv ==
  \A t \in Threads :
    /\ \A n \in 1 .. Len(held[t]) :
         /\ held[t][n] \in table
         /\ \/ parent[held[t][n]] = None
            \/ n < Len(held[t]) /\ parent[held[t][n]] = held[t][n + 1]
    /\ \A n \in 1 .. Len(path[t]) - 1 : path[t][n] \notin Untimed
    /\ path[t] # <<>> /\ held[t] # <<>> => key[held[t][1]] \notin Untimed

FoundInv ==
  \A t \in Threads : found[t] # None =>
    /\ found[t] \in table /\ parent[found[t]] = Top(t)
    /\ path[t] # <<>> /\ key[found[t]] = path[t][1] /\ path[t][1] \in Untimed

(* The entries in conntrack_cleanup: each was found below the next one,    *)
(* and all but the first have left the table.                              *)
WorkInv ==
  /\ walker = None <=> step = "none"
  /\ work # <<>> <=> step \in {"clean", "detach", "children"}
  /\ \A i \in 1 .. Len(work) - 1 :
       parent[work[i]] = work[i + 1] /\ work[i] \notin children[work[i + 1]]
  /\ \A i, j \in 1 .. Len(work) : work[i] = work[j] => i = j
  /\ \A i \in 1 .. Len(work) : work[i] \in used
  /\ \A i \in 2 .. Len(work) : work[i] \notin table
  /\ step = "clean" => work[1] \in table
  /\ step \in {"detach", "children"} => work[1] \notin table
  /\ \A i \in 1 .. Len(work) : i > 1 \/ Len(work) = 1 => key[work[i]] \notin Untimed
  /\ step = "detach" /\ parent[work[1]] # None =>
       /\ parent[work[1]] \in used
       /\ parent[work[1]] \in table => work[1] \in children[parent[work[1]]]

FamilyInv ==
  /\ used \subseteq table \cup Cleaning
  /\ \A e, f \in table : key[e] = key[f] /\ parent[e] = parent[f] => e = f
  /\ \A e \in used : parent[e] # e
  /\ \A e \in table : parent[e] # None =>
       /\ parent[e] \in used
       /\ e \in children[parent[e]] \/ (step = "clean" /\ Len(work) > 1 /\ e = work[1])
  /\ \A p \in used : \A c \in children[p] :
       /\ c \in used /\ parent[c] = p /\ key[p] \notin Untimed
       /\ c \in table \/ (step = "detach" /\ Len(work) = 1 /\ c = work[1])

TimerInv ==
  /\ \A e \in Entries : timer[e] = "queued" => e \in table
  /\ \A e \in table : timer[e] # "gone"
  /\ \A e \in used : key[e] \in Untimed => timer[e] = "none"
  /\ step = "call" => hand \in table /\ key[hand] \notin Untimed

ConnInv ==
  TypeOK /\ RefsCounted /\ StackInv /\ FoundInv /\ WorkInv /\ FamilyInv /\ TimerInv

(* And, for connections to end: an entry with a timer of its own has it    *)
(* queued or running, or is one whose timer was cancelled while it had     *)
(* children; and these have timers.                                        *)
TimedInv ==
  \A e \in table : key[e] \notin Untimed =>
    \/ timer[e] = "queued" \/ (step = "call" /\ hand = e) \/ e \in Cleaning
    \/ key[e] \in Cancels /\ children[e] # {}

KinInv ==
  /\ \A e \in table : key[e] \in Untimed => parent[e] # None
  /\ \A p \in used : key[p] \in Cancels => \A c \in children[p] : key[c] \notin Untimed

ComingInv ==
  \A t \in Threads :
    /\ \A n \in 1 .. Len(path[t]) - 1 : path[t][n] \in Cancels => path[t][n + 1] \notin Untimed
    /\ path[t] # <<>> /\ held[t] = <<>> => path[t][1] \notin Untimed
    /\ path[t] # <<>> /\ held[t] # <<>> /\ key[held[t][1]] \in Cancels => path[t][1] \notin Untimed

EndInv == TimedInv /\ KinInv /\ ComingInv

-----------------------------------------------------------------------------
(***************************************************************************)
(* The stacks.                                                             *)
(***************************************************************************)
(* A reference is taken: one entry more in a stack.                        *)
LEMMA HeldPushed ==
  ASSUME TypeOK, NEW t \in Threads, NEW e \in Entries, Hold(t, e), path[t] # <<>>
  PROVE  /\ held' \in [Threads -> Seq(Entries)]
         /\ Len(held[t]) \in Nat /\ Len(held'[t]) = Len(held[t]) + 1 /\ held'[t][1] = e
         /\ \A n \in 1 .. Len(held[t]) : held'[t][n + 1] = held[t][n]
         /\ \A u \in Threads \ {t} : held'[u] = held[u]
  <1> DEFINE h == held[t]
  <1>1. h \in Seq(Entries) /\ <<e>> \in Seq(Entries) /\ Len(<<e>>) = 1 /\ <<e>>[1] = e
    BY DEF TypeOK
  <1> HIDE DEF h
  <1> DEFINE new == <<e>> \o h
  <1>2. /\ new \in Seq(Entries) /\ Len(new) = Len(<<e>>) + Len(h)
        /\ \A i \in 1 .. Len(<<e>>) + Len(h) :
             new[i] = IF i <= Len(<<e>>) THEN <<e>>[i] ELSE h[i - Len(<<e>>)]
    BY <1>1, ConcatProperties, Zenon
  <1>3. held' = [held EXCEPT ![t] = new]
    BY DEF Hold, h
  <1> HIDE DEF new
  <1>4. Len(h) \in Nat /\ Len(new) = Len(h) + 1 /\ new[1] = e
    BY <1>1, <1>2
  <1>5. ASSUME NEW n \in 1 .. Len(h) PROVE new[n + 1] = h[n]
    BY <1>1, <1>2, <1>4, <1>5
  <1>6. held \in [Threads -> Seq(Entries)]
    BY DEF TypeOK
  <1> QED  BY <1>2, <1>3, <1>4, <1>5, <1>6 DEF h

LEMMA PathPopped ==
  ASSUME TypeOK, NEW t \in Threads, NEW e \in Entries, Hold(t, e), path[t] # <<>>
  PROVE  /\ path' \in [Threads -> Seq(Keys)]
         /\ Len(path[t]) \in Nat /\ Len(path'[t]) = Len(path[t]) - 1
         /\ \A n \in 1 .. Len(path[t]) - 1 : path'[t][n] = path[t][n + 1]
         /\ \A u \in Threads \ {t} : path'[u] = path[u]
  <1>1. path \in [Threads -> Seq(Keys)] /\ path' = [path EXCEPT ![t] = Tail(@)]
    BY DEF TypeOK, Hold
  <1>2. /\ Tail(path[t]) \in Seq(Keys) /\ Len(Tail(path[t])) = Len(path[t]) - 1
        /\ \A n \in 1 .. Len(path[t]) - 1 : Tail(path[t])[n] = path[t][n + 1]
    BY <1>1, HeadTailProperties
  <1> QED  BY <1>1, <1>2

LEMMA HoldCounts ==
  ASSUME TypeOK, RefsCounted, NEW t \in Threads, NEW e \in Entries, Hold(t, e), path[t] # <<>>
  PROVE  RefsCounted' /\ refs' \in [Entries -> Nat]
  <1> DEFINE at == <<t, Len(held[t]) + 1>>
  <1>1. /\ Len(held[t]) \in Nat /\ Len(held'[t]) = Len(held[t]) + 1 /\ held'[t][1] = e
        /\ \A n \in 1 .. Len(held[t]) : held'[t][n + 1] = held[t][n]
        /\ \A u \in Threads \ {t} : held'[u] = held[u]
    BY HeldPushed
  <1>2. ASSUME NEW s \in Threads \X Nat, NEW x \in Entries
        PROVE  s \in Slots(x)' <=> s \in Slots(x) \/ (s = at /\ x = e)
    <2>1. PICK u \in Threads, m \in Nat : s = <<u, m>>
      OBVIOUS
    <2>2. s \in Slots(x) <=> m \in 1 .. Len(held[u]) /\ held[u][Len(held[u]) + 1 - m] = x
      BY <2>1 DEF Slots
    <2>3. s \in Slots(x)' <=> m \in 1 .. Len(held'[u]) /\ held'[u][Len(held'[u]) + 1 - m] = x
      BY <2>1 DEF Slots
    <2>4. s = at <=> u = t /\ m = Len(held[t]) + 1
      BY <2>1
    <2>5. CASE u # t
      BY <1>1, <2>2, <2>3, <2>4, <2>5
    <2>6. CASE u = t /\ m = Len(held[t]) + 1
      BY <1>1, <2>2, <2>3, <2>4, <2>6
    <2>7. CASE u = t /\ m # Len(held[t]) + 1
      <3>1. m \in 1 .. Len(held'[t]) <=> m \in 1 .. Len(held[t])
        BY <1>1, <2>7
      <3>2. ASSUME m \in 1 .. Len(held[t])
            PROVE  held'[t][Len(held'[t]) + 1 - m] = held[t][Len(held[t]) + 1 - m]
        <4>1. Len(held[t]) + 1 - m \in 1 .. Len(held[t])
          BY <1>1, <3>2
        <4>2. held'[t][(Len(held[t]) + 1 - m) + 1] = held[t][Len(held[t]) + 1 - m]
          BY <1>1, <4>1
        <4>3. Len(held'[t]) + 1 - m = (Len(held[t]) + 1 - m) + 1
          BY <1>1, <3>2
        <4> QED  BY <4>2, <4>3
      <3> QED  BY <2>2, <2>3, <2>4, <2>7, <3>1, <3>2
    <2> QED  BY <2>5, <2>6, <2>7
  <1>3. at \in Threads \X Nat /\ at \notin Slots(e)
    BY <1>1 DEF Slots
  <1>4. ASSUME NEW x \in Entries, x # e PROVE Slots(x)' = Slots(x)
    BY <1>2, <1>4 DEF Slots
  <1>5. Slots(e)' = Slots(e) \cup {at}
    BY <1>2, <1>3 DEF Slots
  <1>6. refs' = [refs EXCEPT ![e] = @ + 1] /\ refs \in [Entries -> Nat]
    BY DEF Hold, TypeOK
  <1>7. IsFiniteSet(Slots(e)') /\ Cardinality(Slots(e)') = Cardinality(Slots(e)) + 1
    <2>1. IsFiniteSet(Slots(e))
      BY DEF RefsCounted
    <2>2. /\ IsFiniteSet(Slots(e) \cup {at})
          /\ Cardinality(Slots(e) \cup {at}) = Cardinality(Slots(e)) + 1
      BY <1>3, <2>1, FS_AddElement
    <2> QED  BY <1>5, <2>2
  <1>8. ASSUME NEW x \in Entries PROVE IsFiniteSet(Slots(x)') /\ refs'[x] = Cardinality(Slots(x)')
    BY <1>4, <1>6, <1>7 DEF RefsCounted
  <1>9. \A x \in Entries : (IsFiniteSet(Slots(x)) /\ refs[x] = Cardinality(Slots(x)))'
    BY <1>8
  <1> QED  BY <1>6, <1>9 DEF RefsCounted

(* A reference is given back.                                              *)
LEMMA HeldPopped ==
  ASSUME TypeOK, NEW t \in Threads, Release(t)
  PROVE  /\ held[t][1] \in Entries /\ 1 \in 1 .. Len(held[t])
         /\ held' \in [Threads -> Seq(Entries)]
         /\ Len(held[t]) \in Nat \ {0} /\ Len(held'[t]) = Len(held[t]) - 1
         /\ \A n \in 1 .. Len(held[t]) - 1 : held'[t][n] = held[t][n + 1]
         /\ \A u \in Threads \ {t} : held'[u] = held[u]
         /\ refs' = [refs EXCEPT ![held[t][1]] = @ - 1]
  <1>1. held \in [Threads -> Seq(Entries)] /\ held' = [held EXCEPT ![t] = Tail(@)] /\ held[t] # <<>>
    BY DEF TypeOK, Release
  <1>2. /\ Tail(held[t]) \in Seq(Entries) /\ Len(Tail(held[t])) = Len(held[t]) - 1
        /\ \A n \in 1 .. Len(held[t]) - 1 : Tail(held[t])[n] = held[t][n + 1]
    BY <1>1, HeadTailProperties
  <1>3. Len(held[t]) \in Nat \ {0} /\ held[t][1] \in Entries /\ Head(held[t]) = held[t][1]
    BY <1>1
  <1> QED  BY <1>1, <1>2, <1>3 DEF Release

LEMMA ReleaseCounts ==
  ASSUME TypeOK, RefsCounted, NEW t \in Threads, Release(t)
  PROVE  RefsCounted' /\ refs' \in [Entries -> Nat]
  <1>0. PICK e \in Entries : e = held[t][1]
    BY HeldPopped
  <1> DEFINE at == <<t, Len(held[t])>>
  <1>1. /\ e = held[t][1]
        /\ Len(held[t]) \in Nat \ {0} /\ Len(held'[t]) = Len(held[t]) - 1
        /\ \A n \in 1 .. Len(held[t]) - 1 : held'[t][n] = held[t][n + 1]
        /\ \A u \in Threads \ {t} : held'[u] = held[u]
        /\ refs' = [refs EXCEPT ![e] = @ - 1]
    BY <1>0, HeldPopped
  <1>2. ASSUME NEW s \in Threads \X Nat, NEW x \in Entries
        PROVE  s \in Slots(x)' <=> s \in Slots(x) /\ s # at
    <2>1. PICK u \in Threads, m \in Nat : s = <<u, m>>
      OBVIOUS
    <2>2. s \in Slots(x) <=> m \in 1 .. Len(held[u]) /\ held[u][Len(held[u]) + 1 - m] = x
      BY <2>1 DEF Slots
    <2>3. s \in Slots(x)' <=> m \in 1 .. Len(held'[u]) /\ held'[u][Len(held'[u]) + 1 - m] = x
      BY <2>1 DEF Slots
    <2>4. s = at <=> u = t /\ m = Len(held[t])
      BY <2>1
    <2>5. CASE u # t
      BY <1>1, <2>2, <2>3, <2>4, <2>5
    <2>6. CASE u = t /\ m = Len(held[t])
      <3>1. m \notin 1 .. Len(held'[t])
        BY <1>1, <2>6
      <3> QED  BY <2>3, <2>4, <2>6, <3>1
    <2>7. CASE u = t /\ m # Len(held[t])
      <3>1. m \in 1 .. Len(held'[t]) <=> m \in 1 .. Len(held[t])
        BY <1>1, <2>7
      <3>2. ASSUME m \in 1 .. Len(held[t])
            PROVE  held'[t][Len(held'[t]) + 1 - m] = held[t][Len(held[t]) + 1 - m]
        <4>1. Len(held[t]) - m \in 1 .. Len(held[t]) - 1
          BY <1>1, <2>7, <3>2
        <4>2. held'[t][Len(held[t]) - m] = held[t][(Len(held[t]) - m) + 1]
          BY <1>1, <4>1
        <4>3. Len(held'[t]) + 1 - m = Len(held[t]) - m /\ (Len(held[t]) - m) + 1 = Len(held[t]) + 1 - m
          BY <1>1, <3>2
        <4> QED  BY <4>2, <4>3
      <3> QED  BY <2>2, <2>3, <2>4, <2>7, <3>1, <3>2
    <2> QED  BY <2>5, <2>6, <2>7
  <1>3. at \in Threads \X Nat /\ at \in Slots(e)
    BY <1>1 DEF Slots
  <1>4. ASSUME NEW x \in Entries, x # e PROVE Slots(x)' = Slots(x)
    <2>1. at \notin Slots(x)
      BY <1>1, <1>4 DEF Slots
    <2> QED  BY <1>2, <2>1 DEF Slots
  <1>5. Slots(e)' = Slots(e) \ {at}
    <2>1. Slots(e) \subseteq Threads \X Nat /\ Slots(e)' \subseteq Threads \X Nat
      BY DEF Slots
    <2> QED  BY <1>1, <1>2, <2>1
  <1>6. refs \in [Entries -> Nat]
    BY DEF TypeOK
  <1>7. IsFiniteSet(Slots(e)') /\ Cardinality(Slots(e)') = Cardinality(Slots(e)) - 1
        /\ Cardinality(Slots(e)) \in Nat
    <2>1. IsFiniteSet(Slots(e))
      BY DEF RefsCounted
    <2>2. /\ IsFiniteSet(Slots(e) \ {at})
          /\ Cardinality(Slots(e) \ {at}) = Cardinality(Slots(e)) - 1
      BY <1>3, <2>1, FS_RemoveElement
    <2>3. Cardinality(Slots(e)) \in Nat
      BY <2>1, FS_CardinalityType
    <2> QED  BY <1>5, <2>2, <2>3
  <1>8. ASSUME NEW x \in Entries PROVE IsFiniteSet(Slots(x)') /\ refs'[x] = Cardinality(Slots(x)')
    <2>1. IsFiniteSet(Slots(x)) /\ refs[x] = Cardinality(Slots(x))
      BY DEF RefsCounted
    <2>2. refs'[x] = IF x = e THEN refs[e] - 1 ELSE refs[x]
      BY <1>1, <1>6
    <2>3. CASE x = e
      BY <1>7, <2>1, <2>2, <2>3
    <2>4. CASE x # e
      <3>1. Slots(x)' = Slots(x)
        BY <1>4, <2>4
      <3> QED  BY <2>1, <2>2, <2>4, <3>1
    <2> QED  BY <2>3, <2>4
  <1>9. \A x \in Entries : (IsFiniteSet(Slots(x)) /\ refs[x] = Cardinality(Slots(x)))'
    BY <1>8
  <1>10. refs' \in [Entries -> Nat]
    <2>1. ASSUME NEW x \in Entries PROVE refs'[x] \in Nat
      BY <1>8, FS_CardinalityType
    <2> QED  BY <1>1, <1>6, <2>1
  <1> QED  BY <1>9, <1>10 DEF RefsCounted

(* Who is in a stack has a reference, so it is not cleaned up.             *)
LEMMA HeldReferenced ==
  ASSUME TypeOK, RefsCounted, NEW t \in Threads, NEW n \in 1 .. Len(held[t])
  PROVE  held[t][n] \in Entries /\ refs[held[t][n]] > 0
  <1> DEFINE e == held[t][n]
  <1>1. Len(held[t]) \in Nat /\ e \in Entries
    BY DEF TypeOK
  <1>2. <<t, Len(held[t]) + 1 - n>> \in Slots(e)
    BY <1>1 DEF Slots
  <1>3. Cardinality(Slots(e)) \in Nat \ {0}
    BY <1>1, <1>2, FS_EmptySet, FS_CardinalityType DEF RefsCounted
  <1> QED  BY <1>1, <1>3 DEF RefsCounted

(* And who has a reference is in a stack.                                  *)
LEMMA ReferencedHeld ==
  ASSUME TypeOK, RefsCounted, NEW e \in Entries, refs[e] # 0
  PROVE  \E t \in Threads : \E n \in 1 .. Len(held[t]) : held[t][n] = e
  <1>1. Slots(e) # {}
    BY FS_EmptySet DEF RefsCounted
  <1>2. PICK s \in Slots(e) : TRUE
    BY <1>1
  <1>3. s[1] \in Threads /\ held[s[1]] \in Seq(Entries)
    BY <1>2 DEF Slots, TypeOK
  <1>4. Len(held[s[1]]) + 1 - s[2] \in 1 .. Len(held[s[1]])
    BY <1>2, <1>3 DEF Slots
  <1> QED  BY <1>2, <1>3, <1>4 DEF Slots

-----------------------------------------------------------------------------
(***************************************************************************)
(* A packet goes up its stack.                                             *)
(***************************************************************************)
USE DEF TimerStates, WalkSteps

(* The invariants a step leaves alone, because it does not touch what they *)
(* are about.                                                              *)
LEMMA CountsKept ==
  ASSUME RefsCounted, UNCHANGED <<refs, held>>
  PROVE  RefsCounted'
  BY DEF RefsCounted, Slots

LEMMA EntriesKept ==
  ASSUME ConnInv, UNCHANGED <<used, table, key, parent, children, walker, step, work>>
  PROVE  FamilyInv' /\ WorkInv'
  <1>1. FamilyInv'
    BY DEF ConnInv, FamilyInv, Cleaning
  <1>2. WorkInv'
    BY DEF ConnInv, WorkInv
  <1> QED  BY <1>1, <1>2

LEMMA TimersKept ==
  ASSUME ConnInv, UNCHANGED <<used, table, key, timer, step, hand>>
  PROVE  TimerInv'
  BY DEF ConnInv, TimerInv

LEMMA WorkKept ==
  ASSUME TypeOK, WorkInv, UNCHANGED <<walker, step, work>>,
         used \subseteq used', \A e \in used : e \in table' <=> e \in table,
         \A e \in used : key'[e] = key[e] /\ parent'[e] = parent[e],
         \A e, c \in used : c \in children'[e] <=> c \in children[e]
  PROVE  WorkInv'
  <1>1. Len(work) \in Nat /\ (work # <<>> => 1 \in 1 .. Len(work))
        /\ \A i \in 1 .. Len(work) - 1 : i \in 1 .. Len(work) /\ i + 1 \in 1 .. Len(work)
    BY DEF TypeOK
  <1>2. \A i \in 1 .. Len(work) : work[i] \in used
    BY DEF WorkInv
  <1>3. step = "detach" => 1 \in 1 .. Len(work)
    BY <1>1 DEF WorkInv
  <1>4. (\A i \in 1 .. Len(work) - 1 :
           parent[work[i]] = work[i + 1] /\ work[i] \notin children[work[i + 1]])'
    <2>1. ASSUME NEW i \in 1 .. Len(work) - 1
          PROVE  parent'[work[i]] = work[i + 1] /\ work[i] \notin children'[work[i + 1]]
      <3>1. work[i] \in used /\ work[i + 1] \in used
        BY <1>1, <1>2
      <3> QED  BY <3>1 DEF WorkInv
    <2> QED  BY <2>1
  <1>5. (step = "detach" /\ parent[work[1]] # None =>
           /\ parent[work[1]] \in used
           /\ parent[work[1]] \in table => work[1] \in children[parent[work[1]]])'
    BY <1>2, <1>3 DEF WorkInv
  <1>6. /\ (\A i \in 1 .. Len(work) : work[i] \in used)'
        /\ (\A i \in 1 .. Len(work) : i > 1 \/ Len(work) = 1 => key[work[i]] \notin Untimed)'
        /\ (\A i \in 2 .. Len(work) : work[i] \notin table)'
    <2>1. \A i \in 2 .. Len(work) : i \in 1 .. Len(work)
      BY <1>1
    <2> QED  BY <1>2, <2>1 DEF WorkInv
  <1>7. /\ (step = "clean" => work[1] \in table)'
        /\ (step \in {"detach", "children"} => work[1] \notin table)'
    <2>1. step \in {"clean", "detach", "children"} => work[1] \in used
      BY <1>1, <1>2 DEF WorkInv
    <2> QED  BY <2>1 DEF WorkInv
  <1> QED  BY <1>4, <1>5, <1>6, <1>7 DEF WorkInv

(* A new entry joins its table and its parent's list.                      *)
LEMMA InsertFacts ==
  ASSUME ConnInv, NEW e \in Entries, NEW k \in Keys, NEW p \in Entries \cup {None}, Insert(e, k, p),
         p # None => p \in table
  PROVE  /\ e \notin used /\ e \notin table /\ e # p
         /\ used' = used \cup {e} /\ table' = table \cup {e}
         /\ key'[e] = k /\ parent'[e] = p /\ children'[e] = {}
         /\ \A x \in Entries \ {e} : key'[x] = key[x] /\ parent'[x] = parent[x]
         /\ \A x \in Entries \ {e} : children'[x] = IF x = p THEN children[x] \cup {e} ELSE children[x]
         /\ table' \subseteq used' /\ used' \subseteq Entries
         /\ key' \in [Entries -> Keys] /\ parent' \in [Entries -> Entries \cup {None}]
         /\ children' \in [Entries -> SUBSET Entries]
  <1>1. e \notin used /\ table \subseteq used /\ used \subseteq Entries /\ None \notin Entries
    BY ConntrackAssumption DEF ConntrackAssumption, ConnInv, TypeOK, Insert
  <1>2. e \notin table /\ e # p
    BY <1>1
  <1>3. /\ key \in [Entries -> Keys] /\ parent \in [Entries -> Entries \cup {None}]
        /\ children \in [Entries -> SUBSET Entries]
    BY DEF ConnInv, TypeOK
  <1>4. /\ used' = used \cup {e} /\ table' = table \cup {e}
        /\ key' = [key EXCEPT ![e] = k] /\ parent' = [parent EXCEPT ![e] = p]
        /\ children' = [c \in Entries |-> IF c = e THEN {}
                                          ELSE IF c = p THEN children[c] \cup {e} ELSE children[c]]
    BY DEF Insert
  <1> QED  BY <1>1, <1>2, <1>3, <1>4

LEMMA InsertFamily ==
  ASSUME ConnInv, NEW e \in Entries, NEW k \in Keys, NEW p \in Entries \cup {None}, Insert(e, k, p),
         p # None => p \in table /\ key[p] \notin Untimed,
         \A f \in table : ~(key[f] = k /\ parent[f] = p),
         UNCHANGED <<walker, step, work>>
  PROVE  FamilyInv' /\ WorkInv'
  <1>1. /\ e \notin used /\ e \notin table /\ e # p
        /\ used' = used \cup {e} /\ table' = table \cup {e}
        /\ key'[e] = k /\ parent'[e] = p /\ children'[e] = {}
        /\ \A x \in Entries \ {e} : key'[x] = key[x] /\ parent'[x] = parent[x]
        /\ \A x \in Entries \ {e} : children'[x] = IF x = p THEN children[x] \cup {e} ELSE children[x]
    BY InsertFacts, ZenonT(30)
  <1>2. table \subseteq used /\ used \subseteq Entries /\ None \notin Entries
    BY ConntrackAssumption DEF ConntrackAssumption, ConnInv, TypeOK
  <1>3. WorkInv'
    <2>1. \A x \in used : /\ x \in table' <=> x \in table
                         /\ key'[x] = key[x] /\ parent'[x] = parent[x]
                         /\ \A c \in used : c \in children'[x] <=> c \in children[x]
      <3> TAKE x \in used
      <3>1. x \in Entries \ {e}
        BY <1>1, <1>2
      <3>2. x \in table' <=> x \in table
        BY <1>1, <3>1
      <3>3. ASSUME NEW c \in used PROVE c \in children'[x] <=> c \in children[x]
        <4>1. c # e
          BY <1>1
        <4> QED  BY <1>1, <3>1, <4>1, ZenonT(30)
      <3> QED  BY <1>1, <3>1, <3>2, <3>3
    <2> QED  BY <1>1, <2>1, WorkKept DEF ConnInv
  <1>4. (used \subseteq table \cup Cleaning)'
    BY <1>1 DEF ConnInv, FamilyInv, Cleaning
  <1>5. (\A x, f \in table : key[x] = key[f] /\ parent[x] = parent[f] => x = f)'
    BY <1>1, <1>2 DEF ConnInv, FamilyInv
  <1>6. (\A x \in used : parent[x] # x)'
    BY <1>1, <1>2 DEF ConnInv, FamilyInv
  <1>7. (\A x \in table : parent[x] # None =>
           /\ parent[x] \in used
           /\ x \in children[parent[x]] \/ (step = "clean" /\ Len(work) > 1 /\ x = work[1]))'
    <2>1. ASSUME NEW x \in table, parent[x] # None
          PROVE  /\ parent'[x] = parent[x] /\ parent[x] \in used
                 /\ x \in children'[parent[x]] \/ (step = "clean" /\ Len(work) > 1 /\ x = work[1])
      <3>1. /\ parent[x] \in used
            /\ x \in children[parent[x]] \/ (step = "clean" /\ Len(work) > 1 /\ x = work[1])
        BY <2>1 DEF ConnInv, FamilyInv
      <3> QED  BY <1>1, <1>2, <3>1
    <2>2. p # None => p \in used' /\ e \in children'[p]
      BY <1>1, <1>2
    <2>3. \A x \in table : parent'[x] = parent[x]
      BY <1>1, <1>2
    <2> QED  BY <1>1, <2>1, <2>2, <2>3
  <1>8. (\A q \in used : \A c \in children[q] :
           /\ c \in used /\ parent[c] = q /\ key[q] \notin Untimed
           /\ c \in table \/ (step = "detach" /\ Len(work) = 1 /\ c = work[1]))'
    <2>1. ASSUME NEW q \in used, NEW c \in children[q]
          PROVE  /\ c \in used /\ parent'[c] = q /\ key'[q] \notin Untimed
                 /\ c \in table \/ (step = "detach" /\ Len(work) = 1 /\ c = work[1])
      <3>1. /\ c \in used /\ parent[c] = q /\ key[q] \notin Untimed
            /\ c \in table \/ (step = "detach" /\ Len(work) = 1 /\ c = work[1])
        BY DEF ConnInv, FamilyInv
      <3> QED  BY <1>1, <1>2, <3>1
    <2>2. ASSUME NEW q \in used', NEW c \in children'[q]
          PROVE  (q \in used /\ c \in children[q]) \/ (q = p /\ c = e /\ p \in used)
      BY <1>1, <1>2, <2>2, ZenonT(30)
    <2>3. p \in used => key'[p] = key[p] /\ key[p] \notin Untimed
      BY <1>1, <1>2
    <2> QED  BY <1>1, <2>1, <2>2, <2>3
  <1> QED  BY <1>3, <1>4, <1>5, <1>6, <1>7, <1>8 DEF FamilyInv

(* The entry a reference is taken of is in the table, under the last one.  *)
LEMMA HoldStack ==
  ASSUME TypeOK, StackInv, NEW t \in Threads, NEW e \in Entries, Hold(t, e), path[t] # <<>>,
         table \subseteq table', e \in table', key'[e] = path[t][1], parent'[e] \in {None, Top(t)},
         \A x \in table : key'[x] = key[x] /\ parent'[x] = parent[x]
  PROVE  StackInv'
  <1>1. /\ Len(held[t]) \in Nat /\ Len(held'[t]) = Len(held[t]) + 1 /\ held'[t][1] = e
        /\ \A n \in 1 .. Len(held[t]) : held'[t][n + 1] = held[t][n]
        /\ \A u \in Threads \ {t} : held'[u] = held[u]
    BY HeldPushed
  <1>2. /\ Len(path[t]) \in Nat /\ Len(path'[t]) = Len(path[t]) - 1 /\ path'[t] \in Seq(Keys)
        /\ \A n \in 1 .. Len(path[t]) - 1 : path'[t][n] = path[t][n + 1]
        /\ \A u \in Threads \ {t} : path'[u] = path[u]
    BY PathPopped
  <1>3. ASSUME NEW u \in Threads, NEW n \in 1 .. Len(held'[u])
        PROVE  /\ held'[u][n] \in table'
               /\ \/ parent'[held'[u][n]] = None
                  \/ n < Len(held'[u]) /\ parent'[held'[u][n]] = held'[u][n + 1]
    <2>1. CASE u # t
      BY <1>1, <2>1 DEF StackInv
    <2>2. CASE u = t /\ n = 1
      <3>1. parent'[e] # None => held[t] # <<>> /\ parent'[e] = held[t][1]
        BY DEF Top
      <3>2. held[t] # <<>> => 1 \in 1 .. Len(held[t])
        BY DEF TypeOK
      <3> QED  BY <1>1, <2>2, <3>1, <3>2
    <2>3. CASE u = t /\ n # 1
      <3> DEFINE m == n - 1
      <3>1. m \in 1 .. Len(held[t]) /\ n = m + 1 /\ (m < Len(held[t]) => m + 1 \in 1 .. Len(held[t]))
        <4>1. n \in 1 .. Len(held[t]) + 1 /\ Len(held[t]) \in Nat /\ n # 1
          BY <1>1, <2>3
        <4> QED  BY <4>1
      <3> HIDE DEF m
      <3>2. /\ held[t][m] \in table
            /\ parent[held[t][m]] = None \/ (m < Len(held[t]) /\ parent[held[t][m]] = held[t][m + 1])
        BY <3>1 DEF StackInv
      <3>3. held'[t][n] = held[t][m] /\ (m < Len(held[t]) => n < Len(held'[t]) /\ held'[t][n + 1] = held[t][m + 1])
        BY <1>1, <3>1, SMTT(30)
      <3> QED  BY <2>3, <3>2, <3>3
    <2> QED  BY <2>1, <2>2, <2>3
  <1>4. ASSUME NEW u \in Threads
        PROVE  /\ \A n \in 1 .. Len(path'[u]) - 1 : path'[u][n] \notin Untimed
               /\ path'[u] # <<>> /\ held'[u] # <<>> => key'[held'[u][1]] \notin Untimed
    <2>1. CASE u # t
      <3>1. held[u] # <<>> => held[u][1] \in table
        <4>1. held[u] # <<>> => 1 \in 1 .. Len(held[u])
          BY DEF TypeOK
        <4> QED  BY <4>1 DEF StackInv
      <3> QED  BY <1>1, <1>2, <2>1, <3>1 DEF StackInv
    <2>2. CASE u = t
      <3>1. \A n \in 1 .. Len(path[t]) - 1 : path[t][n] \notin Untimed
        BY DEF StackInv
      <3>2. ASSUME NEW n \in 1 .. Len(path'[t]) - 1 PROVE path'[t][n] \notin Untimed
        <4>1. n + 1 \in 1 .. Len(path[t]) - 1 /\ n \in 1 .. Len(path[t]) - 1
          BY <1>2
        <4> QED  BY <1>2, <3>1, <4>1
      <3>3. path'[t] # <<>> => 1 \in 1 .. Len(path[t]) - 1
        BY <1>2
      <3> QED  BY <1>1, <2>2, <3>1, <3>2, <3>3
    <2> QED  BY <2>1, <2>2
  <1> QED  BY <1>3, <1>4 DEF StackInv

LEMMA HoldFound ==
  ASSUME TypeOK, FoundInv, NEW t \in Threads, NEW e \in Entries, Hold(t, e), path[t] # <<>>,
         found'[t] = None, \A u \in Threads \ {t} : found'[u] = found[u],
         table \subseteq table', \A x \in table : key'[x] = key[x] /\ parent'[x] = parent[x]
  PROVE  FoundInv'
  <1>1. \A u \in Threads \ {t} : held'[u] = held[u] /\ path'[u] = path[u]
    BY HeldPushed, PathPopped
  <1>2. \A u \in Threads \ {t} : Top(u)' = Top(u)
    BY <1>1 DEF Top
  <1> QED  BY <1>1, <1>2 DEF FoundInv

LEMMA TopFacts ==
  ASSUME TypeOK, StackInv, NEW t \in Threads
  PROVE  /\ Top(t) \in Entries \cup {None}
         /\ Top(t) # None => held[t] # <<>> /\ Top(t) = held[t][1] /\ Top(t) \in table
         /\ Top(t) # None /\ path[t] # <<>> => key[Top(t)] \notin Untimed
  <1>1. held[t] # <<>> => 1 \in 1 .. Len(held[t]) /\ held[t][1] \in Entries
    BY DEF TypeOK
  <1> QED  BY <1>1 DEF StackInv, Top

(* The timers, when a packet refreshes an entry or makes one.              *)
LEMMA RefreshTimers ==
  ASSUME TypeOK, TimerInv, NEW e \in table, Refresh(e, key[e]),
         UNCHANGED <<used, table, key, step, hand>>
  PROVE  TimerInv' /\ timer' \in [Entries -> TimerStates] /\ stale' \in BOOLEAN
  <1>1. /\ timer \in [Entries -> TimerStates] /\ e \in Entries /\ stale \in BOOLEAN
        /\ timer[e] # "gone"
    BY DEF TypeOK, TimerInv
  <1>2. CASE UNCHANGED <<timer, stale>>
    BY <1>1, <1>2 DEF TimerInv
  <1>3. CASE Cancel(e)
    <2>1. timer' = [timer EXCEPT ![e] = "none"] /\ stale' \in BOOLEAN
      BY <1>1, <1>3 DEF Cancel
    <2> QED  BY <1>1, <2>1 DEF TimerInv
  <1>4. CASE key[e] \notin Untimed /\ Queue(e) /\ UNCHANGED stale
    <2>1. timer' = [timer EXCEPT ![e] = "queued"] /\ stale' \in BOOLEAN
      BY <1>1, <1>4 DEF Queue
    <2> QED  BY <1>1, <1>4, <2>1 DEF TimerInv
  <1> QED  BY <1>2, <1>3, <1>4 DEF Refresh

LEMMA InsertTimers ==
  ASSUME ConnInv, NEW e \in Entries, NEW k \in Keys, NEW p \in Entries \cup {None}, Insert(e, k, p),
         p # None => p \in table, UNCHANGED <<step, hand>>,
         NEW l \in TimerStates \ {"gone"}, k \in Untimed => l = "none",
         timer' = [timer EXCEPT ![e] = l]
  PROVE  TimerInv' /\ timer' \in [Entries -> TimerStates]
  <1>1. /\ e \notin used /\ e \notin table
        /\ used' = used \cup {e} /\ table' = table \cup {e} /\ key'[e] = k
        /\ \A x \in Entries \ {e} : key'[x] = key[x]
    BY InsertFacts
  <1>2. timer \in [Entries -> TimerStates] /\ table \subseteq used /\ used \subseteq Entries /\ TimerInv
    BY DEF ConnInv, TypeOK
  <1> QED  BY <1>1, <1>2 DEF TimerInv

LEMMA ArriveKeeps ==
  ASSUME Layered, ConnInv, NEW t \in Threads, NEW p \in Paths, Arrive(t, p)
  PROVE  ConnInv'
  <1>1. /\ p \in Seq(Keys) /\ path \in [Threads -> Seq(Keys)] /\ path' = [path EXCEPT ![t] = p]
        /\ held[t] = <<>> /\ path[t] = <<>>
        /\ UNCHANGED <<used, table, key, parent, children, refs, timer, held, found,
                       walker, step, hand, stale, work>>
    BY ConntrackAssumption
       DEF ConntrackAssumption, Arrive, Idle, entryVars, walkVars, ConnInv, TypeOK
  <1>2. TypeOK'
    BY <1>1 DEF ConnInv, TypeOK
  <1>5. RefsCounted' /\ WorkInv' /\ FamilyInv' /\ TimerInv'
    BY <1>1, CountsKept, EntriesKept, TimersKept DEF ConnInv
  <1>3. StackInv'
    BY <1>1 DEF ConnInv, StackInv, Layered
  <1>4. FoundInv'
    <2>1. found[t] = None
      BY <1>1 DEF ConnInv, FoundInv
    <2> QED  BY <1>1, <2>1 DEF ConnInv, FoundInv, Top
  <1> QED  BY <1>2, <1>3, <1>4, <1>5 DEF ConnInv

LEMMA GiveUpKeeps ==
  ASSUME ConnInv, NEW t \in Threads, GiveUp(t)
  PROVE  ConnInv'
  <1>1. /\ <<>> \in Seq(Keys) /\ Len(<<>>) = 0
        /\ path \in [Threads -> Seq(Keys)] /\ path' = [path EXCEPT ![t] = <<>>] /\ found[t] = None
        /\ UNCHANGED <<used, table, key, parent, children, refs, timer, held, found,
                       walker, step, hand, stale, work>>
    BY DEF GiveUp, entryVars, walkVars, ConnInv, TypeOK
  <1>2. TypeOK'
    BY <1>1 DEF ConnInv, TypeOK
  <1>5. RefsCounted' /\ WorkInv' /\ FamilyInv' /\ TimerInv'
    BY <1>1, CountsKept, EntriesKept, TimersKept DEF ConnInv
  <1>3. StackInv'
    <2>1. path'[t] = <<>> /\ \A u \in Threads \ {t} : path'[u] = path[u]
      BY <1>1
    <2>2. \A n \in 1 .. Len(path'[t]) - 1 : path'[t][n] \notin Untimed
      BY <1>1, <2>1
    <2> QED  BY <1>1, <2>1, <2>2 DEF ConnInv, StackInv
  <1>4. FoundInv'
    BY <1>1 DEF ConnInv, FoundInv, Top
  <1> QED  BY <1>2, <1>3, <1>4, <1>5 DEF ConnInv

LEMMA ReleaseKeeps ==
  ASSUME ConnInv, NEW t \in Threads, Release(t)
  PROVE  ConnInv'
  <1>1. /\ path[t] = <<>>
        /\ UNCHANGED <<used, table, key, parent, children, timer, path, found,
                       walker, step, hand, stale, work>>
    BY DEF Release, walkVars
  <1>2. /\ held' \in [Threads -> Seq(Entries)]
        /\ Len(held[t]) \in Nat \ {0} /\ Len(held'[t]) = Len(held[t]) - 1
        /\ \A n \in 1 .. Len(held[t]) - 1 : held'[t][n] = held[t][n + 1]
        /\ \A u \in Threads \ {t} : held'[u] = held[u]
    BY HeldPopped DEF ConnInv
  <1>3. RefsCounted' /\ refs' \in [Entries -> Nat]
    BY ReleaseCounts DEF ConnInv
  <1>4. TypeOK' /\ WorkInv' /\ FamilyInv' /\ TimerInv'
    <2>1. TypeOK'
      BY <1>1, <1>2, <1>3 DEF ConnInv, TypeOK
    <2> QED  BY <1>1, <2>1, EntriesKept, TimersKept
  <1>5. StackInv'
    <2>1. ASSUME NEW n \in 1 .. Len(held'[t])
          PROVE  /\ held'[t][n] \in table
                 /\ \/ parent[held'[t][n]] = None
                    \/ n < Len(held'[t]) /\ parent[held'[t][n]] = held'[t][n + 1]
      <3>1. n \in 1 .. Len(held[t]) - 1 /\ n + 1 \in 1 .. Len(held[t])
        BY <1>2
      <3>2. n + 1 < Len(held[t]) => n + 1 \in 1 .. Len(held[t]) - 1 /\ n < Len(held'[t])
        BY <1>2
      <3>3. /\ held[t][n + 1] \in table
            /\ \/ parent[held[t][n + 1]] = None
               \/ n + 1 < Len(held[t]) /\ parent[held[t][n + 1]] = held[t][(n + 1) + 1]
        BY <3>1 DEF ConnInv, StackInv
      <3> QED  BY <1>2, <3>1, <3>2, <3>3
    <2> QED  BY <1>1, <1>2, <2>1, SMTT(30) DEF ConnInv, StackInv
  <1>6. FoundInv'
    <2>1. found[t] = None
      BY <1>1 DEF ConnInv, FoundInv
    <2> QED  BY <1>1, <1>2, <2>1 DEF ConnInv, FoundInv, Top
  <1> QED  BY <1>3, <1>4, <1>5, <1>6 DEF ConnInv

LEMMA GetKeeps ==
  ASSUME ConnInv, NEW t \in Threads, Get(t)
  PROVE  ConnInv'
  <1> DEFINE k == Head(path[t])  p == Top(t)
  <1>1. /\ path[t] # <<>> /\ found[t] = None /\ k = path[t][1] /\ k \in Keys
        /\ UNCHANGED <<found, walker, step, hand, work>>
    BY DEF Get, ConnInv, TypeOK
  <1>2. /\ p \in Entries \cup {None} /\ (p # None => p \in table /\ key[p] \notin Untimed)
        /\ table \subseteq Entries /\ table \subseteq used
    BY <1>1, TopFacts DEF ConnInv, TypeOK
  <1>3. ASSUME NEW e \in Find(k, p), Hold(t, e), Refresh(e, k), UNCHANGED <<used, table, key, parent, children>>
        PROVE  ConnInv'
    <2>1. e \in table /\ e \in Entries /\ key[e] = k /\ parent[e] \in {None, p}
      BY <1>2 DEF Find
    <2>2. TimerInv' /\ timer' \in [Entries -> TimerStates] /\ stale' \in BOOLEAN
      BY <1>1, <1>3, <2>1, RefreshTimers DEF ConnInv
    <2>3. RefsCounted' /\ refs' \in [Entries -> Nat]
      BY <1>1, <1>3, <2>1, HoldCounts DEF ConnInv
    <2>4. held' \in [Threads -> Seq(Entries)] /\ path' \in [Threads -> Seq(Keys)]
      BY <1>1, <1>3, <2>1, HeldPushed, PathPopped DEF ConnInv
    <2>5. TypeOK' /\ WorkInv' /\ FamilyInv'
      <3>1. TypeOK'
        BY <1>1, <1>3, <2>2, <2>3, <2>4 DEF ConnInv, TypeOK
      <3> QED  BY <1>1, <1>3, <3>1, EntriesKept
    <2>6. StackInv'
      BY <1>1, <1>3, <2>1, HoldStack DEF ConnInv
    <2>7. FoundInv'
      BY <1>1, <1>3, <2>1, HoldFound DEF ConnInv
    <2> QED  BY <2>2, <2>3, <2>5, <2>6, <2>7 DEF ConnInv
  <1>4. ASSUME NEW e \in Entries, Find(k, p) = {}, Insert(e, k, p), Hold(t, e), UNCHANGED stale,
               timer' = [timer EXCEPT ![e] = IF k \in Untimed THEN "none" ELSE "queued"]
        PROVE  ConnInv'
    <2>1. /\ table' = table \cup {e} /\ key'[e] = k /\ parent'[e] = p
          /\ \A x \in table : key'[x] = key[x] /\ parent'[x] = parent[x]
          /\ table' \subseteq used' /\ used' \subseteq Entries
          /\ key' \in [Entries -> Keys] /\ parent' \in [Entries -> Entries \cup {None}]
          /\ children' \in [Entries -> SUBSET Entries]
      BY <1>1, <1>2, <1>4, InsertFacts
    <2>2. TimerInv' /\ timer' \in [Entries -> TimerStates]
      <3> DEFINE l == IF k \in Untimed THEN "none" ELSE "queued"
      <3>1. l \in TimerStates \ {"gone"} /\ (k \in Untimed => l = "none") /\ timer' = [timer EXCEPT ![e] = l]
        BY <1>4
      <3>2. k \in Keys /\ p \in Entries \cup {None} /\ (p # None => p \in table)
        BY <1>1, <1>2
      <3>3. Insert(e, k, p) /\ UNCHANGED <<step, hand>> /\ timer' = [timer EXCEPT ![e] = l]
        BY <1>1, <1>4
      <3> HIDE DEF l, k, p
      <3> QED  BY <3>1, <3>2, <3>3, InsertTimers
    <2>3. RefsCounted' /\ refs' \in [Entries -> Nat]
      BY <1>1, <1>4, HoldCounts DEF ConnInv
    <2>4. held' \in [Threads -> Seq(Entries)] /\ path' \in [Threads -> Seq(Keys)]
      BY <1>1, <1>4, HeldPushed, PathPopped DEF ConnInv
    <2>5. TypeOK'
      BY <1>1, <1>4, <2>1, <2>2, <2>3, <2>4 DEF ConnInv, TypeOK
    <2>6. FamilyInv' /\ WorkInv'
      <3>1. \A f \in table : ~(key[f] = k /\ parent[f] = p)
        BY <1>4 DEF Find
      <3> QED  BY <1>1, <1>2, <1>4, <3>1, InsertFamily
    <2>7. StackInv'
      BY <1>1, <1>4, <2>1, HoldStack DEF ConnInv
    <2>8. FoundInv'
      BY <1>1, <1>4, <2>1, HoldFound DEF ConnInv
    <2> QED  BY <2>2, <2>3, <2>5, <2>6, <2>7, <2>8 DEF ConnInv
  <1> QED  BY <1>3, <1>4 DEF Get

(* conntrack_get_unique_from_parent: what it finds or adds stays until the *)
(* reference is taken.                                                     *)
LEMMA LookUpKeeps ==
  ASSUME Layered, ConnInv, NEW t \in Threads, LookUp(t)
  PROVE  ConnInv'
  <1> DEFINE k == Head(path[t])  p == Top(t)
  <1>1. /\ path[t] # <<>> /\ found[t] = None /\ k = path[t][1] /\ k \in Untimed /\ k \in Unique
        /\ k \in Keys /\ found \in [Threads -> Entries \cup {None}]
        /\ UNCHANGED <<refs, held, path, walker, step, hand, stale, work>>
    BY DEF LookUp, walkVars, ConnInv, TypeOK, Layered
  <1>2. /\ p \in Entries \cup {None} /\ (p # None => p \in table /\ key[p] \notin Untimed)
        /\ table \subseteq Entries /\ table \subseteq used
    BY <1>1, TopFacts DEF ConnInv, TypeOK
  <1>3. RefsCounted'
    BY <1>1, CountsKept DEF ConnInv
  <1>4. ASSUME NEW e \in table', found' = [found EXCEPT ![t] = e], key'[e] = k, parent'[e] = p,
               table \subseteq table', \A x \in table : key'[x] = key[x] /\ parent'[x] = parent[x]
        PROVE  StackInv' /\ FoundInv'
    <2>1. StackInv'
      <3>1. ASSUME NEW u \in Threads, held[u] # <<>> PROVE held[u][1] \in table
        <4>1. 1 \in 1 .. Len(held[u])
          BY <3>1 DEF ConnInv, TypeOK
        <4> QED  BY <4>1 DEF ConnInv, StackInv
      <3> QED  BY <1>1, <1>4, <3>1 DEF ConnInv, StackInv
    <2>2. \A u \in Threads : Top(u)' = Top(u)
      BY <1>1 DEF Top
    <2>3. FoundInv'
      BY <1>1, <1>4, <2>2 DEF ConnInv, FoundInv
    <2> QED  BY <2>1, <2>3
  <1>5. ASSUME NEW e \in Entries, e \in Known(k, p), found' = [found EXCEPT ![t] = e],
               UNCHANGED <<used, table, key, parent, children, timer>>
        PROVE  ConnInv'
    <2>1. e \in table /\ key[e] = k /\ parent[e] = p
      <3>1. CASE p = None
        BY <1>5, <3>1 DEF Known, Find
      <3>2. CASE p # None
        <4>1. e \in children[p] /\ key[e] = k /\ p \in used
          BY <1>2, <1>5, <3>2 DEF Known
        <4>2. parent[e] = p /\ (e \in table \/ (Len(work) = 1 /\ e = work[1]))
          BY <4>1 DEF ConnInv, FamilyInv
        <4>3. ~(Len(work) = 1 /\ e = work[1])
          BY <1>1, <4>1 DEF ConnInv, WorkInv
        <4> QED  BY <4>1, <4>2, <4>3
      <3> QED  BY <3>1, <3>2
    <2>2. TypeOK'
      BY <1>1, <1>5 DEF ConnInv, TypeOK
    <2>3. WorkInv' /\ FamilyInv' /\ TimerInv'
      BY <1>1, <1>5, EntriesKept, TimersKept
    <2>4. StackInv' /\ FoundInv'
      BY <1>4, <1>5, <2>1
    <2> QED  BY <1>3, <2>2, <2>3, <2>4 DEF ConnInv
  <1>6. ASSUME NEW e \in Entries, Known(k, p) = {}, Insert(e, k, p), found' = [found EXCEPT ![t] = e],
               timer' = [timer EXCEPT ![e] = "none"]
        PROVE  ConnInv'
    <2>1. /\ table' = table \cup {e} /\ key'[e] = k /\ parent'[e] = p
          /\ \A x \in table : key'[x] = key[x] /\ parent'[x] = parent[x]
          /\ table' \subseteq used' /\ used' \subseteq Entries
          /\ key' \in [Entries -> Keys] /\ parent' \in [Entries -> Entries \cup {None}]
          /\ children' \in [Entries -> SUBSET Entries]
      BY <1>1, <1>2, <1>6, InsertFacts
    <2>2. TimerInv' /\ timer' \in [Entries -> TimerStates]
      <3>1. "none" \in TimerStates \ {"gone"}
        OBVIOUS
      <3>2. k \in Keys /\ p \in Entries \cup {None} /\ (p # None => p \in table)
        BY <1>1, <1>2
      <3>3. Insert(e, k, p) /\ UNCHANGED <<step, hand>> /\ timer' = [timer EXCEPT ![e] = "none"]
        BY <1>1, <1>6
      <3> HIDE DEF k, p
      <3> QED  BY <3>1, <3>2, <3>3, InsertTimers
    <2>3. TypeOK'
      BY <1>1, <1>6, <2>1, <2>2 DEF ConnInv, TypeOK
    <2>4. FamilyInv' /\ WorkInv'
      <3>1. ASSUME NEW f \in table, key[f] = k, parent[f] = p PROVE FALSE
        <4>1. CASE p = None
          BY <1>6, <3>1, <4>1 DEF Known, Find
        <4>2. CASE p # None
          <5>1. f \in children[p] \/ (Len(work) > 1 /\ f = work[1])
            BY <3>1, <4>2 DEF ConnInv, FamilyInv
          <5>2. ~(Len(work) > 1 /\ f = work[1])
            <6>1. Len(work) > 1 => 1 \in 1 .. Len(work) - 1 /\ 2 \in 2 .. Len(work)
              BY DEF ConnInv, TypeOK
            <6>2. Len(work) > 1 => parent[work[1]] = work[2] /\ work[2] \notin table
              BY <6>1 DEF ConnInv, WorkInv
            <6> QED  BY <1>2, <3>1, <4>2, <6>2
          <5> QED  BY <1>6, <3>1, <4>2, <5>1, <5>2 DEF Known
        <4> QED  BY <4>1, <4>2
      <3> HIDE DEF k, p
      <3> QED  BY <1>1, <1>2, <1>6, <3>1, InsertFamily
    <2>5. StackInv' /\ FoundInv'
      BY <1>4, <1>6, <2>1
    <2> QED  BY <1>3, <2>2, <2>3, <2>4, <2>5 DEF ConnInv
  <1> QED  BY <1>5, <1>6 DEF LookUp

LEMMA ReferenceKeeps ==
  ASSUME ConnInv, NEW t \in Threads, Reference(t)
  PROVE  ConnInv'
  <1>1. PICK e \in Entries : e = found[t]
    BY DEF Reference, ConnInv, TypeOK
  <1>2. /\ e \in table /\ parent[e] = Top(t) /\ path[t] # <<>> /\ key[e] = path[t][1]
    BY <1>1 DEF Reference, ConnInv, FoundInv
  <1>3. /\ Hold(t, e) /\ Refresh(e, key[e]) /\ found' = [found EXCEPT ![t] = None]
        /\ found \in [Threads -> Entries \cup {None}]
        /\ UNCHANGED <<used, table, key, parent, children, walker, step, hand, work>>
    BY <1>1, <1>2 DEF Reference, ConnInv, TypeOK
  <1>4. TimerInv' /\ timer' \in [Entries -> TimerStates] /\ stale' \in BOOLEAN
    BY <1>2, <1>3, RefreshTimers DEF ConnInv
  <1>5. RefsCounted' /\ refs' \in [Entries -> Nat]
    BY <1>2, <1>3, HoldCounts DEF ConnInv
  <1>6. held' \in [Threads -> Seq(Entries)] /\ path' \in [Threads -> Seq(Keys)]
    BY <1>2, <1>3, HeldPushed, PathPopped DEF ConnInv
  <1>7. TypeOK'
    BY <1>3, <1>4, <1>5, <1>6 DEF ConnInv, TypeOK
  <1>8. WorkInv' /\ FamilyInv'
    BY <1>3, EntriesKept
  <1>9. StackInv'
    BY <1>2, <1>3, HoldStack DEF ConnInv
  <1>10. FoundInv'
    BY <1>2, <1>3, HoldFound DEF ConnInv
  <1> QED  BY <1>4, <1>5, <1>7, <1>8, <1>9, <1>10 DEF ConnInv

-----------------------------------------------------------------------------
(***************************************************************************)
(* Timers and cleanups.                                                    *)
(***************************************************************************)
LEMMA TakeTimerKeeps ==
  ASSUME ConnInv, NEW t \in Threads, NEW e \in Entries, TakeTimer(t, e)
  PROVE  ConnInv'
  <1>1. /\ walker = None /\ step = "none" /\ work = <<>> /\ timer[e] = "queued" /\ e \in table
        /\ timer \in [Entries -> TimerStates] /\ timer' = [timer EXCEPT ![e] = "off"]
        /\ walker' = t /\ step' = "call" /\ hand' = e /\ t # None
        /\ UNCHANGED <<used, table, key, parent, children, refs, path, held, found, stale, work>>
    BY ConntrackAssumption
       DEF ConntrackAssumption, TakeTimer, entryVars, packetVars, ConnInv, TypeOK, WorkInv, TimerInv
  <1>2. TypeOK'
    BY <1>1 DEF ConnInv, TypeOK
  <1>3. RefsCounted'
    BY <1>1, CountsKept DEF ConnInv
  <1>4. StackInv' /\ FoundInv'
    BY <1>1 DEF ConnInv, StackInv, FoundInv, Top
  <1>5. WorkInv'
    BY <1>1 DEF ConnInv, WorkInv
  <1>6. FamilyInv'
    BY <1>1 DEF ConnInv, FamilyInv, Cleaning
  <1>7. TimerInv'
    BY <1>1 DEF ConnInv, TypeOK, TimerInv
  <1> QED  BY <1>2, <1>3, <1>4, <1>5, <1>6, <1>7 DEF ConnInv

LEMMA CallKeeps ==
  ASSUME ConnInv, Call
  PROVE  ConnInv'
  <1>1. /\ step = "call" /\ work = <<>> /\ walker # None /\ hand \in table /\ key[hand] \notin Untimed
        /\ table \subseteq used /\ used \subseteq Entries
        /\ step' = "clean" /\ work' = <<hand>> /\ hand' = None
        /\ UNCHANGED <<used, table, key, parent, children, refs, timer, path, held, found, walker, stale>>
    BY DEF Call, entryVars, packetVars, ConnInv, TypeOK, WorkInv, TimerInv
  <1>2. work' \in Seq(Entries) /\ Len(work') = 1 /\ work'[1] = hand /\ Len(work) = 0
    BY <1>1
  <1>3. TypeOK'
    BY <1>1, <1>2 DEF ConnInv, TypeOK
  <1>4. RefsCounted'
    BY <1>1, CountsKept DEF ConnInv
  <1>5. StackInv' /\ FoundInv'
    BY <1>1 DEF ConnInv, StackInv, FoundInv, Top
  <1>6. WorkInv'
    BY <1>1, <1>2 DEF ConnInv, WorkInv
  <1>7. FamilyInv'
    BY <1>1, <1>2 DEF ConnInv, FamilyInv, Cleaning
  <1>8. TimerInv'
    BY <1>1 DEF ConnInv, TimerInv
  <1> QED  BY <1>3, <1>4, <1>5, <1>6, <1>7, <1>8 DEF ConnInv

OneOrMore(n) == n \in Nat /\ (n = 1 \/ n > 1) /\ ~(n = 1 /\ n > 1)

LEMMA LengthOneOrMore ==
  ASSUME NEW S, NEW list \in Seq(S), list # <<>>
  PROVE  OneOrMore(Len(list)) /\ (Tail(list) = <<>> <=> Len(list) = 1)
  <1>1. PICK n \in Nat : n = Len(list)
    OBVIOUS
  <1>2. n # 0 /\ Tail(list) \in Seq(S) /\ Len(Tail(list)) = n - 1
    BY <1>1, EmptySeq, HeadTailProperties
  <1>3. OneOrMore(n)
    BY <1>2 DEF OneOrMore
  <1>4. PICK m \in Nat : m = Len(Tail(list))
    BY <1>2
  <1>5. m = 0 <=> Tail(list) = <<>>
    BY <1>2, <1>4, EmptySeq
  <1>6. m = 0 <=> n = 1
    BY <1>2, <1>4
  <1> QED  BY <1>1, <1>3, <1>5, <1>6

(* The entry conntrack_cleanup is at, and the ones it will go back to.     *)
LEMMA WorkFacts ==
  ASSUME ConnInv, step \in {"clean", "detach", "children"}
  PROVE  /\ work \in Seq(Entries) /\ OneOrMore(Len(work)) /\ 1 \in 1 .. Len(work) /\ walker # None
         /\ Head(work) = work[1] /\ work[1] \in used /\ work[1] \in Entries /\ used \subseteq Entries
         /\ Len(work) > 1 => /\ parent[work[1]] = work[2] /\ work[2] \in used \ table
                            /\ work[1] \notin children[work[2]]
         /\ Len(work) = 1 => key[work[1]] \notin Untimed
  <1>1. work \in Seq(Entries) /\ work # <<>> /\ walker # None /\ used \subseteq Entries
    BY DEF ConnInv, TypeOK, WorkInv
  <1>2. OneOrMore(Len(work)) /\ 1 \in 1 .. Len(work) /\ Head(work) = work[1]
    BY <1>1, LengthOneOrMore
  <1>3. Len(work) > 1 => 1 \in 1 .. Len(work) - 1 /\ 2 \in 1 .. Len(work) /\ 2 \in 2 .. Len(work)
    BY <1>2
  <1> QED  BY <1>1, <1>2, <1>3 DEF ConnInv, WorkInv

LEMMA ReturnFacts ==
  ASSUME ConnInv, step \in {"clean", "detach", "children"}, Return
  PROVE  /\ work' \in Seq(Entries) /\ Len(work') = Len(work) - 1
         /\ \A i \in 1 .. Len(work) - 1 : work'[i] = work[i + 1]
         /\ Len(work) = 1 => work' = <<>> /\ step' = "none" /\ walker' = None
         /\ Len(work) > 1 => work' # <<>> /\ step' = "children" /\ walker' = walker
  <1>1. work \in Seq(Entries) /\ work # <<>> /\ work' = Tail(work)
    BY DEF ConnInv, TypeOK, WorkInv, Return
  <1>2. /\ Tail(work) \in Seq(Entries) /\ Len(Tail(work)) = Len(work) - 1
        /\ \A n \in 1 .. Len(work) - 1 : Tail(work)[n] = work[n + 1]
    BY <1>1, HeadTailProperties
  <1>3. work \in Seq(Entries) /\ (Tail(work) = <<>> <=> Len(work) = 1)
    BY <1>1, LengthOneOrMore
  <1> QED  BY <1>1, <1>2, <1>3 DEF Return, OneOrMore

(* An entry in use is not below one that is being cleaned up.              *)
LEMMA UsedIsFirst ==
  ASSUME ConnInv, step = "clean", refs[work[1]] > 0
  PROVE  Len(work) = 1
  <1>1. /\ work \in Seq(Entries) /\ OneOrMore(Len(work)) /\ work[1] \in Entries
        /\ Len(work) > 1 => parent[work[1]] = work[2] /\ work[2] \in used \ table
    BY WorkFacts
  <1>2. refs[work[1]] # 0
    BY <1>1 DEF ConnInv, TypeOK
  <1>3. PICK t \in Threads : \E n \in 1 .. Len(held[t]) : held[t][n] = work[1]
    BY <1>1, <1>2, ReferencedHeld DEF ConnInv
  <1>7. PICK n \in 1 .. Len(held[t]) : held[t][n] = work[1]
    BY <1>3
  <1>4. \/ parent[work[1]] = None
        \/ n + 1 \in 1 .. Len(held[t]) /\ parent[work[1]] = held[t][n + 1]
    BY <1>7, SMTT(30) DEF ConnInv, StackInv, TypeOK
  <1>5. parent[work[1]] = None \/ parent[work[1]] \in table
    BY <1>4 DEF ConnInv, StackInv
  <1>6. ~(Len(work) > 1)
    BY <1>1, <1>5, ConntrackAssumption DEF ConntrackAssumption, ConnInv, TypeOK
  <1>8. work \in Seq(Entries) /\ OneOrMore(Len(work))
    BY <1>1
  <1> QED  BY <1>6, <1>8 DEF OneOrMore

LEMMA CleanKeeps ==
  ASSUME ConnInv, Clean
  PROVE  ConnInv'
  <1> DEFINE e == work[1]
  <1>1. /\ step = "clean" /\ walker # None
        /\ UNCHANGED <<used, key, parent, children, refs, path, held, found, hand, stale>>
        /\ work \in Seq(Entries) /\ OneOrMore(Len(work)) /\ 1 \in 1 .. Len(work) /\ Head(work) = e /\ e \in Entries /\ e \in table
        /\ Len(work) > 1 => /\ parent[e] = work[2] /\ work[2] \in used \ table
                           /\ e \notin children[work[2]]
        /\ Len(work) = 1 => key[e] \notin Untimed
        /\ timer \in [Entries -> TimerStates] /\ used \subseteq Entries /\ table \subseteq used
    BY WorkFacts DEF Clean, packetVars, ConnInv, WorkInv, TypeOK
  <1>2. RefsCounted'
    BY <1>1, CountsKept DEF ConnInv
  <1>3. CASE refs[e] > 0
    <2>1. Return /\ table' = table /\ Queue(e)
      BY <1>1, <1>3, ConntrackAssumption DEF Clean, ConnInv, TypeOK
    <2>2. Len(work) = 1
      BY <1>1, <1>3, UsedIsFirst
    <2>3. work' = <<>> /\ step' = "none" /\ walker' = None /\ work' \in Seq(Entries)
      BY <1>1, <2>1, <2>2, ReturnFacts
    <2>4. timer' = [timer EXCEPT ![e] = "queued"] /\ key[e] \notin Untimed
      BY <1>1, <2>1, <2>2 DEF Queue, ConnInv, TimerInv
    <2>5. TypeOK'
      BY <1>1, <2>1, <2>3, <2>4 DEF ConnInv, TypeOK
    <2>6. StackInv' /\ FoundInv'
      BY <1>1, <2>1 DEF ConnInv, StackInv, FoundInv, Top
    <2>7. WorkInv'
      BY <2>3 DEF WorkInv
    <2>8. FamilyInv'
      <3>1. Cleaning = {e}
        BY <2>2 DEF Cleaning
      <3> QED  BY <1>1, <2>1, <2>2, <2>3, <3>1 DEF ConnInv, FamilyInv
    <2>9. TimerInv'
      BY <1>1, <2>1, <2>3, <2>4 DEF ConnInv, TimerInv
    <2> QED  BY <1>2, <2>5, <2>6, <2>7, <2>8, <2>9 DEF ConnInv
  <1>4. CASE refs[e] = 0
    <2>1. /\ table' = table \ {e} /\ step' = "detach" /\ UNCHANGED <<walker, work>>
          /\ timer' = [timer EXCEPT ![e] = IF @ = "none" THEN "none" ELSE "gone"]
      BY <1>1, <1>4 DEF Clean
    <2>2. TypeOK'
      BY <1>1, <2>1 DEF ConnInv, TypeOK
    <2>3. StackInv'
      <3>1. ASSUME NEW t \in Threads, NEW n \in 1 .. Len(held[t]) PROVE held[t][n] # e
        BY <1>4, HeldReferenced DEF ConnInv
      <3> QED  BY <1>1, <2>1, <3>1 DEF ConnInv, StackInv
    <2>4. FoundInv'
      <3>1. ASSUME NEW t \in Threads, found[t] = e PROVE FALSE
        <4>1. parent[e] = Top(t) /\ key[e] \in Untimed
          BY <1>1, <3>1, ConntrackAssumption DEF ConntrackAssumption, ConnInv, FoundInv
        <4>2. Top(t) = None \/ Top(t) \in table
          BY TopFacts DEF ConnInv
        <4>3. Len(work) # 1
          BY <1>1, <4>1
        <4>4. Len(work) > 1
          BY <1>1, <4>3 DEF OneOrMore
        <4>5. Top(t) \in used \ table
          BY <1>1, <4>1, <4>4
        <4> QED  BY <1>1, <4>2, <4>5, ConntrackAssumption DEF ConntrackAssumption
      <3> QED  BY <1>1, <2>1, <3>1 DEF ConnInv, FoundInv, Top
    <2>5. WorkInv'
      <3>1. parent[e] # None => /\ parent[e] \in used
                                /\ parent[e] \in table => e \in children[parent[e]]
        BY <1>1 DEF ConnInv, FamilyInv
      <3> QED  BY <1>1, <2>1, <3>1 DEF ConnInv, WorkInv
    <2>6. FamilyInv'
      <3>1. (used \subseteq table \cup Cleaning)'
        <4>1. e \in Cleaning
          BY <1>1 DEF Cleaning
        <4> QED  BY <1>1, <2>1, <4>1 DEF ConnInv, FamilyInv, Cleaning
      <3>2. ASSUME NEW p \in used, NEW c \in children[p], c = e PROVE Len(work) = 1
        <4>1. parent[e] = p
          BY <3>2 DEF ConnInv, FamilyInv
        <4>2. ~(Len(work) > 1)
          BY <1>1, <3>2, <4>1
        <4>3. work \in Seq(Entries) /\ OneOrMore(Len(work))
          BY <1>1
        <4> QED  BY <4>2, <4>3 DEF OneOrMore
      <3>3. \A p \in used : \A c \in children[p] :
              /\ c \in used /\ parent[c] = p /\ key[p] \notin Untimed
              /\ c \in table' \/ (Len(work) = 1 /\ c = e)
        BY <1>1, <2>1, <3>2 DEF ConnInv, FamilyInv
      <3> QED  BY <1>1, <2>1, <3>1, <3>3 DEF ConnInv, FamilyInv
    <2>7. TimerInv'
      BY <1>1, <2>1 DEF ConnInv, TimerInv
    <2> QED  BY <1>2, <2>2, <2>3, <2>4, <2>5, <2>6, <2>7 DEF ConnInv
  <1> QED  BY <1>1, <1>3, <1>4 DEF ConnInv, TypeOK

LEMMA DetachKeeps ==
  ASSUME ConnInv, Detach
  PROVE  ConnInv'
  <1> DEFINE e == work[1]  p == parent[work[1]]
  <1>1. /\ step = "detach" /\ walker # None /\ step' = "children" /\ e \notin table
        /\ UNCHANGED <<used, table, key, parent, refs, path, held, found, walker, hand, stale, work>>
        /\ work \in Seq(Entries) /\ OneOrMore(Len(work)) /\ 1 \in 1 .. Len(work) /\ Head(work) = e /\ e \in Entries /\ e \in used
        /\ timer \in [Entries -> TimerStates] /\ children \in [Entries -> SUBSET Entries]
        /\ used \subseteq Entries /\ table \subseteq used
    BY WorkFacts DEF Detach, packetVars, ConnInv, WorkInv, TypeOK
  <1>2. p \in table => e \in children[p] /\ key[p] \notin Untimed
    BY <1>1, ConntrackAssumption DEF ConntrackAssumption, ConnInv, WorkInv, FamilyInv
  <1>3. /\ children' \in [Entries -> SUBSET Entries]
        /\ \A q \in Entries : children'[q] = IF q = p /\ p \in table THEN children[q] \ {e} ELSE children[q]
    <2>1. children' = IF p \in table THEN [children EXCEPT ![p] = @ \ {e}] ELSE children
      BY <1>1 DEF Detach
    <2>2. CASE p \in table
      <3>1. p \in Entries /\ children' = [children EXCEPT ![p] = @ \ {e}]
        BY <1>1, <2>1, <2>2
      <3> QED  BY <1>1, <2>2, <3>1
    <2>3. CASE p \notin table
      BY <1>1, <2>1, <2>3
    <2> QED  BY <2>2, <2>3
  <1>4. timer' = timer \/ (p \in table /\ timer' = [timer EXCEPT ![p] = "queued"])
    BY <1>1 DEF Detach, Queue, ConnInv, TimerInv
  <1>5. TypeOK'
    <2>1. timer' \in [Entries -> TimerStates]
      BY <1>1, <1>4
    <2> QED  BY <1>1, <1>3, <2>1 DEF ConnInv, TypeOK
  <1>6. RefsCounted'
    BY <1>1, CountsKept DEF ConnInv
  <1>7. StackInv' /\ FoundInv'
    BY <1>1 DEF ConnInv, StackInv, FoundInv, Top
  <1>8. WorkInv'
    <2>1. \A i \in 1 .. Len(work) - 1 : i + 1 \in 1 .. Len(work)
      BY <1>1
    <2>2. \A i \in 1 .. Len(work) - 1 : work[i] \notin children'[work[i + 1]]
      BY <1>1, <1>3, <2>1 DEF ConnInv, WorkInv
    <2> QED  BY <1>1, <2>2 DEF ConnInv, WorkInv
  <1>9. FamilyInv'
    <2>1. ASSUME NEW q \in used, NEW c \in children'[q]
          PROVE  c \in used /\ parent[c] = q /\ key[q] \notin Untimed /\ c \in table
      <3>1. c \in children[q]
        BY <1>1, <1>3
      <3>2. /\ c \in used /\ parent[c] = q /\ key[q] \notin Untimed
            /\ c \in table \/ (Len(work) = 1 /\ c = e)
        BY <3>1 DEF ConnInv, FamilyInv
      <3>3. ~(Len(work) = 1 /\ c = e)
        <4>1. SUFFICES ASSUME Len(work) = 1, c = e PROVE FALSE
          OBVIOUS
        <4>2. Cleaning = {e} /\ q # e /\ q = p
          BY <3>2, <4>1 DEF Cleaning, ConnInv, FamilyInv
        <4>3. p \in table
          BY <4>2 DEF ConnInv, FamilyInv
        <4> QED  BY <1>1, <1>3, <4>1, <4>2, <4>3
      <3> QED  BY <3>2, <3>3
    <2>2. ASSUME NEW x \in table, parent[x] # None
          PROVE  parent[x] \in used /\ x \in children'[parent[x]]
      <3>1. parent[x] \in used /\ x \in children[parent[x]] /\ x # e
        BY <1>1, <2>2 DEF ConnInv, FamilyInv
      <3> QED  BY <1>1, <1>3, <3>1
    <2> QED  BY <1>1, <2>1, <2>2 DEF ConnInv, FamilyInv, Cleaning
  <1>10. TimerInv'
    BY <1>1, <1>2, <1>4 DEF ConnInv, TimerInv
  <1> QED  BY <1>5, <1>6, <1>7, <1>8, <1>9, <1>10 DEF ConnInv

(* A child that is still in a list is still in the table, so it is not one *)
(* of those that are being cleaned up.                                     *)
LEMMA CleanChildKeeps ==
  ASSUME ConnInv, CleanChild
  PROVE  ConnInv'
  <1> DEFINE q == work[1]
  <1>1. /\ step = "children" /\ walker # None /\ step' = "clean" /\ q \notin table
        /\ UNCHANGED <<used, table, key, parent, refs, timer, path, held, found, walker, hand, stale>>
        /\ work \in Seq(Entries) /\ OneOrMore(Len(work)) /\ Head(work) = q /\ q \in Entries /\ q \in used
        /\ children \in [Entries -> SUBSET Entries]
        /\ used \subseteq Entries /\ table \subseteq used
    BY WorkFacts DEF CleanChild, packetVars, ConnInv, WorkInv, TypeOK
  <1>2. PICK c \in children[q] : /\ children' = [children EXCEPT ![q] = @ \ {c}]
                               /\ work' = <<c>> \o work
    BY <1>1 DEF CleanChild
  <1>3. c \in used /\ c \in Entries /\ c \in table /\ parent[c] = q /\ key[q] \notin Untimed
    BY <1>1 DEF ConnInv, FamilyInv
  <1>4. /\ work' \in Seq(Entries) /\ Len(work') = Len(work) + 1 /\ work'[1] = c
        /\ \A i \in 1 .. Len(work) : work'[i + 1] = work[i]
    <2> DEFINE old == work  new == <<c>> \o old
    <2>1. <<c>> \in Seq(Entries) /\ Len(<<c>>) = 1 /\ <<c>>[1] = c /\ old \in Seq(Entries)
      BY <1>1, <1>3
    <2> HIDE DEF old
    <2>2. /\ new \in Seq(Entries) /\ Len(new) = Len(<<c>>) + Len(old)
          /\ \A i \in 1 .. Len(<<c>>) + Len(old) :
               new[i] = IF i <= Len(<<c>>) THEN <<c>>[i] ELSE old[i - Len(<<c>>)]
      BY <2>1, ConcatProperties, Zenon
    <2>3. work' = new
      BY <1>2 DEF old
    <2> HIDE DEF new
    <2>4. Len(old) \in Nat /\ Len(new) = Len(old) + 1 /\ new[1] = c
      BY <2>1, <2>2
    <2>5. ASSUME NEW i \in 1 .. Len(old) PROVE new[i + 1] = old[i]
      BY <2>1, <2>2, <2>4, <2>5
    <2> QED  BY <2>2, <2>3, <2>4, <2>5 DEF old
  <1>5. /\ children' \in [Entries -> SUBSET Entries]
        /\ \A x \in Entries : children'[x] = IF x = q THEN children[x] \ {c} ELSE children[x]
    BY <1>1, <1>2
  <1>6. TypeOK'
    BY <1>1, <1>4, <1>5 DEF ConnInv, TypeOK
  <1>7. RefsCounted'
    BY <1>1, CountsKept DEF ConnInv
  <1>8. StackInv' /\ FoundInv'
    BY <1>1 DEF ConnInv, StackInv, FoundInv, Top
  \* the entries of the new list: the child, and those of the old one
  <1>9. PICK n \in Nat : n = Len(work) /\ Len(work') = n + 1 /\ n >= 1
    <2>1. PICK n \in Nat : n = Len(work)
      BY <1>1
    <2>2. n = 1 \/ n > 1
      BY <1>1, <2>1 DEF OneOrMore
    <2> QED  BY <1>4, <2>1, <2>2
  <1>10. \A i \in 2 .. n + 1 : i - 1 \in 1 .. n /\ work'[i] = work[i - 1]
    <2>1. ASSUME NEW i \in 2 .. n + 1 PROVE i - 1 \in 1 .. n /\ (i - 1) + 1 = i
      BY <1>9
    <2> QED  BY <1>4, <1>9, <2>1
  <1>11. \A i \in 1 .. n : work[i] \in used /\ work[i] \in Entries /\ work[i] \notin table
    <2>1. \A i \in 1 .. n : i = 1 \/ i \in 2 .. n
      BY <1>9
    <2> QED  BY <1>1, <1>9, <2>1 DEF ConnInv, WorkInv
  <1>12. WorkInv'
    <2>1. ASSUME NEW i \in 1 .. n
          PROVE  parent[work'[i]] = work'[i + 1] /\ work'[i] \notin children'[work'[i + 1]]
      <3>1. CASE i = 1
        <4>1. work'[2] = q /\ work'[1] = c
          BY <1>4, <1>9
        <4> QED  BY <1>1, <1>3, <1>5, <3>1, <4>1
      <3>2. CASE i # 1
        <4>1. i - 1 \in 1 .. n - 1 /\ i \in 2 .. n + 1 /\ i + 1 \in 2 .. n + 1 /\ (i - 1) + 1 = i /\ (i + 1) - 1 = i
          BY <3>2
        <4>2. work'[i] = work[i - 1] /\ work'[i + 1] = work[i]
          BY <1>10, <4>1
        <4>3. parent[work[i - 1]] = work[i] /\ work[i - 1] \notin children[work[i]]
          BY <1>9, <4>1 DEF ConnInv, WorkInv
        <4> QED  BY <1>5, <1>11, <4>2, <4>3
      <3> QED  BY <3>1, <3>2
    <2>2. ASSUME NEW i \in 1 .. n + 1, NEW j \in 1 .. n + 1, work'[i] = work'[j] PROVE i = j
      <3>1. CASE i = 1 /\ j = 1
        BY <3>1
      <3>2. CASE i = 1 /\ j # 1
        <4>1. j \in 2 .. n + 1
          BY <3>2
        <4> QED  BY <1>3, <1>4, <1>10, <1>11, <2>2, <3>2, <4>1
      <3>3. CASE i # 1 /\ j = 1
        <4>1. i \in 2 .. n + 1
          BY <3>3
        <4> QED  BY <1>3, <1>4, <1>10, <1>11, <2>2, <3>3, <4>1
      <3>4. CASE i # 1 /\ j # 1
        <4>1. i \in 2 .. n + 1 /\ j \in 2 .. n + 1
          BY <3>4
        <4>2. i - 1 = j - 1
          BY <1>9, <1>10, <2>2, <4>1 DEF ConnInv, WorkInv
        <4> QED  BY <4>2
      <3> QED  BY <3>1, <3>2, <3>3, <3>4
    <2>3. ASSUME NEW i \in 1 .. n + 1
          PROVE  /\ work'[i] \in used
                 /\ i > 1 => work'[i] \notin table /\ key[work'[i]] \notin Untimed
      <3>1. CASE i = 1
        BY <1>3, <1>4, <3>1
      <3>2. CASE i # 1
        <4>1. i \in 2 .. n + 1 /\ i - 1 \in 1 .. n /\ (i - 1 = 1 \/ i - 1 > 1)
          BY <3>2
        <4>2. i - 1 > 1 => key[work[i - 1]] \notin Untimed
          BY <1>9, <4>1 DEF ConnInv, WorkInv
        <4> QED  BY <1>3, <1>10, <1>11, <4>1, <4>2
      <3> QED  BY <3>1, <3>2
    <2>4. \A i \in 2 .. n + 1 : i \in 1 .. n + 1 /\ i > 1
      OBVIOUS
    <2>5. (n + 1) - 1 = n /\ Len(work') # 1 /\ work' # <<>>
      BY <1>4, <1>9
    <2> QED  BY <1>1, <1>3, <1>4, <1>9, <2>1, <2>2, <2>3, <2>4, <2>5 DEF WorkInv
  <1>13. FamilyInv'
    <2>1. Cleaning \subseteq Cleaning'
      <3>1. ASSUME NEW i \in 1 .. n PROVE i + 1 \in 1 .. Len(work') /\ work'[i + 1] = work[i]
        BY <1>4, <1>9
      <3> QED  BY <1>9, <3>1 DEF Cleaning
    <2>2. ASSUME NEW x \in table, parent[x] # None
          PROVE  parent[x] \in used /\ (x \in children'[parent[x]] \/ x = c)
      <3>1. parent[x] \in used /\ x \in children[parent[x]]
        BY <1>1, <2>2 DEF ConnInv, FamilyInv
      <3> QED  BY <1>1, <1>5, <3>1
    <2>3. Len(work') > 1
      BY <1>9
    <2>4. ASSUME NEW p \in used, NEW d \in children'[p]
          PROVE  d \in used /\ parent[d] = p /\ key[p] \notin Untimed /\ d \in table
      <3>1. d \in children[p]
        BY <1>1, <1>5
      <3> QED  BY <1>1, <3>1 DEF ConnInv, FamilyInv
    <2> QED  BY <1>1, <1>4, <2>1, <2>2, <2>3, <2>4 DEF ConnInv, FamilyInv
  <1>14. TimerInv'
    BY <1>1 DEF ConnInv, TimerInv
  <1> QED  BY <1>6, <1>7, <1>8, <1>12, <1>13, <1>14 DEF ConnInv

LEMMA FreeKeeps ==
  ASSUME ConnInv, Free
  PROVE  ConnInv'
  <1> DEFINE e == work[1]
  <1>1. /\ step = "children" /\ walker # None /\ Return /\ children[e] = {} /\ e \notin table
        /\ used' = used \ {e} /\ timer' = [timer EXCEPT ![e] = "none"]
        /\ UNCHANGED <<table, key, parent, children, refs, path, held, found, hand, stale>>
        /\ work \in Seq(Entries) /\ OneOrMore(Len(work)) /\ e \in Entries /\ e \in used
        /\ timer \in [Entries -> TimerStates] /\ used \subseteq Entries /\ table \subseteq used
    BY WorkFacts DEF Free, packetVars, ConnInv, WorkInv, TypeOK
  <1>2. PICK n \in Nat : n = Len(work) /\ (n = 1 \/ n > 1)
    BY <1>1 DEF OneOrMore
  <1>3. /\ work' \in Seq(Entries) /\ Len(work') = n - 1
        /\ \A i \in 1 .. n - 1 : work'[i] = work[i + 1]
        /\ n = 1 => work' = <<>> /\ step' = "none" /\ walker' = None
        /\ n > 1 => work' # <<>> /\ step' = "children" /\ walker' = walker
    BY <1>1, <1>2, ReturnFacts
  <1>4. \A i \in 1 .. n - 1 : i + 1 \in 1 .. n /\ i + 1 \in 2 .. n /\ i + 1 > 1
    BY <1>2
  <1>5. TypeOK'
    BY <1>1, <1>2, <1>3 DEF ConnInv, TypeOK
  <1>6. RefsCounted'
    BY <1>1, CountsKept DEF ConnInv
  <1>7. StackInv' /\ FoundInv'
    BY <1>1 DEF ConnInv, StackInv, FoundInv, Top
  <1>8. ASSUME NEW i \in 1 .. n - 1
        PROVE  /\ work'[i] \in used /\ work'[i] # e /\ work'[i] \notin table
               /\ key[work'[i]] \notin Untimed
    <2>1. /\ work[i + 1] \in used /\ work[i + 1] \notin table /\ key[work[i + 1]] \notin Untimed
          /\ work[i + 1] # work[1]
      <3>1. 1 \in 1 .. n /\ i + 1 # 1
        BY <1>2
      <3> QED  BY <1>2, <1>4, <3>1 DEF ConnInv, WorkInv
    <2> QED  BY <1>3, <2>1
  <1>9. WorkInv'
    <2>1. CASE n = 1
      BY <1>3, <2>1 DEF WorkInv
    <2>2. CASE n > 1
      <3>1. ASSUME NEW i \in 1 .. (n - 1) - 1
            PROVE  parent[work'[i]] = work'[i + 1] /\ work'[i] \notin children[work'[i + 1]]
        <4>1. i \in 1 .. n - 1 /\ i + 1 \in 1 .. n - 1
          BY <1>2
        <4>2. work'[i] = work[i + 1] /\ work'[i + 1] = work[(i + 1) + 1]
          BY <1>3, <4>1
        <4> QED  BY <1>2, <4>1, <4>2 DEF ConnInv, WorkInv
      <3>2. ASSUME NEW i \in 1 .. n - 1, NEW j \in 1 .. n - 1, work'[i] = work'[j] PROVE i = j
        <4>1. work[i + 1] = work[j + 1]
          BY <1>3, <3>2
        <4>2. i + 1 = j + 1
          BY <1>2, <1>4, <4>1 DEF ConnInv, WorkInv
        <4> QED  BY <4>2
      <3>3. \A i \in 2 .. n - 1 : i \in 1 .. n - 1
        OBVIOUS
      <3>4. 1 \in 1 .. n - 1
        BY <1>2, <2>2
      <3>5. Len(work') = n - 1 /\ work' # <<>> /\ step' = "children" /\ walker' # None
        BY <1>1, <1>3, <2>2
      <3> QED  BY <1>1, <1>8, <3>1, <3>2, <3>3, <3>4, <3>5 DEF WorkInv
    <2> QED  BY <1>2, <2>1, <2>2
  <1>10. FamilyInv'
    <2>1. (used \subseteq table \cup Cleaning)'
      <3>1. ASSUME NEW x \in used, x # e, x \notin table PROVE x \in Cleaning'
        <4>1. PICK i \in 1 .. n : work[i] = x
          BY <1>2, <3>1 DEF ConnInv, FamilyInv, Cleaning
        <4>2. i - 1 \in 1 .. n - 1 /\ (i - 1) + 1 = i
          BY <1>2, <3>1, <4>1
        <4>3. work'[i - 1] = x
          BY <1>3, <4>1, <4>2
        <4> QED  BY <1>3, <4>2, <4>3 DEF Cleaning
      <3> QED  BY <1>1, <3>1
    <2>2. ASSUME NEW x \in table, parent[x] # None
          PROVE  parent[x] \in used /\ parent[x] # e /\ x \in children[parent[x]]
      <3>1. parent[x] \in used /\ x \in children[parent[x]]
        BY <1>1, <2>2 DEF ConnInv, FamilyInv
      <3> QED  BY <1>1, <3>1
    <2>3. ASSUME NEW p \in used, NEW d \in children[p]
          PROVE  d \in used /\ d # e /\ parent[d] = p /\ key[p] \notin Untimed /\ d \in table
      BY <1>1 DEF ConnInv, FamilyInv
    <2> QED  BY <1>1, <2>1, <2>2, <2>3 DEF ConnInv, FamilyInv
  <1>11. TimerInv'
    <2>1. step' # "call"
      BY <1>2, <1>3
    <2> QED  BY <1>1, <2>1 DEF ConnInv, TimerInv
  <1> QED  BY <1>5, <1>6, <1>7, <1>9, <1>10, <1>11 DEF ConnInv

LEMMA EmptyKeeps ==
  ASSUME ConnInv, Empty
  PROVE  ConnInv'
  <1>1. /\ walker = None /\ step = "none" /\ work = <<>>
        /\ used' = used \ table /\ table' = {}
        /\ children' = [e \in Entries |-> {}] /\ timer' = [e \in Entries |-> "none"]
        /\ UNCHANGED <<key, parent, refs, path, held, found, walker, step, hand, stale, work>>
        /\ \A t \in Threads : path[t] = <<>> /\ held[t] = <<>>
    BY DEF Empty, Idle, packetVars, walkVars, ConnInv, WorkInv
  <1>2. Cleaning = {} /\ used' = {}
    <2>1. Cleaning = {}
      BY <1>1 DEF Cleaning
    <2> QED  BY <1>1, <2>1 DEF ConnInv, FamilyInv
  <1>3. \A t \in Threads : found[t] = None
    BY <1>1 DEF ConnInv, FoundInv
  <1>4. TypeOK'
    BY <1>1, <1>2 DEF ConnInv, TypeOK
  <1>5. RefsCounted'
    BY <1>1, CountsKept DEF ConnInv
  <1>6. StackInv' /\ FoundInv' /\ WorkInv'
    BY <1>1, <1>3 DEF ConnInv, StackInv, FoundInv, WorkInv
  <1>7. FamilyInv' /\ TimerInv'
    BY <1>1, <1>2 DEF ConnInv, FamilyInv, TimerInv
  <1> QED  BY <1>4, <1>5, <1>6, <1>7 DEF ConnInv

LEMMA InitKeeps == Init => ConnInv
  <1> SUFFICES ASSUME Init PROVE ConnInv
    OBVIOUS
  <1>1. AnyKey \in Keys
    BY ConntrackAssumption DEF ConntrackAssumption, AnyKey
  <1>2. <<>> \in Seq(Keys) /\ <<>> \in Seq(Entries)
    OBVIOUS
  <1>3. TypeOK
    BY <1>1, <1>2 DEF Init, TypeOK
  <1>4. RefsCounted
    <2>1. \A e \in Entries : Slots(e) = {}
      BY DEF Init, Slots
    <2> QED  BY <2>1, FS_EmptySet DEF Init, RefsCounted
  <1>5. StackInv /\ FoundInv /\ WorkInv
    BY DEF Init, StackInv, FoundInv, WorkInv
  <1>6. FamilyInv /\ TimerInv
    BY DEF Init, FamilyInv, TimerInv
  <1> QED  BY <1>3, <1>4, <1>5, <1>6 DEF ConnInv

LEMMA NextKeeps ==
  ASSUME Layered, ConnInv, [Next]_vars
  PROVE  ConnInv'
  <1>1. CASE UNCHANGED vars
    <2>1. UNCHANGED <<used, table, key, parent, children, refs, timer, path, held, found,
                      walker, step, hand, stale, work>>
      BY <1>1 DEF vars, entryVars, packetVars, walkVars
    <2>2. TypeOK' /\ StackInv' /\ FoundInv'
      BY <2>1 DEF ConnInv, TypeOK, StackInv, FoundInv, Top
    <2> QED  BY <2>1, <2>2, CountsKept, EntriesKept, TimersKept DEF ConnInv
  <1>2. CASE \E t \in Threads : Packet(t)
    BY <1>2, ArriveKeeps, GetKeeps, LookUpKeeps, ReferenceKeeps, GiveUpKeeps, ReleaseKeeps DEF Packet
  <1>3. CASE \E t \in Threads : \E e \in Entries : TakeTimer(t, e)
    BY <1>3, TakeTimerKeeps
  <1>4. CASE Walk
    BY <1>4, CallKeeps, CleanKeeps, DetachKeeps, CleanChildKeeps, FreeKeeps DEF Walk
  <1>5. CASE Empty
    BY <1>5, EmptyKeeps
  <1> QED  BY <1>1, <1>2, <1>3, <1>4, <1>5 DEF Next

LEMMA ConnInvariant ==
  ASSUME Layered
  PROVE  Spec => []ConnInv
  BY InitKeeps, NextKeeps, Layered, PTL DEF Spec

-----------------------------------------------------------------------------
(***************************************************************************)
(* Connections end.                                                        *)
(***************************************************************************)
LEMMA HoldComing ==
  ASSUME ConnInv, ComingInv, NEW t \in Threads, NEW e \in Entries, Hold(t, e), path[t] # <<>>,
         key'[e] = path[t][1], \A x \in table : key'[x] = key[x]
  PROVE  ComingInv'
  <1>1. /\ held'[t][1] = e /\ Len(held[t]) \in Nat /\ Len(held'[t]) = Len(held[t]) + 1
        /\ \A u \in Threads \ {t} : held'[u] = held[u]
        /\ held' \in [Threads -> Seq(Entries)]
    BY HeldPushed DEF ConnInv
  <1>2. /\ Len(path[t]) \in Nat /\ Len(path'[t]) = Len(path[t]) - 1 /\ path'[t] \in Seq(Keys)
        /\ \A n \in 1 .. Len(path[t]) - 1 : path'[t][n] = path[t][n + 1]
        /\ \A u \in Threads \ {t} : path'[u] = path[u]
    BY PathPopped DEF ConnInv
  <1>3. ASSUME NEW u \in Threads \ {t}
        PROVE  /\ \A n \in 1 .. Len(path'[u]) - 1 : path'[u][n] \in Cancels => path'[u][n + 1] \notin Untimed
               /\ path'[u] # <<>> /\ held'[u] = <<>> => path'[u][1] \notin Untimed
               /\ path'[u] # <<>> /\ held'[u] # <<>> /\ key'[held'[u][1]] \in Cancels => path'[u][1] \notin Untimed
    <2>1. held[u] # <<>> => 1 \in 1 .. Len(held[u])
      BY DEF ConnInv, TypeOK
    <2>2. held[u] # <<>> => held[u][1] \in table
      BY <2>1 DEF ConnInv, StackInv
    <2> QED  BY <1>1, <1>2, <2>2, SMTT(30) DEF ComingInv
  <1>4. \A n \in 1 .. Len(path[t]) - 1 : path[t][n] \in Cancels => path[t][n + 1] \notin Untimed
    BY DEF ComingInv
  <1>5. ASSUME NEW n \in 1 .. Len(path'[t]) - 1, path'[t][n] \in Cancels PROVE path'[t][n + 1] \notin Untimed
    <2>1. n \in 1 .. Len(path[t]) - 1 /\ n + 1 \in 1 .. Len(path[t]) - 1
      BY <1>2
    <2> QED  BY <1>2, <1>4, <1>5, <2>1
  <1>6. path'[t] # <<>> => 1 \in 1 .. Len(path[t]) - 1
    BY <1>2
  <1>7. path'[t] # <<>> /\ key'[held'[t][1]] \in Cancels => path'[t][1] \notin Untimed
    BY <1>1, <1>2, <1>4, <1>6
  <1>8. held'[t] # <<>>
    BY <1>1
  <1> QED  BY <1>3, <1>5, <1>7, <1>8 DEF ComingInv

LEMMA InsertEnds ==
  ASSUME ConnInv, EndInv, NEW t \in Threads, NEW e \in Entries, Insert(e, path[t][1], Top(t)),
         path[t] # <<>>, path[t][1] \in Keys, UNCHANGED <<step, hand, work>>,
         timer' = [timer EXCEPT ![e] = IF path[t][1] \in Untimed THEN "none" ELSE "queued"]
  PROVE  TimedInv' /\ KinInv'
  <1>0. PICK k \in Keys, p \in Entries \cup {None} : k = path[t][1] /\ p = Top(t)
    BY TopFacts DEF ConnInv
  <1>1. /\ p \in Entries \cup {None} /\ (p # None => held[t] # <<>> /\ p = held[t][1] /\ p \in table)
        /\ None \notin Entries /\ timer \in [Entries -> TimerStates]
        /\ table \subseteq used /\ used \subseteq Entries
    BY <1>0, TopFacts, ConntrackAssumption DEF ConntrackAssumption, ConnInv, TypeOK
  <1>2. /\ e \notin used /\ e \notin table /\ e # p
        /\ used' = used \cup {e} /\ table' = table \cup {e}
        /\ key'[e] = k /\ parent'[e] = p /\ children'[e] = {}
        /\ \A x \in Entries \ {e} : key'[x] = key[x] /\ parent'[x] = parent[x]
        /\ \A x \in Entries \ {e} : children'[x] = IF x = p THEN children[x] \cup {e} ELSE children[x]
    <2>1. Insert(e, k, p) /\ (p # None => p \in table)
      BY <1>0, <1>1
    <2>2. \A x \in Entries \ {e} : children'[x] = IF x = p THEN children[x] \cup {e} ELSE children[x]
      BY <2>1 DEF Insert
    <2>3. /\ e \notin used /\ e \notin table /\ e # p
          /\ used' = used \cup {e} /\ table' = table \cup {e}
          /\ key'[e] = k /\ parent'[e] = p /\ children'[e] = {}
          /\ \A x \in Entries \ {e} : key'[x] = key[x] /\ parent'[x] = parent[x]
      BY <2>1, InsertFacts
    <2> QED  BY <2>2, <2>3
  <1>3. TimedInv'
    <2>1. ASSUME NEW x \in table, key'[x] \notin Untimed
          PROVE  \/ timer'[x] = "queued" \/ (step = "call" /\ hand = x) \/ x \in Cleaning
                 \/ key'[x] \in Cancels /\ children'[x] # {}
      <3>1. x # e /\ x \in Entries /\ key'[x] = key[x] /\ timer'[x] = timer[x]
        BY <1>1, <1>2
      <3> QED  BY <1>2, <2>1, <3>1 DEF EndInv, TimedInv
    <2>2. k \notin Untimed => timer'[e] = "queued"
      BY <1>0, <1>1
    <2> QED  BY <1>2, <2>1, <2>2 DEF TimedInv, Cleaning
  <1>4. KinInv'
    <2>1. k \in Untimed => p # None
      <3>1. p = None => held[t] = <<>>
        <4>1. held[t] # <<>> => held[t][1] \in Entries
          BY DEF ConnInv, TypeOK
        <4> QED  BY <1>0, <1>1, <4>1 DEF Top
      <3> QED  BY <1>0, <3>1 DEF EndInv, ComingInv
    <2>2. p # None /\ key[p] \in Cancels => k \notin Untimed
      BY <1>0, <1>1 DEF EndInv, ComingInv
    <2>3. ASSUME NEW q \in used, key[q] \in Cancels, NEW c \in children'[q] PROVE key'[c] \notin Untimed
      <3>1. CASE c \in children[q]
        <4>1. c \in used /\ key[c] \notin Untimed
          BY <2>3, <3>1 DEF EndInv, KinInv, ConnInv, FamilyInv
        <4> QED  BY <1>1, <1>2, <4>1
      <3>2. CASE c \notin children[q]
        <4>1. q \in Entries \ {e}
          BY <1>1, <1>2
        <4>2. q = p /\ c = e
          BY <1>2, <2>3, <3>2, <4>1, ZenonT(30)
        <4> QED  BY <1>1, <1>2, <2>2, <2>3, <4>2
      <3> QED  BY <3>1, <3>2
    <2>4. \A x \in table : key'[x] \in Untimed => parent'[x] # None
      BY <1>1, <1>2 DEF EndInv, KinInv
    <2> QED  BY <1>1, <1>2, <2>1, <2>3, <2>4 DEF KinInv
  <1> QED  BY <1>3, <1>4

(* A refreshed entry has its timer queued, unless it has children.         *)
LEMMA RefreshEnds ==
  ASSUME ConnInv, TimedInv, NEW e \in table, Refresh(e, key[e]),
         UNCHANGED <<table, key, children, step, hand, work>>
  PROVE  TimedInv'
  <1>1. timer \in [Entries -> TimerStates] /\ e \in Entries /\ timer[e] # "gone" /\ table \subseteq Entries
    BY DEF ConnInv, TypeOK, TimerInv
  <1>2. \/ timer' = timer
        \/ timer' = [timer EXCEPT ![e] = "queued"]
        \/ key[e] \in Cancels /\ children[e] # {} /\ timer' = [timer EXCEPT ![e] = "none"]
    BY <1>1 DEF Refresh, Cancel, Queue
  <1>3. CASE timer' = timer
    BY <1>3 DEF TimedInv, Cleaning
  <1>4. CASE timer' = [timer EXCEPT ![e] = "queued"]
    BY <1>1, <1>4 DEF TimedInv, Cleaning
  <1>5. CASE key[e] \in Cancels /\ children[e] # {} /\ timer' = [timer EXCEPT ![e] = "none"]
    BY <1>1, <1>5 DEF TimedInv, Cleaning
  <1> QED  BY <1>2, <1>3, <1>4, <1>5

LEMMA KinKept ==
  ASSUME KinInv, UNCHANGED <<key, parent>>, table' \subseteq table, used' \subseteq used,
         \A p \in used' : children'[p] \subseteq children[p]
  PROVE  KinInv'
  BY DEF KinInv

LEMMA ComingKept ==
  ASSUME ComingInv, UNCHANGED <<path, held, key>>
  PROVE  ComingInv'
  BY DEF ComingInv

LEMMA PacketEnds ==
  ASSUME Layered, Ending, ConnInv, EndInv, NEW t \in Threads, Packet(t)
  PROVE  EndInv'
  <1>1. ASSUME NEW p \in Paths, Arrive(t, p) PROVE EndInv'
    <2>1. /\ path \in [Threads -> Seq(Keys)] /\ path' = [path EXCEPT ![t] = p] /\ held[t] = <<>>
          /\ UNCHANGED <<used, table, key, parent, children, timer, held, step, hand, work>>
      BY <1>1 DEF Arrive, Idle, entryVars, walkVars, ConnInv, TypeOK
    <2>2. ComingInv'
      BY <2>1 DEF EndInv, ComingInv, Ending
    <2> QED  BY <2>1, <2>2 DEF EndInv, TimedInv, KinInv, Cleaning
  <1>2. ASSUME GiveUp(t) PROVE EndInv'
    <2>1. /\ path \in [Threads -> Seq(Keys)] /\ path' = [path EXCEPT ![t] = <<>>] /\ Len(<<>>) = 0
          /\ UNCHANGED <<used, table, key, parent, children, timer, held, step, hand, work>>
      BY <1>2 DEF GiveUp, entryVars, walkVars, ConnInv, TypeOK
    <2>2. path'[t] = <<>> /\ \A u \in Threads \ {t} : path'[u] = path[u]
      BY <2>1
    <2>3. ~ \E n \in 1 .. Len(path'[t]) - 1 : TRUE
      BY <2>1, <2>2
    <2>4. ComingInv'
      BY <2>1, <2>2, <2>3 DEF EndInv, ComingInv
    <2> QED  BY <2>1, <2>4 DEF EndInv, TimedInv, KinInv, Cleaning
  <1>3. ASSUME Release(t) PROVE EndInv'
    <2>1. /\ path[t] = <<>> /\ Len(<<>>) = 0
          /\ UNCHANGED <<used, table, key, parent, children, timer, path, step, hand, work>>
          /\ \A u \in Threads \ {t} : held'[u] = held[u]
      BY <1>3, HeldPopped DEF Release, walkVars, ConnInv
    <2>2. ComingInv'
      BY <2>1 DEF EndInv, ComingInv
    <2> QED  BY <2>1, <2>2 DEF EndInv, TimedInv, KinInv, Cleaning
  <1>4. ASSUME Get(t) PROVE EndInv'
    <2>1. /\ path[t] # <<>> /\ Head(path[t]) = path[t][1] /\ path[t][1] \in Keys
          /\ UNCHANGED <<step, hand, work>> /\ table \subseteq Entries
      BY <1>4 DEF Get, ConnInv, TypeOK
    <2>2. ASSUME NEW e \in Find(path[t][1], Top(t)), Hold(t, e), Refresh(e, path[t][1]),
                 UNCHANGED <<used, table, key, parent, children>>
          PROVE  EndInv'
      <3>1. e \in table /\ e \in Entries /\ key[e] = path[t][1]
        BY <2>1, <2>2 DEF Find
      <3>2. TimedInv'
        BY <2>1, <2>2, <3>1, RefreshEnds DEF EndInv
      <3>3. KinInv'
        BY <2>2, KinKept DEF EndInv
      <3>4. ComingInv'
        BY <2>1, <2>2, <3>1, HoldComing DEF EndInv
      <3> QED  BY <3>2, <3>3, <3>4 DEF EndInv
    <2>3. ASSUME NEW e \in Entries, Insert(e, path[t][1], Top(t)), Hold(t, e),
                 timer' = [timer EXCEPT ![e] = IF path[t][1] \in Untimed THEN "none" ELSE "queued"]
          PROVE  EndInv'
      <3>1. TimedInv' /\ KinInv'
        BY <2>1, <2>3, InsertEnds
      <3>2. key'[e] = path[t][1] /\ \A x \in table : key'[x] = key[x]
        BY <2>1, <2>3 DEF Insert, ConnInv, TypeOK
      <3>3. ComingInv'
        BY <2>1, <2>3, <3>2, HoldComing DEF EndInv
      <3> QED  BY <3>1, <3>3 DEF EndInv
    <2> QED  BY <1>4, <2>1, <2>2, <2>3 DEF Get
  <1>5. ASSUME LookUp(t) PROVE EndInv'
    <2>1. /\ path[t] # <<>> /\ Head(path[t]) = path[t][1] /\ path[t][1] \in Keys
          /\ path[t][1] \in Untimed
          /\ UNCHANGED <<refs, held, path, step, hand, work>>
      BY <1>5 DEF LookUp, walkVars, ConnInv, TypeOK, Layered
    <2>2. CASE UNCHANGED <<used, table, key, parent, children, timer>>
      BY <2>1, <2>2 DEF EndInv, TimedInv, KinInv, ComingInv, Cleaning
    <2>3. ASSUME NEW e \in Entries, Insert(e, path[t][1], Top(t)), timer' = [timer EXCEPT ![e] = "none"]
          PROVE  EndInv'
      <3>1. TimedInv' /\ KinInv'
        BY <2>1, <2>3, InsertEnds
      <3>2. ASSUME NEW u \in Threads, held[u] # <<>> PROVE key'[held[u][1]] = key[held[u][1]]
        <4>1. 1 \in 1 .. Len(held[u]) /\ table \subseteq used /\ used \subseteq Entries
          BY <3>2 DEF ConnInv, TypeOK
        <4>2. held[u][1] \in used /\ held[u][1] \in Entries
          BY <4>1 DEF ConnInv, StackInv
        <4> QED  BY <2>3, <4>2 DEF Insert, ConnInv, TypeOK
      <3>3. ComingInv'
        BY <2>1, <3>2 DEF EndInv, ComingInv
      <3> QED  BY <3>1, <3>3 DEF EndInv
    <2> QED  BY <1>5, <2>1, <2>2, <2>3 DEF LookUp
  <1>6. ASSUME Reference(t) PROVE EndInv'
    <2>1. PICK e \in Entries : e = found[t]
      BY <1>6 DEF Reference, ConnInv, TypeOK
    <2>2. /\ e \in table /\ path[t] # <<>> /\ key[e] = path[t][1]
      BY <1>6, <2>1 DEF Reference, ConnInv, FoundInv
    <2>3. /\ Hold(t, e) /\ Refresh(e, key[e])
          /\ UNCHANGED <<used, table, key, parent, children, step, hand, work>>
      BY <1>6, <2>1, <2>2 DEF Reference, ConnInv, TypeOK
    <2>4. TimedInv'
      BY <2>2, <2>3, RefreshEnds DEF EndInv
    <2>5. KinInv'
      BY <2>3, KinKept DEF EndInv
    <2>6. ComingInv'
      BY <2>2, <2>3, HoldComing DEF EndInv
    <2> QED  BY <2>4, <2>5, <2>6 DEF EndInv
  <1> QED  BY <1>1, <1>2, <1>3, <1>4, <1>5, <1>6 DEF Packet

LEMMA WalkEnds ==
  ASSUME ConnInv, ConnInv', EndInv, Walk \/ Empty \/ \E t \in Threads, e \in Entries : TakeTimer(t, e)
  PROVE  EndInv'
  <1>1. ASSUME NEW t \in Threads, NEW e \in Entries, TakeTimer(t, e) PROVE EndInv'
    <2>1. /\ step = "none" /\ work = <<>> /\ timer \in [Entries -> TimerStates] /\ table \subseteq Entries
          /\ timer' = [timer EXCEPT ![e] = "off"] /\ step' = "call" /\ hand' = e
          /\ UNCHANGED <<used, table, key, parent, children, path, held, work>>
      BY <1>1 DEF TakeTimer, entryVars, packetVars, ConnInv, TypeOK, WorkInv
    <2>2. TimedInv'
      BY <2>1 DEF EndInv, TimedInv, Cleaning
    <2> QED  BY <2>1, <2>2, KinKept, ComingKept DEF EndInv
  <1>2. ASSUME Call PROVE EndInv'
    <2>1. /\ step = "call" /\ work = <<>> /\ step' = "clean" /\ work' = <<hand>>
          /\ UNCHANGED <<used, table, key, parent, children, timer, path, held>>
      BY <1>2 DEF Call, entryVars, packetVars, ConnInv, WorkInv
    <2>2. Cleaning = {} /\ hand \in Cleaning'
      <3>1. Len(work') = 1 /\ work'[1] = hand /\ Len(work) = 0
        BY <2>1
      <3> QED  BY <3>1 DEF Cleaning
    <2>3. TimedInv'
      BY <2>1, <2>2 DEF EndInv, TimedInv
    <2> QED  BY <2>1, <2>3, KinKept, ComingKept DEF EndInv
  <1>3. ASSUME Clean PROVE EndInv'
    <2> DEFINE e == work[1]
    <2>1. /\ step = "clean" /\ Head(work) = e /\ e \in table /\ e \in Entries /\ work \in Seq(Entries)
          /\ OneOrMore(Len(work)) /\ timer \in [Entries -> TimerStates] /\ table \subseteq Entries
          /\ UNCHANGED <<used, key, parent, children, path, held>>
      BY <1>3, WorkFacts DEF Clean, packetVars, ConnInv, TypeOK, WorkInv
    <2>2. TimedInv'
      <3>1. CASE refs[e] > 0
        <4>1. Return /\ table' = table /\ timer' = [timer EXCEPT ![e] = "queued"] /\ Len(work) = 1
          BY <1>3, <2>1, <3>1, UsedIsFirst DEF Clean, Queue, ConnInv, TypeOK, TimerInv
        <4>2. Cleaning = {e}
          BY <4>1 DEF Cleaning
        <4> QED  BY <2>1, <4>1, <4>2 DEF EndInv, TimedInv
      <3>2. CASE refs[e] = 0
        <4>1. /\ table' = table \ {e} /\ work' = work
              /\ timer' = [timer EXCEPT ![e] = IF @ = "none" THEN "none" ELSE "gone"]
          BY <1>3, <2>1, <3>2 DEF Clean
        <4> QED  BY <2>1, <4>1 DEF EndInv, TimedInv, Cleaning
      <3> QED  BY <2>1, <3>1, <3>2 DEF ConnInv, TypeOK
    <2>3. table' \subseteq table
      BY <1>3, <2>1 DEF Clean
    <2> QED  BY <2>1, <2>2, <2>3, KinKept, ComingKept DEF EndInv
  <1>4. ASSUME Detach PROVE EndInv'
    <2> DEFINE e == work[1]  p == parent[work[1]]
    <2>1. /\ step = "detach" /\ step' = "children" /\ Head(work) = e /\ e \in Entries
          /\ timer \in [Entries -> TimerStates] /\ children \in [Entries -> SUBSET Entries]
          /\ table \subseteq Entries /\ used \subseteq Entries
          /\ UNCHANGED <<used, table, key, parent, path, held, work>>
      BY <1>4, WorkFacts DEF Detach, packetVars, ConnInv, TypeOK
    <2>2. CASE p \notin table
      <3>1. children' = children /\ timer' = timer
        BY <1>4, <2>1, <2>2 DEF Detach
      <3>2. TimedInv'
        BY <2>1, <3>1 DEF EndInv, TimedInv, Cleaning
      <3> QED  BY <2>1, <3>1, <3>2, KinKept, ComingKept DEF EndInv
    <2>3. CASE p \in table
      <3>1. /\ p \in Entries /\ children' = [children EXCEPT ![p] = @ \ {e}]
            /\ IF children'[p] = {} THEN timer' = [timer EXCEPT ![p] = "queued"] ELSE timer' = timer
        BY <1>4, <2>1, <2>3 DEF Detach, Queue, ConnInv, TimerInv
      <3>2. TimedInv'
        <4>1. ASSUME NEW x \in table, key[x] \notin Untimed
              PROVE  \/ timer'[x] = "queued" \/ x \in Cleaning
                     \/ key[x] \in Cancels /\ children'[x] # {}
          <5>1. \/ timer[x] = "queued" \/ x \in Cleaning
                \/ key[x] \in Cancels /\ children[x] # {}
            BY <2>1, <4>1 DEF EndInv, TimedInv
          <5> QED  BY <2>1, <3>1, <5>1
        <4> QED  BY <2>1, <4>1 DEF TimedInv, Cleaning
      <3>3. KinInv'
        <4>1. \A q \in used' : children'[q] \subseteq children[q]
          BY <2>1, <3>1
        <4> QED  BY <2>1, <4>1, KinKept DEF EndInv
      <3> QED  BY <2>1, <3>2, <3>3, ComingKept DEF EndInv
    <2> QED  BY <2>2, <2>3
  <1>5. ASSUME CleanChild PROVE EndInv'
    <2> DEFINE q == work[1]
    <2>1. /\ step = "children" /\ step' = "clean" /\ q \notin table /\ q \in Entries /\ Head(work) = q
          /\ children \in [Entries -> SUBSET Entries] /\ used \subseteq Entries /\ table \subseteq Entries
          /\ UNCHANGED <<used, table, key, parent, timer, path, held>>
      BY <1>5, WorkFacts DEF CleanChild, packetVars, ConnInv, TypeOK, WorkInv
    <2>2. PICK c \in children[q] : children' = [children EXCEPT ![q] = @ \ {c}] /\ work' = <<c>> \o work
      BY <1>5, <2>1 DEF CleanChild
    <2>3. /\ \A x \in table : children'[x] = children[x]
          /\ \A x \in used : children'[x] \subseteq children[x]
      BY <2>1, <2>2
    <2>4. ASSUME NEW x \in table, x \in Cleaning PROVE x \in Cleaning'
      <3>1. PICK i \in 1 .. Len(work) : work[i] = x
        BY <2>4 DEF Cleaning
      <3>2. i = 1 \/ i \in 2 .. Len(work)
        OBVIOUS
      <3> QED  BY <2>1, <3>1, <3>2 DEF ConnInv, WorkInv
    <2>5. TimedInv'
      BY <2>1, <2>3, <2>4 DEF EndInv, TimedInv
    <2> QED  BY <2>1, <2>3, <2>5, KinKept, ComingKept DEF EndInv
  <1>6. ASSUME Free PROVE EndInv'
    <2> DEFINE e == work[1]
    <2>1. /\ step = "children" /\ Head(work) = e /\ e \in Entries /\ e \notin table
          /\ timer \in [Entries -> TimerStates] /\ table \subseteq Entries
          /\ used' \subseteq used /\ timer' = [timer EXCEPT ![e] = "none"]
          /\ UNCHANGED <<table, key, parent, children, path, held>>
      BY <1>6, WorkFacts DEF Free, packetVars, ConnInv, TypeOK, WorkInv
    <2>2. ASSUME NEW x \in table PROVE x \notin Cleaning
      <3>1. ASSUME NEW i \in 1 .. Len(work), work[i] = x PROVE FALSE
        <4>1. i = 1 \/ i \in 2 .. Len(work)
          OBVIOUS
        <4> QED  BY <2>1, <3>1, <4>1 DEF ConnInv, WorkInv
      <3> QED  BY <3>1 DEF Cleaning
    <2>3. TimedInv'
      BY <2>1, <2>2 DEF EndInv, TimedInv
    <2> QED  BY <2>1, <2>3, KinKept, ComingKept DEF EndInv
  <1>7. ASSUME Empty PROVE EndInv'
    <2>1. /\ table' = {} /\ used' \subseteq used /\ used \subseteq Entries
          /\ children' = [e \in Entries |-> {}]
          /\ UNCHANGED <<key, parent, path, held>>
      BY <1>7 DEF Empty, packetVars, ConnInv, TypeOK
    <2>2. TimedInv'
      BY <2>1 DEF TimedInv
    <2> QED  BY <2>1, <2>2, KinKept, ComingKept DEF EndInv
  <1> QED  BY <1>1, <1>2, <1>3, <1>4, <1>5, <1>6, <1>7 DEF Walk

LEMMA NextEnds ==
  ASSUME Layered, Ending, ConnInv, EndInv, [Next]_vars
  PROVE  EndInv'
  <1>1. CASE UNCHANGED vars
    BY <1>1 DEF vars, entryVars, packetVars, walkVars, EndInv, TimedInv, KinInv, ComingInv, Cleaning
  <1>2. CASE Next
    BY <1>2, PacketEnds, WalkEnds, NextKeeps DEF Next
  <1> QED  BY <1>1, <1>2

LEMMA EndInvariant ==
  ASSUME Layered, Ending
  PROVE  Spec => []EndInv
  <1>1. Init => EndInv
    BY DEF Init, EndInv, TimedInv, KinInv, ComingInv
  <1>2. ConnInv /\ EndInv /\ [Next]_vars => EndInv'
    BY NextEnds
  <1> QED  BY <1>1, <1>2, ConnInvariant, PTL DEF Spec

-----------------------------------------------------------------------------
(***************************************************************************)
(* What is proved of connection tracking.                                  *)
(***************************************************************************)

(* The fields keep their types; in particular no reference is given back   *)
(* that was not taken.                                                     *)
THEOREM ConnTypes ==
  ASSUME Layered
  PROVE  Spec => []TypeOK
  <1>1. ConnInv => TypeOK
    BY DEF ConnInv
  <1> QED  BY <1>1, ConnInvariant, PTL

(* refcount is the number of packets under way that hold the entry, each   *)
(* as often as it does.                                                    *)
THEOREM RefsExact ==
  ASSUME Layered
  PROVE  Spec => []RefsCounted
  <1>1. ConnInv => RefsCounted
    BY DEF ConnInv
  <1> QED  BY <1>1, ConnInvariant, PTL

(* What a packet has in its stack stays in its table, whatever timers      *)
(* expire meanwhile, as long as the protocols that look up without         *)
(* referencing leave the timers alone.                                     *)
THEOREM HeldStays ==
  ASSUME Layered
  PROVE  Spec => []HeldInTable
  <1>1. ConnInv => HeldInTable
    BY DEF ConnInv, StackInv, HeldInTable, HeldBy
  <1> QED  BY <1>1, ConnInvariant, PTL

(* No entry is lost, doubled, or reached through a list after it was       *)
(* freed, between any two steps of any cleanup.                            *)
THEOREM ConnNothingLost ==
  ASSUME Layered
  PROVE  Spec => []NothingLost
  <1>1. ConnInv => NothingLost
    <2> SUFFICES ASSUME ConnInv PROVE NothingLost
      OBVIOUS
    <2>1. ASSUME NEW e \in table \ Cleaning, parent[e] # None PROVE e \in children[parent[e]]
      <3>1. ~(step = "clean" /\ Len(work) > 1 /\ e = work[1])
        <4>1. step = "clean" => 1 \in 1 .. Len(work)
          BY WorkFacts
        <4> QED  BY <4>1 DEF Cleaning
      <3> QED  BY <2>1, <3>1 DEF ConnInv, FamilyInv
    <2> QED  BY <2>1 DEF ConnInv, FamilyInv, NothingLost
  <1> QED  BY <1>1, ConnInvariant, PTL

(* No connection stays for good: whatever is in a table and unused has a   *)
(* timer that will clean it up, or a child or parent that has.             *)
THEOREM ConnectionsEnd ==
  ASSUME Layered, Ending
  PROVE  Spec => []WillEnd
  <1>1. ConnInv /\ EndInv => WillEnd
    <2> SUFFICES ASSUME ConnInv, EndInv, NEW e \in table
                 PROVE  \/ timer[e] = "queued" \/ (step = "call" /\ hand = e) \/ e \in Cleaning
                        \/ \E c \in children[e] : key[c] \notin Untimed
                        \/ key[e] \in Untimed /\ parent[e] \in table \cup Cleaning
      BY DEF WillEnd
    <2>1. CASE key[e] \in Untimed
      BY <2>1 DEF ConnInv, FamilyInv, EndInv, KinInv
    <2>2. CASE key[e] \notin Untimed
      <3>1. e \in used
        BY DEF ConnInv, TypeOK
      <3> QED  BY <2>2, <3>1 DEF EndInv, TimedInv, KinInv
    <2> QED  BY <2>1, <2>2
  <1> QED  BY <1>1, ConnInvariant, EndInvariant, PTL
=============================================================================
