----------------------------- MODULE Conntrack -----------------------------
(***************************************************************************)
(* Connection tracking (src/src/conntrack.c).                              *)
(*                                                                         *)
(* A packet goes up its protocol stack.  On each level it looks up the     *)
(* entry of its connection, below the entry of the level before, creates   *)
(* it when there is none, and takes a reference, which it gives back when  *)
(* it has been processed.  Entries are cleaned up by timers, which one     *)
(* thread at a time runs between two packets (timers_process): an entry    *)
(* without references leaves its table, then its parent's list, then its   *)
(* children are cleaned up, then it is freed.                              *)
(*                                                                         *)
(* Time is left out: any queued timer may be due.                          *)
(***************************************************************************)
EXTENDS Naturals, Sequences, FiniteSets

CONSTANTS
  Threads,    \* processing threads
  Entries,    \* bound: the addresses malloc may return for an entry
  Keys,       \* what a connection is looked up by: protocol and values
  Unique,     \* keys of protocols that call conntrack_get_unique(_from_parent)
  Cancels,    \* keys of protocols whose timer is cancelled while there are children
  Untimed,    \* keys of protocols that never queue a timer
  Paths,      \* the stacks of keys that packets have
  None        \* no entry, no thread

ASSUME ConntrackAssumption ==
  /\ Keys # {} /\ Unique \cup Cancels \cup Untimed \subseteq Keys
  /\ Paths \subseteq Seq(Keys) \ {<<>>}
  /\ None \notin Entries \cup Threads
  /\ IsFiniteSet(Threads)

VARIABLES
  used,       \* entries that are allocated
  table,      \* entries in the hash tables
  key, parent, children, refs,    \* [Entries -> ...]: the fields of an entry
  timer,      \* [Entries -> ...]: its cleanup_timer
  path,       \* [Threads -> the keys of the packet that are still to come]
  held,       \* [Threads -> the entries in its stack, the last one first]
  found,      \* [Threads -> the entry found in the parent's list, before it is locked]
  walker,     \* the thread in timers_process
  step,       \* where it is
  hand,       \* the entry of the timer it took off its queue
  stale,      \* that timer was freed meanwhile
  work        \* the entries in conntrack_cleanup, which calls itself on children

entryVars == <<used, table, key, parent, children, refs>>
packetVars == <<path, held, found>>
walkVars == <<walker, step, hand, stale, work>>
vars == <<entryVars, timer, packetVars, walkVars>>

(* NULL, allocated but not queued, queued, and -1.                         *)
TimerStates == {"none", "off", "queued", "gone"}
WalkSteps == {"none", "call", "clean", "detach", "children"}

TypeOK ==
  /\ table \subseteq used /\ used \subseteq Entries
  /\ key \in [Entries -> Keys]
  /\ parent \in [Entries -> Entries \cup {None}]
  /\ children \in [Entries -> SUBSET Entries]
  /\ refs \in [Entries -> Nat]
  /\ timer \in [Entries -> TimerStates]
  /\ path \in [Threads -> Seq(Keys)]
  /\ held \in [Threads -> Seq(Entries)]
  /\ found \in [Threads -> Entries \cup {None}]
  /\ walker \in Threads \cup {None}
  /\ step \in WalkSteps
  /\ hand \in Entries \cup {None}
  /\ stale \in BOOLEAN
  /\ work \in Seq(Entries)

AnyKey == CHOOSE k \in Keys : TRUE

Init ==
  /\ used = {} /\ table = {}
  /\ key = [e \in Entries |-> AnyKey]
  /\ parent = [e \in Entries |-> None]
  /\ children = [e \in Entries |-> {}]
  /\ refs = [e \in Entries |-> 0]
  /\ timer = [e \in Entries |-> "none"]
  /\ path = [t \in Threads |-> <<>>]
  /\ held = [t \in Threads |-> <<>>]
  /\ found = [t \in Threads |-> None]
  /\ walker = None /\ step = "none" /\ hand = None /\ stale = FALSE
  /\ work = <<>>

Idle(t) == path[t] = <<>> /\ held[t] = <<>> /\ t # walker
Top(t) == IF held[t] = <<>> THEN None ELSE Head(held[t])

-----------------------------------------------------------------------------
(***************************************************************************)
(* conntrack_delayed_cleanup, and the use that protocols make of it when   *)
(* they have the entry locked.                                             *)
(***************************************************************************)
Queue(e) == timer' = [timer EXCEPT ![e] = IF @ = "gone" THEN "gone" ELSE "queued"]

(* A delay of 0 frees the timer, also one that timers_process has in hand. *)
Cancel(e) ==
  /\ timer' = [timer EXCEPT ![e] = IF @ = "gone" THEN "gone" ELSE "none"]
  /\ stale' = (stale \/ (step = "call" /\ hand = e /\ timer[e] = "off"))

Refresh(e, k) ==
  \/ k \in Untimed /\ UNCHANGED <<timer, stale>>
  \/ k \in Cancels \ Untimed /\ children[e] # {} /\ Cancel(e)
  \/ k \notin Untimed /\ (k \in Cancels => children[e] = {}) /\ Queue(e) /\ UNCHANGED stale

(***************************************************************************)
(* A packet is taken from its queue; its keys are known one by one.        *)
(***************************************************************************)
Arrive(t, p) ==
  /\ Idle(t)
  /\ path' = [path EXCEPT ![t] = p]
  /\ UNCHANGED <<entryVars, timer, held, found, walkVars>>

(* conntrack_find: by key, and by the address of the parent.               *)
Find(k, p) == {e \in table : key[e] = k /\ parent[e] \in {None, p}}

Hold(t, e) ==
  /\ held' = [held EXCEPT ![t] = <<e>> \o @]
  /\ path' = [path EXCEPT ![t] = Tail(@)]
  /\ refs' = [refs EXCEPT ![e] = @ + 1]

(* The memory of a new entry: in its table, and in its parent's list.      *)
Insert(e, k, p) ==
  /\ e \notin used
  /\ used' = used \cup {e} /\ table' = table \cup {e}
  /\ key' = [key EXCEPT ![e] = k]
  /\ parent' = [parent EXCEPT ![e] = p]
  /\ children' = [c \in Entries |-> IF c = e THEN {}
                                    ELSE IF c = p THEN children[c] \cup {e} ELSE children[c]]

(* As conntrack_get_unique does: the reference is taken later.             *)
GetLate(t) ==
  /\ path[t] # <<>> /\ found[t] = None
  /\ LET k == Head(path[t]) IN
     /\ k \notin Unique
     /\ \/ \E e \in Find(k, Top(t)) :
             /\ found' = [found EXCEPT ![t] = e]
             /\ UNCHANGED <<entryVars, timer, held, path, stale>>
        \/ /\ Find(k, Top(t)) = {}
           /\ \E e \in Entries :
                /\ Insert(e, k, Top(t))
                /\ Hold(t, e)
                /\ timer' = [timer EXCEPT ![e] = IF k \in Untimed THEN "none" ELSE "queued"]
                /\ UNCHANGED <<stale, found>>
  /\ UNCHANGED <<walker, step, hand, work>>

(* conntrack_get: the table stays locked until the reference is taken.     *)
Get(t) ==
  /\ path[t] # <<>> /\ found[t] = None
  /\ LET k == Head(path[t]) IN
     /\ k \notin Unique
     /\ \/ \E e \in Find(k, Top(t)) :
             /\ Hold(t, e)
             /\ Refresh(e, k)
             /\ UNCHANGED <<used, table, key, parent, children>>
        \/ /\ Find(k, Top(t)) = {}
           /\ \E e \in Entries :
                /\ Insert(e, k, Top(t))
                /\ Hold(t, e)
                /\ timer' = [timer EXCEPT ![e] = IF k \in Untimed THEN "none" ELSE "queued"]
                /\ UNCHANGED stale
  /\ UNCHANGED <<found, walker, step, hand, work>>

(* conntrack_get_unique_from_parent: under the parent's lock the entry is  *)
(* found in its list, or added to it; conntrack_get_unique, without a      *)
(* parent, looks in the table ...                                          *)
Known(k, p) == IF p = None THEN Find(k, None) ELSE {c \in children[p] : key[c] = k}

LookUp(t) ==
  /\ path[t] # <<>> /\ found[t] = None
  /\ LET k == Head(path[t])  p == Top(t) IN
     /\ k \in Unique
     /\ \E e \in Entries :
          /\ \/ e \in Known(k, p)
                /\ UNCHANGED <<used, table, key, parent, children, timer>>
             \/ /\ Known(k, p) = {}
                /\ Insert(e, k, p)
                /\ timer' = [timer EXCEPT ![e] = "none"]
          /\ found' = [found EXCEPT ![t] = e]
  /\ UNCHANGED <<refs, held, path, walkVars>>

(* ... and then, under its own lock, it is referenced.                     *)
Reference(t) ==
  /\ found[t] # None
  /\ Hold(t, found[t])
  /\ Refresh(found[t], Head(path[t]))
  /\ found' = [found EXCEPT ![t] = None]
  /\ UNCHANGED <<used, table, key, parent, children, walker, step, hand, work>>

(* The packet is invalid, or goes no further up.                           *)
GiveUp(t) ==
  /\ path[t] # <<>> /\ found[t] = None
  /\ path' = [path EXCEPT ![t] = <<>>]
  /\ UNCHANGED <<entryVars, timer, held, found, walkVars>>

(* conntrack_refcount_dec, from the last level down.                       *)
Release(t) ==
  /\ path[t] = <<>> /\ held[t] # <<>>
  /\ refs' = [refs EXCEPT ![Head(held[t])] = @ - 1]
  /\ held' = [held EXCEPT ![t] = Tail(@)]
  /\ UNCHANGED <<used, table, key, parent, children, timer, path, found, walkVars>>

Packet(t) ==
  \/ \E p \in Paths : Arrive(t, p)
  \/ Get(t) \/ LookUp(t) \/ Reference(t) \/ GiveUp(t) \/ Release(t)

-----------------------------------------------------------------------------
(***************************************************************************)
(* timers_process takes a timer off its queue, and lets go of its lock.    *)
(***************************************************************************)
TakeTimer(t, e) ==
  /\ Idle(t) /\ walker = None
  /\ timer[e] = "queued"
  /\ timer' = [timer EXCEPT ![e] = "off"]
  /\ walker' = t /\ step' = "call" /\ hand' = e
  /\ UNCHANGED <<entryVars, packetVars, stale, work>>

(* It reads handler and argument from the timer.  What happens when the    *)
(* timer was freed is undefined, and not followed.                         *)
Call ==
  /\ step = "call" /\ ~stale
  /\ step' = "clean" /\ work' = <<hand>> /\ hand' = None
  /\ UNCHANGED <<entryVars, timer, packetVars, walker, stale>>

(* conntrack_cleanup returns, to itself or to timers_process.              *)
Return ==
  /\ work' = Tail(work)
  /\ IF Tail(work) = <<>> THEN step' = "none" /\ walker' = None
                          ELSE step' = "children" /\ UNCHANGED walker

(* Under the locks of its table and its own: an entry that is referenced   *)
(* gets another second, any other leaves the table and loses its timer.    *)
Clean ==
  /\ step = "clean"
  /\ LET e == Head(work) IN
     \/ /\ e \notin table \/ refs[e] > 0
        /\ IF e \in table THEN Queue(e) ELSE UNCHANGED timer
        /\ Return
        /\ UNCHANGED table
     \/ /\ e \in table /\ refs[e] = 0
        /\ table' = table \ {e}
        /\ timer' = [timer EXCEPT ![e] = IF @ = "none" THEN "none" ELSE "gone"]
        /\ step' = "detach"
        /\ UNCHANGED <<walker, work>>
  /\ UNCHANGED <<used, key, parent, children, refs, packetVars, hand, stale>>

(* Under the locks of the parent's table and the parent: the entry leaves  *)
(* its list.  A parent without children is cleaned up after some time.     *)
DetachSilently ==
  /\ step = "detach"
  /\ step' = "children"
  /\ LET e == Head(work)  p == parent[e] IN
     children' = IF p \in table THEN [children EXCEPT ![p] = @ \ {e}] ELSE children
  /\ UNCHANGED <<used, table, key, parent, refs, timer, packetVars, walker, hand, stale, work>>

DetachOrReturn ==
  /\ step = "detach"
  /\ LET e == Head(work)  p == parent[e] IN
     IF p \in table
     THEN /\ children' = [children EXCEPT ![p] = @ \ {e}]
          /\ IF children'[p] = {} THEN Queue(p) ELSE UNCHANGED timer
          /\ step' = "children" /\ UNCHANGED <<walker, work>>
     ELSE Return /\ UNCHANGED <<children, timer>>
  /\ UNCHANGED <<used, table, key, parent, refs, packetVars, hand, stale>>

Detach ==
  /\ step = "detach"
  /\ step' = "children"
  /\ LET e == Head(work)  p == parent[e] IN
     IF p \in table
     THEN /\ children' = [children EXCEPT ![p] = @ \ {e}]
          /\ IF children'[p] = {} THEN Queue(p) ELSE UNCHANGED timer
     ELSE UNCHANGED <<children, timer>>
  /\ UNCHANGED <<used, table, key, parent, refs, packetVars, walker, hand, stale, work>>

(* Its children are cleaned up one after the other ...                     *)
CleanChild ==
  /\ step = "children"
  /\ \E c \in children[Head(work)] :
       /\ children' = [children EXCEPT ![Head(work)] = @ \ {c}]
       /\ work' = <<c>> \o work
  /\ step' = "clean"
  /\ UNCHANGED <<used, table, key, parent, refs, timer, packetVars, walker, hand, stale>>

(* ... and it is freed.                                                    *)
Free ==
  /\ step = "children" /\ children[Head(work)] = {}
  /\ used' = used \ {Head(work)}
  /\ timer' = [timer EXCEPT ![Head(work)] = "none"]
  /\ Return
  /\ UNCHANGED <<table, key, parent, children, refs, packetVars, hand, stale>>

Walk == Call \/ Clean \/ Detach \/ CleanChild \/ Free

(* core_processing_stop, with the processing paused: every table is        *)
(* emptied (conntrack_table_empty).                                        *)
Empty ==
  /\ walker = None /\ \A t \in Threads : Idle(t)
  /\ used' = used \ table /\ table' = {}
  /\ children' = [e \in Entries |-> {}]
  /\ timer' = [e \in Entries |-> "none"]
  /\ UNCHANGED <<key, parent, refs, packetVars, walkVars>>

Next ==
  \/ \E t \in Threads : Packet(t) \/ (\E e \in Entries : TakeTimer(t, e))
  \/ Walk
  \/ Empty

Spec == Init /\ [][Next]_vars

-----------------------------------------------------------------------------
HeldBy(t) == {held[t][n] : n \in 1..Len(held[t])}
Cleaning == {work[n] : n \in 1..Len(work)}

(* "Once the conntrack is removed from the hash table, it will not be      *)
(* referenced ever again": what a packet has in its stack is in its table. *)
HeldInTable == \A t \in Threads : HeldBy(t) \subseteq table

(* No connection stays for good: one that no packet uses has a timer       *)
(* queued or running, or it has a child with a timer, whose end will start *)
(* one, or it goes with its parent.                                        *)
WillEnd ==
  \A e \in table : refs[e] = 0 =>
    \/ timer[e] = "queued" \/ (step = "call" /\ hand = e) \/ e \in Cleaning
    \/ \E c \in children[e] : key[c] \notin Untimed
    \/ key[e] \in Untimed /\ parent[e] \in table \cup Cleaning

(* What is allocated is in a table, or is being freed; a connection has    *)
(* one entry, no entry outlives its parent, and no list names a freed      *)
(* entry, also between the steps of a cleanup.                             *)
NothingLost ==
  /\ used \subseteq table \cup Cleaning
  /\ \A e, f \in table : key[e] = key[f] /\ parent[e] = parent[f] => e = f
  /\ \A e \in table \ Cleaning : parent[e] # None => e \in children[parent[e]]
  /\ \A p \in used : \A c \in children[p] : c \in used /\ parent[c] = p
=============================================================================
