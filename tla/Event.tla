------------------------------- MODULE Event -------------------------------
(***************************************************************************)
(* Events of one type and their listeners (event.c).  An event is either   *)
(* processed at once, or begun by one packet and ended by a later one, by  *)
(* a timer, or by the end of its connection.  Listeners come and go with   *)
(* the processing paused, while events are under way.                      *)
(*                                                                         *)
(* A listener is one registration: an object that listens again is another *)
(* one.  Events under way are in the table evts.  A filter is evaluated    *)
(* anew each time, on what the event holds then.                           *)
(***************************************************************************)
EXTENDS Integers, FiniteSets

CONSTANTS
  Evts,
  Listeners,     \* registrations with event_listener_register
  Filtered,      \* those with a filter
  Attachers,     \* listeners of single events, with event_add_listener
  Users,         \* payloads and analyzers that hold a reference
  MaxHolds       \* bound: references taken by users

ASSUME EventAssumption ==
  /\ Filtered \subseteq Listeners /\ Attachers \cap Listeners = {}
  /\ MaxHolds \in Nat

VARIABLES
  listeners,     \* evt_reg->listeners
  tried,         \* registrations made so far
  ongoing,       \* evt_reg->evts
  evtState,      \* "new", "begun", "done" or "freed"
  evtRef,        \* refcount
  holding,       \* pairs <<user, event>>
  holds,
  began,         \* pairs <<listener, event>>: process_begin was called
  attached,      \* pairs of an attacher and an event: tmp_listeners
  ends           \* how often process_end was called, for each pair

eventVars == <<listeners, tried, ongoing, evtState, evtRef, holding, holds, began, attached, ends>>

EventInit ==
  /\ listeners = {} /\ tried = {} /\ ongoing = {} /\ holding = {} /\ holds = 0
  /\ evtState = [e \in Evts |-> "new"]
  /\ evtRef = [e \in Evts |-> 0]
  /\ began = {} /\ attached = {}
  /\ ends = [p \in (Listeners \cup Attachers) \X Evts |-> 0]

-----------------------------------------------------------------------------
(* event_listener_register.                                                *)
Register(l) ==
  /\ l \notin tried
  /\ listeners' = listeners \cup {l}
  /\ tried' = tried \cup {l}
  /\ UNCHANGED <<ongoing, evtState, evtRef, holding, holds, began, attached, ends>>

Called(ls, es) == [p \in DOMAIN ends |-> IF p[1] \in ls /\ p[2] \in es THEN ends[p] + 1 ELSE ends[p]]

(* event_listener_unregister: it is told the end of all that is under way. *)
NoneEnded(l) == {}
EndedByLeaving(l) == ongoing

Unregister(l) ==
  /\ l \in listeners
  /\ listeners' = listeners \ {l}
  /\ ends' = Called({l}, EndedByLeaving(l))
  /\ UNCHANGED <<tried, ongoing, evtState, evtRef, holding, holds, began, attached>>

(* The listeners whose filter, if any, matches.                            *)
Interested == {ls \in SUBSET listeners : listeners \ Filtered \subseteq ls}

(* event_add_listener: for one event, told of its begin at once.           *)
AttachedTo(e) == {a \in Attachers : <<a, e>> \in attached}

Attach(a, e) ==
  /\ evtState[e] \in {"new", "begun"} /\ <<a, e>> \notin attached
  /\ attached' = attached \cup {<<a, e>>}
  /\ began' = began \cup {<<a, e>>}
  /\ UNCHANGED <<listeners, tried, ongoing, evtState, evtRef, holding, holds, ends>>

(* event_refcount_dec and event_cleanup.                                   *)
StateAfter(e, n, state) == IF n = 0 THEN "freed" ELSE state

(* event_process: begin and end for the same listeners, in one go.         *)
Process(e) ==
  /\ evtState[e] = "new"
  /\ \E ls \in Interested :
       /\ began' = began \cup (ls \X {e})
       /\ ends' = Called(ls \cup AttachedTo(e), {e})
  /\ evtState' = [evtState EXCEPT ![e] = StateAfter(e, evtRef[e], "done")]
  /\ UNCHANGED <<listeners, tried, ongoing, evtRef, holding, holds, attached>>

(* event_process_begin.                                                    *)
IntoTable(e) == ongoing \cup {e}

ProcessBegin(e) ==
  /\ evtState[e] = "new"
  /\ \E ls \in Interested : began' = began \cup (ls \X {e})
  /\ evtState' = [evtState EXCEPT ![e] = "begun"]
  /\ evtRef' = [evtRef EXCEPT ![e] = @ + 1]
  /\ ongoing' = IntoTable(e)
  /\ UNCHANGED <<listeners, tried, holding, holds, attached, ends>>

(* event_process_end: for the listeners there are now.                     *)
OutOfTable(e) == ongoing \ {e}

ProcessEnd(e) ==
  /\ evtState[e] = "begun"
  /\ \E ls \in Interested : ends' = Called(ls \cup AttachedTo(e), {e})
  /\ ongoing' = OutOfTable(e)
  /\ evtRef' = [evtRef EXCEPT ![e] = @ - 1]
  /\ evtState' = [evtState EXCEPT ![e] = StateAfter(e, evtRef[e] - 1, "done")]
  /\ UNCHANGED <<listeners, tried, holding, holds, began, attached>>

(* A payload, or an analyzer that waits for another event, keeps it.       *)
Hold(u, e) ==
  /\ evtState[e] \in {"new", "begun"} /\ <<u, e>> \notin holding /\ holds < MaxHolds
  /\ holds' = holds + 1
  /\ holding' = holding \cup {<<u, e>>}
  /\ evtRef' = [evtRef EXCEPT ![e] = @ + 1]
  /\ UNCHANGED <<listeners, tried, ongoing, evtState, began, attached, ends>>

DropRef(u, e) ==
  /\ <<u, e>> \in holding /\ evtState[e] # "new"
  /\ holding' = holding \ {<<u, e>>}
  /\ evtRef' = [evtRef EXCEPT ![e] = @ - 1]
  /\ evtState' = [evtState EXCEPT ![e] = StateAfter(e, evtRef[e] - 1, @)]
  /\ UNCHANGED <<listeners, tried, ongoing, holds, began, attached, ends>>

EventNext ==
  \/ \E l \in Listeners : Register(l) \/ Unregister(l)
  \/ \E e \in Evts : Process(e) \/ ProcessBegin(e) \/ ProcessEnd(e)
  \/ \E a \in Attachers, e \in Evts : Attach(a, e)
  \/ \E u \in Users, e \in Evts : Hold(u, e) \/ DropRef(u, e)

EventSpec == EventInit /\ [][EventNext]_eventVars

-----------------------------------------------------------------------------
(* A listener without a filter that was told of the begin of an event is   *)
(* told of its end, once: by the event, or when it stops listening.        *)
EveryBeginEnds ==
  \A p \in began : p[1] \notin Filtered =>
    LET open == evtState[p[2]] \in {"new", "begun"}
    IN ends[p] = IF open /\ (p[1] \in listeners \/ p \in attached) THEN 0 ELSE 1
=============================================================================
