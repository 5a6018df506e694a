------------------------------ MODULE Monitor ------------------------------
(***************************************************************************)
(* Monitoring sessions (xmlrpccmd_monitor.c).  XML-RPC calls, one thread   *)
(* each, start, poll and stop sessions and add listeners to them; the      *)
(* main thread stops a session that was not polled in time; processing     *)
(* threads put events and payloads in the sessions.                        *)
(*                                                                         *)
(* A call finds its session in the table, under the lock of the table, and *)
(* takes the lock of the session before it leaves that of the table.       *)
(* core_pause_processing waits until no thread is processing a packet.     *)
(***************************************************************************)
EXTENDS Integers, FiniteSets

CONSTANTS
  Clients,       \* threads of the HTTP server
  Main,          \* the main thread, for the system timers
  Procs,         \* processing threads
  Nobody,
  MaxSessions,   \* bound: sessions started
  MaxListeners,  \* bound: listeners added
  MaxItems       \* bound: packets that bring an event or a payload

Actors == Clients \cup {Main}
Sess == 1 .. MaxSessions
NoSess == 0

ASSUME MonitorAssumption ==
  /\ Main \notin Clients /\ Actors \cap Procs = {} /\ Nobody \notin Actors \cup Procs
  /\ IsFiniteSet(Clients)
  /\ MaxSessions \in Nat /\ MaxListeners \in Nat /\ MaxItems \in Nat

VARIABLES
  onEvents,      \* do the clients of this behaviour listen to events, or to payloads?
  table,         \* xmlrpccmd_monitor_sessions, of size one: a session or none
  tableLock, sessLock,
  sLife,         \* of each session: "new", "live", "stopping" (id -1) or "freed"
  polling,       \* sess->polling
  notified,      \* actors that the condition of their session was signalled to
  sTimer,        \* is the timer of the session queued?
  evtListeners, ploadListeners,   \* number of listeners of each session
  evtRegs,       \* sessions registered with the event
  endRegs,       \* those among them that are told of its end
  evtQueue, ploadQueue,           \* sess->events and sess->ploads, their lengths
  listenCount,   \* xmlrpccmd_monitor_pload_listeners_count
  listenRegs,    \* registrations made with pload_listen_start
  mPc, mSess,    \* of each actor: where it is, and its session
  pPc,           \* processing threads: "idle", "event", "pload", "listing"
  toNotify,      \* sessions it still has to give the event to
  ongoing,       \* an event was begun and not ended
  added, items,
  ruined         \* a step has used a session that was freed, or a timer twice

monitorVars == <<onEvents, table, tableLock, sessLock, sLife, polling, notified, sTimer,
                 evtListeners, ploadListeners, evtRegs, endRegs, evtQueue, ploadQueue, listenCount,
                 listenRegs, mPc, mSess, pPc, toNotify, ongoing, added, items,
                 ruined>>

MonitorInit ==
  /\ onEvents \in BOOLEAN
  /\ table = NoSess /\ tableLock = Nobody
  /\ sessLock = [s \in Sess |-> Nobody]
  /\ sLife = [s \in Sess |-> "new"]
  /\ polling = [s \in Sess |-> 0]
  /\ notified = {}
  /\ sTimer = [s \in Sess |-> FALSE]
  /\ evtListeners = [s \in Sess |-> 0] /\ ploadListeners = [s \in Sess |-> 0]
  /\ evtRegs = {} /\ endRegs = {}
  /\ evtQueue = [s \in Sess |-> 0] /\ ploadQueue = [s \in Sess |-> 0]
  /\ listenCount = 0 /\ listenRegs = 0
  /\ mPc = [a \in Actors |-> "idle"] /\ mSess = [a \in Actors |-> NoSess]
  /\ pPc = [p \in Procs |-> "idle"] /\ toNotify = [p \in Procs |-> {}]
  /\ ongoing = FALSE /\ added = 0 /\ items = 0 /\ ruined = FALSE

(* What the parts of the state are called in the frames below.             *)
sessionVars == <<evtListeners, ploadListeners, evtRegs, endRegs, evtQueue, ploadQueue>>
listenVars == <<listenCount, listenRegs>>
procVars == <<pPc, toNotify, ongoing, items>>
lockVars == <<table, tableLock, sessLock>>

-----------------------------------------------------------------------------
Jump(a, l) == mPc' = [mPc EXCEPT ![a] = l]
With(a, s) == mSess' = [mSess EXCEPT ![a] = s]
To(a, l) == Jump(a, l) /\ With(a, IF l = "idle" THEN NoSess ELSE mSess[a])
Is(a, l) == mPc[a] = l /\ ~ruined
Sleepers(s) == {a \in Actors : mPc[a] = "polling" /\ mSess[a] = s}
Paused == \A p \in Procs : pPc[p] = "idle"
Acquire(s, a) == sessLock' = [sessLock EXCEPT ![s] = a]
Let(s) == sessLock' = [sessLock EXCEPT ![s] = Nobody]

(* xmlrpccmd_monitor_start: a free place in the table, then the timer.     *)
MonitorStart(a) ==
  /\ Is(a, "idle") /\ a # Main
  /\ tableLock = Nobody /\ table = NoSess
  /\ \E s \in Sess :
       /\ sLife[s] = "new" /\ \A r \in 1 .. s - 1 : sLife[r] # "new"
       /\ table' = s
       /\ sLife' = [sLife EXCEPT ![s] = "live"]
       /\ With(a, s)
  /\ Jump(a, "requeue")
  /\ UNCHANGED <<onEvents, tableLock, sessLock, polling, notified, sTimer, sessionVars,
                 listenVars, procVars, added, ruined>>

(* timer_sys_queue(sess->timer), at the end of start and of poll.  It does *)
(* not look whether the timer is queued.                                   *)
QueueSessionTimer(a) ==
  LET s == mSess[a] IN
  /\ Is(a, "requeue")
  /\ ruined' = (sLife[s] = "freed" \/ sTimer[s])
  /\ sTimer' = [sTimer EXCEPT ![s] = TRUE]
  /\ To(a, "idle")
  /\ UNCHANGED <<onEvents, lockVars, sLife, polling, notified, sessionVars, listenVars,
                 procVars, added>>

(* Every other call finds its session with the table locked, and locks it  *)
(* before the table is unlocked.  It keeps the table when it has to wait.  *)
ClientCalls == {"poll", "addPload", "removePload", "addEvent", "removeEvent"}

May(l) ==
  /\ l \in {"addEvent", "removeEvent"} => onEvents
  /\ l \in {"addPload", "removePload"} => ~onEvents
  /\ l \in {"addPload", "addEvent"} => added < MaxListeners

Finds(a, l) ==
  /\ Is(a, "idle") /\ a # Main /\ May(l)
  /\ tableLock = Nobody /\ table # NoSess

WaitForSession(a, l) ==
  /\ Finds(a, l) /\ sessLock[table] # Nobody
  /\ tableLock' = a
  /\ With(a, table)
  /\ Jump(a, l)
  /\ UNCHANGED <<onEvents, table, sessLock, sLife, polling, notified, sTimer, sessionVars,
                 listenVars, procVars, added, ruined>>

(* A call can lock its session now.                                        *)
Locks(a, l, s) ==
  /\ sessLock[s] = Nobody
  /\ (Is(a, l) /\ mSess[a] = s) \/ (Finds(a, l) /\ table = s)

Couple(a, l, s) ==
  /\ Locks(a, l, s)
  /\ added' = IF l \in {"addPload", "addEvent"} THEN added + 1 ELSE added
  /\ tableLock' = Nobody

-----------------------------------------------------------------------------
(* xmlrpccmd_monitor_poll: it leaves with what is queued or waits.         *)
HasItems(s) == evtQueue[s] + ploadQueue[s] > 0
Unpoll(a) == [polling EXCEPT ![mSess[a]] = @ - 1]

TakeItems(a, s) ==
  /\ HasItems(s)
  /\ evtQueue' = [evtQueue EXCEPT ![s] = 0]
  /\ ploadQueue' = [ploadQueue EXCEPT ![s] = 0]
  /\ Jump(a, "requeue") /\ With(a, s)

Poll(a, s) ==
  /\ Couple(a, "poll", s)
  /\ sTimer' = [sTimer EXCEPT ![s] = FALSE]
  /\ \/ TakeItems(a, s) /\ UNCHANGED polling
     \/ /\ ~HasItems(s)
        /\ polling' = [polling EXCEPT ![s] = @ + 1]
        /\ Jump(a, "polling") /\ With(a, s)
        /\ UNCHANGED <<evtQueue, ploadQueue>>
  /\ UNCHANGED <<onEvents, table, sessLock, sLife, notified, evtListeners, ploadListeners,
                 evtRegs, endRegs, listenVars, procVars, ruined>>

(* pthread_cond_timedwait returns, with the lock.                          *)
Stopped(s) == sLife[s] # "live"

PollWakes(a) ==
  LET s == mSess[a] IN
  /\ Is(a, "polling") /\ a \in notified /\ sessLock[s] = Nobody
  /\ notified' = notified \ {a}
  /\ \/ /\ Stopped(s)
        /\ polling' = Unpoll(a) /\ To(a, "idle")
        /\ UNCHANGED <<evtQueue, ploadQueue>>
     \/ /\ ~Stopped(s)
        /\ polling' = Unpoll(a) /\ TakeItems(a, s)
     \/ /\ ~Stopped(s) /\ ~HasItems(s)
        /\ UNCHANGED <<polling, mPc, mSess, evtQueue, ploadQueue>>
  /\ UNCHANGED <<onEvents, lockVars, sLife, sTimer, evtListeners, ploadListeners, evtRegs,
                 endRegs, listenVars, procVars, added, ruined>>

PollTimesOut(a) ==
  /\ Is(a, "polling") /\ sessLock[mSess[a]] = Nobody
  /\ polling' = Unpoll(a)
  /\ notified' = notified \ {a}
  /\ To(a, "requeue")
  /\ UNCHANGED <<onEvents, lockVars, sLife, sTimer, sessionVars, listenVars, procVars, added, ruined>>

-----------------------------------------------------------------------------
(* xmlrpccmd_monitor_stop finds the session and lets go of the table.      *)
MonitorStop(a) ==
  /\ Is(a, "idle") /\ a # Main
  /\ tableLock = Nobody /\ table # NoSess
  /\ With(a, table)
  /\ Jump(a, "cleanup")
  /\ UNCHANGED <<onEvents, lockVars, sLife, polling, notified, sTimer, sessionVars,
                 listenVars, procVars, added, ruined>>

(* timer_sys_process takes a timer that is due: xmlrpccmd_monitor_timeout. *)
SessionTimeout ==
  /\ Is(Main, "idle")
  /\ \E s \in Sess :
       /\ sTimer[s]
       /\ sTimer' = [sTimer EXCEPT ![s] = FALSE]
       /\ With(Main, s)
  /\ Jump(Main, "cleanup")
  /\ UNCHANGED <<onEvents, lockVars, sLife, polling, notified, sessionVars, listenVars,
                 procVars, added, ruined>>

(* xmlrpccmd_monitor_session_cleanup reads the id of the session.          *)
ReadId(a) ==
  /\ Is(a, "cleanup")
  /\ ruined' = (sLife[mSess[a]] # "live")
  /\ To(a, "unlink")
  /\ UNCHANGED <<onEvents, lockVars, sLife, polling, notified, sTimer, sessionVars,
                 listenVars, procVars, added>>

(* It is taken off the table, unless another thread was faster; if another *)
(* session has its place by now, that one is.                              *)
TooLate(a) ==
  /\ Is(a, "unlink") /\ tableLock = Nobody /\ table = NoSess
  /\ To(a, "idle")
  /\ UNCHANGED <<onEvents, lockVars, sLife, polling, notified, sTimer, sessionVars,
                 listenVars, procVars, added, ruined>>

Unlink(a) ==
  /\ Is(a, "unlink") /\ tableLock = Nobody /\ table # NoSess
  /\ table' = NoSess /\ tableLock' = a
  /\ ruined' = (table # mSess[a])
  /\ To(a, "locking")
  /\ UNCHANGED <<onEvents, sessLock, sLife, polling, notified, sTimer, sessionVars,
                 listenVars, procVars, added>>

MarkStopped(a) ==
  /\ Is(a, "locking") /\ sessLock[mSess[a]] = Nobody
  /\ tableLock' = Nobody
  /\ sLife' = [sLife EXCEPT ![mSess[a]] = "stopping"]
  /\ To(a, "drain")
  /\ UNCHANGED <<onEvents, table, sessLock, polling, notified, sTimer, sessionVars,
                 listenVars, procVars, added, ruined>>

(* Polls that wait are woken, again and again, until none is left.         *)
WakePolls(a) ==
  LET s == mSess[a] IN
  /\ Is(a, "drain") /\ sessLock[s] = Nobody /\ polling[s] > 0
  /\ notified' = notified \cup Sleepers(s)
  /\ UNCHANGED <<onEvents, lockVars, sLife, polling, sTimer, sessionVars, listenVars,
                 mPc, mSess, procVars, added, ruined>>

NoPoll(s) == polling[s] = 0

Drained(a) ==
  /\ Is(a, "drain") /\ sessLock[mSess[a]] = Nobody /\ NoPoll(mSess[a])
  /\ To(a, "unregister")
  /\ UNCHANGED <<onEvents, lockVars, sLife, polling, notified, sTimer, sessionVars,
                 listenVars, procVars, added, ruined>>

(* The processing paused, it stops listening to events; it is told of the  *)
(* end of those under way, and then the queue is emptied.                  *)
AtOnce(s) == TRUE
Quiet(s) == s \in evtRegs => Paused /\ sessLock[s] = Nobody
QueueFreed(s) == [evtQueue EXCEPT ![s] = 0]

UnregisterAll(a) ==
  LET s == mSess[a] IN
  /\ Is(a, "unregister") /\ Quiet(s)
  /\ evtRegs' = evtRegs \ {s} /\ endRegs' = endRegs \ {s}
  /\ evtListeners' = [evtListeners EXCEPT ![s] = 0]
  /\ evtQueue' = QueueFreed(s)
  /\ To(a, "unlisten")
  /\ UNCHANGED <<onEvents, lockVars, sLife, polling, notified, sTimer, ploadListeners,
                 ploadQueue, listenVars, procVars, added, ruined>>

(* Its payload listeners are removed one by one.                           *)
LastListener == listenCount = 1

RemoveOne(a, l) ==
  /\ listenCount' = listenCount - 1
  /\ To(a, IF LastListener THEN l ELSE mPc[a])

UnlistenAll(a) ==
  LET s == mSess[a] IN
  /\ Is(a, "unlisten") /\ ploadListeners[s] > 0
  /\ ploadListeners' = [ploadListeners EXCEPT ![s] = @ - 1]
  /\ RemoveOne(a, "stopThenUnlisten")
  /\ UNCHANGED <<onEvents, lockVars, sLife, polling, notified, sTimer, evtListeners, evtRegs,
                 endRegs, evtQueue, ploadQueue, listenRegs, procVars, added, ruined>>

(* Then the payloads, the timer and the session itself.                    *)
FreeSession(a) ==
  LET s == mSess[a] IN
  /\ Is(a, "unlisten") /\ ploadListeners[s] = 0
  /\ ploadQueue' = [ploadQueue EXCEPT ![s] = 0]
  /\ sTimer' = [sTimer EXCEPT ![s] = FALSE]
  /\ sLife' = [sLife EXCEPT ![s] = "freed"]
  /\ To(a, "idle")
  /\ UNCHANGED <<onEvents, lockVars, polling, notified, evtListeners, ploadListeners,
                 evtRegs, endRegs, evtQueue, listenVars, procVars, added, ruined>>

-----------------------------------------------------------------------------
(* xmlrpccmd_monitor_pload_add_listener: the listener is counted, and the  *)
(* first one makes the monitor listen, after the session is unlocked.      *)
AddPload(a, s) ==
  /\ Couple(a, "addPload", s)
  /\ ploadListeners' = [ploadListeners EXCEPT ![s] = @ + 1]
  /\ Jump(a, "count") /\ With(a, s)
  /\ UNCHANGED <<onEvents, table, sessLock, sLife, polling, notified, sTimer, evtListeners,
                 evtRegs, endRegs, evtQueue, ploadQueue, listenVars, procVars,
                 ruined>>

OnlyListener == listenCount = 1
FirstListener == listenCount = 0

Count(a) ==
  /\ Is(a, "count")
  /\ listenCount' = listenCount + 1
  /\ To(a, IF FirstListener THEN "listen" ELSE "idle")
  /\ UNCHANGED <<onEvents, lockVars, sLife, polling, notified, sTimer, sessionVars,
                 listenRegs, procVars, added, ruined>>

ListenPloads(a) ==
  /\ Is(a, "listen") /\ Paused
  /\ listenRegs' = listenRegs + 1
  /\ To(a, "idle")
  /\ UNCHANGED <<onEvents, lockVars, sLife, polling, notified, sTimer, sessionVars,
                 listenCount, procVars, added, ruined>>

(* xmlrpccmd_monitor_pload_remove_listener.                                *)
RemovePload(a, s) ==
  /\ Couple(a, "removePload", s)
  /\ \/ /\ ploadListeners[s] = 0
        /\ To(a, "idle") /\ UNCHANGED ploadListeners
     \/ /\ ploadListeners[s] > 0
        /\ ploadListeners' = [ploadListeners EXCEPT ![s] = @ - 1]
        /\ Jump(a, "uncount") /\ With(a, s)
  /\ UNCHANGED <<onEvents, table, sessLock, sLife, polling, notified, sTimer, evtListeners,
                 evtRegs, endRegs, evtQueue, ploadQueue, listenVars, procVars,
                 ruined>>

Uncount(a) ==
  /\ Is(a, "uncount")
  /\ listenCount' = listenCount - 1
  /\ To(a, IF LastListener THEN "stop" ELSE "idle")
  /\ UNCHANGED <<onEvents, lockVars, sLife, polling, notified, sTimer, sessionVars,
                 listenRegs, procVars, added, ruined>>

(* pload_listen_stop; it may find nothing to stop.                         *)
StopPloads(a) ==
  /\ Is(a, "stop") \/ Is(a, "stopThenUnlisten")
  /\ Paused
  /\ listenRegs' = IF listenRegs = 0 THEN 0 ELSE listenRegs - 1
  /\ To(a, IF Is(a, "stop") THEN "idle" ELSE "unlisten")
  /\ UNCHANGED <<onEvents, lockVars, sLife, polling, notified, sTimer, sessionVars,
                 listenCount, procVars, added, ruined>>

-----------------------------------------------------------------------------
(* xmlrpccmd_monitor_event_add_listener and _remove_listener.  For the     *)
(* first and for the last listener the processing is paused with the       *)
(* session locked.  So it is for another one that wants to hear more than  *)
(* lst->flags says: a registration leaves them 0, xmlrpccmd_monitor_evt_-  *)
(* process writes them without a lock, and so it may be either.            *)
Pauses(a, s, l) == Acquire(s, a) /\ With(a, s) /\ Jump(a, l)

ChangeEvents(a, l, s, n) ==
  /\ Couple(a, l, s)
  /\ evtListeners' = [evtListeners EXCEPT ![s] = n]
  /\ \/ n # 0 /\ (s \notin evtRegs \/ l = "addEvent") /\ Pauses(a, s, "register")
     \/ n = 0 /\ s \in evtRegs /\ Pauses(a, s, "unregisterOne")
     \/ (n = 0) # (s \in evtRegs) /\ To(a, "idle") /\ UNCHANGED sessLock
  /\ UNCHANGED <<onEvents, table, sLife, polling, notified, sTimer, ploadListeners, evtRegs,
                 endRegs, evtQueue, ploadQueue, listenVars, procVars, ruined>>

AddEvent(a, s) == ChangeEvents(a, "addEvent", s, evtListeners[s] + 1)
RemoveEvent(a, s) ==
  ChangeEvents(a, "removeEvent", s, IF evtListeners[s] = 0 THEN 0 ELSE evtListeners[s] - 1)

(* A registration ends: with an event under way, the session is told of    *)
(* its end, locks what the caller has locked and never returns.            *)
Told(s) == s \in endRegs /\ ongoing

(* One that was there is ended first, and is made again with what its      *)
(* flags and the new listener ask for; the queue is kept.                  *)
RegisterEvent(a) ==
  LET s == mSess[a] IN
  /\ Is(a, "register") /\ Paused /\ ~Told(s)
  /\ evtRegs' = evtRegs \cup {s}
  /\ endRegs' \in {endRegs \ {s}, endRegs \cup {s}}
  /\ Let(s) /\ To(a, "idle")
  /\ UNCHANGED <<onEvents, table, tableLock, sLife, polling, notified, sTimer, evtListeners,
                 ploadListeners, evtQueue, ploadQueue, listenVars, procVars,
                 added, ruined>>

UnregisterEvent(a) ==
  LET s == mSess[a] IN
  /\ Is(a, "unregisterOne") /\ Paused /\ ~Told(s)
  /\ evtRegs' = evtRegs \ {s} /\ endRegs' = endRegs \ {s}
  /\ evtQueue' = QueueFreed(s)
  /\ Let(s) /\ To(a, "idle")
  /\ UNCHANGED <<onEvents, table, tableLock, sLife, polling, notified, sTimer, evtListeners,
                 ploadListeners, ploadQueue, listenVars, procVars, added,
                 ruined>>

-----------------------------------------------------------------------------
(* A packet begins or ends an event, or opens a payload.  Who is not told  *)
(* of the end is told of the begin; who is may be told of both.            *)
Hearers ==
  IF ongoing THEN {endRegs} ELSE {evtRegs \ d : d \in SUBSET endRegs}

PacketEvent(p) ==
  /\ pPc[p] = "idle" /\ items < MaxItems /\ onEvents /\ ~ruined
  /\ items' = items + 1
  /\ ongoing' = ~ongoing
  /\ \E told \in Hearers : toNotify' = [toNotify EXCEPT ![p] = told]
  /\ pPc' = [pPc EXCEPT ![p] = "event"]
  /\ UNCHANGED <<onEvents, lockVars, sLife, polling, notified, sTimer, sessionVars,
                 listenVars, mPc, mSess, added, ruined>>

(* xmlrpccmd_monitor_evt_process: the event is queued if it passes what a  *)
(* listener asks for, its flags and its filter.                            *)
EvtProcess(p) ==
  /\ pPc[p] = "event" /\ ~ruined
  /\ \E s \in toNotify[p] :
       /\ sessLock[s] = Nobody
       /\ \/ /\ evtListeners[s] > 0
             /\ evtQueue' = [evtQueue EXCEPT ![s] = @ + 1]
             /\ notified' = notified \cup Sleepers(s)
          \/ UNCHANGED <<evtQueue, notified>>
       /\ toNotify' = [toNotify EXCEPT ![p] = @ \ {s}]
  /\ UNCHANGED <<onEvents, lockVars, sLife, polling, sTimer, evtListeners, ploadListeners,
                 evtRegs, endRegs, ploadQueue, listenVars, mPc, mSess, pPc, ongoing, added,
                 items, ruined>>

EventDone(p) ==
  /\ pPc[p] = "event" /\ toNotify[p] = {} /\ ~ruined
  /\ pPc' = [pPc EXCEPT ![p] = "idle"]
  /\ UNCHANGED <<onEvents, lockVars, sLife, polling, notified, sTimer, sessionVars,
                 listenVars, mPc, mSess, toNotify, ongoing, added, items, ruined>>

(* xmlrpccmd_monitor_pload_open, if anybody listens: with the table locked *)
(* every session of it is locked in turn.                                  *)
PacketPload(p) ==
  /\ pPc[p] = "idle" /\ items < MaxItems /\ listenRegs > 0 /\ ~ruined
  /\ items' = items + 1
  /\ pPc' = [pPc EXCEPT ![p] = "pload"]
  /\ UNCHANGED <<onEvents, lockVars, sLife, polling, notified, sTimer, sessionVars,
                 listenVars, mPc, mSess, toNotify, ongoing, added, ruined>>

LockTable(p) ==
  /\ pPc[p] = "pload" /\ tableLock = Nobody /\ ~ruined
  /\ tableLock' = p
  /\ pPc' = [pPc EXCEPT ![p] = "listing"]
  /\ UNCHANGED <<onEvents, table, sessLock, sLife, polling, notified, sTimer, sessionVars,
                 listenVars, mPc, mSess, toNotify, ongoing, added, items, ruined>>

PloadOpen(p) ==
  /\ pPc[p] = "listing" /\ ~ruined
  /\ table # NoSess => sessLock[table] = Nobody
  /\ IF table # NoSess /\ ploadListeners[table] > 0
     THEN /\ ploadQueue' = [ploadQueue EXCEPT ![table] = @ + 1]
          /\ notified' = notified \cup Sleepers(table)
     ELSE UNCHANGED <<ploadQueue, notified>>
  /\ tableLock' = Nobody
  /\ pPc' = [pPc EXCEPT ![p] = "idle"]
  /\ UNCHANGED <<onEvents, table, sessLock, sLife, polling, sTimer, evtListeners,
                 ploadListeners, evtRegs, endRegs, evtQueue, listenVars, mPc, mSess, toNotify,
                 ongoing, added, items, ruined>>

-----------------------------------------------------------------------------
ActorStep(a) ==
  \/ QueueSessionTimer(a) \/ PollWakes(a)
  \/ ReadId(a) \/ TooLate(a) \/ Unlink(a) \/ MarkStopped(a) \/ WakePolls(a) \/ Drained(a)
  \/ UnregisterAll(a) \/ UnlistenAll(a) \/ FreeSession(a)
  \/ Count(a) \/ ListenPloads(a) \/ Uncount(a) \/ StopPloads(a)
  \/ RegisterEvent(a) \/ UnregisterEvent(a)

Served(a) ==
  \E s \in Sess :
    Poll(a, s) \/ AddPload(a, s) \/ RemovePload(a, s) \/ AddEvent(a, s) \/ RemoveEvent(a, s)

ProcStep(p) == EvtProcess(p) \/ EventDone(p) \/ LockTable(p) \/ PloadOpen(p)

MonitorNext ==
  \/ SessionTimeout
  \/ \E a \in Actors :
       \/ MonitorStart(a) \/ MonitorStop(a) \/ PollTimesOut(a)
       \/ \E l \in ClientCalls : WaitForSession(a, l)
       \/ Served(a) \/ ActorStep(a)
  \/ \E p \in Procs : PacketEvent(p) \/ PacketPload(p) \/ ProcStep(p)

MonitorSpec == MonitorInit /\ [][MonitorNext]_monitorVars

(* Every thread goes on.                                                   *)
MonitorFairness ==
  /\ \A a \in Actors : WF_monitorVars(ActorStep(a) \/ (mPc[a] # "idle" /\ Served(a)))
  /\ \A p \in Procs : WF_monitorVars(ProcStep(p))

-----------------------------------------------------------------------------
(* Nobody uses a session that was freed, or has left anything in it: the   *)
(* polls have gone, no call has it locked or has it in hand, no processing *)
(* thread still has an event for it, and its queues are empty.             *)
FreedIsLeftAlone ==
  \A s \in Sess : sLife[s] = "freed" /\ ~ruined =>
    /\ table # s /\ polling[s] = 0 /\ sessLock[s] = Nobody
    /\ s \notin evtRegs /\ \A p \in Procs : s \notin toNotify[p]
    /\ evtListeners[s] = 0 /\ ploadListeners[s] = 0
    /\ evtQueue[s] = 0 /\ ploadQueue[s] = 0
    /\ \A a \in Actors : mSess[a] = s => mPc[a] \notin ClientCalls \cup {"polling"}

(* The payload listeners of all sessions, one by one.                      *)
ListenersOf(number) == UNION {{s} \X (1 .. number[s]) : s \in Sess}

(* Between calls the listeners are counted, and as long as there are any,  *)
(* the monitor listens to payloads, whatever two clients and the cleanup   *)
(* of a session do at the same time.                                       *)
ListenersHear ==
  (\A a \in Actors : mPc[a] \notin {"count", "listen", "uncount", "stop", "stopThenUnlisten"}) =>
    /\ listenCount = Cardinality(ListenersOf(ploadListeners))
    /\ listenCount > 0 => listenRegs > 0

=============================================================================
