------------------------------- MODULE Input -------------------------------
(***************************************************************************)
(* Starting, stopping and removing inputs (src/src/input.c).               *)
(*                                                                         *)
(* An input is started and stopped by setting its "running" parameter,     *)
(* under the registry lock: registry_set_param stores the new value, calls *)
(* input_instance_start_stop_handler, and restores the old value when the  *)
(* handler refuses.  A user (the console, main at startup and shutdown)    *)
(* does it, or an input's own thread at the end of its capture file.  A    *)
(* user that stops an input joins its thread; a thread that stops its own  *)
(* input is detached, and closes the plugin after the handler returned.    *)
(*                                                                         *)
(* Core sees one thread per input; here an input may be started again      *)
(* while its old thread is still closing.                                  *)
(***************************************************************************)
EXTENDS Integers, FiniteSets

CONSTANTS
  Inputs,     \* the instances of the class "input"
  Live,       \* those whose type has INPUT_REG_FLAG_LIVE
  Threads,    \* bound: the threads that may ever be created
  User,       \* whoever calls from outside; the registry lock makes them take turns
  NoOne,      \* nobody
  Lookers,    \* the processing threads of the core, whose number is core_num_threads
  Patient     \* whether users leave an input alone until its old thread has ended

ASSUME InputAssumption ==
  /\ Live \subseteq Inputs
  /\ Patient \in BOOLEAN
  /\ User \notin Threads
  /\ NoOne \notin Threads \cup Inputs \cup {User}
  /\ IsFiniteSet(Inputs)

VARIABLES
  lock,       \* the owner of registry_global_lock
  step,       \* where the handler is that the owner is in
  inst,       \* the input the handler works on
  removing,   \* the handler was called by input_instance_remove
  busy,       \* inputs with INPUT_RUN_BUSY
  running,    \* inputs with INPUT_RUN_RUNNING
  param,      \* inputs whose parameter "running" reads yes
  cur,        \* input_cur_running
  state,      \* core_cur_state, as input.c and the processing threads set it
  looked,     \* processing threads that saw the core finishing and will set it idle
  overtaken,  \* one of these did so after a later start had set it running
  opened,     \* inputs whose plugin is open
  freed,      \* inputs that were removed
  thread,     \* [Inputs -> thread]: i->thread
  tpc, tOf    \* threads: where they are, the input they serve

handlerVars == <<lock, step, inst, removing, busy, param, cur, state>>
threadVars == <<thread, tOf>>
coreVars == <<looked, overtaken>>
vars == <<handlerVars, running, opened, freed, threadVars, tpc, coreVars>>

Steps == {"none", "open", "flag", "create", "count", "join", "uncount"}
Places == {"new", "loop", "read", "ask", "lock", "handler", "close", "clear", "dead"}

TypeOK ==
  /\ lock \in Threads \cup {User, NoOne}
  /\ step \in Steps /\ (step = "none" <=> lock = NoOne)
  /\ inst \in Inputs \cup {NoOne}
  /\ removing \in BOOLEAN
  /\ {busy, running, param, opened, freed} \subseteq SUBSET Inputs
  /\ cur \in Nat
  /\ state \in {"idle", "running", "finishing"}
  /\ thread \in [Inputs -> Threads \cup {NoOne}]
  /\ tpc \in [Threads -> Places]
  /\ tOf \in [Threads -> Inputs \cup {NoOne}]
  /\ looked \subseteq Lookers /\ overtaken \in BOOLEAN

Init ==
  /\ lock = NoOne /\ step = "none" /\ inst = NoOne /\ removing = FALSE
  /\ busy = {} /\ running = {} /\ param = {} /\ opened = {} /\ freed = {}
  /\ cur = 0
  /\ state = "idle"
  /\ thread = [i \in Inputs |-> NoOne]
  /\ tpc = [t \in Threads |-> "new"]
  /\ tOf = [t \in Threads |-> NoOne]
  /\ looked = {} /\ overtaken = FALSE

(* The threads that serve input i and have not ended.                      *)
Alive(i) == {t \in Threads : tOf[t] = i /\ tpc[t] # "dead"}
MayTouch(i) == i \notin freed /\ (Patient /\ i \notin running => Alive(i) = {})

-----------------------------------------------------------------------------
(***************************************************************************)
(* input_instance_start_stop_handler.  A request that it refuses changes   *)
(* nothing: registry_set_param_value restores the parameter.               *)
(***************************************************************************)
Enter(c, i, s) ==
  /\ lock = NoOne
  /\ i \notin busy
  /\ lock' = c /\ step' = s /\ inst' = i
  /\ busy' = busy \cup {i}

Leave ==
  /\ lock' = NoOne /\ step' = "none" /\ inst' = NoOne /\ removing' = FALSE
  /\ busy' = busy \ {inst}

(* A non-live input runs alone.                                            *)
AloneOrLive(i) == \A j \in running \ {i} : j \in Live /\ i \in Live

Start(i) ==
  /\ MayTouch(i)
  /\ i \notin running
  /\ \E t \in Threads : tpc[t] = "new"
  /\ AloneOrLive(i)
  /\ Enter(User, i, "open")
  /\ param' = param \cup {i}
  /\ UNCHANGED <<removing, running, cur, state, opened, freed, threadVars, tpc, coreVars>>

(* goto err: the BUSY flag is cleared, the parameter restored.             *)
Refuse ==
  /\ Leave
  /\ param' = param \ {inst}
  /\ UNCHANGED <<running, cur, state, opened, freed, threadVars, tpc, coreVars>>

(* The plugin is opened, with the processing paused.                       *)
Open ==
  /\ step = "open"
  /\ step' = "flag"
  /\ opened' = opened \cup {inst}
  /\ UNCHANGED <<lock, inst, removing, busy, running, param, cur, state, freed,
                 threadVars, tpc, coreVars>>

OpenFails == step = "open" /\ Refuse

SetFlag ==
  /\ step = "flag"
  /\ step' = "create"
  /\ running' = running \cup {inst}
  /\ UNCHANGED <<lock, inst, removing, busy, param, cur, state, opened, freed,
                 threadVars, tpc, coreVars>>

Create(t) ==
  /\ step = "create" /\ tpc[t] = "new"
  /\ step' = "count"
  /\ thread' = [thread EXCEPT ![inst] = t]
  /\ tpc' = [tpc EXCEPT ![t] = "loop"]
  /\ tOf' = [tOf EXCEPT ![t] = inst]
  /\ UNCHANGED <<lock, inst, removing, busy, running, param, cur, state, opened, freed, coreVars>>

(* The core is told on every start; on a stop only by the last input.      *)
CountStart ==
  /\ step = "count"
  /\ cur' = cur + 1
  /\ state' = IF cur' # 0 THEN "running" ELSE state
  /\ overtaken' = FALSE
  /\ Leave
  /\ UNCHANGED <<running, param, opened, freed, threadVars, tpc, looked>>

(* The caller stops i: it joins the thread of i, unless it is that thread. *)
Stop(c, i) ==
  /\ i \in running
  /\ Enter(c, i, IF thread[i] = c THEN "uncount" ELSE "join")
  /\ running' = running \ {i}
  /\ param' = param \ {i}
  /\ UNCHANGED <<cur, state, opened, freed, threadVars, coreVars>>

UserStop(i) == Stop(User, i) /\ removing' = FALSE /\ i \notin freed /\ UNCHANGED tpc

NotJoined(t) == TRUE
Ended(t) == t = NoOne \/ tpc[t] = "dead"

Join ==
  /\ step = "join"
  /\ Ended(thread[inst])
  /\ step' = "uncount"
  /\ UNCHANGED <<lock, inst, removing, busy, running, param, cur, state, opened, freed,
                 threadVars, tpc, coreVars>>

StayRunning == state
Finishing == IF state = "running" THEN "finishing" ELSE state

CountStop ==
  /\ step = "uncount"
  /\ cur' = cur - 1
  /\ state' = IF cur' = 0 THEN Finishing ELSE state
  /\ Leave
  /\ freed' = IF removing THEN freed \cup {inst} ELSE freed
  /\ tpc' = IF lock = User THEN tpc ELSE [tpc EXCEPT ![lock] = "loop"]
  /\ UNCHANGED <<running, param, opened, threadVars, coreVars>>

(* input_instance_remove stops the input first, and frees it.              *)
InstanceRemove(i) ==
  /\ MayTouch(i)
  /\ \/ Stop(User, i) /\ removing' = TRUE /\ UNCHANGED tpc
     \/ /\ lock = NoOne /\ i \notin running
        /\ freed' = freed \cup {i}
        /\ UNCHANGED <<handlerVars, running, opened, threadVars, tpc, coreVars>>

Handler ==
  \/ Open \/ OpenFails \/ SetFlag \/ (\E t \in Threads : Create(t))
  \/ CountStart \/ Join \/ CountStop

-----------------------------------------------------------------------------
(***************************************************************************)
(* input_process_thread, run by thread t.                                  *)
(***************************************************************************)
TMove(t, from, to) == tpc[t] = from /\ tpc' = [tpc EXCEPT ![t] = to]

ReadsOn(t) == TRUE
Reads(t) == tOf[t] \in running

TestFlag(t) ==
  /\ TMove(t, "loop", IF Reads(t) THEN "read" ELSE "close")
  /\ UNCHANGED <<handlerVars, running, opened, freed, threadVars, coreVars>>

(* The plugin's read returns a packet or nothing, or it ends or fails.     *)
Read(t) ==
  /\ \E to \in {"loop", "ask"} : TMove(t, "read", to)
  /\ UNCHANGED <<handlerVars, running, opened, freed, threadVars, coreVars>>

(* input_stop, or the error path: the flag is tested without the lock.     *)
AskStop(t) ==
  /\ TMove(t, "ask", IF tOf[t] \in running THEN "lock" ELSE "loop")
  /\ UNCHANGED <<handlerVars, running, opened, freed, threadVars, coreVars>>

(* registry_set_param(..., "running", "no") by the input's own thread.     *)
SelfStop(t) ==
  /\ lock = NoOne
  /\ IF tOf[t] \in running
     THEN Stop(t, tOf[t]) /\ TMove(t, "lock", "handler") /\ UNCHANGED removing
     ELSE /\ TMove(t, "lock", "loop")
          /\ UNCHANGED <<handlerVars, running, opened, freed, threadVars, coreVars>>

(* The plugin is closed, with the processing paused ...                    *)
Close(t) ==
  /\ TMove(t, "close", "clear")
  /\ opened' = opened \ {tOf[t]}
  /\ UNCHANGED <<handlerVars, running, freed, threadVars, coreVars>>

(* ... and the flag cleared once more.                                     *)
ClearFlag(t) ==
  /\ TMove(t, "clear", "dead")
  /\ running' = running \ {tOf[t]}
  /\ UNCHANGED <<handlerVars, opened, freed, threadVars, coreVars>>

ThreadStep(t) == TestFlag(t) \/ AskStop(t) \/ SelfStop(t) \/ Close(t) \/ ClearFlag(t)

(* The core has processed everything (module Core), and each of its        *)
(* threads that finds no other active asks for the state ...               *)
CoreLooks(w) ==
  /\ state = "finishing" /\ w \notin looked
  /\ looked' = looked \cup {w}
  /\ UNCHANGED <<handlerVars, running, opened, freed, threadVars, tpc, overtaken>>

(* ... and sets it to idle under the lock taken anew, whatever it has      *)
(* become since: an input may have been started in between.                *)
CoreIdles(w) ==
  /\ w \in looked
  /\ looked' = looked \ {w}
  /\ state' = "idle"
  /\ overtaken' = (overtaken \/ state = "running")
  /\ UNCHANGED <<lock, step, inst, removing, busy, param, cur, running, opened, freed,
                 threadVars, tpc>>

Next ==
  \/ \E i \in Inputs : Start(i) \/ UserStop(i) \/ InstanceRemove(i)
  \/ Handler
  \/ \E t \in Threads : ThreadStep(t) \/ Read(t)
  \/ \E w \in Lookers : CoreLooks(w) \/ CoreIdles(w)

Spec == Init /\ [][Next]_vars

(* Threads and handlers go on; a read returns once it was interrupted.     *)
Fairness ==
  /\ WF_vars(Handler)
  /\ \A t \in Threads : WF_vars(ThreadStep(t)) /\ WF_vars(tOf[t] \notin running /\ Read(t))

FairSpec == Spec /\ Fairness

-----------------------------------------------------------------------------
(* The only way not to return: the caller that joins the thread holds the  *)
(* lock this thread is waiting for (StopsCleanly, in Core).                *)
Deadlocked == step = "join" /\ thread[inst] \in Threads /\ tpc[thread[inst]] = "lock"

(* input_cur_running, on which the core's state hangs, is the number of    *)
(* running inputs whenever nobody is in the handler.  The core is running  *)
(* only with some, and with some it is running, except when a processing   *)
(* thread that had seen it finishing set it to idle after the start.       *)
CountMatches ==
  lock = NoOne =>
    /\ cur = Cardinality(running)
    /\ state = "running" => running # {}
    /\ running # {} => state = "running" \/ overtaken

(* What the user sees is what is: after refused starts and self-stops too, *)
(* the parameter says whether the input has its RUNNING flag.              *)
ParamTrue == lock = NoOne => param = running

(* "When using non-live input, only one input can be started at once".     *)
NonLiveAlone == \A i \in running \ Live : running = {i}

(* BUSY: "either it's starting or it's stopping", "and cannot be changed   *)
(* yet".  An input is not started while its last thread is still stopping. *)
OneThread == \A i \in Inputs : Cardinality(Alive(i)) <= 1

(* Whoever calls the handler returns and gives the registry lock back.     *)
HandlerReturns == lock # NoOne ~> lock = NoOne \/ Deadlocked
=============================================================================
