---------------------------- MODULE InputProofs ----------------------------
(***************************************************************************)
(* Proofs about Input, for every set of inputs and threads.                *)
(*                                                                         *)
(* A non-live input runs alone whatever users do.  That input_cur_running  *)
(* counts the running inputs, that the core runs as long as there are      *)
(* some, and that the parameter tells the truth, needs patient users: the  *)
(* last step of an old thread would clear the flag of a new run.           *)
(***************************************************************************)
EXTENDS Input, FiniteSetTheorems, TLAPS

(* The types, and what the handler's caller and the threads work on.       *)
LockTypes ==
  /\ lock \in Threads \cup {User, NoOne}
  /\ step \in Steps /\ (step = "none" <=> lock = NoOne)
  /\ inst \in Inputs \cup {NoOne} /\ (step # "none" => inst \in Inputs)
  /\ removing \in BOOLEAN
SetTypes ==
  /\ {busy, running, param, opened, freed} \subseteq SUBSET Inputs
  /\ cur \in Int
  /\ state \in {"idle", "running", "finishing"}
ThreadTypes ==
  /\ thread \in [Inputs -> Threads \cup {NoOne}]
  /\ tpc \in [Threads -> Places]
  /\ tOf \in [Threads -> Inputs \cup {NoOne}]
  /\ \A t \in Threads : tpc[t] # "new" => tOf[t] \in Inputs
  /\ lock \in Threads => tpc[lock] = "handler"
TypeInv == LockTypes /\ SetTypes /\ ThreadTypes

LEMMA TypeInit == Init => TypeInv
  <1> SUFFICES ASSUME Init PROVE TypeInv
    OBVIOUS
  <1>1. LockTypes
    BY DEF Init, LockTypes, Steps
  <1>2. SetTypes
    BY DEF Init, SetTypes
  <1>3. ThreadTypes
    BY InputAssumption DEF InputAssumption, Init, ThreadTypes, Places
  <1> QED  BY <1>1, <1>2, <1>3 DEF TypeInv

LEMMA TypeStop ==
  ASSUME TypeInv, NEW c \in Threads \cup {User}, NEW i \in Inputs, Stop(c, i),
         removing' \in BOOLEAN,
         \/ c = User /\ tpc' = tpc
         \/ c \in Threads /\ tpc[c] = "lock" /\ tpc' = [tpc EXCEPT ![c] = "handler"]
  PROVE  TypeInv'
  <1>1. LockTypes'
    BY InputAssumption DEF InputAssumption, TypeInv, LockTypes, Stop, Enter, Steps
  <1>2. SetTypes'
    BY DEF TypeInv, SetTypes, Stop, Enter
  <1>3. ThreadTypes'
    BY InputAssumption DEF InputAssumption, TypeInv, LockTypes, ThreadTypes, Places, Stop,
       Enter, threadVars
  <1> QED  BY <1>1, <1>2, <1>3 DEF TypeInv

LEMMA TypeUsers ==
  ASSUME TypeInv, NEW i \in Inputs, Start(i) \/ UserStop(i) \/ InstanceRemove(i)
  PROVE  TypeInv'
  <1>1. CASE Start(i)
    <2>1. LockTypes'
      BY <1>1, InputAssumption DEF InputAssumption, TypeInv, LockTypes, Start, Enter, Steps
    <2>2. SetTypes'
      BY <1>1 DEF TypeInv, SetTypes, Start, Enter
    <2>3. ThreadTypes'
      BY <1>1, InputAssumption DEF InputAssumption, TypeInv, LockTypes, ThreadTypes, Start,
         Enter, threadVars
    <2> QED  BY <2>1, <2>2, <2>3 DEF TypeInv
  <1>2. CASE UserStop(i)
    BY <1>2, TypeStop DEF UserStop
  <1>3. CASE InstanceRemove(i)
    <2>1. CASE Stop(User, i) /\ removing' = TRUE /\ UNCHANGED tpc
      BY <2>1, TypeStop
    <2>2. CASE lock = NoOne /\ freed' = freed \cup {i}
               /\ UNCHANGED <<handlerVars, running, opened, threadVars, tpc>>
      BY <2>2 DEF TypeInv, LockTypes, SetTypes, ThreadTypes, handlerVars, threadVars
    <2> QED  BY <1>3, <2>1, <2>2 DEF InstanceRemove
  <1> QED  BY <1>1, <1>2, <1>3

LEMMA TypeHandler ==
  ASSUME TypeInv, Handler
  PROVE  TypeInv'
  <1>1. CASE Open \/ SetFlag \/ Join
    BY <1>1 DEF TypeInv, LockTypes, SetTypes, ThreadTypes, Steps, Open, SetFlag, Join,
       threadVars
  <1>2. CASE OpenFails \/ CountStart
    <2>1. LockTypes'
      BY <1>2, InputAssumption DEF InputAssumption, TypeInv, LockTypes, OpenFails, Refuse,
         CountStart, Leave, Steps
    <2>2. SetTypes'
      BY <1>2 DEF TypeInv, SetTypes, OpenFails, Refuse, CountStart, Leave
    <2>3. ThreadTypes'
      BY <1>2, InputAssumption DEF InputAssumption, TypeInv, ThreadTypes, OpenFails, Refuse,
         CountStart, Leave, threadVars
    <2> QED  BY <2>1, <2>2, <2>3 DEF TypeInv
  <1>3. CASE CountStop
    <2>1. LockTypes'
      BY <1>3 DEF TypeInv, LockTypes, CountStop, Leave, Steps
    <2>2. SetTypes'
      BY <1>3 DEF TypeInv, LockTypes, SetTypes, CountStop, Leave, Finishing
    <2>3. ThreadTypes'
      <3>1. \/ lock = User
            \/ lock \in Threads /\ tpc[lock] = "handler"
        BY <1>3 DEF TypeInv, LockTypes, ThreadTypes, CountStop
      <3>2. \/ tpc' = tpc
            \/ lock \in Threads /\ tOf[lock] \in Inputs /\ tpc' = [tpc EXCEPT ![lock] = "loop"]
        BY <1>3, <3>1 DEF TypeInv, ThreadTypes, CountStop
      <3>3. lock' = NoOne /\ UNCHANGED threadVars
        BY <1>3 DEF CountStop, Leave
      <3> QED  BY <3>2, <3>3, InputAssumption
                  DEF InputAssumption, TypeInv, ThreadTypes, threadVars, Places
    <2> QED  BY <2>1, <2>2, <2>3 DEF TypeInv
  <1>4. ASSUME NEW t \in Threads, Create(t) PROVE TypeInv'
    <2>1. LockTypes' /\ SetTypes'
      BY <1>4 DEF TypeInv, LockTypes, SetTypes, Create, Steps
    <2>2. ThreadTypes'
      BY <1>4 DEF TypeInv, LockTypes, ThreadTypes, Create, Places
    <2> QED  BY <2>1, <2>2 DEF TypeInv
  <1> QED  BY <1>1, <1>2, <1>3, <1>4 DEF Handler

LEMMA TypeThread ==
  ASSUME TypeInv, NEW t \in Threads, ThreadStep(t) \/ Read(t)
  PROVE  TypeInv'
  <1>1. CASE TestFlag(t) \/ AskStop(t) \/ Read(t)
    <2>1. tpc[t] \notin {"new", "handler"}
          /\ \E to \in Places \ {"new"} : tpc' = [tpc EXCEPT ![t] = to]
      BY <1>1 DEF TestFlag, AskStop, Read, TMove, Places
    <2> QED  BY <1>1, <2>1 DEF TypeInv, LockTypes, SetTypes, ThreadTypes, TestFlag, AskStop,
                Read, handlerVars, threadVars
  <1>2. CASE SelfStop(t)
    <2>1. tpc[t] = "lock" /\ tOf[t] \in Inputs
      BY <1>2 DEF TypeInv, ThreadTypes, SelfStop, TMove
    <2>2. CASE tOf[t] \in running
      BY <1>2, <2>1, <2>2, TypeStop DEF SelfStop, TMove, TypeInv, LockTypes
    <2>3. CASE tOf[t] \notin running
      BY <1>2, <2>1, <2>3, InputAssumption DEF InputAssumption, TypeInv, LockTypes, SetTypes,
         ThreadTypes, SelfStop, TMove, Places, handlerVars, threadVars
    <2> QED  BY <2>2, <2>3
  <1>3. CASE Close(t) \/ ClearFlag(t)
    <2>1. tpc[t] \notin {"new", "handler"} /\ tOf[t] \in Inputs
      BY <1>3 DEF TypeInv, ThreadTypes, Close, ClearFlag, TMove
    <2>2. LockTypes'
      BY <1>3 DEF TypeInv, LockTypes, Close, ClearFlag, handlerVars
    <2>3. SetTypes'
      BY <1>3, <2>1 DEF TypeInv, SetTypes, Close, ClearFlag, handlerVars
    <2>4. ThreadTypes'
      BY <1>3, <2>1 DEF TypeInv, ThreadTypes, Close, ClearFlag, TMove, Places, handlerVars,
         threadVars
    <2> QED  BY <2>2, <2>3, <2>4 DEF TypeInv
  <1> QED  BY <1>1, <1>2, <1>3 DEF ThreadStep

LEMMA TypeNext ==
  ASSUME TypeInv, [Next]_vars
  PROVE  TypeInv'
  <1>1. ASSUME NEW w \in Lookers, CoreLooks(w) \/ CoreIdles(w) PROVE TypeInv'
    BY <1>1 DEF TypeInv, LockTypes, SetTypes, ThreadTypes, CoreLooks, CoreIdles, handlerVars,
       threadVars
  <1>2. CASE UNCHANGED vars
    BY <1>2 DEF TypeInv, LockTypes, SetTypes, ThreadTypes, vars, handlerVars, threadVars
  <1> QED  BY <1>1, <1>2, TypeUsers, TypeHandler, TypeThread DEF Next

LEMMA TypeInvariance == Spec => []TypeInv
  BY TypeInit, TypeNext, PTL DEF Spec

-----------------------------------------------------------------------------
(***************************************************************************)
(* A non-live input runs alone: nothing can start between the test and the *)
(* flag, because the handler keeps the registry lock.                      *)
(***************************************************************************)
AloneInv ==
  /\ NonLiveAlone
  /\ step \in {"open", "flag"} => inst \notin running /\ AloneOrLive(inst)

LEMMA AloneNext ==
  ASSUME TypeInv, AloneInv, [Next]_vars
  PROVE  AloneInv'
  <1>1. ASSUME NEW i \in Inputs, Start(i) PROVE AloneInv'
    BY <1>1 DEF AloneInv, NonLiveAlone, AloneOrLive, Start, Enter
  <1>2. CASE SetFlag
    <2>1. running' = running \cup {inst} /\ step' = "create"
      BY <1>2 DEF SetFlag
    <2>2. inst \notin running /\ AloneOrLive(inst) /\ NonLiveAlone
      BY <1>2 DEF SetFlag, AloneInv
    <2> QED  BY <2>1, <2>2 DEF AloneInv, NonLiveAlone, AloneOrLive
  <1>3. ASSUME running' \subseteq running,
               step' \in {"open", "flag"} => step \in {"open", "flag"} /\ inst' = inst
        PROVE  AloneInv'
    BY <1>3 DEF AloneInv, NonLiveAlone, AloneOrLive
  <1>4. ASSUME NEW i \in Inputs, UserStop(i) \/ InstanceRemove(i)
        PROVE  AloneInv'
    <2>1. CASE Stop(User, i)
      BY <1>3, <2>1 DEF Stop, Enter
    <2>2. CASE UNCHANGED <<handlerVars, running>>
      BY <1>3, <2>2 DEF handlerVars
    <2> QED  BY <1>4, <2>1, <2>2 DEF UserStop, InstanceRemove
  <1>5. ASSUME NEW t \in Threads, Create(t) PROVE AloneInv'
    BY <1>3, <1>5 DEF Create
  <1>6. CASE Open \/ OpenFails \/ CountStart \/ Join \/ CountStop
    <2>1. CASE Open
      BY <1>3, <2>1 DEF Open
    <2>2. CASE OpenFails \/ CountStart \/ CountStop
      BY <1>3, <2>2 DEF OpenFails, Refuse, CountStart, CountStop, Leave
    <2>3. CASE Join
      BY <1>3, <2>3 DEF Join
    <2> QED  BY <1>6, <2>1, <2>2, <2>3
  <1>7. ASSUME NEW t \in Threads, ThreadStep(t) \/ Read(t) PROVE AloneInv'
    <2>1. CASE Stop(t, tOf[t])
      BY <1>3, <2>1 DEF Stop, Enter
    <2>2. CASE UNCHANGED handlerVars /\ running' \subseteq running
      BY <1>3, <2>2 DEF handlerVars
    <2> QED  BY <1>7, <2>1, <2>2 DEF ThreadStep, TestFlag, AskStop, SelfStop, Close, ClearFlag,
                Read
  <1>8. ASSUME NEW w \in Lookers, CoreLooks(w) \/ CoreIdles(w) PROVE AloneInv'
    BY <1>3, <1>8 DEF CoreLooks, CoreIdles, handlerVars
  <1>9. CASE UNCHANGED vars
    BY <1>3, <1>9 DEF vars, handlerVars
  <1> QED  BY <1>1, <1>2, <1>4, <1>5, <1>6, <1>7, <1>8, <1>9 DEF Next, Handler

(* However users and inputs interleave, a capture file is read alone.      *)
THEOREM NonLiveRunsAlone == Spec => []NonLiveAlone
  <1>1. Init => AloneInv
    BY DEF Init, AloneInv, NonLiveAlone
  <1>2. AloneInv => NonLiveAlone
    BY DEF AloneInv
  <1> QED  BY <1>1, <1>2, TypeInvariance, AloneNext, PTL DEF Spec

-----------------------------------------------------------------------------
(***************************************************************************)
(* With patient users an input is started when its old thread has ended,   *)
(* so that a thread about to close finds the flag clear, and leaves it so. *)
(***************************************************************************)
StartInv ==
  /\ step \in {"open", "flag", "create"} => \A t \in Threads : tOf[t] = inst => tpc[t] = "dead"
  /\ step \in {"open", "flag", "join", "uncount"} => inst \notin running
  /\ step \in {"create", "count"} => inst \in running
  /\ \A t \in Threads : tpc[t] \in {"close", "clear"} => tOf[t] \notin running

LEMMA StartStop ==
  ASSUME TypeInv, StartInv, NEW c, NEW i \in Inputs, Stop(c, i),
         \A t \in Threads : tpc'[t] \in {"close", "clear"} => tpc[t] \in {"close", "clear"}
  PROVE  StartInv'
  BY DEF StartInv, Stop, Enter, threadVars

LEMMA StartHandler ==
  ASSUME TypeInv, StartInv, Handler
  PROVE  StartInv'
  <1>1. CASE Open \/ SetFlag \/ Join
    BY <1>1 DEF StartInv, Open, SetFlag, Join, threadVars
  <1>2. CASE OpenFails \/ CountStart
    BY <1>2 DEF StartInv, OpenFails, Refuse, CountStart, Leave, threadVars
  <1>3. CASE CountStop
    <2>1. \A t \in Threads : tpc'[t] \in {"close", "clear"} => tpc[t] \in {"close", "clear"}
      BY <1>3 DEF TypeInv, ThreadTypes, CountStop
    <2> QED  BY <1>3, <2>1 DEF StartInv, CountStop, Leave, threadVars
  <1>4. ASSUME NEW t \in Threads, Create(t) PROVE StartInv'
    BY <1>4 DEF TypeInv, ThreadTypes, StartInv, Create
  <1> QED  BY <1>1, <1>2, <1>3, <1>4 DEF Handler

LEMMA StartNext ==
  ASSUME Patient, TypeInv, StartInv, [Next]_vars
  PROVE  StartInv'
  <1>1. ASSUME NEW i \in Inputs, Start(i) PROVE StartInv'
    BY <1>1 DEF StartInv, Start, MayTouch, Alive, Enter, threadVars
  <1>2. ASSUME NEW i \in Inputs, UserStop(i) \/ InstanceRemove(i) PROVE StartInv'
    <2>1. CASE UNCHANGED <<handlerVars, running, threadVars, tpc>>
      BY <2>1 DEF StartInv, handlerVars, threadVars
    <2> QED  BY <1>2, <2>1, StartStop DEF UserStop, InstanceRemove
  <1>3. ASSUME NEW t \in Threads, TestFlag(t) \/ AskStop(t) \/ Read(t)
        PROVE  StartInv'
    <2>1. /\ tpc[t] # "dead" /\ UNCHANGED <<step, inst, running, tOf>>
          /\ \A u \in Threads \ {t} : tpc'[u] = tpc[u]
          /\ tpc'[t] \in {"close", "clear"} => tOf[t] \notin running
      BY <1>3 DEF TypeInv, ThreadTypes, TestFlag, AskStop, Read, TMove, Reads, handlerVars,
         threadVars
    <2> QED  BY <2>1 DEF StartInv
  <1>4. ASSUME NEW t \in Threads, SelfStop(t) PROVE StartInv'
    <2>1. /\ tpc[t] = "lock" /\ tOf[t] \in Inputs
          /\ \/ tpc' = [tpc EXCEPT ![t] = "handler"]
             \/ tpc' = [tpc EXCEPT ![t] = "loop"]
      BY <1>4 DEF TypeInv, ThreadTypes, SelfStop, TMove
    <2>2. \A u \in Threads : tpc'[u] \in {"close", "clear"} => tpc[u] \in {"close", "clear"}
      BY <2>1 DEF TypeInv, ThreadTypes
    <2>3. CASE Stop(t, tOf[t])
      BY <2>1, <2>2, <2>3, StartStop
    <2>4. CASE UNCHANGED <<handlerVars, running, threadVars>>
      <3>1. \A u \in Threads : tpc[u] = "dead" => tpc'[u] = "dead"
        BY <2>1 DEF TypeInv, ThreadTypes
      <3> QED  BY <2>2, <2>4, <3>1 DEF StartInv, handlerVars, threadVars
    <2> QED  BY <1>4, <2>3, <2>4 DEF SelfStop
  <1>5. ASSUME NEW t \in Threads, Close(t) \/ ClearFlag(t) PROVE StartInv'
    <2>1. /\ tpc[t] \in {"close", "clear"} /\ tpc' \in [Threads -> Places]
          /\ \A u \in Threads \ {t} : tpc'[u] = tpc[u]
          /\ UNCHANGED <<step, inst, tOf>>
      BY <1>5 DEF TypeInv, ThreadTypes, Close, ClearFlag, TMove, Places, handlerVars, threadVars
    <2>2. tOf[t] \notin running /\ running' = running
      <3>1. tOf[t] \notin running
        BY <2>1 DEF StartInv
      <3>2. running' = running \/ running' = running \ {tOf[t]}
        BY <1>5 DEF Close, ClearFlag
      <3> QED  BY <3>1, <3>2
    <2> QED  BY <2>1, <2>2 DEF StartInv
  <1>6. ASSUME NEW w \in Lookers, CoreLooks(w) \/ CoreIdles(w) PROVE StartInv'
    BY <1>6 DEF StartInv, CoreLooks, CoreIdles, handlerVars, threadVars
  <1>7. CASE UNCHANGED vars
    BY <1>7 DEF StartInv, vars, handlerVars, threadVars
  <1> QED  BY <1>1, <1>2, <1>3, <1>4, <1>5, <1>6, <1>7, StartHandler DEF Next, ThreadStep

-----------------------------------------------------------------------------
(***************************************************************************)
(* The inputs that input_cur_running counts: a started one from the end of *)
(* its start, a stopped one until its thread was joined.                   *)
(***************************************************************************)
Counted ==
  IF step \in {"create", "count"} THEN running \ {inst}
  ELSE IF step \in {"join", "uncount"} THEN running \cup {inst}
  ELSE running

CountInv ==
  /\ cur = Cardinality(Counted)
  /\ state = "running" => Counted # {}
  /\ Counted # {} => state = "running" \/ overtaken

LEMMA CountedFinite ==
  ASSUME TypeInv
  PROVE  IsFiniteSet(Counted) /\ Counted \subseteq Inputs
  <1>1. Counted \subseteq Inputs
    BY DEF TypeInv, LockTypes, SetTypes, Counted
  <1> QED  BY <1>1, InputAssumption, FS_Subset DEF InputAssumption

LEMMA CountKept ==
  ASSUME CountInv, UNCHANGED <<Counted, cur, state, overtaken>>
  PROVE  CountInv'
  BY DEF CountInv

LEMMA CountNext ==
  ASSUME Patient, TypeInv, StartInv, StartInv', CountInv, [Next]_vars
  PROVE  CountInv'
  <1>1. CASE CountStart
    <2>1. /\ Counted = running \ {inst} /\ Counted' = running /\ inst \in running
          /\ cur' = cur + 1 /\ state' = IF cur' # 0 THEN "running" ELSE state
      BY <1>1 DEF CountStart, Leave, Counted, StartInv
    <2>2. Cardinality(running) = Cardinality(Counted) + 1 /\ Cardinality(Counted) \in Nat
      <3>1. Counted \cup {inst} = running /\ inst \notin Counted
        BY <2>1
      <3> QED  BY <3>1, CountedFinite, FS_AddElement, FS_CardinalityType
    <2>3. cur' = Cardinality(running) /\ cur' # 0
      BY <2>1, <2>2 DEF CountInv
    <2>4. state' = "running" /\ Counted' # {}
      BY <2>1, <2>3
    <2>5. cur' = Cardinality(Counted')
      BY <2>1, <2>3
    <2> QED  BY <2>4, <2>5 DEF CountInv
  <1>2. CASE CountStop
    <2>1. /\ Counted = running \cup {inst} /\ Counted' = running /\ inst \notin running
          /\ cur' = cur - 1 /\ state' = IF cur' = 0 THEN Finishing ELSE state
      BY <1>2 DEF CountStop, Leave, Counted, StartInv
    <2>2. Cardinality(Counted) = Cardinality(running) + 1 /\ Cardinality(running) \in Nat
          /\ (Cardinality(running) = 0 <=> running = {})
      <3>1. IsFiniteSet(running)
        BY <2>1, CountedFinite, FS_Subset
      <3> QED  BY <2>1, <3>1, FS_AddElement, FS_CardinalityType, FS_EmptySet
    <2>3. Counted # {} /\ cur = Cardinality(Counted) /\ (state = "running" \/ overtaken)
      BY <2>1 DEF CountInv
    <2>4. cur' = Cardinality(running)
      BY <2>1, <2>2, <2>3
    <2>5. state' = "running" => running # {}
      BY <2>1, <2>2, <2>4 DEF Finishing
    <2>6. running # {} => state' = "running" \/ overtaken'
      <3>1. overtaken' = overtaken
        BY <1>2 DEF CountStop, coreVars
      <3>2. running # {} => state' = state
        BY <2>1, <2>2, <2>4
      <3> QED  BY <2>3, <3>1, <3>2
    <2> QED  BY <2>1, <2>4, <2>5, <2>6 DEF CountInv
  <1>3. ASSUME NEW i \in Inputs, Start(i) PROVE CountInv'
    BY <1>3, CountKept DEF Start, Enter, Counted, TypeInv, LockTypes, coreVars
  <1>4. ASSUME NEW c, NEW i \in Inputs, Stop(c, i) PROVE CountInv'
    <2>1. Counted = running /\ i \in running
      BY <1>4 DEF Stop, Enter, Counted, TypeInv, LockTypes
    <2>2. Counted' = (running \ {i}) \cup {i}
      BY <1>4 DEF Stop, Enter, Counted
    <2> QED  BY <1>4, <2>1, <2>2, CountKept DEF Stop, coreVars
  <1>5. CASE Open \/ Join \/ OpenFails
    BY <1>5, CountKept DEF Open, Join, OpenFails, Refuse, Leave, Counted, coreVars
  <1>6. CASE SetFlag
    BY <1>6, CountKept DEF SetFlag, Counted, StartInv, coreVars
  <1>7. ASSUME NEW t \in Threads, Create(t) PROVE CountInv'
    BY <1>7, CountKept DEF Create, Counted, coreVars
  <1>8. ASSUME UNCHANGED <<step, inst, running, cur, state, overtaken>> PROVE CountInv'
    BY <1>8, CountKept DEF Counted
  <1>9. ASSUME NEW t \in Threads, ClearFlag(t) PROVE CountInv'
    <2>1. running' = running
      BY <1>9 DEF ClearFlag, TMove, StartInv
    <2> QED  BY <1>8, <1>9, <2>1 DEF ClearFlag, handlerVars, coreVars
  <1>10. ASSUME NEW t \in Threads, ThreadStep(t) \/ Read(t) PROVE CountInv'
    <2>1. CASE SelfStop(t)
      <3>1. tOf[t] \in Inputs
        BY <2>1 DEF TypeInv, ThreadTypes, SelfStop, TMove
      <3> QED  BY <1>4, <1>8, <2>1, <3>1 DEF SelfStop, handlerVars, coreVars
    <2>2. CASE TestFlag(t) \/ AskStop(t) \/ Close(t) \/ Read(t)
      BY <1>8, <2>2 DEF TestFlag, AskStop, Close, Read, handlerVars, coreVars
    <2> QED  BY <1>9, <1>10, <2>1, <2>2 DEF ThreadStep
  <1>11. ASSUME NEW w \in Lookers, CoreIdles(w) PROVE CountInv'
    <2>1. UNCHANGED <<Counted, cur>> /\ state' = "idle"
      BY <1>11 DEF CoreIdles, Counted
    <2>2. (state = "running" \/ overtaken) => overtaken'
      <3>1. overtaken' = (overtaken \/ state = "running")
        BY <1>11 DEF CoreIdles
      <3> QED  BY <3>1, Zenon
    <2> QED  BY <2>1, <2>2 DEF CountInv
  <1>12. ASSUME NEW i \in Inputs, UserStop(i) \/ InstanceRemove(i) PROVE CountInv'
    BY <1>4, <1>8, <1>12 DEF UserStop, InstanceRemove, handlerVars, coreVars
  <1>13. ASSUME NEW w \in Lookers, CoreLooks(w) PROVE CountInv'
    BY <1>8, <1>13 DEF CoreLooks, handlerVars
  <1>14. CASE UNCHANGED vars
    BY <1>8, <1>14 DEF vars, handlerVars, coreVars
  <1> QED  BY <1>1, <1>2, <1>3, <1>5, <1>6, <1>7, <1>10, <1>11, <1>12, <1>13, <1>14
           DEF Next, Handler

(* When users wait for an input's thread to end before they start it       *)
(* again, the counter and the core's state follow the running inputs, with *)
(* one exception for the state: a start that overtook the processing       *)
(* thread that was about to set the core idle.                             *)
THEOREM CountCorrect ==
  ASSUME Patient
  PROVE  Spec => []CountMatches
  <1>1. Init => StartInv /\ CountInv
    BY FS_EmptySet DEF Init, StartInv, CountInv, Counted
  <1>2. StartInv /\ CountInv /\ TypeInv /\ [Next]_vars => (StartInv /\ CountInv)'
    BY StartNext, CountNext
  <1>3. TypeInv /\ CountInv => CountMatches
    BY DEF TypeInv, LockTypes, CountInv, CountMatches, Counted
  <1> QED  BY <1>1, <1>2, <1>3, TypeInvariance, PTL DEF Spec

-----------------------------------------------------------------------------
(***************************************************************************)
(* The parameter runs ahead of the flag while an input is being opened.    *)
(***************************************************************************)
ParamInv == param = IF step \in {"open", "flag"} THEN running \cup {inst} ELSE running

LEMMA ParamNext ==
  ASSUME Patient, TypeInv, StartInv, ParamInv, [Next]_vars
  PROVE  ParamInv'
  <1>1. ASSUME UNCHANGED <<step, inst, param, running>> PROVE ParamInv'
    BY <1>1 DEF ParamInv
  <1>2. ASSUME NEW i \in Inputs, Start(i) PROVE ParamInv'
    BY <1>2 DEF ParamInv, Start, Enter, TypeInv, LockTypes
  <1>3. ASSUME NEW c, NEW i \in Inputs, Stop(c, i) PROVE ParamInv'
    BY <1>3 DEF ParamInv, Stop, Enter, TypeInv, LockTypes
  <1>4. CASE Open \/ SetFlag \/ Join
    BY <1>4 DEF ParamInv, Open, SetFlag, Join
  <1>5. CASE OpenFails
    BY <1>5 DEF ParamInv, OpenFails, Refuse, Leave, StartInv
  <1>6. CASE CountStart \/ CountStop
    BY <1>6 DEF ParamInv, CountStart, CountStop, Leave
  <1>7. ASSUME NEW t \in Threads, Create(t) PROVE ParamInv'
    BY <1>7 DEF ParamInv, Create
  <1>8. ASSUME NEW i \in Inputs, UserStop(i) \/ InstanceRemove(i) PROVE ParamInv'
    BY <1>1, <1>3, <1>8 DEF UserStop, InstanceRemove, handlerVars
  <1>9. ASSUME NEW t \in Threads, ThreadStep(t) \/ Read(t) PROVE ParamInv'
    <2>1. CASE SelfStop(t)
      <3>1. tOf[t] \in Inputs
        BY <2>1 DEF TypeInv, ThreadTypes, SelfStop, TMove
      <3> QED  BY <1>1, <1>3, <2>1, <3>1 DEF SelfStop, handlerVars
    <2>2. CASE ClearFlag(t)
      <3>1. running' = running
        BY <2>2 DEF ClearFlag, TMove, StartInv
      <3> QED  BY <1>1, <2>2, <3>1 DEF ClearFlag, handlerVars
    <2>3. CASE TestFlag(t) \/ AskStop(t) \/ Close(t) \/ Read(t)
      BY <1>1, <2>3 DEF TestFlag, AskStop, Close, Read, handlerVars
    <2> QED  BY <1>9, <2>1, <2>2, <2>3 DEF ThreadStep
  <1>10. ASSUME NEW w \in Lookers, CoreLooks(w) \/ CoreIdles(w) PROVE ParamInv'
    BY <1>1, <1>10 DEF CoreLooks, CoreIdles, handlerVars
  <1>11. CASE UNCHANGED vars
    BY <1>1, <1>11 DEF vars, handlerVars
  <1> QED  BY <1>2, <1>4, <1>5, <1>6, <1>7, <1>8, <1>9, <1>10, <1>11 DEF Next, Handler

(* The parameter tells the user whether the input is running: after a      *)
(* refused start, a stop by the user and one by the input itself.          *)
THEOREM ParamCorrect ==
  ASSUME Patient
  PROVE  Spec => []ParamTrue
  <1>1. Init => StartInv /\ ParamInv
    BY DEF Init, StartInv, ParamInv
  <1>2. StartInv /\ ParamInv /\ TypeInv /\ [Next]_vars => (StartInv /\ ParamInv)'
    BY StartNext, ParamNext
  <1>3. TypeInv /\ ParamInv => ParamTrue
    BY DEF TypeInv, LockTypes, ParamInv, ParamTrue
  <1> QED  BY <1>1, <1>2, <1>3, TypeInvariance, PTL DEF Spec
=============================================================================
