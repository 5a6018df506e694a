---------------------------- MODULE TablesProofs ----------------------------
(***************************************************************************)
(* Proofs about the registry and the configurations it saves (Registry),   *)
(* about the sessions of the web monitor and what they listen to (Monitor),*)
(* and about the connections and the datasets of a datastore (Datastore).  *)
(* The modules share no variable: each has its own invariant, in a section *)
(* of its own.                                                             *)
(***************************************************************************)
EXTENDS Registry, Monitor, Datastore, ListsProofs

-----------------------------------------------------------------------------
(* Configurations (Registry).                                              *)
Views == [outs : SUBSET (Outputs \X Values), fixed : Values \cup {NoConfig}]
ConfRows == [outs : Seq(Outputs), params : SUBSET (Outputs \X Values),
             fixed : SUBSET Values, view : Views, gone : BOOLEAN]
Loads == [done : BOOLEAN, gone : BOOLEAN, view : Views]

RegTypeOK ==
  /\ insts \in Seq(Outputs) /\ outParam \in [Outputs -> Values]
  /\ outRunning \in [Outputs -> BOOLEAN] /\ fixedParam \in Values
  /\ regHolder \in RegUsers \cup {NoUser} /\ dbWriter \in RegUsers \cup {NoUser}
  /\ listed \in [Configs -> 0 .. MaxSaves] /\ rowsOf \in [1 .. MaxSaves -> ConfRows]
  /\ lastId \in 0 .. MaxSaves
  /\ uPc \in [RegUsers -> {"away", "saving", "saved", "loading", "deleting", "delisting"}]
  /\ uConf \in [RegUsers -> Configs \cup {NoConfig}] /\ uId \in [RegUsers -> 0 .. MaxSaves]
  /\ uRows \in [RegUsers -> ConfRows]
  /\ expected \in Loads

(* One thread saves, with the database locked; one deletes, with the       *)
(* registry locked.  Each of them has a configuration and an id.           *)
RegLocked == \A u \in RegUsers :
  /\ uPc[u] \in {"saving", "saved"} <=> dbWriter = u
  /\ uPc[u] \in {"deleting", "delisting"} <=> regHolder = u
  /\ uPc[u] # "away" => uConf[u] \in Configs /\ uId[u] \in 1 .. MaxSaves

(* What a reader of rows shows is what was seen when they were written.    *)
Shown(rows) ==
  [outs |-> {<<o, ParamOf(rows, o)>> : o \in Range(rows.outs)},
   fixed |-> IF rows.fixed # {} THEN CHOOSE v \in rows.fixed : TRUE ELSE Default]

Snapshot(rows) == ~rows.gone /\ rows.view = Shown(rows)
Kept(rows) == rows = DeletedRows \/ Snapshot(rows)

SavedInv ==
  /\ \A c \in Configs : listed[c] # 0 => Kept(rowsOf[listed[c]])
  /\ \A u \in RegUsers : /\ uPc[u] \in {"loading", "deleting", "delisting"} => Kept(rowsOf[uId[u]])
                         /\ uPc[u] = "saved" => Snapshot(uRows[u])

RegInv == RegTypeOK /\ RegLocked /\ SavedInv /\ LoadRestores

LEMMA NoRowsSaved ==
  /\ NoRows \in ConfRows /\ DeletedRows \in ConfRows /\ Kept(DeletedRows)
  /\ NoView \in Views /\ NoLoad \in Loads
  <1>1. NoView \in Views
    BY DEF NoView, Views
  <1>2. <<>> \in Seq(Outputs)
    OBVIOUS
  <1>3. NoRows \in ConfRows
    BY <1>1, <1>2 DEF NoRows, ConfRows
  <1>4. DeletedRows \in ConfRows
    BY <1>3 DEF DeletedRows, ConfRows
  <1>5. NoLoad \in Loads
    BY <1>1 DEF NoLoad, Loads
  <1> QED  BY <1>1, <1>3, <1>4, <1>5 DEF Kept

LEMMA RegistryInitial == RegistryInit => RegInv
  <1> SUFFICES ASSUME RegistryInit PROVE RegInv
    OBVIOUS
  <1>1. insts \in Seq(Outputs) /\ rowsOf \in [1 .. MaxSaves -> ConfRows]
        /\ uRows \in [RegUsers -> ConfRows] /\ expected \in Loads
    BY NoRowsSaved DEF RegistryInit
  <1>2. outParam \in [Outputs -> Values] /\ fixedParam \in Values
        /\ outRunning \in [Outputs -> BOOLEAN]
    BY RegistryAssumption DEF RegistryInit
  <1>3. 0 \in 0 .. MaxSaves
    BY RegistryAssumption
  <1>4. RegTypeOK
    BY <1>1, <1>2, <1>3 DEF RegistryInit, RegTypeOK
  <1>5. RegLocked
    BY RegistryAssumption DEF RegistryInit, RegLocked
  <1>6. SavedInv
    BY NoRowsSaved DEF RegistryInit, SavedInv
  <1>7. LoadRestores
    BY DEF RegistryInit, LoadRestores, NoLoad
  <1> QED  BY <1>4, <1>5, <1>6, <1>7 DEF RegInv

(* Changes by a user leave no load behind that they have to agree with.    *)
LEMMA ChangeStep ==
  ASSUME RegInv, Change, insts' \in Seq(Outputs), outParam' \in [Outputs -> Values],
         outRunning' \in [Outputs -> BOOLEAN], fixedParam' \in Values
  PROVE  RegInv'
  <1> USE DEF Change, RegInv, dbVars, uVars
  <1>1. RegTypeOK'
    BY NoRowsSaved DEF RegTypeOK
  <1>2. RegLocked'
    BY DEF RegLocked
  <1>3. SavedInv'
    BY DEF SavedInv
  <1>4. LoadRestores'
    BY DEF LoadRestores, NoLoad
  <1> QED  BY <1>1, <1>2, <1>3, <1>4

LEMMA AddInstanceStep ==
  ASSUME RegInv, NEW o \in Outputs, AddInstance(o) PROVE RegInv'
  <1>1. <<o>> \in Seq(Outputs)
    OBVIOUS
  <1>2. insts' \in Seq(Outputs)
    BY <1>1, ConcatProperties DEF AddInstance, RegInv, RegTypeOK
  <1>3. /\ outParam' \in [Outputs -> Values] /\ outRunning' \in [Outputs -> BOOLEAN]
        /\ fixedParam' \in Values
    BY RegistryAssumption DEF AddInstance, RegInv, RegTypeOK
  <1> QED  BY <1>2, <1>3, ChangeStep DEF AddInstance

LEMMA RemoveInstanceStep ==
  ASSUME RegInv, NEW o \in Outputs, RemoveInstance(o) PROVE RegInv'
  <1> DEFINE k == CHOOSE i \in DOMAIN insts : insts[i] = o
  <1>1. k \in DOMAIN insts
    BY DEF RemoveInstance, Range
  <1>2. insts' = RemoveAt(insts, k)
    BY DEF RemoveInstance
  <1>3. insts \in Seq(Outputs)
    BY DEF RegInv, RegTypeOK
  <1> HIDE DEF k
  <1>4. insts' \in Seq(Outputs)
    BY <1>1, <1>2, <1>3, RemovedPlace
  <1>5. /\ outParam' \in [Outputs -> Values] /\ outRunning' \in [Outputs -> BOOLEAN]
        /\ fixedParam' \in Values
    BY RegistryAssumption DEF RemoveInstance, RegInv, RegTypeOK
  <1> QED  BY <1>4, <1>5, ChangeStep DEF RemoveInstance

LEMMA ResetTypes ==
  ASSUME RegTypeOK, NEW failed \in SUBSET Range(insts), Reset(failed)
  PROVE  /\ insts' \in Seq(Outputs) /\ outParam' \in [Outputs -> Values]
         /\ outRunning' \in [Outputs -> BOOLEAN] /\ fixedParam' \in Values
  <1> DEFINE firsts == {i \in DOMAIN insts : insts[i] \in failed}
             k == CHOOSE i \in firsts : \A j \in firsts : i <= j
  <1>1. insts \in Seq(Outputs) /\ DOMAIN insts = 1 .. Len(insts) /\ Len(insts) \in Nat
    BY DEF RegTypeOK
  <1>2. ASSUME firsts # {} PROVE SubSeq(insts, k, Len(insts)) \in Seq(Outputs)
    <2>1. firsts \subseteq Nat
      BY <1>1
    <2>2. \E i \in firsts : \A j \in firsts : i <= j
      BY <1>2, <2>1, LeastNat
    <2>3. k \in DOMAIN insts
      BY <2>2
    <2> HIDE DEF k
    <2>4. \A i \in k .. Len(insts) : insts[i] \in Outputs
      BY <1>1, <2>3
    <2> QED  BY <1>1, <2>3, <2>4, SubSeqProperties
  <1>3. insts' = IF firsts = {} THEN <<>> ELSE SubSeq(insts, k, Len(insts))
    BY DEF Reset
  <1>4. fixedParam' \in {ResetFixed, fixedParam}
    BY DEF Reset
  <1> HIDE DEF firsts, k
  <1>5. insts' \in Seq(Outputs)
    <2>1. <<>> \in Seq(Outputs)
      OBVIOUS
    <2> QED  BY <1>2, <1>3, <2>1
  <1>6. fixedParam' \in Values
    BY <1>4, RegistryAssumption DEF ResetFixed, RegTypeOK
  <1>7. outParam' \in [Outputs -> Values]
    BY RegistryAssumption DEF Reset, RegTypeOK
  <1>8. outRunning' \in [Outputs -> BOOLEAN]
    <2>1. outRunning' = [o \in Outputs |-> outRunning[o] /\ o \in Range(insts')]
      BY DEF Reset
    <2>2. \A o \in Outputs : (outRunning[o] /\ o \in Range(insts')) \in BOOLEAN
      OBVIOUS
    <2> QED  BY <2>1, <2>2
  <1> QED  BY <1>5, <1>6, <1>7, <1>8

LEMMA ConfigResetStep ==
  ASSUME RegInv, NEW failed \in SUBSET Range(insts), ConfigReset(failed) PROVE RegInv'
  BY ResetTypes, ChangeStep DEF ConfigReset, RegInv

LEMMA SetStep ==
  ASSUME RegInv, NEW o \in Outputs, NEW on \in BOOLEAN, NEW v \in Values,
         SetRunning(o, on) \/ SetParam(o, v)
  PROVE  RegInv'
  <1>1. Change
    BY DEF SetRunning, SetParam
  <1>2. /\ insts' \in Seq(Outputs) /\ outParam' \in [Outputs -> Values]
        /\ outRunning' \in [Outputs -> BOOLEAN] /\ fixedParam' \in Values
    BY DEF SetRunning, SetParam, RegInv, RegTypeOK
  <1> QED  BY <1>1, <1>2, ChangeStep

(* What the registry shows is what its rows show.                          *)
LEMMA RowsShow ==
  ASSUME RegTypeOK
  PROVE  Rows \in ConfRows /\ Snapshot(Rows)
  <1> DEFINE rows == Rows
  <1>1. /\ rows.outs = insts /\ rows.view = View /\ rows.fixed = {fixedParam} \ {Default}
        /\ ~rows.gone
        /\ rows.params = {<<o, outParam[o]>> : o \in {x \in Range(insts) : outParam[x] # Default}}
    BY DEF Rows
  <1>2. Range(insts) \subseteq Outputs
    BY DEF RegTypeOK, Range
  <1>3. rows.params \subseteq Outputs \X Values
    BY <1>1, <1>2 DEF RegTypeOK
  <1>4. View \in Views
    <2>1. {<<o, outParam[o]>> : o \in Range(insts)} \subseteq Outputs \X Values
      BY <1>2 DEF RegTypeOK
    <2> QED  BY <2>1 DEF View, Views, RegTypeOK
  <1>5. rows \in ConfRows
    <2>1. {fixedParam} \ {Default} \in SUBSET Values
      BY DEF RegTypeOK
    <2>2. {<<o, outParam[o]>> : o \in {x \in Range(insts) : outParam[x] # Default}}
            \in SUBSET (Outputs \X Values)
      BY <1>1, <1>3
    <2>3. insts \in Seq(Outputs)
      BY DEF RegTypeOK
    <2> QED  BY <1>4, <2>1, <2>2, <2>3 DEF Rows, ConfRows
  <1>6. ASSUME NEW o \in Range(insts) PROVE ParamOf(rows, o) = outParam[o]
    <2>1. CASE outParam[o] = Default
      <3>1. ~ \E p \in rows.params : p[1] = o
        BY <1>1, <2>1
      <3> QED  BY <2>1, <3>1 DEF ParamOf
    <2>2. CASE outParam[o] # Default
      <3>1. <<o, outParam[o]>> \in rows.params
        BY <1>1, <1>6, <2>2
      <3>2. \A p \in rows.params : p[1] = o => p = <<o, outParam[o]>>
        BY <1>1
      <3>3. (CHOOSE p \in rows.params : p[1] = o) = <<o, outParam[o]>>
        BY <3>1, <3>2
      <3>4. \E p \in rows.params : p[1] = o
        BY <3>1
      <3> HIDE DEF rows
      <3>5. ParamOf(rows, o) = (CHOOSE p \in rows.params : p[1] = o)[2]
        BY <3>4 DEF ParamOf
      <3>6. <<o, outParam[o]>>[2] = outParam[o]
        OBVIOUS
      <3> QED  BY <3>3, <3>5, <3>6
    <2> QED  BY <2>1, <2>2
  <1>7. (IF rows.fixed # {} THEN CHOOSE v \in rows.fixed : TRUE ELSE Default) = fixedParam
    BY <1>1
  <1>8. {<<o, ParamOf(rows, o)>> : o \in Range(rows.outs)} = {<<o, outParam[o]>> : o \in Range(insts)}
    BY <1>1, <1>6
  <1>9. Snapshot(rows)
    <2> HIDE DEF rows
    <2> QED  BY <1>1, <1>7, <1>8 DEF Snapshot, Shown, View
  <1> QED  BY <1>5, <1>9

(* A thread that leaves holds nothing that an invariant is about.          *)
LEMMA LeavesTypes ==
  ASSUME RegTypeOK, NEW u \in RegUsers, Leaves(u)
  PROVE  /\ uPc' = [uPc EXCEPT ![u] = "away"] /\ uConf' \in [RegUsers -> Configs \cup {NoConfig}]
         /\ uConf' = [uConf EXCEPT ![u] = NoConfig] /\ uId' = [uId EXCEPT ![u] = 0]
         /\ uPc' \in [RegUsers -> {"away", "saving", "saved", "loading", "deleting", "delisting"}]
         /\ uId' \in [RegUsers -> 0 .. MaxSaves] /\ uRows' \in [RegUsers -> ConfRows]
         /\ uRows' = [uRows EXCEPT ![u] = NoRows]
  <1>1. 0 \in 0 .. MaxSaves
    BY RegistryAssumption
  <1> QED  BY <1>1, NoRowsSaved DEF Leaves, Becomes, RegTypeOK

LEMMA SaveBeginStep ==
  ASSUME RegInv, NEW u \in RegUsers, NEW c \in Configs, SaveBegin(u, c) PROVE RegInv'
  <1> USE DEF SaveBegin, RegInv, registryVars
  <1>1. lastId + 1 \in 1 .. MaxSaves /\ lastId + 1 \in 0 .. MaxSaves
    BY RegistryAssumption DEF RegTypeOK
  <1>2. RegTypeOK'
    BY <1>1 DEF RegTypeOK, Becomes
  <1>3. RegLocked'
    BY <1>1, RegistryAssumption DEF RegTypeOK, RegLocked, Becomes
  <1>4. SavedInv'
    BY DEF RegTypeOK, SavedInv, Becomes
  <1>5. LoadRestores'
    BY DEF LoadRestores, View
  <1> QED  BY <1>2, <1>3, <1>4, <1>5

LEMMA SaveRowsStep == ASSUME RegInv, NEW u \in RegUsers, SaveRows(u) PROVE RegInv'
  <1> USE DEF SaveRows, RegInv, registryVars, dbVars
  <1>1. Rows \in ConfRows /\ Snapshot(Rows)
    BY RowsShow
  <1> DEFINE rows == Rows
  <1>2. uRows' = [uRows EXCEPT ![u] = rows] /\ rows \in ConfRows /\ Snapshot(rows)
    BY <1>1
  <1> HIDE DEF rows
  <1>3. RegTypeOK'
    BY <1>2 DEF RegTypeOK, Becomes
  <1>4. RegLocked'
    BY DEF RegTypeOK, RegLocked, Becomes
  <1>5. SavedInv'
    BY <1>2 DEF RegTypeOK, SavedInv, Becomes
  <1>6. LoadRestores'
    BY DEF LoadRestores, View
  <1> QED  BY <1>3, <1>4, <1>5, <1>6

LEMMA SaveEndStep == ASSUME RegInv, NEW u \in RegUsers, SaveEnd(u) PROVE RegInv'
  <1> USE DEF SaveEnd, RegInv, registryVars
  <1>1. uPc[u] \in {"saving", "saved"} /\ uConf[u] \in Configs /\ uId[u] \in 1 .. MaxSaves
    BY DEF RegLocked
  <1>2. uPc[u] = "saved" => uRows[u] \in ConfRows /\ Snapshot(uRows[u])
    BY DEF RegTypeOK, SavedInv
  <1>3. /\ listed' \in [Configs -> 0 .. MaxSaves] /\ rowsOf' \in [1 .. MaxSaves -> ConfRows]
        /\ \A i \in 1 .. MaxSaves : Kept(rowsOf[i]) => Kept(rowsOf'[i])
        /\ \A c \in Configs : listed'[c] # listed[c] => Kept(rowsOf'[listed'[c]])
    <2>1. CASE UNCHANGED <<listed, rowsOf>>
      BY <2>1 DEF RegTypeOK
    <2>2. CASE /\ uPc[u] = "saved"
               /\ listed' = [listed EXCEPT ![uConf[u]] = uId[u]]
               /\ rowsOf' = [i \in 1 .. MaxSaves |->
                               IF i = uId[u] THEN uRows[u]
                               ELSE IF i = listed[uConf[u]] THEN DeletedRows ELSE rowsOf[i]]
      <3>1. listed' \in [Configs -> 0 .. MaxSaves] /\ rowsOf' \in [1 .. MaxSaves -> ConfRows]
        BY <1>1, <1>2, <2>2, NoRowsSaved DEF RegTypeOK
      <3>2. \A i \in 1 .. MaxSaves : Kept(rowsOf[i]) => Kept(rowsOf'[i])
        BY <1>2, <2>2, NoRowsSaved DEF Kept
      <3>3. \A c \in Configs : listed'[c] # listed[c] => Kept(rowsOf'[listed'[c]])
        BY <1>1, <1>2, <2>2 DEF RegTypeOK, Kept
      <3> QED  BY <3>1, <3>2, <3>3
    <2> QED  BY <2>1, <2>2
  <1>4. /\ dbWriter' = NoUser /\ Leaves(u)
        /\ UNCHANGED <<insts, outParam, outRunning, fixedParam, regHolder, lastId, expected>>
    OBVIOUS
  <1>5. RegTypeOK'
    BY <1>3, <1>4, LeavesTypes DEF RegTypeOK
  <1>6. RegLocked'
    BY <1>1, <1>4, LeavesTypes, RegistryAssumption DEF RegTypeOK, RegLocked
  <1>7. SavedInv'
    <2>1. ASSUME NEW c \in Configs, listed'[c] # 0 PROVE Kept(rowsOf'[listed'[c]])
      BY <1>3, <2>1 DEF RegTypeOK, SavedInv
    <2>2. ASSUME NEW v \in RegUsers, uPc'[v] # "away"
          PROVE  v # u /\ uPc'[v] = uPc[v] /\ uId'[v] = uId[v] /\ uRows'[v] = uRows[v]
      BY <1>4, <2>2, LeavesTypes DEF RegTypeOK
    <2>3. ASSUME NEW v \in RegUsers, uPc'[v] \in {"loading", "deleting", "delisting"}
          PROVE  Kept(rowsOf'[uId'[v]])
      <3>1. uPc[v] = uPc'[v] /\ uId'[v] = uId[v]
        BY <2>2, <2>3
      <3>2. Kept(rowsOf[uId[v]]) /\ uId[v] \in 1 .. MaxSaves
        BY <2>3, <3>1 DEF SavedInv, RegLocked
      <3> QED  BY <1>3, <3>1, <3>2
    <2>4. ASSUME NEW v \in RegUsers, uPc'[v] = "saved" PROVE Snapshot(uRows'[v])
      BY <2>2, <2>4 DEF SavedInv
    <2> QED  BY <2>1, <2>3, <2>4 DEF SavedInv
  <1>8. LoadRestores'
    BY <1>4 DEF LoadRestores, View
  <1> QED  BY <1>5, <1>6, <1>7, <1>8

LEMMA LoadFindStep ==
  ASSUME RegInv, NEW u \in RegUsers, NEW c \in Configs, LoadFind(u, c) PROVE RegInv'
  <1> USE DEF LoadFind, RegInv, registryVars, dbVars
  <1>1. listed[c] \in 1 .. MaxSaves /\ Kept(rowsOf[listed[c]])
    BY RegistryAssumption DEF RegTypeOK, SavedInv
  <1>2. RegTypeOK'
    BY DEF RegTypeOK, Becomes
  <1>3. RegLocked'
    BY <1>1 DEF RegTypeOK, RegLocked, Becomes
  <1>4. SavedInv'
    BY <1>1 DEF RegTypeOK, SavedInv, Becomes
  <1>5. LoadRestores'
    BY DEF LoadRestores, View
  <1> QED  BY <1>2, <1>3, <1>4, <1>5

(* All the instances of the rows but those that were skipped are back.     *)
LEMMA WholeIsPutBack ==
  ASSUME NEW q \in Seq(Outputs), NEW skipped, NEW s \in PutBack(q, skipped)
  PROVE  s \in Seq(Outputs) /\ Range(s) = Range(q) \ skipped
  <1>1. s \in SeqOf(Range(q) \ skipped, Len(q)) /\ Range(s) = Range(q) \ skipped
    BY DEF PutBack
  <1>2. PICK m \in 0 .. Len(q) : s \in [1 .. m -> Range(q) \ skipped]
    BY <1>1 DEF SeqOf
  <1>3. Range(q) \subseteq Outputs /\ Len(q) \in Nat
    BY DEF Range
  <1>4. m \in Nat /\ s \in [1 .. m -> Outputs]
    BY <1>2, <1>3
  <1>5. s \in Seq(Outputs)
    BY <1>4
  <1> QED  BY <1>1, <1>5

LEMMA ParamsAreValues ==
  ASSUME NEW rows \in ConfRows, NEW o PROVE ParamOf(rows, o) \in Values
  <1>1. CASE \E p \in rows.params : p[1] = o
    <2>1. (CHOOSE p \in rows.params : p[1] = o) \in rows.params
      BY <1>1
    <2>2. (CHOOSE p \in rows.params : p[1] = o)[2] \in Values
      BY <2>1 DEF ConfRows
    <2> QED  BY <1>1, <2>2 DEF ParamOf
  <1>2. CASE ~ \E p \in rows.params : p[1] = o
    BY <1>2, RegistryAssumption DEF ParamOf
  <1> QED  BY <1>1, <1>2

LEMMA RestoreTypes ==
  ASSUME RegTypeOK, NEW u \in RegUsers, uId[u] \in 1 .. MaxSaves,
         NEW skipped, NEW unset, NEW fixedSet, Restore(u, skipped, unset, fixedSet)
  PROVE  /\ insts' \in Seq(Outputs) /\ outParam' \in [Outputs -> Values]
         /\ outRunning' \in [Outputs -> BOOLEAN] /\ fixedParam' \in Values
         /\ Range(insts') = Range(RowsFound(u).outs) \ skipped
  <1> DEFINE rows == RowsFound(u)
  <1>1. rows \in ConfRows
    BY DEF RowsFound, RegTypeOK
  <1>2. /\ insts' \in PutBack(rows.outs, skipped)
        /\ outParam' = [o \in Outputs |->
                          IF o \in Range(insts') \ unset THEN ParamOf(rows, o) ELSE Default]
        /\ outRunning' = [o \in Outputs |-> FALSE]
        /\ fixedParam' = IF fixedSet /\ rows.fixed # {} THEN CHOOSE v \in rows.fixed : TRUE
                         ELSE Default
    BY DEF Restore, ResetFixed
  <1> HIDE DEF rows
  <1>3. rows.outs \in Seq(Outputs) /\ rows.fixed \subseteq Values
    BY <1>1 DEF ConfRows
  <1>4. insts' \in Seq(Outputs) /\ Range(insts') = Range(rows.outs) \ skipped
    BY <1>2, <1>3, WholeIsPutBack
  <1>5. outParam' \in [Outputs -> Values]
    BY <1>1, <1>2, ParamsAreValues, RegistryAssumption
  <1>6. outRunning' \in [Outputs -> BOOLEAN] /\ fixedParam' \in Values
    BY <1>2, <1>3, RegistryAssumption
  <1> QED  BY <1>4, <1>5, <1>6 DEF rows

(* Deleted rows show nothing, others what their writer saw.                *)
LEMMA RestoreShows ==
  ASSUME RegTypeOK, NEW u \in RegUsers, uId[u] \in 1 .. MaxSaves, Kept(RowsFound(u)),
         LoadReads(u)
  PROVE  expected' \in Loads /\ LoadRestores'
  <1> DEFINE rows == RowsFound(u)
  <1>0. PICK skipped \in SUBSET Range(rows.outs), fixedSet \in BOOLEAN :
          \E unset \in SUBSET {p[1] : p \in {q \in rows.params : q[1] \notin skipped}} :
            /\ rows.fixed = {} => fixedSet
            /\ Restore(u, skipped, unset, fixedSet)
            /\ expected' \in {NoLoad, [done |-> TRUE, gone |-> rows.gone,
                                       view |-> Less(rows.view, skipped, unset, fixedSet)]}
    BY DEF LoadReads
  <1>1. PICK unset \in SUBSET {p[1] : p \in {q \in rows.params : q[1] \notin skipped}} :
          /\ rows.fixed = {} => fixedSet
          /\ Restore(u, skipped, unset, fixedSet)
          /\ expected' \in {NoLoad, [done |-> TRUE, gone |-> rows.gone,
                                     view |-> Less(rows.view, skipped, unset, fixedSet)]}
    BY <1>0
  <1>14. CASE expected' = NoLoad
    BY <1>14, NoRowsSaved DEF LoadRestores, NoLoad
  <1>15. SUFFICES ASSUME expected' = [done |-> TRUE, gone |-> rows.gone,
                                      view |-> Less(rows.view, skipped, unset, fixedSet)]
                  PROVE  expected' \in Loads /\ LoadRestores'
    BY <1>1, <1>14
  <1>2. rows \in ConfRows
    BY DEF RowsFound, RegTypeOK
  <1>4. insts' \in Seq(Outputs) /\ Range(insts') = Range(rows.outs) \ skipped
    BY <1>1, RestoreTypes
  <1>5. /\ outParam' = [o \in Outputs |->
                          IF o \in Range(insts') \ unset THEN ParamOf(rows, o) ELSE Default]
        /\ fixedParam' = IF fixedSet /\ rows.fixed # {} THEN CHOOSE v \in rows.fixed : TRUE
                         ELSE Default
    BY <1>1 DEF Restore, ResetFixed
  <1>6. Kept(rows)
    OBVIOUS
  <1> HIDE DEF rows
  <1>7. /\ rows.outs \in Seq(Outputs) /\ rows.params \subseteq Outputs \X Values
        /\ rows.view \in Views /\ rows.gone \in BOOLEAN
    BY <1>2 DEF ConfRows
  <1>8. Range(rows.outs) \subseteq Outputs
    BY <1>7 DEF Range
  <1>9. expected' \in Loads
    <2>1. Less(rows.view, skipped, unset, fixedSet) \in Views
      BY <1>7, RegistryAssumption DEF Less, Views
    <2> QED  BY <1>15, <1>7, <2>1 DEF Loads
  <1>10. expected'.gone = rows.gone /\ expected'.view = Less(rows.view, skipped, unset, fixedSet)
    BY <1>15
  <1>11. View' = [outs |-> {<<o, IF o \in unset THEN Default ELSE ParamOf(rows, o)>> :
                              o \in Range(rows.outs) \ skipped},
                  fixed |-> fixedParam']
    <2>1. View' = [outs |-> {<<o, outParam'[o]>> : o \in Range(insts')}, fixed |-> fixedParam']
      BY DEF View
    <2>2. \A o \in Range(insts') : outParam'[o] = IF o \in unset THEN Default ELSE ParamOf(rows, o)
      BY <1>4, <1>5, <1>8
    <2> DEFINE shows == {<<o, outParam'[o]>> : o \in Range(insts')}
               left == {<<o, IF o \in unset THEN Default ELSE ParamOf(rows, o)>> :
                          o \in Range(rows.outs) \ skipped}
    <2>3. shows = left
      <3>1. ASSUME NEW y \in shows PROVE y \in left
        <4>1. PICK o \in Range(insts') : y = <<o, outParam'[o]>>
          OBVIOUS
        <4>2. y = <<o, IF o \in unset THEN Default ELSE ParamOf(rows, o)>>
          BY <2>2, <4>1
        <4> QED  BY <1>4, <4>2
      <3>2. ASSUME NEW y \in left PROVE y \in shows
        <4>1. PICK o \in Range(rows.outs) \ skipped :
                y = <<o, IF o \in unset THEN Default ELSE ParamOf(rows, o)>>
          OBVIOUS
        <4>2. o \in Range(insts')
          BY <1>4
        <4>3. y = <<o, outParam'[o]>>
          BY <2>2, <4>1, <4>2
        <4> QED  BY <4>2, <4>3
      <3> QED  BY <3>1, <3>2
    <2> HIDE DEF shows, left
    <2>4. View'.outs = shows /\ View'.fixed = fixedParam'
      BY <2>1 DEF shows
    <2> QED  BY <2>1, <2>3 DEF shows, left
  <1>12. CASE rows = DeletedRows
    <2>1. rows.outs = <<>> /\ rows.fixed = {} /\ rows.gone
      BY <1>12 DEF DeletedRows, NoRows
    <2>2. Range(rows.outs) = {}
      BY <2>1 DEF Range
    <2>3. View' = ResetView
      BY <1>5, <1>11, <2>1, <2>2 DEF ResetView
    <2> QED  BY <1>9, <1>10, <2>1, <2>3 DEF LoadRestores
  <1>13. CASE Snapshot(rows)
    <2>1. ~rows.gone /\ rows.view = Shown(rows)
      BY <1>13 DEF Snapshot
    <2>2. fixedParam' = IF fixedSet THEN Shown(rows).fixed ELSE Default
      BY <1>5 DEF Shown
    <2> DEFINE shown == {<<o, ParamOf(rows, o)>> : o \in Range(rows.outs)}
    <2>3. {<<p[1], IF p[1] \in unset THEN Default ELSE p[2]>> : p \in {q \in shown : q[1] \notin skipped}}
            = {<<o, IF o \in unset THEN Default ELSE ParamOf(rows, o)>> : o \in Range(rows.outs) \ skipped}
      <3> DEFINE less == {<<p[1], IF p[1] \in unset THEN Default ELSE p[2]>> :
                            p \in {q \in shown : q[1] \notin skipped}}
                 left == {<<o, IF o \in unset THEN Default ELSE ParamOf(rows, o)>> :
                            o \in Range(rows.outs) \ skipped}
      <3>1. ASSUME NEW y \in less PROVE y \in left
        <4>1. PICK p \in shown : /\ p[1] \notin skipped
                                 /\ y = <<p[1], IF p[1] \in unset THEN Default ELSE p[2]>>
          OBVIOUS
        <4>2. PICK o \in Range(rows.outs) : p = <<o, ParamOf(rows, o)>>
          OBVIOUS
        <4>3. p[1] = o /\ p[2] = ParamOf(rows, o)
          BY <4>2
        <4> QED  BY <4>1, <4>3
      <3>2. ASSUME NEW y \in left PROVE y \in less
        <4>1. PICK o \in Range(rows.outs) \ skipped :
                y = <<o, IF o \in unset THEN Default ELSE ParamOf(rows, o)>>
          OBVIOUS
        <4>2. <<o, ParamOf(rows, o)>> \in {q \in shown : q[1] \notin skipped}
          OBVIOUS
        <4>3. <<o, ParamOf(rows, o)>>[1] = o /\ <<o, ParamOf(rows, o)>>[2] = ParamOf(rows, o)
          OBVIOUS
        <4> QED  BY <4>1, <4>2, <4>3
      <3> QED  BY <3>1, <3>2
    <2>4. Shown(rows).outs = shown
      BY DEF Shown
    <2> HIDE DEF shown
    <2>5. View' = Less(Shown(rows), skipped, unset, fixedSet)
      BY <1>11, <2>2, <2>3, <2>4 DEF Less
    <2> QED  BY <1>9, <1>10, <2>1, <2>5 DEF LoadRestores
  <1> QED  BY <1>6, <1>12, <1>13 DEF Kept

LEMMA LoadApplyStep == ASSUME RegInv, NEW u \in RegUsers, LoadApply(u) PROVE RegInv'
  <1> USE DEF RegInv
  <1>1. /\ uPc[u] = "loading" /\ Leaves(u) /\ (ResetFails \/ LoadReads(u))
        /\ UNCHANGED <<regHolder, dbWriter, listed, rowsOf, lastId>>
    BY DEF LoadApply, dbVars
  <1>2. uId[u] \in 1 .. MaxSaves /\ Kept(RowsFound(u))
    BY <1>1 DEF RegLocked, SavedInv, RowsFound
  <1>4. /\ insts' \in Seq(Outputs) /\ outParam' \in [Outputs -> Values]
        /\ outRunning' \in [Outputs -> BOOLEAN] /\ fixedParam' \in Values
        /\ expected' \in Loads /\ LoadRestores'
    <2>1. CASE LoadReads(u)
      BY <1>2, <2>1, RestoreShows, RestoreTypes DEF LoadReads
    <2>2. CASE ResetFails
      <3>1. expected' \in Loads /\ LoadRestores'
        BY <2>2, NoRowsSaved DEF ResetFails, LoadRestores, NoLoad
      <3> QED  BY <2>2, <3>1, ResetTypes DEF ResetFails
    <2> QED  BY <1>1, <2>1, <2>2
  <1>5. RegTypeOK'
    BY <1>1, <1>4, LeavesTypes DEF RegTypeOK
  <1>6. /\ ~(uPc'[u] \in {"saving", "saved", "deleting", "delisting"}) /\ uPc'[u] = "away"
        /\ dbWriter # u /\ regHolder # u
    BY <1>1, LeavesTypes DEF RegTypeOK, RegLocked
  <1>7. ASSUME NEW v \in RegUsers, v # u
        PROVE  uPc'[v] = uPc[v] /\ uConf'[v] = uConf[v] /\ uId'[v] = uId[v] /\ uRows'[v] = uRows[v]
    BY <1>1, <1>7, LeavesTypes DEF RegTypeOK
  <1>8. RegLocked'
    BY <1>1, <1>6, <1>7 DEF RegLocked
  <1>9. SavedInv'
    BY <1>1, <1>6, <1>7 DEF SavedInv
  <1> QED  BY <1>4, <1>5, <1>8, <1>9

LEMMA DeleteFindStep ==
  ASSUME RegInv, NEW u \in RegUsers, NEW c \in Configs, DeleteFind(u, c) PROVE RegInv'
  <1> USE DEF DeleteFind, RegInv, registryVars, dbVars
  <1>1. listed[c] \in 1 .. MaxSaves /\ Kept(rowsOf[listed[c]])
    BY RegistryAssumption DEF RegTypeOK, SavedInv
  <1>2. RegTypeOK'
    BY DEF RegTypeOK, Becomes
  <1>3. RegLocked'
    BY <1>1, RegistryAssumption DEF RegTypeOK, RegLocked, Becomes, RegFree
  <1>4. SavedInv'
    BY <1>1 DEF RegTypeOK, SavedInv, Becomes
  <1>5. LoadRestores'
    BY DEF LoadRestores, View
  <1> QED  BY <1>2, <1>3, <1>4, <1>5

LEMMA DeleteRowsStep == ASSUME RegInv, NEW u \in RegUsers, DeleteRows(u) PROVE RegInv'
  <1> USE DEF DeleteRows, RegInv, registryVars
  <1>1. uPc[u] = "deleting" /\ uId[u] \in 1 .. MaxSaves
    BY DEF RegLocked
  <1>2. LoadRestores'
    BY DEF LoadRestores, View
  <1>3. CASE regHolder' = NoUser /\ Leaves(u) /\ UNCHANGED rowsOf
    <2>1. RegTypeOK'
      BY <1>3, LeavesTypes DEF RegTypeOK
    <2>2. RegLocked'
      BY <1>1, <1>3, LeavesTypes, RegistryAssumption DEF RegTypeOK, RegLocked
    <2>3. SavedInv'
      BY <1>3, LeavesTypes DEF RegTypeOK, SavedInv
    <2> QED  BY <1>2, <2>1, <2>2, <2>3
  <1>4. CASE /\ rowsOf' = [rowsOf EXCEPT ![uId[u]] = DeletedRows]
             /\ Becomes(u, "delisting")
             /\ UNCHANGED <<regHolder, uConf, uId, uRows>>
    <2>1. RegTypeOK'
      BY <1>4, NoRowsSaved DEF RegTypeOK, Becomes
    <2>2. RegLocked'
      BY <1>1, <1>4 DEF RegTypeOK, RegLocked, Becomes
    <2>3. \A i \in 1 .. MaxSaves : Kept(rowsOf[i]) => Kept(rowsOf'[i])
      BY <1>1, <1>4, NoRowsSaved DEF RegTypeOK
    <2>4. SavedInv'
      <3>1. ASSUME NEW c \in Configs, listed'[c] # 0 PROVE Kept(rowsOf'[listed'[c]])
        BY <2>3, <3>1, RegistryAssumption DEF RegTypeOK, SavedInv
      <3>2. ASSUME NEW v \in RegUsers, uPc'[v] \in {"loading", "deleting", "delisting"}
            PROVE  Kept(rowsOf'[uId'[v]])
        <4>1. uPc[v] \in {"loading", "deleting", "delisting"} /\ uId'[v] = uId[v]
          BY <1>1, <1>4, <3>2 DEF RegTypeOK, Becomes
        <4>2. uId[v] \in 1 .. MaxSaves /\ Kept(rowsOf[uId[v]])
          BY <4>1 DEF RegLocked, SavedInv
        <4> QED  BY <2>3, <4>1, <4>2
      <3>3. ASSUME NEW v \in RegUsers, uPc'[v] = "saved" PROVE Snapshot(uRows'[v])
        BY <1>4, <3>3 DEF RegTypeOK, SavedInv, Becomes
      <3> QED  BY <3>1, <3>2, <3>3 DEF SavedInv
    <2> QED  BY <1>2, <2>1, <2>2, <2>4
  <1> QED  BY <1>3, <1>4

LEMMA DeleteEntryStep == ASSUME RegInv, NEW u \in RegUsers, DeleteEntry(u) PROVE RegInv'
  <1> USE DEF DeleteEntry, RegInv, registryVars
  <1>1. uPc[u] = "delisting" /\ uConf[u] \in Configs /\ Leaves(u)
    BY DEF RegLocked
  <1>2. 0 \in 0 .. MaxSaves
    BY RegistryAssumption
  <1>3. /\ listed' \in [Configs -> 0 .. MaxSaves]
        /\ \A c \in Configs : listed'[c] = listed[c] \/ listed'[c] = 0
    BY <1>1, <1>2 DEF RegTypeOK
  <1>4. RegTypeOK'
    BY <1>1, <1>3, LeavesTypes DEF RegTypeOK
  <1>5. RegLocked'
    BY <1>1, LeavesTypes, RegistryAssumption DEF RegTypeOK, RegLocked
  <1>6. uPc'[u] = "away" /\ rowsOf' = rowsOf
    BY <1>1, LeavesTypes DEF RegTypeOK
  <1>7. ASSUME NEW v \in RegUsers, v # u
        PROVE  uPc'[v] = uPc[v] /\ uId'[v] = uId[v] /\ uRows'[v] = uRows[v]
    BY <1>1, <1>7, LeavesTypes DEF RegTypeOK
  <1>8. SavedInv'
    BY <1>3, <1>6, <1>7 DEF SavedInv
  <1>9. LoadRestores'
    BY DEF LoadRestores, View
  <1> QED  BY <1>4, <1>5, <1>8, <1>9

LEMMA RegistryStep == ASSUME RegInv, [RegistryNext]_regVars PROVE RegInv'
  <1>1. CASE UNCHANGED regVars
    BY <1>1 DEF RegInv, RegTypeOK, RegLocked, SavedInv, LoadRestores, View, regVars, dbVars, uVars
  <1>2. CASE RegistryNext
    <2>1. ASSUME NEW o \in Outputs, RemoveInstance(o) \/ AddInstance(o) PROVE RegInv'
      BY <2>1, AddInstanceStep, RemoveInstanceStep
    <2>2. ASSUME NEW o \in Outputs, \/ \E on \in BOOLEAN : SetRunning(o, on)
                                    \/ \E v \in Values : SetParam(o, v)
          PROVE  RegInv'
      BY <2>2, SetStep, RegistryAssumption
    <2>3. ASSUME NEW v \in Values, SetFixed(v) PROVE RegInv'
      <3>1. Change
        BY <2>3 DEF SetFixed
      <3>2. /\ insts' \in Seq(Outputs) /\ outParam' \in [Outputs -> Values]
            /\ outRunning' \in [Outputs -> BOOLEAN] /\ fixedParam' \in Values
        BY <2>3 DEF SetFixed, RegInv, RegTypeOK
      <3> QED  BY <3>1, <3>2, ChangeStep
    <2> QED  BY <1>2, <2>1, <2>2, <2>3, ConfigResetStep, SaveBeginStep, SaveRowsStep,
                SaveEndStep, LoadFindStep, LoadApplyStep, DeleteFindStep, DeleteRowsStep, DeleteEntryStep
             DEF RegistryNext
  <1> QED  BY <1>1, <1>2

(* In every reachable state of the registry the rows that an entry of the  *)
(* list or a thread refers to were deleted, or they show what their writer *)
(* saw while it had the registry locked.                                   *)
THEOREM RegistryInvariant == RegistrySpec => []RegInv
  BY RegistryInitial, RegistryStep, PTL DEF RegistrySpec

(* After a load that reports success the registry shows what was saved     *)
(* under the id that was found, but for the entries that could not be put  *)
(* back; and it is reset if the rows of that id were deleted before the    *)
(* load had the registry locked (registry.c: registry_config_save,         *)
(* registry_config_load, registry_config_delete).                          *)
THEOREM LoadsAreSaves == RegistrySpec => []LoadRestores
  <1>1. RegInv => LoadRestores
    BY DEF RegInv
  <1> QED  BY <1>1, RegistryInvariant, PTL

(* One thread at a time writes to the database, and one at a time has the  *)
(* registry locked over a statement of it.                                 *)
THEOREM OneWriter ==
  RegistrySpec => []\A u, v \in RegUsers :
    /\ uPc[u] \in {"saving", "saved"} /\ uPc[v] \in {"saving", "saved"} => u = v
    /\ uPc[u] \in {"deleting", "delisting"} /\ uPc[v] \in {"deleting", "delisting"} => u = v
  <1>1. RegInv => \A u, v \in RegUsers :
          /\ uPc[u] \in {"saving", "saved"} /\ uPc[v] \in {"saving", "saved"} => u = v
          /\ uPc[u] \in {"deleting", "delisting"} /\ uPc[v] \in {"deleting", "delisting"} => u = v
    BY DEF RegInv, RegLocked
  <1> QED  BY <1>1, RegistryInvariant, PTL
-----------------------------------------------------------------------------
(* Monitoring sessions (Monitor).                                          *)
ActorPcs ==
  {"idle", "requeue", "polling", "cleanup", "unlink", "locking", "drain", "unregister",
   "unlisten", "stopThenUnlisten", "count", "listen", "uncount", "stop", "register",
   "unregisterOne"} \cup ClientCalls

MonTypeOK ==
  /\ onEvents \in BOOLEAN /\ table \in Sess \cup {NoSess}
  /\ tableLock \in Actors \cup Procs \cup {Nobody}
  /\ sessLock \in [Sess -> Actors \cup {Nobody}]
  /\ sLife \in [Sess -> {"new", "live", "stopping", "freed"}]
  /\ polling \in [Sess -> Int] /\ notified \subseteq Actors /\ sTimer \in [Sess -> BOOLEAN]
  /\ evtListeners \in [Sess -> Nat] /\ ploadListeners \in [Sess -> Nat]
  /\ evtRegs \subseteq Sess /\ endRegs \subseteq Sess /\ evtQueue \in [Sess -> Nat] /\ ploadQueue \in [Sess -> Nat]
  /\ mPc \in [Actors -> ActorPcs] /\ mSess \in [Actors -> Sess \cup {NoSess}]
  /\ pPc \in [Procs -> {"idle", "event", "pload", "listing"}]
  /\ toNotify \in [Procs -> SUBSET Sess] /\ ruined \in BOOLEAN

WithSession == \A a \in Actors : mPc[a] # "idle" => mSess[a] \in Sess

(* The table has a session that lives.  Whoever has it locked waits for    *)
(* the lock of that session, or has just taken it off the table.           *)
TableHeld ==
  /\ table # NoSess => sLife[table] = "live"
  /\ \A a \in Actors : mPc[a] = "locking" =>
       tableLock = a /\ table = NoSess /\ sLife[mSess[a]] = "live"
  /\ \A a \in Actors : mPc[a] \in ClientCalls => tableLock = a /\ table = mSess[a]
  /\ \A p \in Procs : pPc[p] = "listing" => tableLock = p

(* A session that is locked is not stopped before it is unlocked.          *)
SessionHeld ==
  /\ \A s \in Sess : sessLock[s] # Nobody => sLife[s] = "live"
  /\ \A a \in Actors : mPc[a] \in {"register", "unregisterOne"} =>
       sessLock[mSess[a]] = a /\ sLife[mSess[a]] = "live"

(* One actor stops it.                                                     *)
Stopping == {"drain", "unregister", "unlisten", "stopThenUnlisten"}

OneStops ==
  /\ \A a \in Actors : mPc[a] \in Stopping => sLife[mSess[a]] = "stopping"
  /\ \A a, b \in Actors :
       mPc[a] \in Stopping /\ mPc[b] \in Stopping /\ mSess[a] = mSess[b] => a = b

(* The polls that wait are counted, and have left before it goes on.       *)
PollsCounted ==
  /\ \A s \in Sess : polling[s] = Cardinality(Sleepers(s))
  /\ \A a \in Actors : mPc[a] = "polling" => sLife[mSess[a]] \in {"live", "stopping"}
  /\ \A a, b \in Actors :
       mPc[a] \in Stopping \ {"drain"} /\ mPc[b] = "polling" => mSess[a] # mSess[b]

(* Then it hears no event any more, and at last of no payload.             *)
NoEventsFor(s) == s \notin evtRegs /\ evtListeners[s] = 0 /\ evtQueue[s] = 0

ToldRegistered ==
  /\ endRegs \subseteq evtRegs
  /\ \A p \in Procs : toNotify[p] \subseteq evtRegs /\ (pPc[p] # "event" => toNotify[p] = {})

NothingComes ==
  /\ \A a \in Actors : mPc[a] \in {"unlisten", "stopThenUnlisten"} => NoEventsFor(mSess[a])
  /\ \A s \in Sess : sLife[s] = "freed" =>
       NoEventsFor(s) /\ ploadListeners[s] = 0 /\ ploadQueue[s] = 0

SessionsKept ==
  /\ WithSession /\ TableHeld /\ SessionHeld /\ OneStops /\ PollsCounted
  /\ ToldRegistered /\ NothingComes

MonitorInv == MonTypeOK /\ (~ruined => SessionsKept)

LEMMA ActorsAre ==
  /\ IsFiniteSet(Actors) /\ Nobody \notin Actors /\ Nobody \notin Procs
  /\ Actors \cap Procs = {} /\ NoSess \notin Sess /\ Sess \subseteq Nat
  <1>1. IsFiniteSet(Actors)
    BY MonitorAssumption, FS_AddElement DEF Actors
  <1>2. NoSess \notin Sess /\ Sess \subseteq Nat
    BY DEF NoSess, Sess
  <1> QED  BY <1>1, <1>2, MonitorAssumption

LEMMA SleepersFinite ==
  ASSUME NEW s
  PROVE  /\ IsFiniteSet(Sleepers(s)) /\ Cardinality(Sleepers(s)) \in Nat
         /\ Cardinality(Sleepers(s)) = 0 <=> Sleepers(s) = {}
  <1>1. Sleepers(s) \subseteq Actors
    BY DEF Sleepers
  <1> QED  BY <1>1, ActorsAre, FS_Subset, FS_CardinalityType, FS_EmptySet

LEMMA MonitorInitial == MonitorInit => MonitorInv
  <1> SUFFICES ASSUME MonitorInit PROVE MonitorInv
    OBVIOUS
  <1> USE DEF MonitorInit
  <1>1. /\ polling \in [Sess -> Int] /\ sTimer \in [Sess -> BOOLEAN]
        /\ evtListeners \in [Sess -> Nat] /\ ploadListeners \in [Sess -> Nat]
        /\ evtQueue \in [Sess -> Nat] /\ ploadQueue \in [Sess -> Nat]
        /\ toNotify \in [Procs -> SUBSET Sess]
    OBVIOUS
  <1>6. ruined \in BOOLEAN /\ onEvents \in BOOLEAN
    OBVIOUS
  <1>2. MonTypeOK
    BY <1>1, <1>6, MonitorAssumption DEF MonTypeOK, ActorPcs
  <1>3. WithSession /\ TableHeld /\ SessionHeld /\ OneStops /\ ToldRegistered /\ NothingComes
    BY
       DEF WithSession, TableHeld, SessionHeld, OneStops, ToldRegistered, NothingComes,
         ClientCalls, Stopping
  <1>4. ASSUME NEW s \in Sess PROVE polling[s] = Cardinality(Sleepers(s))
    <2>1. Sleepers(s) = {}
      BY DEF Sleepers
    <2> QED  BY <2>1, SleepersFinite
  <1>5. PollsCounted
    BY <1>4 DEF PollsCounted, Stopping
  <1> QED  BY <1>2, <1>3, <1>5 DEF MonitorInv, SessionsKept

(* Once nothing comes for a session any more, nothing does later, unless   *)
(* a step says so of a session that lives.                                 *)
NothingForGone == \A s \in Sess : sLife[s] \in {"stopping", "freed"} =>
  /\ NoEventsFor(s) => NoEventsFor(s)'
  /\ ploadListeners[s] = 0 => ploadListeners'[s] = 0
  /\ ploadQueue[s] = 0 => ploadQueue'[s] = 0

FreesEmpty == \A s \in Sess : sLife'[s] = "freed" =>
  sLife[s] = "freed" \/ (NoEventsFor(s)' /\ ploadListeners'[s] = 0 /\ ploadQueue'[s] = 0)

StopsUnlistened == \A a \in Actors : mPc'[a] \in {"unlisten", "stopThenUnlisten"} =>
  /\ mSess'[a] = mSess[a]
  /\ mPc[a] \in {"unlisten", "stopThenUnlisten"}
       \/ (mPc[a] \in Stopping /\ \A s \in Sess : s = mSess[a] => NoEventsFor(s)')

LEMMA NothingLater ==
  ASSUME SessionsKept, NothingForGone, FreesEmpty, StopsUnlistened
  PROVE  NothingComes'
  <1>1. ASSUME NEW a \in Actors, mPc'[a] \in {"unlisten", "stopThenUnlisten"}
        PROVE  NoEventsFor(mSess[a])'
    <2>1. mSess'[a] = mSess[a] /\ mPc[a] \in Stopping
      BY <1>1 DEF StopsUnlistened, Stopping
    <2>2. PICK s \in Sess : s = mSess[a] /\ sLife[s] = "stopping"
      BY <2>1 DEF SessionsKept, WithSession, OneStops, Stopping
    <2>3. NoEventsFor(s)'
      BY <1>1, <2>2 DEF SessionsKept, NothingComes, NothingForGone, StopsUnlistened
    <2> QED  BY <2>1, <2>2, <2>3 DEF NoEventsFor
  <1>2. ASSUME NEW s \in Sess, sLife'[s] = "freed"
        PROVE  (NoEventsFor(s) /\ ploadListeners[s] = 0 /\ ploadQueue[s] = 0)'
    <2>1. CASE sLife[s] = "freed"
      BY <2>1 DEF SessionsKept, NothingComes, NothingForGone
    <2>2. CASE sLife[s] # "freed"
      BY <1>2, <2>2 DEF FreesEmpty
    <2> QED  BY <2>1, <2>2
  <1> QED  BY <1>1, <1>2 DEF NothingComes

(* Where an actor has no claim on a session.                               *)
Loose == {"idle", "requeue", "cleanup", "unlink", "count", "listen", "uncount", "stop"}

(* Moves that change nothing for the others.                               *)
LEMMA LoosenStep ==
  ASSUME MonitorInv, NEW a \in Actors, NEW l \in Loose, ~ruined, mPc[a] \in Loose,
         mPc' = [mPc EXCEPT ![a] = l], mSess' \in [Actors -> Sess \cup {NoSess}],
         \A b \in Actors \ {a} : mSess'[b] = mSess[b], l # "idle" => mSess'[a] \in Sess,
         UNCHANGED <<onEvents, lockVars, sLife, polling, sessionVars, pPc, toNotify>>,
         notified' \subseteq Actors, sTimer' \in [Sess -> BOOLEAN], ruined' \in BOOLEAN
  PROVE  MonitorInv'
  <1>1. /\ ~ruined /\ UNCHANGED <<table, tableLock, sessLock>>
        /\ UNCHANGED <<evtListeners, ploadListeners, evtRegs, endRegs, evtQueue, ploadQueue>>
    BY DEF lockVars, sessionVars
  <1>2. ~ruined /\ MonTypeOK /\ SessionsKept
    BY <1>1 DEF MonitorInv
  <1>3. /\ mPc[a] \notin {"polling", "locking", "register", "unregisterOne"}
        /\ mPc[a] \notin ClientCalls \cup Stopping
        /\ l \notin {"polling", "locking", "register", "unregisterOne"}
        /\ l \notin ClientCalls \cup Stopping /\ l \in ActorPcs
    BY DEF Loose, ClientCalls, Stopping, ActorPcs
  <1>4. \A x \in Sess : Sleepers(x)' = Sleepers(x)
    BY <1>1, <1>2, ActorsAre, <1>3 DEF Sleepers, MonTypeOK
  <1>5. MonTypeOK'
    BY <1>1, <1>2, ActorsAre, <1>3 DEF SessionsKept, WithSession, MonTypeOK, ActorPcs
  <1>6. WithSession'
    BY <1>1, <1>2, ActorsAre, <1>3 DEF SessionsKept, MonTypeOK, WithSession
  <1>7. TableHeld'
    BY <1>1, <1>2, ActorsAre, <1>3 DEF SessionsKept, MonTypeOK, TableHeld
  <1>8. SessionHeld'
    BY <1>1, <1>2, ActorsAre, <1>3 DEF SessionsKept, MonTypeOK, SessionHeld
  <1>9. OneStops'
    BY <1>1, <1>2, ActorsAre, <1>3 DEF SessionsKept, MonTypeOK, OneStops, Stopping
  <1>10. PollsCounted'
    BY <1>1, <1>2, ActorsAre, <1>3, <1>4 DEF SessionsKept, MonTypeOK, PollsCounted,
       Stopping
  <1>11. ToldRegistered'
    BY <1>1, <1>2, ActorsAre, <1>3 DEF SessionsKept, MonTypeOK, ToldRegistered
  <1>12. NothingComes'
    <2>1. NothingForGone
      BY <1>1, <1>2, <1>3, ActorsAre DEF NothingForGone, NoEventsFor, MonTypeOK
    <2>2. FreesEmpty
      BY <1>1, <1>2, <1>3 DEF FreesEmpty, NoEventsFor, MonTypeOK
    <2>3. StopsUnlistened
      BY <1>1, <1>2, <1>3 DEF StopsUnlistened, Stopping, NoEventsFor, MonTypeOK
    <2> QED  BY <1>2, <2>1, <2>2, <2>3, NothingLater
  <1> QED  BY <1>5, <1>6, <1>7, <1>8, <1>9, <1>10, <1>11, <1>12 DEF MonitorInv,
     SessionsKept

LEMMA LooseSteps ==
  ASSUME MonitorInv, NEW a \in Actors,
         \/ QueueSessionTimer(a) \/ MonitorStop(a) \/ (SessionTimeout /\ a = Main)
         \/ ReadId(a) \/ TooLate(a) \/ Count(a) \/ ListenPloads(a) \/ Uncount(a)
         \/ (StopPloads(a) /\ mPc[a] = "stop")
  PROVE  MonitorInv'
  <1> USE DEF Is, To, Jump, With
  <1>1. /\ ~ruined /\ MonTypeOK /\ WithSession
    BY DEF MonitorInv, SessionsKept, QueueSessionTimer, MonitorStop, SessionTimeout, ReadId,
           TooLate, Count, ListenPloads, Uncount, StopPloads
  <1>2. /\ notified' = notified
        /\ UNCHANGED <<onEvents, lockVars, sLife, polling, sessionVars, pPc, toNotify>>
    BY DEF QueueSessionTimer, MonitorStop, SessionTimeout, ReadId, TooLate, Count,
           ListenPloads, Uncount, StopPloads, procVars, lockVars
  <1>3. mPc[a] \in Loose
    BY DEF QueueSessionTimer, MonitorStop, SessionTimeout, ReadId, TooLate, Count,
           ListenPloads, Uncount, StopPloads, Loose
  <1>4. /\ ruined' \in BOOLEAN /\ sTimer' \in [Sess -> BOOLEAN]
    BY <1>1 DEF QueueSessionTimer, MonitorStop, SessionTimeout, ReadId, TooLate, Count,
           ListenPloads, Uncount, StopPloads, MonTypeOK, WithSession
  <1>5. \E l \in Loose :
          /\ mPc' = [mPc EXCEPT ![a] = l]
          /\ l # "idle" => mSess'[a] \in Sess
          /\ \A b \in Actors \ {a} : mSess'[b] = mSess[b]
          /\ mSess' \in [Actors -> Sess \cup {NoSess}]
    BY <1>1, <1>3
       DEF QueueSessionTimer, MonitorStop, SessionTimeout, ReadId, TooLate, Count,
           ListenPloads, Uncount, StopPloads, MonTypeOK, WithSession, Loose, NoSess
  <1> QED  BY <1>1, <1>2, <1>3, <1>4, <1>5, LoosenStep DEF MonTypeOK

LEMMA MonitorStartStep ==
  ASSUME MonitorInv, NEW a \in Actors, MonitorStart(a)
  PROVE  MonitorInv'
  <1>1. PICK s \in Sess :
          /\ ~ruined /\ mPc[a] = "idle" /\ tableLock = Nobody /\ table = NoSess
          /\ sLife[s] = "new" /\ table' = s /\ sLife' = [sLife EXCEPT ![s] = "live"]
          /\ mSess' = [mSess EXCEPT ![a] = s] /\ mPc' = [mPc EXCEPT ![a] = "requeue"]
          /\ UNCHANGED <<onEvents, tableLock, sessLock, polling, notified, sTimer,
                         evtListeners, ploadListeners, evtRegs, endRegs, evtQueue, ploadQueue,
                         pPc, toNotify, ruined>>
    BY DEF MonitorStart, Is, Jump, With, sessionVars, procVars
  <1>2. ~ruined /\ MonTypeOK /\ SessionsKept
    BY <1>1 DEF MonitorInv
  <1>3. \A x \in Sess : Sleepers(x)' = Sleepers(x)
    BY <1>1, <1>2, ActorsAre DEF Sleepers, MonTypeOK
  <1>4. MonTypeOK'
    BY <1>1, <1>2, ActorsAre DEF SessionsKept, WithSession, MonTypeOK, ActorPcs
  <1>5. WithSession'
    BY <1>1, <1>2, ActorsAre DEF SessionsKept, MonTypeOK, WithSession
  <1>6. TableHeld'
    BY <1>1, <1>2, ActorsAre DEF SessionsKept, MonTypeOK, TableHeld, ClientCalls
  <1>7. SessionHeld'
    BY <1>1, <1>2, ActorsAre DEF SessionsKept, MonTypeOK, SessionHeld
  <1>8. OneStops'
    BY <1>1, <1>2, ActorsAre DEF SessionsKept, MonTypeOK, OneStops, Stopping
  <1>9. PollsCounted'
    BY <1>1, <1>2, ActorsAre, <1>3 DEF SessionsKept, MonTypeOK, PollsCounted,
       Stopping
  <1>10. ToldRegistered'
    BY <1>1, <1>2, ActorsAre DEF SessionsKept, MonTypeOK, ToldRegistered
  <1>11. NothingComes'
    <2>1. NothingForGone
      BY <1>1, <1>2, ActorsAre DEF NothingForGone, NoEventsFor, MonTypeOK
    <2>2. FreesEmpty
      BY <1>1, <1>2 DEF FreesEmpty, NoEventsFor, MonTypeOK
    <2>3. StopsUnlistened
      BY <1>1, <1>2 DEF StopsUnlistened, Stopping, NoEventsFor, MonTypeOK
    <2> QED  BY <1>2, <2>1, <2>2, <2>3, NothingLater
  <1> QED  BY <1>4, <1>5, <1>6, <1>7, <1>8, <1>9, <1>10, <1>11 DEF MonitorInv,
     SessionsKept

LEMMA WaitForSessionStep ==
  ASSUME MonitorInv, NEW a \in Actors, NEW l \in ClientCalls, WaitForSession(a, l)
  PROVE  MonitorInv'
  <1>1. /\ ~ruined /\ mPc[a] = "idle" /\ tableLock = Nobody /\ table # NoSess
        /\ tableLock' = a
        /\ mSess' = [mSess EXCEPT ![a] = table] /\ mPc' = [mPc EXCEPT ![a] = l]
        /\ UNCHANGED <<onEvents, table, sessLock, sLife, polling, notified, sTimer,
                       evtListeners, ploadListeners, evtRegs, endRegs, evtQueue, ploadQueue,
                       pPc, toNotify, ruined>>
    BY DEF WaitForSession, Finds, Is, Jump, With, sessionVars, procVars
  <1>2. ~ruined /\ MonTypeOK /\ SessionsKept
    BY <1>1 DEF MonitorInv
  <1>3. l \notin {"idle", "polling", "locking", "register", "unregisterOne"} \cup Stopping
    BY DEF ClientCalls, Stopping
  <1>4. \A x \in Sess : Sleepers(x)' = Sleepers(x)
    BY <1>1, <1>2, ActorsAre, <1>3 DEF Sleepers, MonTypeOK
  <1>5. MonTypeOK'
    BY <1>1, <1>2, ActorsAre, <1>3 DEF SessionsKept, WithSession, MonTypeOK, ActorPcs
  <1>6. WithSession'
    BY <1>1, <1>2, ActorsAre, <1>3 DEF SessionsKept, MonTypeOK, WithSession
  <1>7. TableHeld'
    BY <1>1, <1>2, ActorsAre, <1>3 DEF SessionsKept, MonTypeOK, TableHeld
  <1>8. SessionHeld'
    BY <1>1, <1>2, ActorsAre, <1>3 DEF SessionsKept, MonTypeOK, SessionHeld
  <1>9. OneStops'
    BY <1>1, <1>2, ActorsAre, <1>3 DEF SessionsKept, MonTypeOK, OneStops, Stopping
  <1>10. PollsCounted'
    BY <1>1, <1>2, ActorsAre, <1>3, <1>4 DEF SessionsKept, MonTypeOK, PollsCounted,
       Stopping
  <1>11. ToldRegistered'
    BY <1>1, <1>2, ActorsAre, <1>3 DEF SessionsKept, MonTypeOK, ToldRegistered
  <1>12. NothingComes'
    <2>1. NothingForGone
      BY <1>1, <1>2, <1>3, ActorsAre DEF NothingForGone, NoEventsFor, MonTypeOK
    <2>2. FreesEmpty
      BY <1>1, <1>2, <1>3 DEF FreesEmpty, NoEventsFor, MonTypeOK
    <2>3. StopsUnlistened
      BY <1>1, <1>2, <1>3 DEF StopsUnlistened, Stopping, NoEventsFor, MonTypeOK
    <2> QED  BY <1>2, <2>1, <2>2, <2>3, NothingLater
  <1> QED  BY <1>5, <1>6, <1>7, <1>8, <1>9, <1>10, <1>11, <1>12 DEF MonitorInv,
     SessionsKept

(* What a call knows that gets the lock of its session.                    *)
LEMMA CallerHas ==
  ASSUME MonitorInv, NEW a \in Actors, NEW l \in ClientCalls, NEW s \in Sess, Locks(a, l, s)
  PROVE  /\ s \in Sess /\ ~ruined /\ table = s /\ table # NoSess /\ sLife[s] = "live"
         /\ sessLock[s] = Nobody /\ mPc[a] \in {"idle", l}
         /\ mPc[a] \notin {"polling", "locking", "register", "unregisterOne"} \cup Stopping
         /\ \A b \in Actors \ {a} : mPc[b] # "locking" /\ mPc[b] \notin ClientCalls
         /\ \A p \in Procs : pPc[p] # "listing"
  <1>1. s \in Sess /\ ~ruined /\ sessLock[s] = Nobody /\ mPc[a] \in {"idle", l}
    BY DEF Locks, Finds, Is
  <1>2. SessionsKept /\ MonTypeOK
    BY <1>1 DEF MonitorInv
  <1>3. /\ tableLock \in {a, Nobody} /\ table = s /\ table # NoSess
    BY <1>1, <1>2, ActorsAre DEF Locks, Finds, Is, SessionsKept, TableHeld
  <1>4. sLife[s] = "live" /\ \A b \in Actors \ {a} : mPc[b] # "locking" /\ mPc[b] \notin ClientCalls
    BY <1>2, <1>3, ActorsAre DEF SessionsKept, TableHeld
  <1>5. \A p \in Procs : pPc[p] # "listing"
    BY <1>2, <1>3, ActorsAre DEF SessionsKept, TableHeld
  <1>6. mPc[a] \notin {"polling", "locking", "register", "unregisterOne"} \cup Stopping
    BY <1>1 DEF ClientCalls, Stopping
  <1> QED  BY <1>1, <1>3, <1>4, <1>5, <1>6

LEMMA PollLeavesStep ==
  ASSUME MonitorInv, NEW a \in Actors, NEW s \in Sess, Poll(a, s), polling' = polling, TakeItems(a, s)
  PROVE  MonitorInv'
  <1>1. /\ ~ruined /\ Locks(a, "poll", s) /\ tableLock' = Nobody
        /\ sTimer' = [sTimer EXCEPT ![s] = FALSE]
        /\ mSess' = [mSess EXCEPT ![a] = s]
        /\ UNCHANGED <<onEvents, table, sessLock, sLife, notified, evtListeners,
                       ploadListeners, evtRegs, endRegs, pPc, toNotify, ruined>>
        /\ mPc' = [mPc EXCEPT ![a] = "requeue"] /\ UNCHANGED polling
        /\ evtQueue' = [evtQueue EXCEPT ![s] = 0] /\ ploadQueue' = [ploadQueue EXCEPT ![s] = 0]
    BY DEF Poll, TakeItems, Couple, Locks, Finds, Is, Jump, With, procVars
  <1>2. ~ruined /\ MonTypeOK /\ SessionsKept
    BY <1>1 DEF MonitorInv
  <1>3. /\ s \in Sess /\ table = s /\ table # NoSess /\ sLife[s] = "live"
        /\ sessLock[s] = Nobody
        /\ mPc[a] \notin {"polling", "locking", "register", "unregisterOne"} \cup Stopping
        /\ \A b \in Actors \ {a} : mPc[b] # "locking" /\ mPc[b] \notin ClientCalls
        /\ \A p \in Procs : pPc[p] # "listing"
    BY <1>1, CallerHas DEF ClientCalls
  <1>4. \A x \in Sess : Sleepers(x)' = Sleepers(x)
    BY <1>1, <1>2, ActorsAre, <1>3 DEF Sleepers, MonTypeOK
  <1>5. MonTypeOK'
    BY <1>1, <1>2, ActorsAre, <1>3 DEF SessionsKept, WithSession, MonTypeOK, ActorPcs
  <1>6. WithSession'
    BY <1>1, <1>2, ActorsAre, <1>3 DEF SessionsKept, MonTypeOK, WithSession
  <1>7. TableHeld'
    BY <1>1, <1>2, ActorsAre, <1>3 DEF SessionsKept, MonTypeOK, TableHeld,
       ClientCalls
  <1>8. SessionHeld'
    BY <1>1, <1>2, ActorsAre, <1>3 DEF SessionsKept, MonTypeOK, SessionHeld
  <1>9. OneStops'
    BY <1>1, <1>2, ActorsAre, <1>3 DEF SessionsKept, MonTypeOK, OneStops, Stopping
  <1>10. PollsCounted'
    BY <1>1, <1>2, ActorsAre, <1>3, <1>4 DEF SessionsKept, MonTypeOK, PollsCounted,
       Stopping
  <1>11. ToldRegistered'
    BY <1>1, <1>2, ActorsAre, <1>3 DEF SessionsKept, MonTypeOK, ToldRegistered
  <1>12. NothingComes'
    <2>1. NothingForGone
      BY <1>1, <1>2, <1>3, ActorsAre DEF NothingForGone, NoEventsFor, MonTypeOK
    <2>2. FreesEmpty
      BY <1>1, <1>2, <1>3 DEF FreesEmpty, NoEventsFor, MonTypeOK
    <2>3. StopsUnlistened
      BY <1>1, <1>2, <1>3 DEF StopsUnlistened, Stopping, NoEventsFor, MonTypeOK
    <2> QED  BY <1>2, <2>1, <2>2, <2>3, NothingLater
  <1> QED  BY <1>5, <1>6, <1>7, <1>8, <1>9, <1>10, <1>11, <1>12 DEF MonitorInv,
     SessionsKept

LEMMA PollWaitsStep ==
  ASSUME MonitorInv, NEW a \in Actors, NEW s \in Sess, Poll(a, s), ~TakeItems(a, s)
  PROVE  MonitorInv'
  <1>1. /\ ~ruined /\ Locks(a, "poll", s) /\ tableLock' = Nobody
        /\ sTimer' = [sTimer EXCEPT ![s] = FALSE]
        /\ mSess' = [mSess EXCEPT ![a] = s]
        /\ UNCHANGED <<onEvents, table, sessLock, sLife, notified, evtListeners,
                       ploadListeners, evtRegs, endRegs, pPc, toNotify, ruined>>
        /\ mPc' = [mPc EXCEPT ![a] = "polling"] /\ polling' = [polling EXCEPT ![s] = @ + 1]
        /\ UNCHANGED <<evtQueue, ploadQueue>>
    BY DEF Poll, TakeItems, Couple, Locks, Finds, Is, Jump, With, procVars
  <1>2. ~ruined /\ MonTypeOK /\ SessionsKept
    BY <1>1 DEF MonitorInv
  <1>3. /\ s \in Sess /\ table = s /\ table # NoSess /\ sLife[s] = "live"
        /\ sessLock[s] = Nobody
        /\ mPc[a] \notin {"polling", "locking", "register", "unregisterOne"} \cup Stopping
        /\ \A b \in Actors \ {a} : mPc[b] # "locking" /\ mPc[b] \notin ClientCalls
        /\ \A p \in Procs : pPc[p] # "listing"
    BY <1>1, CallerHas DEF ClientCalls
  <1>4. MonTypeOK'
    BY <1>1, <1>2, ActorsAre, <1>3 DEF SessionsKept, WithSession, MonTypeOK, ActorPcs
  <1>5. WithSession'
    BY <1>1, <1>2, ActorsAre, <1>3 DEF SessionsKept, MonTypeOK, WithSession
  <1>6. TableHeld'
    BY <1>1, <1>2, ActorsAre, <1>3 DEF SessionsKept, MonTypeOK, TableHeld,
       ClientCalls
  <1>7. SessionHeld'
    BY <1>1, <1>2, ActorsAre, <1>3 DEF SessionsKept, MonTypeOK, SessionHeld
  <1>8. OneStops'
    BY <1>1, <1>2, ActorsAre, <1>3 DEF SessionsKept, MonTypeOK, OneStops, Stopping
  <1>9. PollsCounted'
    <2>1. Sleepers(s)' = Sleepers(s) \cup {a} /\ a \notin Sleepers(s)
      BY <1>1, <1>2, ActorsAre, <1>3 DEF Sleepers, MonTypeOK
    <2>2. \A r \in Sess \ {s} : Sleepers(r)' = Sleepers(r)
      BY <1>1, <1>2, ActorsAre, <1>3 DEF Sleepers, MonTypeOK
    <2>3. Cardinality(Sleepers(s)') = Cardinality(Sleepers(s)) + 1
      BY <2>1, SleepersFinite, FS_AddElement
    <2>4. ASSUME NEW r \in Sess PROVE polling'[r] = Cardinality(Sleepers(r)')
      BY <1>1, <1>2, <2>2, <2>3 DEF SessionsKept, PollsCounted, MonTypeOK
    <2>5. /\ \A b \in Actors : mPc'[b] = "polling" => sLife'[mSess'[b]] \in {"live", "stopping"}
          /\ \A b, c \in Actors : mPc'[b] \in Stopping \ {"drain"} /\ mPc'[c] = "polling"
               => mSess'[b] # mSess'[c]
      BY <1>1, <1>2, ActorsAre, <1>3
         DEF SessionsKept, OneStops, PollsCounted, MonTypeOK, Stopping
    <2>6. \A r \in Sess : (Sleepers(r))' = Sleepers(r)'
      OBVIOUS
    <2> QED  BY <2>4, <2>5 DEF PollsCounted
  <1>10. ToldRegistered'
    BY <1>1, <1>2, ActorsAre, <1>3 DEF SessionsKept, MonTypeOK, ToldRegistered
  <1>11. NothingComes'
    <2>1. NothingForGone
      BY <1>1, <1>2, <1>3, ActorsAre DEF NothingForGone, NoEventsFor, MonTypeOK
    <2>2. FreesEmpty
      BY <1>1, <1>2, <1>3 DEF FreesEmpty, NoEventsFor, MonTypeOK
    <2>3. StopsUnlistened
      BY <1>1, <1>2, <1>3 DEF StopsUnlistened, Stopping, NoEventsFor, MonTypeOK
    <2> QED  BY <1>2, <2>1, <2>2, <2>3, NothingLater
  <1> QED  BY <1>4, <1>5, <1>6, <1>7, <1>8, <1>9, <1>10, <1>11 DEF MonitorInv,
     SessionsKept

(* A poll that goes, with what there is or without.                        *)
LEMMA PollReturnsStep ==
  ASSUME MonitorInv, NEW a \in Actors, NEW s \in Sess, NEW l \in {"idle", "requeue"}, ~ruined,
         mPc[a] = "polling", mSess[a] = s, mPc' = [mPc EXCEPT ![a] = l],
         mSess' = [mSess EXCEPT ![a] = IF l = "idle" THEN NoSess ELSE s],
         polling' = [polling EXCEPT ![s] = @ - 1], notified' = notified \ {a},
         evtQueue' \in {evtQueue, [evtQueue EXCEPT ![s] = 0]},
         ploadQueue' \in {ploadQueue, [ploadQueue EXCEPT ![s] = 0]},
         UNCHANGED <<onEvents, table, tableLock, sessLock, sLife, sTimer, evtListeners,
                     ploadListeners, evtRegs, endRegs, pPc, toNotify, ruined>>
  PROVE  MonitorInv'
  <1>1. ~ruined
    OBVIOUS
  <1>2. ~ruined /\ MonTypeOK /\ SessionsKept
    BY <1>1 DEF MonitorInv
  <1>3. MonTypeOK'
    BY <1>1, <1>2, ActorsAre DEF SessionsKept, WithSession, MonTypeOK, ActorPcs
  <1>4. WithSession'
    BY <1>1, <1>2, ActorsAre DEF SessionsKept, MonTypeOK, WithSession
  <1>5. TableHeld'
    BY <1>1, <1>2, ActorsAre DEF SessionsKept, MonTypeOK, TableHeld, ClientCalls
  <1>6. SessionHeld'
    BY <1>1, <1>2, ActorsAre DEF SessionsKept, MonTypeOK, SessionHeld
  <1>7. OneStops'
    BY <1>1, <1>2, ActorsAre DEF SessionsKept, MonTypeOK, OneStops, Stopping
  <1>8. PollsCounted'
    <2>1. Sleepers(s)' = Sleepers(s) \ {a} /\ a \in Sleepers(s)
      BY <1>1, <1>2, ActorsAre DEF Sleepers, MonTypeOK
    <2>2. \A r \in Sess \ {s} : Sleepers(r)' = Sleepers(r)
      BY <1>1, <1>2, ActorsAre DEF Sleepers, MonTypeOK
    <2>3. Cardinality(Sleepers(s)') = Cardinality(Sleepers(s)) - 1
      BY <2>1, SleepersFinite, FS_RemoveElement
    <2>4. ASSUME NEW r \in Sess PROVE polling'[r] = Cardinality(Sleepers(r)')
      BY <1>1, <1>2, <2>2, <2>3, SleepersFinite DEF SessionsKept, PollsCounted, MonTypeOK
    <2>5. /\ \A b \in Actors : mPc'[b] = "polling" => sLife'[mSess'[b]] \in {"live", "stopping"}
          /\ \A b, c \in Actors : mPc'[b] \in Stopping \ {"drain"} /\ mPc'[c] = "polling"
               => mSess'[b] # mSess'[c]
      BY <1>1, <1>2, ActorsAre DEF SessionsKept, OneStops, PollsCounted, MonTypeOK, Stopping
    <2> QED  BY <2>4, <2>5 DEF PollsCounted
  <1>9. ToldRegistered'
    BY <1>1, <1>2, ActorsAre DEF SessionsKept, MonTypeOK, ToldRegistered
  <1>10. NothingComes'
    <2>1. NothingForGone
      BY <1>1, <1>2, ActorsAre DEF NothingForGone, NoEventsFor, MonTypeOK
    <2>2. FreesEmpty
      BY <1>1, <1>2 DEF FreesEmpty, NoEventsFor, MonTypeOK
    <2>3. StopsUnlistened
      BY <1>1, <1>2 DEF StopsUnlistened, Stopping, NoEventsFor, MonTypeOK
    <2> QED  BY <1>2, <2>1, <2>2, <2>3, NothingLater
  <1> QED  BY <1>3, <1>4, <1>5, <1>6, <1>7, <1>8, <1>9, <1>10 DEF MonitorInv,
     SessionsKept

LEMMA PollWakesStep ==
  ASSUME MonitorInv, NEW a \in Actors, PollWakes(a)
  PROVE  MonitorInv'
  <1> DEFINE s == mSess[a]
  <1>1. /\ ~ruined /\ mPc[a] = "polling" /\ notified' = notified \ {a}
        /\ UNCHANGED <<onEvents, table, tableLock, sessLock, sLife, sTimer, evtListeners,
                       ploadListeners, evtRegs, endRegs, pPc, toNotify, ruined>>
    BY DEF PollWakes, Is, lockVars, procVars
  <1>2. SessionsKept /\ MonTypeOK /\ s \in Sess
    BY <1>1 DEF MonitorInv, SessionsKept, WithSession
  <1>3. CASE polling' = Unpoll(a) /\ To(a, "idle") /\ UNCHANGED <<evtQueue, ploadQueue>>
    BY <1>1, <1>2, <1>3, PollReturnsStep DEF Unpoll, To, Jump, With
  <1>4. CASE polling' = Unpoll(a) /\ TakeItems(a, s)
    <2>1. mSess' = [mSess EXCEPT ![a] = IF "requeue" = "idle" THEN NoSess ELSE s]
      BY <1>4 DEF TakeItems, With
    <2> QED  BY <1>1, <1>2, <1>4, <2>1, PollReturnsStep DEF Unpoll, TakeItems, Jump
  <1>5. CASE UNCHANGED <<polling, mPc, mSess, evtQueue, ploadQueue>>
    <2>1. \A r \in Sess : Sleepers(r)' = Sleepers(r) /\ (NoEventsFor(r)' <=> NoEventsFor(r))
      BY <1>1, <1>5 DEF Sleepers, NoEventsFor
    <2>2. MonTypeOK'
      BY <1>1, <1>2, <1>5 DEF MonTypeOK
    <2>3. WithSession' /\ TableHeld' /\ SessionHeld' /\ OneStops' /\ ToldRegistered'
      BY <1>1, <1>2, <1>5 DEF SessionsKept, WithSession, TableHeld, SessionHeld, OneStops,
         ToldRegistered
    <2>4. PollsCounted'
      BY <1>1, <1>2, <1>5, <2>1 DEF SessionsKept, PollsCounted
    <2>5. NothingComes'
      BY <1>1, <1>2, <1>5, <2>1 DEF SessionsKept, NothingComes, NoEventsFor
    <2> QED  BY <2>2, <2>3, <2>4, <2>5 DEF MonitorInv, SessionsKept
  <1> QED  BY <1>3, <1>4, <1>5 DEF PollWakes

LEMMA PollTimesOutStep ==
  ASSUME MonitorInv, NEW a \in Actors, PollTimesOut(a)
  PROVE  MonitorInv'
  <1>1. /\ ~ruined /\ mPc[a] = "polling" /\ mPc' = [mPc EXCEPT ![a] = "requeue"]
        /\ mSess' = [mSess EXCEPT ![a] = IF "requeue" = "idle" THEN NoSess ELSE mSess[a]]
    BY DEF PollTimesOut, Is, To, Jump, With
  <1>2. /\ polling' = [polling EXCEPT ![mSess[a]] = @ - 1] /\ notified' = notified \ {a}
        /\ UNCHANGED <<onEvents, table, tableLock, sessLock, sLife, sTimer, evtListeners,
                       ploadListeners, evtRegs, endRegs, evtQueue, ploadQueue, pPc, toNotify, ruined>>
    BY DEF PollTimesOut, Unpoll, lockVars, sessionVars, procVars
  <1>3. mSess[a] \in Sess
    BY <1>1 DEF MonitorInv, SessionsKept, WithSession
  <1> QED  BY <1>1, <1>2, <1>3, PollReturnsStep

LEMMA UnlinkStep ==
  ASSUME MonitorInv, NEW a \in Actors, Unlink(a)
  PROVE  MonitorInv'
  <1>1. /\ ~ruined /\ mPc[a] = "unlink" /\ tableLock = Nobody /\ table # NoSess
        /\ table' = NoSess /\ tableLock' = a /\ ruined' \in BOOLEAN
        /\ (~ruined' => table = mSess[a])
        /\ mPc' = [mPc EXCEPT ![a] = "locking"] /\ mSess' = [mSess EXCEPT ![a] = @]
        /\ UNCHANGED <<onEvents, sessLock, sLife, polling, notified, sTimer, evtListeners,
                       ploadListeners, evtRegs, endRegs, evtQueue, ploadQueue, pPc, toNotify>>
    BY DEF Unlink, Is, To, Jump, With, sessionVars, procVars
  <1>2. SessionsKept /\ MonTypeOK
    BY <1>1 DEF MonitorInv
  <1>3. MonTypeOK'
    BY <1>1, <1>2 DEF MonTypeOK, ActorPcs
  <1>4. \A x \in Sess : Sleepers(x)' = Sleepers(x)
    BY <1>1, <1>2 DEF Sleepers, MonTypeOK
  <1>5. ASSUME ~ruined' PROVE SessionsKept'
    <2>1. WithSession'
      BY <1>1, <1>2 DEF SessionsKept, WithSession, MonTypeOK
    <2>2. TableHeld'
      BY <1>1, <1>2, <1>5, ActorsAre DEF SessionsKept, TableHeld, ClientCalls, MonTypeOK
    <2>3. SessionHeld'
      BY <1>1, <1>2 DEF SessionsKept, SessionHeld, MonTypeOK
    <2>4. OneStops'
      BY <1>1, <1>2 DEF SessionsKept, OneStops, Stopping, MonTypeOK
    <2>5. PollsCounted'
      BY <1>1, <1>2, <1>4 DEF SessionsKept, PollsCounted, Stopping, MonTypeOK
    <2>6. ToldRegistered'
      BY <1>1, <1>2 DEF SessionsKept, ToldRegistered
    <2>7. NothingComes'
      BY <1>1, <1>2, <2>1 DEF SessionsKept, NothingComes, NoEventsFor, MonTypeOK
    <2> QED  BY <2>1, <2>2, <2>3, <2>4, <2>5, <2>6, <2>7 DEF SessionsKept
  <1> QED  BY <1>3, <1>5 DEF MonitorInv

LEMMA MarkStoppedStep ==
  ASSUME MonitorInv, NEW a \in Actors, MarkStopped(a)
  PROVE  MonitorInv'
  <1>1. /\ ~ruined /\ mPc[a] = "locking"
        /\ mPc' = [mPc EXCEPT ![a] = "drain"]
        /\ mSess' = [mSess EXCEPT ![a] = @]
        /\ sessLock[mSess[a]] = Nobody /\ tableLock' = Nobody
        /\ sLife' = [sLife EXCEPT ![mSess[a]] = "stopping"]
        /\ UNCHANGED <<onEvents, table, sessLock, polling, notified, sTimer, evtListeners, ploadListeners, evtRegs, endRegs, evtQueue, ploadQueue, pPc, toNotify, ruined>>
    BY DEF MarkStopped, Is, To, Jump, With, lockVars, sessionVars, procVars,
       listenVars, Quiet, QueueFreed
  <1>2. ~ruined /\ MonTypeOK /\ SessionsKept
    BY <1>1 DEF MonitorInv
  <1>3. \A x \in Sess : Sleepers(x)' = Sleepers(x)
    BY <1>1, <1>2, ActorsAre DEF Sleepers, MonTypeOK
  <1>4. MonTypeOK'
    BY <1>1, <1>2, ActorsAre DEF SessionsKept, WithSession, MonTypeOK, ActorPcs
  <1>5. WithSession'
    BY <1>1, <1>2, ActorsAre DEF SessionsKept, MonTypeOK, WithSession
  <1>6. TableHeld'
    BY <1>1, <1>2, ActorsAre DEF SessionsKept, MonTypeOK, TableHeld, ClientCalls
  <1>7. SessionHeld'
    BY <1>1, <1>2, ActorsAre DEF SessionsKept, MonTypeOK, SessionHeld
  <1>8. OneStops'
    <2>1. sLife[mSess[a]] = "live" /\ mSess[a] \in Sess
      BY <1>1, <1>2 DEF SessionsKept, TableHeld, WithSession
    <2>2. \A b \in Actors : mPc[b] \in Stopping => sLife[mSess[b]] = "stopping" /\ mSess[b] # mSess[a]
      BY <1>2, <2>1 DEF SessionsKept, OneStops
    <2>3. mSess' = mSess /\ \A b \in Actors : mPc'[b] \in Stopping => b = a \/ mPc[b] \in Stopping
      BY <1>1, <1>2 DEF MonTypeOK
    <2>4. \A b \in Actors : mPc[b] \in Stopping => sLife'[mSess[b]] = "stopping"
      BY <1>1, <1>2, <2>2 DEF MonTypeOK
    <2>5. sLife'[mSess[a]] = "stopping"
      BY <1>1, <1>2, <2>1 DEF MonTypeOK
    <2> QED  BY <1>2, <2>2, <2>3, <2>4, <2>5 DEF SessionsKept, OneStops
  <1>9. PollsCounted'
    BY <1>1, <1>2, ActorsAre, <1>3 DEF SessionsKept, MonTypeOK, PollsCounted,
       Stopping
  <1>10. ToldRegistered'
    BY <1>1, <1>2, ActorsAre DEF SessionsKept, MonTypeOK, ToldRegistered
  <1>11. NothingComes'
    <2>1. NothingForGone
      BY <1>1, <1>2, ActorsAre DEF NothingForGone, NoEventsFor, MonTypeOK
    <2>2. FreesEmpty
      BY <1>1, <1>2 DEF FreesEmpty, NoEventsFor, MonTypeOK
    <2>3. StopsUnlistened
      BY <1>1, <1>2 DEF StopsUnlistened, Stopping, NoEventsFor, MonTypeOK
    <2> QED  BY <1>2, <2>1, <2>2, <2>3, NothingLater
  <1> QED  BY <1>4, <1>5, <1>6, <1>7, <1>8, <1>9, <1>10, <1>11 DEF MonitorInv,
     SessionsKept

LEMMA DrainedStep ==
  ASSUME MonitorInv, NEW a \in Actors, Drained(a)
  PROVE  MonitorInv'
  <1>1. /\ ~ruined /\ mPc[a] = "drain"
        /\ mPc' = [mPc EXCEPT ![a] = "unregister"]
        /\ mSess' = [mSess EXCEPT ![a] = @]
        /\ sessLock[mSess[a]] = Nobody /\ NoPoll(mSess[a])
        /\ UNCHANGED <<onEvents, table, tableLock, sessLock, sLife, polling, notified, sTimer, evtListeners, ploadListeners, evtRegs, endRegs, evtQueue, ploadQueue, pPc, toNotify, ruined>>
    BY DEF Drained, Is, To, Jump, With, lockVars, sessionVars, procVars, listenVars,
       Quiet, QueueFreed
  <1>2. ~ruined /\ MonTypeOK /\ SessionsKept
    BY <1>1 DEF MonitorInv
  <1>3. Sleepers(mSess[a]) = {}
    BY <1>1, <1>2, SleepersFinite DEF SessionsKept, PollsCounted, WithSession, NoPoll
  <1>4. \A x \in Sess : Sleepers(x)' = Sleepers(x)
    BY <1>1, <1>2, ActorsAre, <1>3 DEF Sleepers, MonTypeOK
  <1>5. MonTypeOK'
    BY <1>1, <1>2, ActorsAre, <1>3 DEF SessionsKept, WithSession, MonTypeOK, ActorPcs
  <1>6. WithSession'
    BY <1>1, <1>2, ActorsAre, <1>3 DEF SessionsKept, MonTypeOK, WithSession
  <1>7. TableHeld'
    BY <1>1, <1>2, ActorsAre, <1>3 DEF SessionsKept, MonTypeOK, TableHeld,
       ClientCalls
  <1>8. SessionHeld'
    BY <1>1, <1>2, ActorsAre, <1>3 DEF SessionsKept, MonTypeOK, SessionHeld
  <1>9. OneStops'
    BY <1>1, <1>2, ActorsAre, <1>3 DEF SessionsKept, MonTypeOK, OneStops, Stopping
  <1>10. PollsCounted'
    BY <1>1, <1>2, ActorsAre, <1>3, <1>4 DEF SessionsKept, MonTypeOK, PollsCounted,
       Stopping, Sleepers, WithSession
  <1>11. ToldRegistered'
    BY <1>1, <1>2, ActorsAre, <1>3 DEF SessionsKept, MonTypeOK, ToldRegistered
  <1>12. NothingComes'
    <2>1. NothingForGone
      BY <1>1, <1>2, <1>3, ActorsAre DEF NothingForGone, NoEventsFor, MonTypeOK
    <2>2. FreesEmpty
      BY <1>1, <1>2, <1>3 DEF FreesEmpty, NoEventsFor, MonTypeOK
    <2>3. StopsUnlistened
      BY <1>1, <1>2, <1>3 DEF StopsUnlistened, Stopping, NoEventsFor, MonTypeOK
    <2> QED  BY <1>2, <2>1, <2>2, <2>3, NothingLater
  <1> QED  BY <1>5, <1>6, <1>7, <1>8, <1>9, <1>10, <1>11, <1>12 DEF MonitorInv,
     SessionsKept

LEMMA WakePollsStep ==
  ASSUME MonitorInv, NEW a \in Actors, WakePolls(a)
  PROVE  MonitorInv'
  <1>1. /\ ~ruined /\ notified' = notified \cup Sleepers(mSess[a])
        /\ UNCHANGED <<mPc, mSess>>
        /\ UNCHANGED <<onEvents, table, tableLock, sessLock, sLife, polling, sTimer,
                       evtListeners, ploadListeners, evtRegs, endRegs, evtQueue, ploadQueue,
                       pPc, toNotify, ruined>>
    BY DEF WakePolls, Is, lockVars, sessionVars, procVars
  <1>2. ~ruined /\ MonTypeOK /\ SessionsKept
    BY <1>1 DEF MonitorInv
  <1>3. Sleepers(mSess[a]) \subseteq Actors
    BY DEF Sleepers
  <1>4. \A x \in Sess : Sleepers(x)' = Sleepers(x)
    BY <1>1, <1>2, ActorsAre, <1>3 DEF Sleepers, MonTypeOK
  <1>5. MonTypeOK'
    BY <1>1, <1>2, ActorsAre, <1>3 DEF SessionsKept, WithSession, MonTypeOK, ActorPcs
  <1>6. WithSession'
    BY <1>1, <1>2, ActorsAre, <1>3 DEF SessionsKept, MonTypeOK, WithSession
  <1>7. TableHeld'
    BY <1>1, <1>2, ActorsAre, <1>3 DEF SessionsKept, MonTypeOK, TableHeld
  <1>8. SessionHeld'
    BY <1>1, <1>2, ActorsAre, <1>3 DEF SessionsKept, MonTypeOK, SessionHeld
  <1>9. OneStops'
    BY <1>1, <1>2, ActorsAre, <1>3 DEF SessionsKept, MonTypeOK, OneStops, Stopping
  <1>10. PollsCounted'
    BY <1>1, <1>2, ActorsAre, <1>3, <1>4 DEF SessionsKept, MonTypeOK, PollsCounted,
       Stopping
  <1>11. ToldRegistered'
    BY <1>1, <1>2, ActorsAre, <1>3 DEF SessionsKept, MonTypeOK, ToldRegistered
  <1>12. NothingComes'
    <2>1. NothingForGone
      BY <1>1, <1>2, <1>3, ActorsAre DEF NothingForGone, NoEventsFor, MonTypeOK
    <2>2. FreesEmpty
      BY <1>1, <1>2, <1>3 DEF FreesEmpty, NoEventsFor, MonTypeOK
    <2>3. StopsUnlistened
      BY <1>1, <1>2, <1>3 DEF StopsUnlistened, Stopping, NoEventsFor, MonTypeOK
    <2> QED  BY <1>2, <2>1, <2>2, <2>3, NothingLater
  <1> QED  BY <1>5, <1>6, <1>7, <1>8, <1>9, <1>10, <1>11, <1>12 DEF MonitorInv,
     SessionsKept

LEMMA UnregisterAllStep ==
  ASSUME MonitorInv, NEW a \in Actors, UnregisterAll(a)
  PROVE  MonitorInv'
  <1>1. /\ ~ruined /\ mPc[a] = "unregister"
        /\ mPc' = [mPc EXCEPT ![a] = "unlisten"]
        /\ mSess' = [mSess EXCEPT ![a] = @]
        /\ (mSess[a] \in evtRegs => Paused) /\ evtRegs' = evtRegs \ {mSess[a]}
        /\ endRegs' = endRegs \ {mSess[a]}
        /\ evtListeners' = [evtListeners EXCEPT ![mSess[a]] = 0]
        /\ evtQueue' = [evtQueue EXCEPT ![mSess[a]] = 0]
        /\ UNCHANGED <<onEvents, table, tableLock, sessLock, sLife, polling,
                       notified, sTimer, ploadListeners, ploadQueue, pPc, toNotify,
                       ruined>>
    BY DEF UnregisterAll, Is, To, Jump, With, lockVars, sessionVars, procVars,
       listenVars, Quiet, QueueFreed
  <1>2. ~ruined /\ MonTypeOK /\ SessionsKept
    BY <1>1 DEF MonitorInv
  <1>3. \A x \in Sess : Sleepers(x)' = Sleepers(x)
    BY <1>1, <1>2, ActorsAre DEF Sleepers, MonTypeOK
  <1>4. MonTypeOK'
    BY <1>1, <1>2, ActorsAre DEF SessionsKept, WithSession, MonTypeOK, ActorPcs
  <1>5. WithSession'
    BY <1>1, <1>2, ActorsAre DEF SessionsKept, MonTypeOK, WithSession
  <1>6. TableHeld'
    BY <1>1, <1>2, ActorsAre DEF SessionsKept, MonTypeOK, TableHeld, ClientCalls
  <1>7. SessionHeld'
    BY <1>1, <1>2, ActorsAre DEF SessionsKept, MonTypeOK, SessionHeld
  <1>8. OneStops'
    BY <1>1, <1>2, ActorsAre DEF SessionsKept, MonTypeOK, OneStops, Stopping
  <1>9. PollsCounted'
    BY <1>1, <1>2, ActorsAre, <1>3 DEF SessionsKept, MonTypeOK, PollsCounted,
       Stopping
  <1>10. ToldRegistered'
    BY <1>1, <1>2, ActorsAre DEF SessionsKept, MonTypeOK, ToldRegistered, Paused
  <1>11. NothingComes'
    <2>1. NothingForGone
      BY <1>1, <1>2, ActorsAre DEF NothingForGone, NoEventsFor, MonTypeOK
    <2>2. FreesEmpty
      BY <1>1, <1>2 DEF FreesEmpty, NoEventsFor, MonTypeOK
    <2>3. StopsUnlistened
      BY <1>1, <1>2 DEF StopsUnlistened, Stopping, NoEventsFor, MonTypeOK
    <2> QED  BY <1>2, <2>1, <2>2, <2>3, NothingLater
  <1> QED  BY <1>4, <1>5, <1>6, <1>7, <1>8, <1>9, <1>10, <1>11 DEF MonitorInv,
     SessionsKept

LEMMA UnlistenOneStep ==
  ASSUME MonitorInv, NEW a \in Actors, UnlistenAll(a), ~LastListener
  PROVE  MonitorInv'
  <1>1. /\ ~ruined /\ mPc[a] = "unlisten" /\ ploadListeners[mSess[a]] > 0
        /\ mPc' = [mPc EXCEPT ![a] = "unlisten"] /\ mSess' = [mSess EXCEPT ![a] = @]
        /\ ploadListeners' = [ploadListeners EXCEPT ![mSess[a]] = @ - 1]
        /\ UNCHANGED <<onEvents, table, tableLock, sessLock, sLife, polling,
                       notified, sTimer, evtListeners, evtRegs, endRegs, evtQueue,
                       ploadQueue, pPc, toNotify, ruined>>
    BY DEF UnlistenAll, RemoveOne, Is, To, Jump, With, lockVars, sessionVars,
       procVars
  <1>2. ~ruined /\ MonTypeOK /\ SessionsKept
    BY <1>1 DEF MonitorInv
  <1>3. ploadListeners' \in [Sess -> Nat]
    BY <1>1, <1>2 DEF SessionsKept, WithSession, MonTypeOK
  <1>4. \A x \in Sess : Sleepers(x)' = Sleepers(x)
    BY <1>1, <1>2, ActorsAre, <1>3 DEF Sleepers, MonTypeOK
  <1>5. MonTypeOK'
    BY <1>1, <1>2, ActorsAre, <1>3 DEF SessionsKept, WithSession, MonTypeOK, ActorPcs
  <1>6. WithSession'
    BY <1>1, <1>2, ActorsAre, <1>3 DEF SessionsKept, MonTypeOK, WithSession
  <1>7. TableHeld'
    BY <1>1, <1>2, ActorsAre, <1>3 DEF SessionsKept, MonTypeOK, TableHeld,
       ClientCalls
  <1>8. SessionHeld'
    BY <1>1, <1>2, ActorsAre, <1>3 DEF SessionsKept, MonTypeOK, SessionHeld
  <1>9. OneStops'
    BY <1>1, <1>2, ActorsAre, <1>3 DEF SessionsKept, MonTypeOK, OneStops, Stopping
  <1>10. PollsCounted'
    BY <1>1, <1>2, ActorsAre, <1>3, <1>4 DEF SessionsKept, MonTypeOK, PollsCounted,
       Stopping
  <1>11. ToldRegistered'
    BY <1>1, <1>2, ActorsAre, <1>3 DEF SessionsKept, MonTypeOK, ToldRegistered
  <1>12. NothingComes'
    <2>1. NothingForGone
      BY <1>1, <1>2, <1>3, ActorsAre DEF NothingForGone, NoEventsFor, MonTypeOK
    <2>2. FreesEmpty
      BY <1>1, <1>2, <1>3 DEF FreesEmpty, NoEventsFor, MonTypeOK
    <2>3. StopsUnlistened
      BY <1>1, <1>2, <1>3 DEF StopsUnlistened, Stopping, NoEventsFor, MonTypeOK
    <2> QED  BY <1>2, <2>1, <2>2, <2>3, NothingLater
  <1> QED  BY <1>5, <1>6, <1>7, <1>8, <1>9, <1>10, <1>11, <1>12 DEF MonitorInv,
     SessionsKept

LEMMA UnlistenLastStep ==
  ASSUME MonitorInv, NEW a \in Actors, UnlistenAll(a), LastListener
  PROVE  MonitorInv'
  <1>1. /\ ~ruined /\ mPc[a] = "unlisten" /\ ploadListeners[mSess[a]] > 0
        /\ mPc' = [mPc EXCEPT ![a] = "stopThenUnlisten"] /\ mSess' = [mSess EXCEPT ![a] = @]
        /\ ploadListeners' = [ploadListeners EXCEPT ![mSess[a]] = @ - 1]
        /\ UNCHANGED <<onEvents, table, tableLock, sessLock, sLife, polling,
                       notified, sTimer, evtListeners, evtRegs, endRegs, evtQueue,
                       ploadQueue, pPc, toNotify, ruined>>
    BY DEF UnlistenAll, RemoveOne, Is, To, Jump, With, lockVars, sessionVars,
       procVars
  <1>2. ~ruined /\ MonTypeOK /\ SessionsKept
    BY <1>1 DEF MonitorInv
  <1>3. ploadListeners' \in [Sess -> Nat]
    BY <1>1, <1>2 DEF SessionsKept, WithSession, MonTypeOK
  <1>4. \A x \in Sess : Sleepers(x)' = Sleepers(x)
    BY <1>1, <1>2, ActorsAre, <1>3 DEF Sleepers, MonTypeOK
  <1>5. MonTypeOK'
    BY <1>1, <1>2, ActorsAre, <1>3 DEF SessionsKept, WithSession, MonTypeOK, ActorPcs
  <1>6. WithSession'
    BY <1>1, <1>2, ActorsAre, <1>3 DEF SessionsKept, MonTypeOK, WithSession
  <1>7. TableHeld'
    BY <1>1, <1>2, ActorsAre, <1>3 DEF SessionsKept, MonTypeOK, TableHeld,
       ClientCalls
  <1>8. SessionHeld'
    BY <1>1, <1>2, ActorsAre, <1>3 DEF SessionsKept, MonTypeOK, SessionHeld
  <1>9. OneStops'
    BY <1>1, <1>2, ActorsAre, <1>3 DEF SessionsKept, MonTypeOK, OneStops, Stopping
  <1>10. PollsCounted'
    BY <1>1, <1>2, ActorsAre, <1>3, <1>4 DEF SessionsKept, MonTypeOK, PollsCounted,
       Stopping
  <1>11. ToldRegistered'
    BY <1>1, <1>2, ActorsAre, <1>3 DEF SessionsKept, MonTypeOK, ToldRegistered
  <1>12. NothingComes'
    <2>1. NothingForGone
      BY <1>1, <1>2, <1>3, ActorsAre DEF NothingForGone, NoEventsFor, MonTypeOK
    <2>2. FreesEmpty
      BY <1>1, <1>2, <1>3 DEF FreesEmpty, NoEventsFor, MonTypeOK
    <2>3. StopsUnlistened
      BY <1>1, <1>2, <1>3 DEF StopsUnlistened, Stopping, NoEventsFor, MonTypeOK
    <2> QED  BY <1>2, <2>1, <2>2, <2>3, NothingLater
  <1> QED  BY <1>5, <1>6, <1>7, <1>8, <1>9, <1>10, <1>11, <1>12 DEF MonitorInv,
     SessionsKept

LEMMA StopThenUnlistenStep ==
  ASSUME MonitorInv, NEW a \in Actors, StopPloads(a), mPc[a] # "stop"
  PROVE  MonitorInv'
  <1>1. /\ ~ruined /\ mPc[a] = "stopThenUnlisten"
        /\ mPc' = [mPc EXCEPT ![a] = "unlisten"] /\ mSess' = [mSess EXCEPT ![a] = @]
        /\ UNCHANGED <<onEvents, table, tableLock, sessLock, sLife, polling,
                       notified, sTimer, evtListeners, ploadListeners, evtRegs, endRegs,
                       evtQueue, ploadQueue, pPc, toNotify, ruined>>
    BY DEF StopPloads, Is, To, Jump, With, lockVars, sessionVars, procVars
  <1>2. ~ruined /\ MonTypeOK /\ SessionsKept
    BY <1>1 DEF MonitorInv
  <1>3. \A x \in Sess : Sleepers(x)' = Sleepers(x)
    BY <1>1, <1>2, ActorsAre DEF Sleepers, MonTypeOK
  <1>4. MonTypeOK'
    BY <1>1, <1>2, ActorsAre DEF SessionsKept, WithSession, MonTypeOK, ActorPcs
  <1>5. WithSession'
    BY <1>1, <1>2, ActorsAre DEF SessionsKept, MonTypeOK, WithSession
  <1>6. TableHeld'
    BY <1>1, <1>2, ActorsAre DEF SessionsKept, MonTypeOK, TableHeld, ClientCalls
  <1>7. SessionHeld'
    BY <1>1, <1>2, ActorsAre DEF SessionsKept, MonTypeOK, SessionHeld
  <1>8. OneStops'
    BY <1>1, <1>2, ActorsAre DEF SessionsKept, MonTypeOK, OneStops, Stopping
  <1>9. PollsCounted'
    BY <1>1, <1>2, ActorsAre, <1>3 DEF SessionsKept, MonTypeOK, PollsCounted,
       Stopping
  <1>10. ToldRegistered'
    BY <1>1, <1>2, ActorsAre DEF SessionsKept, MonTypeOK, ToldRegistered
  <1>11. NothingComes'
    <2>1. NothingForGone
      BY <1>1, <1>2, ActorsAre DEF NothingForGone, NoEventsFor, MonTypeOK
    <2>2. FreesEmpty
      BY <1>1, <1>2 DEF FreesEmpty, NoEventsFor, MonTypeOK
    <2>3. StopsUnlistened
      BY <1>1, <1>2 DEF StopsUnlistened, Stopping, NoEventsFor, MonTypeOK
    <2> QED  BY <1>2, <2>1, <2>2, <2>3, NothingLater
  <1> QED  BY <1>4, <1>5, <1>6, <1>7, <1>8, <1>9, <1>10, <1>11 DEF MonitorInv,
     SessionsKept

LEMMA FreeSessionStep ==
  ASSUME MonitorInv, NEW a \in Actors, FreeSession(a)
  PROVE  MonitorInv'
  <1>1. /\ ~ruined /\ mPc[a] = "unlisten" /\ ploadListeners[mSess[a]] = 0
        /\ mPc' = [mPc EXCEPT ![a] = "idle"] /\ mSess' = [mSess EXCEPT ![a] = NoSess]
        /\ ploadQueue' = [ploadQueue EXCEPT ![mSess[a]] = 0]
        /\ sTimer' = [sTimer EXCEPT ![mSess[a]] = FALSE]
        /\ sLife' = [sLife EXCEPT ![mSess[a]] = "freed"]
        /\ UNCHANGED <<onEvents, table, tableLock, sessLock, polling, notified,
                       evtListeners, ploadListeners, evtRegs, endRegs, evtQueue, pPc,
                       toNotify, ruined>>
    BY DEF FreeSession, Is, To, Jump, With, lockVars, sessionVars, procVars
  <1>2. ~ruined /\ MonTypeOK /\ SessionsKept
    BY <1>1 DEF MonitorInv
  <1>3. mSess[a] \in Sess /\ sLife[mSess[a]] = "stopping"
        /\ \A b \in Actors : mPc[b] = "polling" => mSess[b] # mSess[a]
        /\ \A x \in Actors \ {a} : mPc[x] \in Stopping => mSess[x] # mSess[a]
    BY <1>1, <1>2 DEF SessionsKept, WithSession, OneStops, PollsCounted, Stopping
  <1>4. \A x \in Sess : Sleepers(x)' = Sleepers(x)
    BY <1>1, <1>2, ActorsAre, <1>3 DEF Sleepers, MonTypeOK
  <1>5. MonTypeOK'
    BY <1>1, <1>2, ActorsAre, <1>3 DEF SessionsKept, WithSession, MonTypeOK, ActorPcs
  <1>6. WithSession'
    BY <1>1, <1>2, ActorsAre, <1>3 DEF SessionsKept, MonTypeOK, WithSession
  <1>7. TableHeld'
    BY <1>1, <1>2, ActorsAre, <1>3 DEF SessionsKept, MonTypeOK, TableHeld,
       ClientCalls, WithSession
  <1>8. SessionHeld'
    BY <1>1, <1>2, ActorsAre, <1>3 DEF SessionsKept, MonTypeOK, SessionHeld
  <1>9. OneStops'
    BY <1>1, <1>2, ActorsAre, <1>3 DEF SessionsKept, MonTypeOK, OneStops, Stopping,
       WithSession
  <1>10. PollsCounted'
    BY <1>1, <1>2, ActorsAre, <1>3, <1>4 DEF SessionsKept, MonTypeOK, PollsCounted,
       Stopping, WithSession
  <1>11. ToldRegistered'
    BY <1>1, <1>2, ActorsAre, <1>3 DEF SessionsKept, MonTypeOK, ToldRegistered
  <1>12. NothingComes'
    <2>1. NothingForGone
      BY <1>1, <1>2, <1>3, ActorsAre DEF NothingForGone, NoEventsFor, MonTypeOK
    <2>2. FreesEmpty
      <3>1. NoEventsFor(mSess[a]) /\ ploadListeners[mSess[a]] = 0
        BY <1>1, <1>2 DEF SessionsKept, NothingComes
      <3>2. PICK s \in Sess : s = mSess[a]
        BY <1>3
      <3>3. NoEventsFor(s)' /\ ploadListeners'[s] = 0 /\ ploadQueue'[s] = 0
        BY <1>1, <1>2, <3>1, <3>2 DEF NoEventsFor, MonTypeOK
      <3>4. \A r \in Sess \ {s} : sLife'[r] = sLife[r]
        BY <1>1, <1>2, <3>2 DEF MonTypeOK
      <3> QED  BY <3>3, <3>4 DEF FreesEmpty
    <2>3. StopsUnlistened
      BY <1>1, <1>2, <1>3 DEF StopsUnlistened, Stopping, NoEventsFor, MonTypeOK
    <2> QED  BY <1>2, <2>1, <2>2, <2>3, NothingLater
  <1> QED  BY <1>5, <1>6, <1>7, <1>8, <1>9, <1>10, <1>11, <1>12 DEF MonitorInv,
     SessionsKept

LEMMA AddPloadStep ==
  ASSUME MonitorInv, NEW a \in Actors, NEW s \in Sess, AddPload(a, s)
  PROVE  MonitorInv'
  <1>1. /\ ~ruined /\ Locks(a, "addPload", s) /\ tableLock' = Nobody
        /\ mPc' = [mPc EXCEPT ![a] = "count"]
        /\ mSess' = [mSess EXCEPT ![a] = s]
        /\ ploadListeners' = [ploadListeners EXCEPT ![s] = @ + 1]
        /\ UNCHANGED <<onEvents, table, sessLock, sLife, polling, notified, sTimer,
                       evtListeners, evtRegs, endRegs, evtQueue, ploadQueue, pPc, toNotify,
                       ruined>>
    BY DEF AddPload, Couple, Locks, Finds, Is, To, Jump, With, Acquire, lockVars,
       sessionVars, procVars, listenVars
  <1>2. ~ruined /\ MonTypeOK /\ SessionsKept
    BY <1>1 DEF MonitorInv
  <1>3. /\ s \in Sess /\ table = s /\ table # NoSess /\ sLife[s] = "live"
        /\ sessLock[s] = Nobody
        /\ mPc[a] \notin {"polling", "locking", "register", "unregisterOne"} \cup Stopping
        /\ \A b \in Actors \ {a} : mPc[b] # "locking" /\ mPc[b] \notin ClientCalls
        /\ \A p \in Procs : pPc[p] # "listing"
    BY <1>1, CallerHas DEF ClientCalls
  <1>4. \A x \in Sess : Sleepers(x)' = Sleepers(x)
    BY <1>1, <1>2, ActorsAre, <1>3 DEF Sleepers, MonTypeOK
  <1>5. MonTypeOK'
    BY <1>1, <1>2, ActorsAre, <1>3 DEF SessionsKept, WithSession, MonTypeOK, ActorPcs
  <1>6. WithSession'
    BY <1>1, <1>2, ActorsAre, <1>3 DEF SessionsKept, MonTypeOK, WithSession
  <1>7. TableHeld'
    BY <1>1, <1>2, ActorsAre, <1>3 DEF SessionsKept, MonTypeOK, TableHeld,
       ClientCalls
  <1>8. SessionHeld'
    BY <1>1, <1>2, ActorsAre, <1>3 DEF SessionsKept, MonTypeOK, SessionHeld
  <1>9. OneStops'
    BY <1>1, <1>2, ActorsAre, <1>3 DEF SessionsKept, MonTypeOK, OneStops, Stopping
  <1>10. PollsCounted'
    BY <1>1, <1>2, ActorsAre, <1>3, <1>4 DEF SessionsKept, MonTypeOK, PollsCounted,
       Stopping
  <1>11. ToldRegistered'
    BY <1>1, <1>2, ActorsAre, <1>3 DEF SessionsKept, MonTypeOK, ToldRegistered
  <1>12. NothingComes'
    <2>1. NothingForGone
      BY <1>1, <1>2, <1>3, ActorsAre DEF NothingForGone, NoEventsFor, MonTypeOK
    <2>2. FreesEmpty
      BY <1>1, <1>2, <1>3 DEF FreesEmpty, NoEventsFor, MonTypeOK
    <2>3. StopsUnlistened
      BY <1>1, <1>2, <1>3 DEF StopsUnlistened, Stopping, NoEventsFor, MonTypeOK
    <2> QED  BY <1>2, <2>1, <2>2, <2>3, NothingLater
  <1> QED  BY <1>5, <1>6, <1>7, <1>8, <1>9, <1>10, <1>11, <1>12 DEF MonitorInv,
     SessionsKept

LEMMA RemoveNoPloadStep ==
  ASSUME MonitorInv, NEW a \in Actors, NEW s \in Sess, RemovePload(a, s), ploadListeners[s] = 0
  PROVE  MonitorInv'
  <1>1. /\ ~ruined /\ Locks(a, "removePload", s) /\ tableLock' = Nobody
        /\ mPc' = [mPc EXCEPT ![a] = "idle"]
        /\ mSess' = [mSess EXCEPT ![a] = NoSess]
        /\ UNCHANGED <<onEvents, table, sessLock, sLife, polling, notified, sTimer,
                       evtListeners, ploadListeners, evtRegs, endRegs, evtQueue, ploadQueue,
                       pPc, toNotify, ruined>>
    BY DEF RemovePload, Couple, Locks, Finds, Is, To, Jump, With, Acquire, lockVars,
       sessionVars, procVars, listenVars
  <1>2. ~ruined /\ MonTypeOK /\ SessionsKept
    BY <1>1 DEF MonitorInv
  <1>3. /\ s \in Sess /\ table = s /\ table # NoSess /\ sLife[s] = "live"
        /\ sessLock[s] = Nobody
        /\ mPc[a] \notin {"polling", "locking", "register", "unregisterOne"} \cup Stopping
        /\ \A b \in Actors \ {a} : mPc[b] # "locking" /\ mPc[b] \notin ClientCalls
        /\ \A p \in Procs : pPc[p] # "listing"
    BY <1>1, CallerHas DEF ClientCalls
  <1>4. \A x \in Sess : Sleepers(x)' = Sleepers(x)
    BY <1>1, <1>2, ActorsAre, <1>3 DEF Sleepers, MonTypeOK
  <1>5. MonTypeOK'
    BY <1>1, <1>2, ActorsAre, <1>3 DEF SessionsKept, WithSession, MonTypeOK, ActorPcs
  <1>6. WithSession'
    BY <1>1, <1>2, ActorsAre, <1>3 DEF SessionsKept, MonTypeOK, WithSession
  <1>7. TableHeld'
    BY <1>1, <1>2, ActorsAre, <1>3 DEF SessionsKept, MonTypeOK, TableHeld,
       ClientCalls
  <1>8. SessionHeld'
    BY <1>1, <1>2, ActorsAre, <1>3 DEF SessionsKept, MonTypeOK, SessionHeld
  <1>9. OneStops'
    BY <1>1, <1>2, ActorsAre, <1>3 DEF SessionsKept, MonTypeOK, OneStops, Stopping
  <1>10. PollsCounted'
    BY <1>1, <1>2, ActorsAre, <1>3, <1>4 DEF SessionsKept, MonTypeOK, PollsCounted,
       Stopping
  <1>11. ToldRegistered'
    BY <1>1, <1>2, ActorsAre, <1>3 DEF SessionsKept, MonTypeOK, ToldRegistered
  <1>12. NothingComes'
    <2>1. NothingForGone
      BY <1>1, <1>2, <1>3, ActorsAre DEF NothingForGone, NoEventsFor, MonTypeOK
    <2>2. FreesEmpty
      BY <1>1, <1>2, <1>3 DEF FreesEmpty, NoEventsFor, MonTypeOK
    <2>3. StopsUnlistened
      BY <1>1, <1>2, <1>3 DEF StopsUnlistened, Stopping, NoEventsFor, MonTypeOK
    <2> QED  BY <1>2, <2>1, <2>2, <2>3, NothingLater
  <1> QED  BY <1>5, <1>6, <1>7, <1>8, <1>9, <1>10, <1>11, <1>12 DEF MonitorInv,
     SessionsKept

LEMMA RemovePloadStep ==
  ASSUME MonitorInv, NEW a \in Actors, NEW s \in Sess, RemovePload(a, s), ploadListeners[s] # 0
  PROVE  MonitorInv'
  <1>1. /\ ~ruined /\ Locks(a, "removePload", s) /\ tableLock' = Nobody
        /\ mPc' = [mPc EXCEPT ![a] = "uncount"]
        /\ mSess' = [mSess EXCEPT ![a] = s]
        /\ ploadListeners[s] > 0 /\ ploadListeners' = [ploadListeners EXCEPT ![s] = @ - 1]
        /\ UNCHANGED <<onEvents, table, sessLock, sLife, polling, notified, sTimer,
                       evtListeners, evtRegs, endRegs, evtQueue, ploadQueue, pPc, toNotify,
                       ruined>>
    BY DEF RemovePload, Couple, Locks, Finds, Is, To, Jump, With, Acquire, lockVars,
       sessionVars, procVars, listenVars
  <1>2. ~ruined /\ MonTypeOK /\ SessionsKept
    BY <1>1 DEF MonitorInv
  <1>3. /\ s \in Sess /\ table = s /\ table # NoSess /\ sLife[s] = "live"
        /\ sessLock[s] = Nobody
        /\ mPc[a] \notin {"polling", "locking", "register", "unregisterOne"} \cup Stopping
        /\ \A b \in Actors \ {a} : mPc[b] # "locking" /\ mPc[b] \notin ClientCalls
        /\ \A p \in Procs : pPc[p] # "listing"
    BY <1>1, CallerHas DEF ClientCalls
  <1>4. ploadListeners' \in [Sess -> Nat]
    BY <1>1, <1>2 DEF MonTypeOK
  <1>5. \A x \in Sess : Sleepers(x)' = Sleepers(x)
    BY <1>1, <1>2, ActorsAre, <1>3, <1>4 DEF Sleepers, MonTypeOK
  <1>6. MonTypeOK'
    BY <1>1, <1>2, ActorsAre, <1>3, <1>4 DEF SessionsKept, WithSession, MonTypeOK,
       ActorPcs
  <1>7. WithSession'
    BY <1>1, <1>2, ActorsAre, <1>3, <1>4 DEF SessionsKept, MonTypeOK, WithSession
  <1>8. TableHeld'
    BY <1>1, <1>2, ActorsAre, <1>3, <1>4 DEF SessionsKept, MonTypeOK, TableHeld,
       ClientCalls
  <1>9. SessionHeld'
    BY <1>1, <1>2, ActorsAre, <1>3, <1>4 DEF SessionsKept, MonTypeOK, SessionHeld
  <1>10. OneStops'
    BY <1>1, <1>2, ActorsAre, <1>3, <1>4 DEF SessionsKept, MonTypeOK, OneStops,
       Stopping
  <1>11. PollsCounted'
    BY <1>1, <1>2, ActorsAre, <1>3, <1>4, <1>5 DEF SessionsKept, MonTypeOK,
       PollsCounted, Stopping
  <1>12. ToldRegistered'
    BY <1>1, <1>2, ActorsAre, <1>3, <1>4 DEF SessionsKept, MonTypeOK, ToldRegistered
  <1>13. NothingComes'
    <2>1. NothingForGone
      BY <1>1, <1>2, <1>3, <1>4, ActorsAre DEF NothingForGone, NoEventsFor, MonTypeOK
    <2>2. FreesEmpty
      BY <1>1, <1>2, <1>3, <1>4 DEF FreesEmpty, NoEventsFor, MonTypeOK
    <2>3. StopsUnlistened
      BY <1>1, <1>2, <1>3, <1>4 DEF StopsUnlistened, Stopping, NoEventsFor, MonTypeOK
    <2> QED  BY <1>2, <2>1, <2>2, <2>3, NothingLater
  <1> QED  BY <1>6, <1>7, <1>8, <1>9, <1>10, <1>11, <1>12, <1>13 DEF MonitorInv,
     SessionsKept

LEMMA ChangeEventsStep ==
  ASSUME MonitorInv, NEW a \in Actors, NEW s \in Sess, NEW n \in Nat, NEW l \in {"addEvent", "removeEvent"},
         ChangeEvents(a, l, s, n), To(a, "idle"), UNCHANGED sessLock
  PROVE  MonitorInv'
  <1>1. /\ ~ruined /\ Locks(a, l, s) /\ tableLock' = Nobody
        /\ mPc' = [mPc EXCEPT ![a] = "idle"]
        /\ mSess' = [mSess EXCEPT ![a] = NoSess]
        /\ evtListeners' = [evtListeners EXCEPT ![s] = n]
        /\ UNCHANGED <<onEvents, table, sessLock, sLife, polling, notified, sTimer,
                       ploadListeners, evtRegs, endRegs, evtQueue, ploadQueue, pPc, toNotify,
                       ruined>>
    BY DEF ChangeEvents, Pauses, Couple, Locks, Finds, Is, To, Jump, With, Acquire, lockVars,
       sessionVars, procVars, listenVars
  <1>2. ~ruined /\ MonTypeOK /\ SessionsKept
    BY <1>1 DEF MonitorInv
  <1>3. /\ s \in Sess /\ table = s /\ table # NoSess /\ sLife[s] = "live"
        /\ sessLock[s] = Nobody
        /\ mPc[a] \notin {"polling", "locking", "register", "unregisterOne"} \cup Stopping
        /\ \A b \in Actors \ {a} : mPc[b] # "locking" /\ mPc[b] \notin ClientCalls
        /\ \A p \in Procs : pPc[p] # "listing"
    BY <1>1, CallerHas DEF ClientCalls
  <1>4. \A x \in Sess : Sleepers(x)' = Sleepers(x)
    BY <1>1, <1>2, ActorsAre, <1>3 DEF Sleepers, MonTypeOK
  <1>5. MonTypeOK'
    BY <1>1, <1>2, ActorsAre, <1>3 DEF SessionsKept, WithSession, MonTypeOK, ActorPcs
  <1>6. WithSession'
    BY <1>1, <1>2, ActorsAre, <1>3 DEF SessionsKept, MonTypeOK, WithSession
  <1>7. TableHeld'
    BY <1>1, <1>2, ActorsAre, <1>3 DEF SessionsKept, MonTypeOK, TableHeld,
       ClientCalls
  <1>8. SessionHeld'
    BY <1>1, <1>2, ActorsAre, <1>3 DEF SessionsKept, MonTypeOK, SessionHeld
  <1>9. OneStops'
    BY <1>1, <1>2, ActorsAre, <1>3 DEF SessionsKept, MonTypeOK, OneStops, Stopping
  <1>10. PollsCounted'
    BY <1>1, <1>2, ActorsAre, <1>3, <1>4 DEF SessionsKept, MonTypeOK, PollsCounted,
       Stopping
  <1>11. ToldRegistered'
    BY <1>1, <1>2, ActorsAre, <1>3 DEF SessionsKept, MonTypeOK, ToldRegistered
  <1>12. NothingComes'
    <2>1. NothingForGone
      BY <1>1, <1>2, <1>3, ActorsAre DEF NothingForGone, NoEventsFor, MonTypeOK
    <2>2. FreesEmpty
      BY <1>1, <1>2, <1>3 DEF FreesEmpty, NoEventsFor, MonTypeOK
    <2>3. StopsUnlistened
      BY <1>1, <1>2, <1>3 DEF StopsUnlistened, Stopping, NoEventsFor, MonTypeOK
    <2> QED  BY <1>2, <2>1, <2>2, <2>3, NothingLater
  <1> QED  BY <1>5, <1>6, <1>7, <1>8, <1>9, <1>10, <1>11, <1>12 DEF MonitorInv,
     SessionsKept

LEMMA LastEventStep ==
  ASSUME MonitorInv, NEW a \in Actors, NEW s \in Sess, NEW n \in Nat, NEW l \in {"addEvent", "removeEvent"},
         ChangeEvents(a, l, s, n), Pauses(a, s, "unregisterOne")
  PROVE  MonitorInv'
  <1>1. /\ ~ruined /\ Locks(a, l, s) /\ tableLock' = Nobody
        /\ mPc' = [mPc EXCEPT ![a] = "unregisterOne"]
        /\ mSess' = [mSess EXCEPT ![a] = s]
        /\ evtListeners' = [evtListeners EXCEPT ![s] = n]
        /\ sessLock' = [sessLock EXCEPT ![s] = a]
        /\ UNCHANGED <<onEvents, table, sLife, polling, notified, sTimer,
                       ploadListeners, evtRegs, endRegs, evtQueue, ploadQueue, pPc, toNotify,
                       ruined>>
    BY DEF ChangeEvents, Pauses, Couple, Locks, Finds, Is, To, Jump, With, Acquire, lockVars,
       sessionVars, procVars, listenVars
  <1>2. ~ruined /\ MonTypeOK /\ SessionsKept
    BY <1>1 DEF MonitorInv
  <1>3. /\ s \in Sess /\ table = s /\ table # NoSess /\ sLife[s] = "live"
        /\ sessLock[s] = Nobody
        /\ mPc[a] \notin {"polling", "locking", "register", "unregisterOne"} \cup Stopping
        /\ \A b \in Actors \ {a} : mPc[b] # "locking" /\ mPc[b] \notin ClientCalls
        /\ \A p \in Procs : pPc[p] # "listing"
    BY <1>1, CallerHas DEF ClientCalls
  <1>4. \A x \in Sess : Sleepers(x)' = Sleepers(x)
    BY <1>1, <1>2, ActorsAre, <1>3 DEF Sleepers, MonTypeOK
  <1>5. MonTypeOK'
    BY <1>1, <1>2, ActorsAre, <1>3 DEF SessionsKept, WithSession, MonTypeOK, ActorPcs
  <1>6. WithSession'
    BY <1>1, <1>2, ActorsAre, <1>3 DEF SessionsKept, MonTypeOK, WithSession
  <1>7. TableHeld'
    BY <1>1, <1>2, ActorsAre, <1>3 DEF SessionsKept, MonTypeOK, TableHeld,
       ClientCalls
  <1>8. SessionHeld'
    BY <1>1, <1>2, ActorsAre, <1>3 DEF SessionsKept, MonTypeOK, SessionHeld
  <1>9. OneStops'
    BY <1>1, <1>2, ActorsAre, <1>3 DEF SessionsKept, MonTypeOK, OneStops, Stopping
  <1>10. PollsCounted'
    BY <1>1, <1>2, ActorsAre, <1>3, <1>4 DEF SessionsKept, MonTypeOK, PollsCounted,
       Stopping
  <1>11. ToldRegistered'
    BY <1>1, <1>2, ActorsAre, <1>3 DEF SessionsKept, MonTypeOK, ToldRegistered
  <1>12. NothingComes'
    <2>1. NothingForGone
      BY <1>1, <1>2, <1>3, ActorsAre DEF NothingForGone, NoEventsFor, MonTypeOK
    <2>2. FreesEmpty
      BY <1>1, <1>2, <1>3 DEF FreesEmpty, NoEventsFor, MonTypeOK
    <2>3. StopsUnlistened
      BY <1>1, <1>2, <1>3 DEF StopsUnlistened, Stopping, NoEventsFor, MonTypeOK
    <2> QED  BY <1>2, <2>1, <2>2, <2>3, NothingLater
  <1> QED  BY <1>5, <1>6, <1>7, <1>8, <1>9, <1>10, <1>11, <1>12 DEF MonitorInv,
     SessionsKept

LEMMA FirstEventStep ==
  ASSUME MonitorInv, NEW a \in Actors, NEW s \in Sess, NEW n \in Nat, NEW l \in {"addEvent", "removeEvent"},
         ChangeEvents(a, l, s, n), Pauses(a, s, "register")
  PROVE  MonitorInv'
  <1>1. /\ ~ruined /\ Locks(a, l, s) /\ tableLock' = Nobody
        /\ mPc' = [mPc EXCEPT ![a] = "register"]
        /\ mSess' = [mSess EXCEPT ![a] = s]
        /\ evtListeners' = [evtListeners EXCEPT ![s] = n]
        /\ sessLock' = [sessLock EXCEPT ![s] = a]
        /\ UNCHANGED <<onEvents, table, sLife, polling, notified, sTimer,
                       ploadListeners, evtRegs, endRegs, evtQueue, ploadQueue, pPc, toNotify,
                       ruined>>
    BY DEF ChangeEvents, Pauses, Couple, Locks, Finds, Is, To, Jump, With, Acquire, lockVars,
       sessionVars, procVars, listenVars
  <1>2. ~ruined /\ MonTypeOK /\ SessionsKept
    BY <1>1 DEF MonitorInv
  <1>3. /\ s \in Sess /\ table = s /\ table # NoSess /\ sLife[s] = "live"
        /\ sessLock[s] = Nobody
        /\ mPc[a] \notin {"polling", "locking", "register", "unregisterOne"} \cup Stopping
        /\ \A b \in Actors \ {a} : mPc[b] # "locking" /\ mPc[b] \notin ClientCalls
        /\ \A p \in Procs : pPc[p] # "listing"
    BY <1>1, CallerHas DEF ClientCalls
  <1>4. \A x \in Sess : Sleepers(x)' = Sleepers(x)
    BY <1>1, <1>2, ActorsAre, <1>3 DEF Sleepers, MonTypeOK
  <1>5. MonTypeOK'
    BY <1>1, <1>2, ActorsAre, <1>3 DEF SessionsKept, WithSession, MonTypeOK, ActorPcs
  <1>6. WithSession'
    BY <1>1, <1>2, ActorsAre, <1>3 DEF SessionsKept, MonTypeOK, WithSession
  <1>7. TableHeld'
    BY <1>1, <1>2, ActorsAre, <1>3 DEF SessionsKept, MonTypeOK, TableHeld,
       ClientCalls
  <1>8. SessionHeld'
    BY <1>1, <1>2, ActorsAre, <1>3 DEF SessionsKept, MonTypeOK, SessionHeld
  <1>9. OneStops'
    BY <1>1, <1>2, ActorsAre, <1>3 DEF SessionsKept, MonTypeOK, OneStops, Stopping
  <1>10. PollsCounted'
    BY <1>1, <1>2, ActorsAre, <1>3, <1>4 DEF SessionsKept, MonTypeOK, PollsCounted,
       Stopping
  <1>11. ToldRegistered'
    BY <1>1, <1>2, ActorsAre, <1>3 DEF SessionsKept, MonTypeOK, ToldRegistered
  <1>12. NothingComes'
    <2>1. NothingForGone
      BY <1>1, <1>2, <1>3, ActorsAre DEF NothingForGone, NoEventsFor, MonTypeOK
    <2>2. FreesEmpty
      BY <1>1, <1>2, <1>3 DEF FreesEmpty, NoEventsFor, MonTypeOK
    <2>3. StopsUnlistened
      BY <1>1, <1>2, <1>3 DEF StopsUnlistened, Stopping, NoEventsFor, MonTypeOK
    <2> QED  BY <1>2, <2>1, <2>2, <2>3, NothingLater
  <1> QED  BY <1>5, <1>6, <1>7, <1>8, <1>9, <1>10, <1>11, <1>12 DEF MonitorInv,
     SessionsKept

LEMMA RegisterEventStep ==
  ASSUME MonitorInv, NEW a \in Actors, RegisterEvent(a)
  PROVE  MonitorInv'
  <1>1. /\ ~ruined /\ mPc[a] = "register" /\ Paused
        /\ mPc' = [mPc EXCEPT ![a] = "idle"] /\ mSess' = [mSess EXCEPT ![a] = NoSess]
        /\ sessLock' = [sessLock EXCEPT ![mSess[a]] = Nobody]
        /\ evtRegs' = evtRegs \cup {mSess[a]}
        /\ endRegs' \subseteq endRegs \cup {mSess[a]}
        /\ UNCHANGED <<onEvents, table, tableLock, sLife, polling, notified, sTimer,
                       evtListeners, ploadListeners, evtQueue, ploadQueue, pPc,
                       toNotify, ruined>>
    BY DEF RegisterEvent, Is, To, Jump, With, Let, QueueFreed, lockVars, sessionVars,
       procVars
  <1>2. ~ruined /\ MonTypeOK /\ SessionsKept
    BY <1>1 DEF MonitorInv
  <1>3. mSess[a] \in Sess /\ sLife[mSess[a]] = "live" /\ sessLock[mSess[a]] = a
    BY <1>1, <1>2 DEF SessionsKept, WithSession, SessionHeld
  <1>4. \A x \in Sess : Sleepers(x)' = Sleepers(x)
    BY <1>1, <1>2, ActorsAre, <1>3 DEF Sleepers, MonTypeOK
  <1>5. MonTypeOK'
    BY <1>1, <1>2, ActorsAre, <1>3 DEF SessionsKept, WithSession, MonTypeOK, ActorPcs
  <1>6. WithSession'
    BY <1>1, <1>2, ActorsAre, <1>3 DEF SessionsKept, MonTypeOK, WithSession
  <1>7. TableHeld'
    BY <1>1, <1>2, ActorsAre, <1>3 DEF SessionsKept, MonTypeOK, TableHeld,
       ClientCalls
  <1>8. SessionHeld'
    BY <1>1, <1>2, ActorsAre, <1>3 DEF SessionsKept, MonTypeOK, SessionHeld,
       WithSession
  <1>9. OneStops'
    BY <1>1, <1>2, ActorsAre, <1>3 DEF SessionsKept, MonTypeOK, OneStops, Stopping
  <1>10. PollsCounted'
    BY <1>1, <1>2, ActorsAre, <1>3, <1>4 DEF SessionsKept, MonTypeOK, PollsCounted,
       Stopping
  <1>11. ToldRegistered'
    BY <1>1, <1>2, ActorsAre, <1>3 DEF SessionsKept, MonTypeOK, ToldRegistered,
       Paused
  <1>12. NothingComes'
    <2>1. NothingForGone
      BY <1>1, <1>2, <1>3, ActorsAre DEF NothingForGone, NoEventsFor, MonTypeOK
    <2>2. FreesEmpty
      BY <1>1, <1>2, <1>3 DEF FreesEmpty, NoEventsFor, MonTypeOK
    <2>3. StopsUnlistened
      BY <1>1, <1>2, <1>3 DEF StopsUnlistened, Stopping, NoEventsFor, MonTypeOK
    <2> QED  BY <1>2, <2>1, <2>2, <2>3, NothingLater
  <1> QED  BY <1>5, <1>6, <1>7, <1>8, <1>9, <1>10, <1>11, <1>12 DEF MonitorInv,
     SessionsKept

LEMMA UnregisterEventStep ==
  ASSUME MonitorInv, NEW a \in Actors, UnregisterEvent(a)
  PROVE  MonitorInv'
  <1>1. /\ ~ruined /\ mPc[a] = "unregisterOne" /\ Paused
        /\ mPc' = [mPc EXCEPT ![a] = "idle"] /\ mSess' = [mSess EXCEPT ![a] = NoSess]
        /\ sessLock' = [sessLock EXCEPT ![mSess[a]] = Nobody]
        /\ evtRegs' = evtRegs \ {mSess[a]} /\ endRegs' = endRegs \ {mSess[a]}
        /\ evtQueue' = [evtQueue EXCEPT ![mSess[a]] = 0]
        /\ UNCHANGED <<onEvents, table, tableLock, sLife, polling, notified, sTimer,
                       evtListeners, ploadListeners, ploadQueue, pPc, toNotify,
                       ruined>>
    BY DEF UnregisterEvent, Is, To, Jump, With, Let, QueueFreed, lockVars,
       sessionVars, procVars
  <1>2. ~ruined /\ MonTypeOK /\ SessionsKept
    BY <1>1 DEF MonitorInv
  <1>3. mSess[a] \in Sess /\ sLife[mSess[a]] = "live" /\ sessLock[mSess[a]] = a
    BY <1>1, <1>2 DEF SessionsKept, WithSession, SessionHeld
  <1>4. \A x \in Sess : Sleepers(x)' = Sleepers(x)
    BY <1>1, <1>2, ActorsAre, <1>3 DEF Sleepers, MonTypeOK
  <1>5. MonTypeOK'
    BY <1>1, <1>2, ActorsAre, <1>3 DEF SessionsKept, WithSession, MonTypeOK, ActorPcs
  <1>6. WithSession'
    BY <1>1, <1>2, ActorsAre, <1>3 DEF SessionsKept, MonTypeOK, WithSession
  <1>7. TableHeld'
    BY <1>1, <1>2, ActorsAre, <1>3 DEF SessionsKept, MonTypeOK, TableHeld,
       ClientCalls
  <1>8. SessionHeld'
    BY <1>1, <1>2, ActorsAre, <1>3 DEF SessionsKept, MonTypeOK, SessionHeld,
       WithSession
  <1>9. OneStops'
    BY <1>1, <1>2, ActorsAre, <1>3 DEF SessionsKept, MonTypeOK, OneStops, Stopping
  <1>10. PollsCounted'
    BY <1>1, <1>2, ActorsAre, <1>3, <1>4 DEF SessionsKept, MonTypeOK, PollsCounted,
       Stopping
  <1>11. ToldRegistered'
    BY <1>1, <1>2, ActorsAre, <1>3 DEF SessionsKept, MonTypeOK, ToldRegistered,
       Paused
  <1>12. NothingComes'
    <2>1. NothingForGone
      BY <1>1, <1>2, <1>3, ActorsAre DEF NothingForGone, NoEventsFor, MonTypeOK
    <2>2. FreesEmpty
      BY <1>1, <1>2, <1>3 DEF FreesEmpty, NoEventsFor, MonTypeOK
    <2>3. StopsUnlistened
      BY <1>1, <1>2, <1>3 DEF StopsUnlistened, Stopping, NoEventsFor, MonTypeOK
    <2> QED  BY <1>2, <2>1, <2>2, <2>3, NothingLater
  <1> QED  BY <1>5, <1>6, <1>7, <1>8, <1>9, <1>10, <1>11, <1>12 DEF MonitorInv,
     SessionsKept

LEMMA PacketEventStep ==
  ASSUME MonitorInv, NEW p \in Procs, PacketEvent(p)
  PROVE  MonitorInv'
  <1>1. PICK told \in Hearers :
          /\ ~ruined /\ pPc[p] = "idle" /\ UNCHANGED <<mPc, mSess>>
          /\ toNotify' = [toNotify EXCEPT ![p] = told]
          /\ pPc' = [pPc EXCEPT ![p] = "event"]
          /\ UNCHANGED <<onEvents, table, tableLock, sessLock, sLife, polling,
                         notified, sTimer, evtListeners, ploadListeners, evtRegs, endRegs,
                         evtQueue, ploadQueue, ruined>>
    BY DEF PacketEvent, lockVars, sessionVars, procVars, listenVars
  <1>2. ~ruined /\ MonTypeOK /\ SessionsKept
    BY <1>1 DEF MonitorInv
  <1>13. told \subseteq evtRegs
    BY <1>2 DEF Hearers, SessionsKept, ToldRegistered
  <1>3. \A x \in Sess : Sleepers(x)' = Sleepers(x)
    BY <1>1, <1>2, ActorsAre DEF Sleepers, MonTypeOK
  <1>4. MonTypeOK'
    BY <1>1, <1>2, <1>13, ActorsAre DEF SessionsKept, WithSession, MonTypeOK, ActorPcs
  <1>5. WithSession'
    BY <1>1, <1>2, ActorsAre DEF SessionsKept, MonTypeOK, WithSession
  <1>6. TableHeld'
    BY <1>1, <1>2, ActorsAre DEF SessionsKept, MonTypeOK, TableHeld
  <1>7. SessionHeld'
    BY <1>1, <1>2, ActorsAre DEF SessionsKept, MonTypeOK, SessionHeld
  <1>8. OneStops'
    BY <1>1, <1>2, ActorsAre DEF SessionsKept, MonTypeOK, OneStops, Stopping
  <1>9. PollsCounted'
    BY <1>1, <1>2, ActorsAre, <1>3 DEF SessionsKept, MonTypeOK, PollsCounted,
       Stopping
  <1>10. ToldRegistered'
    BY <1>1, <1>2, <1>13, ActorsAre DEF SessionsKept, MonTypeOK, ToldRegistered
  <1>11. NothingComes'
    <2>1. NothingForGone
      BY <1>1, <1>2, ActorsAre DEF NothingForGone, NoEventsFor, MonTypeOK
    <2>2. FreesEmpty
      BY <1>1, <1>2 DEF FreesEmpty, NoEventsFor, MonTypeOK
    <2>3. StopsUnlistened
      BY <1>1, <1>2 DEF StopsUnlistened, Stopping, NoEventsFor, MonTypeOK
    <2> QED  BY <1>2, <2>1, <2>2, <2>3, NothingLater
  <1> QED  BY <1>4, <1>5, <1>6, <1>7, <1>8, <1>9, <1>10, <1>11 DEF MonitorInv,
     SessionsKept

LEMMA EventDoneStep ==
  ASSUME MonitorInv, NEW p \in Procs, EventDone(p)
  PROVE  MonitorInv'
  <1>1. /\ ~ruined /\ pPc[p] = "event" /\ UNCHANGED <<mPc, mSess>>
        /\ toNotify[p] = {} /\ pPc' = [pPc EXCEPT ![p] = "idle"]
        /\ UNCHANGED <<onEvents, table, tableLock, sessLock, sLife, polling,
                       notified, sTimer, evtListeners, ploadListeners, evtRegs, endRegs,
                       evtQueue, ploadQueue, toNotify, ruined>>
    BY DEF EventDone, lockVars, sessionVars, procVars, listenVars
  <1>2. ~ruined /\ MonTypeOK /\ SessionsKept
    BY <1>1 DEF MonitorInv
  <1>3. \A x \in Sess : Sleepers(x)' = Sleepers(x)
    BY <1>1, <1>2, ActorsAre DEF Sleepers, MonTypeOK
  <1>4. MonTypeOK'
    BY <1>1, <1>2, ActorsAre DEF SessionsKept, WithSession, MonTypeOK, ActorPcs
  <1>5. WithSession'
    BY <1>1, <1>2, ActorsAre DEF SessionsKept, MonTypeOK, WithSession
  <1>6. TableHeld'
    BY <1>1, <1>2, ActorsAre DEF SessionsKept, MonTypeOK, TableHeld
  <1>7. SessionHeld'
    BY <1>1, <1>2, ActorsAre DEF SessionsKept, MonTypeOK, SessionHeld
  <1>8. OneStops'
    BY <1>1, <1>2, ActorsAre DEF SessionsKept, MonTypeOK, OneStops, Stopping
  <1>9. PollsCounted'
    BY <1>1, <1>2, ActorsAre, <1>3 DEF SessionsKept, MonTypeOK, PollsCounted,
       Stopping
  <1>10. ToldRegistered'
    BY <1>1, <1>2, ActorsAre DEF SessionsKept, MonTypeOK, ToldRegistered
  <1>11. NothingComes'
    <2>1. NothingForGone
      BY <1>1, <1>2, ActorsAre DEF NothingForGone, NoEventsFor, MonTypeOK
    <2>2. FreesEmpty
      BY <1>1, <1>2 DEF FreesEmpty, NoEventsFor, MonTypeOK
    <2>3. StopsUnlistened
      BY <1>1, <1>2 DEF StopsUnlistened, Stopping, NoEventsFor, MonTypeOK
    <2> QED  BY <1>2, <2>1, <2>2, <2>3, NothingLater
  <1> QED  BY <1>4, <1>5, <1>6, <1>7, <1>8, <1>9, <1>10, <1>11 DEF MonitorInv,
     SessionsKept

LEMMA PacketPloadStep ==
  ASSUME MonitorInv, NEW p \in Procs, PacketPload(p)
  PROVE  MonitorInv'
  <1>1. /\ ~ruined /\ pPc[p] = "idle" /\ UNCHANGED <<mPc, mSess>>
        /\ pPc' = [pPc EXCEPT ![p] = "pload"]
        /\ UNCHANGED <<onEvents, table, tableLock, sessLock, sLife, polling,
                       notified, sTimer, evtListeners, ploadListeners, evtRegs, endRegs,
                       evtQueue, ploadQueue, toNotify, ruined>>
    BY DEF PacketPload, lockVars, sessionVars, procVars, listenVars
  <1>2. ~ruined /\ MonTypeOK /\ SessionsKept
    BY <1>1 DEF MonitorInv
  <1>3. \A x \in Sess : Sleepers(x)' = Sleepers(x)
    BY <1>1, <1>2, ActorsAre DEF Sleepers, MonTypeOK
  <1>4. MonTypeOK'
    BY <1>1, <1>2, ActorsAre DEF SessionsKept, WithSession, MonTypeOK, ActorPcs
  <1>5. WithSession'
    BY <1>1, <1>2, ActorsAre DEF SessionsKept, MonTypeOK, WithSession
  <1>6. TableHeld'
    BY <1>1, <1>2, ActorsAre DEF SessionsKept, MonTypeOK, TableHeld
  <1>7. SessionHeld'
    BY <1>1, <1>2, ActorsAre DEF SessionsKept, MonTypeOK, SessionHeld
  <1>8. OneStops'
    BY <1>1, <1>2, ActorsAre DEF SessionsKept, MonTypeOK, OneStops, Stopping
  <1>9. PollsCounted'
    BY <1>1, <1>2, ActorsAre, <1>3 DEF SessionsKept, MonTypeOK, PollsCounted,
       Stopping
  <1>10. ToldRegistered'
    BY <1>1, <1>2, ActorsAre DEF SessionsKept, MonTypeOK, ToldRegistered
  <1>11. NothingComes'
    <2>1. NothingForGone
      BY <1>1, <1>2, ActorsAre DEF NothingForGone, NoEventsFor, MonTypeOK
    <2>2. FreesEmpty
      BY <1>1, <1>2 DEF FreesEmpty, NoEventsFor, MonTypeOK
    <2>3. StopsUnlistened
      BY <1>1, <1>2 DEF StopsUnlistened, Stopping, NoEventsFor, MonTypeOK
    <2> QED  BY <1>2, <2>1, <2>2, <2>3, NothingLater
  <1> QED  BY <1>4, <1>5, <1>6, <1>7, <1>8, <1>9, <1>10, <1>11 DEF MonitorInv,
     SessionsKept

LEMMA LockTableStep ==
  ASSUME MonitorInv, NEW p \in Procs, LockTable(p)
  PROVE  MonitorInv'
  <1>1. /\ ~ruined /\ pPc[p] = "pload" /\ UNCHANGED <<mPc, mSess>>
        /\ tableLock = Nobody /\ tableLock' = p /\ pPc' = [pPc EXCEPT ![p] = "listing"]
        /\ UNCHANGED <<onEvents, table, sessLock, sLife, polling, notified, sTimer,
                       evtListeners, ploadListeners, evtRegs, endRegs, evtQueue, ploadQueue,
                       toNotify, ruined>>
    BY DEF LockTable, lockVars, sessionVars, procVars, listenVars
  <1>2. ~ruined /\ MonTypeOK /\ SessionsKept
    BY <1>1 DEF MonitorInv
  <1>3. \A x \in Sess : Sleepers(x)' = Sleepers(x)
    BY <1>1, <1>2, ActorsAre DEF Sleepers, MonTypeOK
  <1>4. MonTypeOK'
    BY <1>1, <1>2, ActorsAre DEF SessionsKept, WithSession, MonTypeOK, ActorPcs
  <1>5. WithSession'
    BY <1>1, <1>2, ActorsAre DEF SessionsKept, MonTypeOK, WithSession
  <1>6. TableHeld'
    BY <1>1, <1>2, ActorsAre DEF SessionsKept, MonTypeOK, TableHeld
  <1>7. SessionHeld'
    BY <1>1, <1>2, ActorsAre DEF SessionsKept, MonTypeOK, SessionHeld
  <1>8. OneStops'
    BY <1>1, <1>2, ActorsAre DEF SessionsKept, MonTypeOK, OneStops, Stopping
  <1>9. PollsCounted'
    BY <1>1, <1>2, ActorsAre, <1>3 DEF SessionsKept, MonTypeOK, PollsCounted,
       Stopping
  <1>10. ToldRegistered'
    BY <1>1, <1>2, ActorsAre DEF SessionsKept, MonTypeOK, ToldRegistered
  <1>11. NothingComes'
    <2>1. NothingForGone
      BY <1>1, <1>2, ActorsAre DEF NothingForGone, NoEventsFor, MonTypeOK
    <2>2. FreesEmpty
      BY <1>1, <1>2 DEF FreesEmpty, NoEventsFor, MonTypeOK
    <2>3. StopsUnlistened
      BY <1>1, <1>2 DEF StopsUnlistened, Stopping, NoEventsFor, MonTypeOK
    <2> QED  BY <1>2, <2>1, <2>2, <2>3, NothingLater
  <1> QED  BY <1>4, <1>5, <1>6, <1>7, <1>8, <1>9, <1>10, <1>11 DEF MonitorInv,
     SessionsKept

LEMMA PloadOpenStep ==
  ASSUME MonitorInv, NEW p \in Procs, PloadOpen(p)
  PROVE  MonitorInv'
  <1>1. /\ ~ruined /\ pPc[p] = "listing" /\ UNCHANGED <<mPc, mSess>>
        /\ \/ UNCHANGED <<ploadQueue, notified>>
           \/ /\ table # NoSess /\ ploadQueue' = [ploadQueue EXCEPT ![table] = @ + 1]
              /\ notified' = notified \cup Sleepers(table)
        /\ tableLock' = Nobody
        /\ pPc' = [pPc EXCEPT ![p] = "idle"]
        /\ UNCHANGED <<onEvents, table, sessLock, sLife, polling, sTimer,
                       evtListeners, ploadListeners, evtRegs, endRegs, evtQueue, toNotify,
                       ruined>>
    BY DEF PloadOpen, lockVars, sessionVars, procVars, listenVars
  <1>2. ~ruined /\ MonTypeOK /\ SessionsKept
    BY <1>1 DEF MonitorInv
  <1>3. /\ \A a \in Actors : mPc[a] # "locking" /\ mPc[a] \notin ClientCalls
        /\ \A q \in Procs \ {p} : pPc[q] # "listing"
    BY <1>1, <1>2, ActorsAre DEF SessionsKept, TableHeld
  <1>4. Sleepers(table) \subseteq Actors
    BY DEF Sleepers
  <1>5. \A x \in Sess : Sleepers(x)' = Sleepers(x)
    BY <1>1, <1>2, ActorsAre, <1>3, <1>4 DEF Sleepers, MonTypeOK
  <1>6. MonTypeOK'
    BY <1>1, <1>2, ActorsAre, <1>3, <1>4 DEF SessionsKept, WithSession, MonTypeOK,
       ActorPcs
  <1>7. WithSession'
    BY <1>1, <1>2, ActorsAre, <1>3, <1>4 DEF SessionsKept, MonTypeOK, WithSession
  <1>8. TableHeld'
    BY <1>1, <1>2, ActorsAre, <1>3, <1>4 DEF SessionsKept, MonTypeOK, TableHeld,
       MonTypeOK
  <1>9. SessionHeld'
    BY <1>1, <1>2, ActorsAre, <1>3, <1>4 DEF SessionsKept, MonTypeOK, SessionHeld
  <1>10. OneStops'
    BY <1>1, <1>2, ActorsAre, <1>3, <1>4 DEF SessionsKept, MonTypeOK, OneStops,
       Stopping
  <1>11. PollsCounted'
    BY <1>1, <1>2, ActorsAre, <1>3, <1>4, <1>5 DEF SessionsKept, MonTypeOK,
       PollsCounted, Stopping
  <1>12. ToldRegistered'
    BY <1>1, <1>2, ActorsAre, <1>3, <1>4 DEF SessionsKept, MonTypeOK, ToldRegistered,
       MonTypeOK
  <1>13. NothingComes'
    <2>1. NothingForGone
      BY <1>1, <1>2, <1>3, <1>4, ActorsAre 
         DEF NothingForGone, NoEventsFor, MonTypeOK, SessionsKept, TableHeld
    <2>2. FreesEmpty
      BY <1>1, <1>2, <1>3, <1>4 DEF FreesEmpty, NoEventsFor, MonTypeOK
    <2>3. StopsUnlistened
      BY <1>1, <1>2, <1>3, <1>4 DEF StopsUnlistened, Stopping, NoEventsFor, MonTypeOK
    <2> QED  BY <1>2, <2>1, <2>2, <2>3, NothingLater
  <1> QED  BY <1>6, <1>7, <1>8, <1>9, <1>10, <1>11, <1>12, <1>13 DEF MonitorInv,
     SessionsKept

LEMMA EvtProcessStep ==
  ASSUME MonitorInv, NEW p \in Procs, EvtProcess(p)
  PROVE  MonitorInv'
  <1>1. PICK s \in toNotify[p] :
          /\ ~ruined /\ pPc[p] = "event"
          /\ evtQueue' \in {evtQueue, [evtQueue EXCEPT ![s] = @ + 1]}
          /\ notified' \in {notified, notified \cup Sleepers(s)}
          /\ toNotify' = [toNotify EXCEPT ![p] = @ \ {s}]
          /\ UNCHANGED <<mPc, mSess>>
          /\ UNCHANGED <<onEvents, table, tableLock, sessLock, sLife, polling, sTimer,
                       evtListeners, ploadListeners, evtRegs, endRegs, ploadQueue, pPc,
                       ruined>>
    BY DEF EvtProcess, lockVars, sessionVars, procVars
  <1>2. ~ruined /\ MonTypeOK /\ SessionsKept
    BY <1>1 DEF MonitorInv
  <1>3. s \in Sess /\ s \in evtRegs
    BY <1>1, <1>2 DEF SessionsKept, ToldRegistered, MonTypeOK
  <1>4. Sleepers(s) \subseteq Actors
    BY DEF Sleepers
  <1>5. \A x \in Sess : Sleepers(x)' = Sleepers(x)
    BY <1>1, <1>2, ActorsAre, <1>3, <1>4 DEF Sleepers, MonTypeOK
  <1>6. MonTypeOK'
    BY <1>1, <1>2, ActorsAre, <1>3, <1>4 DEF SessionsKept, WithSession, MonTypeOK,
       ActorPcs
  <1>7. WithSession'
    BY <1>1, <1>2, ActorsAre, <1>3, <1>4 DEF SessionsKept, MonTypeOK, WithSession
  <1>8. TableHeld'
    BY <1>1, <1>2, ActorsAre, <1>3, <1>4 DEF SessionsKept, MonTypeOK, TableHeld
  <1>9. SessionHeld'
    BY <1>1, <1>2, ActorsAre, <1>3, <1>4 DEF SessionsKept, MonTypeOK, SessionHeld
  <1>10. OneStops'
    BY <1>1, <1>2, ActorsAre, <1>3, <1>4 DEF SessionsKept, MonTypeOK, OneStops,
       Stopping
  <1>11. PollsCounted'
    BY <1>1, <1>2, ActorsAre, <1>3, <1>4, <1>5 DEF SessionsKept, MonTypeOK,
       PollsCounted, Stopping
  <1>12. ToldRegistered'
    BY <1>1, <1>2, ActorsAre, <1>3, <1>4 DEF SessionsKept, MonTypeOK, ToldRegistered
  <1>13. NothingComes'
    <2>1. NothingForGone
      BY <1>1, <1>2, <1>3, <1>4, ActorsAre DEF NothingForGone, NoEventsFor, MonTypeOK
    <2>2. FreesEmpty
      BY <1>1, <1>2, <1>3, <1>4 DEF FreesEmpty, NoEventsFor, MonTypeOK
    <2>3. StopsUnlistened
      BY <1>1, <1>2, <1>3, <1>4 DEF StopsUnlistened, Stopping, NoEventsFor, MonTypeOK
    <2> QED  BY <1>2, <2>1, <2>2, <2>3, NothingLater
  <1> QED  BY <1>6, <1>7, <1>8, <1>9, <1>10, <1>11, <1>12, <1>13 DEF MonitorInv,
     SessionsKept

LEMMA MonitorStep == ASSUME MonitorInv, [MonitorNext]_monitorVars PROVE MonitorInv'
  <1>1. CASE UNCHANGED monitorVars
    <2> USE <1>1 DEF monitorVars
    <2>1. \A x \in Sess : Sleepers(x)' = Sleepers(x) /\ (NoEventsFor(x)' <=> NoEventsFor(x))
      BY DEF Sleepers, NoEventsFor
    <2>2. MonTypeOK' <=> MonTypeOK
      BY DEF MonTypeOK
    <2>3. /\ WithSession' <=> WithSession
          /\ TableHeld' <=> TableHeld
          /\ SessionHeld' <=> SessionHeld
          /\ OneStops' <=> OneStops
          /\ ToldRegistered' <=> ToldRegistered
      BY DEF WithSession, TableHeld, SessionHeld, OneStops, ToldRegistered
    <2>4. PollsCounted => PollsCounted'
      BY <2>1 DEF PollsCounted
    <2>5. NothingComes => NothingComes'
      BY DEF NothingComes, NoEventsFor
    <2> QED  BY <2>2, <2>3, <2>4, <2>5 DEF MonitorInv, SessionsKept
  <1>2. ASSUME NEW a \in Actors, NEW s \in Sess, Poll(a, s) PROVE MonitorInv'
    BY <1>2, PollLeavesStep, PollWaitsStep DEF Poll, TakeItems
  <1>3. ASSUME NEW a \in Actors, NEW s \in Sess, RemovePload(a, s) PROVE MonitorInv'
    BY <1>3, RemovePloadStep, RemoveNoPloadStep
  <1>4. ASSUME NEW a \in Actors, NEW s \in Sess, AddEvent(a, s) \/ RemoveEvent(a, s)
        PROVE  MonitorInv'
    <2>1. ~ruined
      BY <1>4 DEF AddEvent, RemoveEvent, ChangeEvents, Couple, Locks, Finds, Is
    <2>2. evtListeners[s] \in Nat
      BY <2>1 DEF MonitorInv, MonTypeOK
    <2>3. \E n \in Nat, l \in {"addEvent", "removeEvent"} : ChangeEvents(a, l, s, n)
      <3>1. CASE AddEvent(a, s)
        BY <2>2, <3>1 DEF AddEvent
      <3>2. CASE RemoveEvent(a, s)
        <4>1. (IF evtListeners[s] = 0 THEN 0 ELSE evtListeners[s] - 1) \in Nat
          BY <2>2
        <4> QED  BY <3>2, <4>1 DEF RemoveEvent
      <3> QED  BY <1>4, <3>1, <3>2
    <2>4. PICK n \in Nat, l \in {"addEvent", "removeEvent"} : ChangeEvents(a, l, s, n)
      BY <2>3
    <2>5. \/ To(a, "idle") /\ UNCHANGED sessLock
          \/ Pauses(a, s, "unregisterOne")
          \/ Pauses(a, s, "register")
      BY <2>4 DEF ChangeEvents
    <2>6. CASE To(a, "idle") /\ UNCHANGED sessLock
      BY <2>4, <2>6, ChangeEventsStep
    <2>7. CASE Pauses(a, s, "unregisterOne")
      BY <2>4, <2>7, LastEventStep
    <2>8. CASE Pauses(a, s, "register")
      BY <2>4, <2>8, FirstEventStep
    <2> QED  BY <2>5, <2>6, <2>7, <2>8
  <1>5. ASSUME NEW a \in Actors, NEW s \in Sess, AddPload(a, s) PROVE MonitorInv'
    BY <1>5, AddPloadStep
  <1>6. ASSUME NEW a \in Actors, ActorStep(a) PROVE MonitorInv'
    BY <1>6, LooseSteps, PollWakesStep, UnlinkStep, MarkStoppedStep, WakePollsStep,
       DrainedStep, UnregisterAllStep, UnlistenOneStep, UnlistenLastStep,
       StopThenUnlistenStep, FreeSessionStep, RegisterEventStep, UnregisterEventStep
       DEF ActorStep
  <1>7. ASSUME NEW p \in Procs, PacketEvent(p) \/ PacketPload(p) \/ ProcStep(p)
        PROVE  MonitorInv'
    BY <1>7, PacketEventStep, PacketPloadStep, EvtProcessStep, EventDoneStep, LockTableStep,
       PloadOpenStep DEF ProcStep
  <1>8. ASSUME SessionTimeout PROVE MonitorInv'
    BY <1>8, LooseSteps DEF Actors
  <1>9. ASSUME NEW a \in Actors,
               \/ MonitorStart(a) \/ MonitorStop(a) \/ PollTimesOut(a)
               \/ \E l \in ClientCalls : WaitForSession(a, l)
        PROVE  MonitorInv'
    BY <1>9, LooseSteps, MonitorStartStep, PollTimesOutStep, WaitForSessionStep
  <1>10. ASSUME MonitorNext PROVE MonitorInv'
    BY <1>10, <1>2, <1>3, <1>4, <1>5, <1>6, <1>7, <1>8, <1>9 DEF MonitorNext, Served
  <1> QED  BY <1>1, <1>10

(* In every reachable state of the web monitor: who holds which lock, how  *)
(* many calls sleep in a session, and that nothing comes any more for a    *)
(* session that is being freed.                                            *)
THEOREM MonitorInvariant == MonitorSpec => []MonitorInv
  BY MonitorInitial, MonitorStep, PTL DEF MonitorSpec

(* A session that was freed is left alone (xmlrpccmd_monitor.c:            *)
(* xmlrpccmd_monitor_session_cleanup).                                     *)
THEOREM FreedSessionsLeft == MonitorSpec => []FreedIsLeftAlone
  <1>1. ASSUME MonitorInv PROVE FreedIsLeftAlone
    <2> SUFFICES ASSUME NEW s \in Sess, sLife[s] = "freed", ~ruined
                 PROVE  /\ table # s /\ polling[s] = 0 /\ sessLock[s] = Nobody
                        /\ s \notin evtRegs /\ \A p \in Procs : s \notin toNotify[p]
                        /\ evtListeners[s] = 0 /\ ploadListeners[s] = 0
                        /\ evtQueue[s] = 0 /\ ploadQueue[s] = 0
                        /\ \A a \in Actors : mSess[a] = s => mPc[a] \notin ClientCalls \cup {"polling"}
      BY DEF FreedIsLeftAlone
    <2>1. SessionsKept /\ MonTypeOK
      BY <1>1 DEF MonitorInv
    <2>2. table # s /\ sessLock[s] = Nobody
      BY <2>1, ActorsAre DEF SessionsKept, TableHeld, SessionHeld
    <2>3. /\ s \notin evtRegs /\ evtListeners[s] = 0 /\ ploadListeners[s] = 0
          /\ evtQueue[s] = 0 /\ ploadQueue[s] = 0
      BY <2>1 DEF SessionsKept, NothingComes, NoEventsFor
    <2>4. \A p \in Procs : s \notin toNotify[p]
      BY <2>1, <2>3 DEF SessionsKept, ToldRegistered
    <2>5. \A a \in Actors : mSess[a] = s => mPc[a] # "polling"
      BY <2>1 DEF SessionsKept, PollsCounted
    <2>6. polling[s] = 0
      <3>1. Sleepers(s) = {}
        BY <2>5 DEF Sleepers
      <3> QED  BY <2>1, <3>1, SleepersFinite DEF SessionsKept, PollsCounted
    <2>7. \A a \in Actors : mSess[a] = s => mPc[a] \notin ClientCalls
      BY <2>1, <2>2 DEF SessionsKept, TableHeld
    <2> QED  BY <2>2, <2>3, <2>4, <2>5, <2>6, <2>7
  <1> QED  BY <1>1, MonitorInvariant, PTL
-----------------------------------------------------------------------------
(* Who listens to payloads (Monitor).  Actors on their way to count or to  *)
(* register a listener, or to undo it.                                     *)
At(pc, P) == {a \in Actors : pc[a] \in P}
NumberAt(pc, P) == Cardinality(At(pc, P))
StopPcs == {"stop", "stopThenUnlisten"}
ListenPcs == {"count", "uncount", "listen"} \cup StopPcs

Heard(count, regs, pc, number) ==
  /\ count \in Int /\ regs \in Nat /\ IsFiniteSet(ListenersOf(number))
  /\ count + NumberAt(pc, {"count"}) = Cardinality(ListenersOf(number)) + NumberAt(pc, {"uncount"})
  /\ regs + NumberAt(pc, {"listen"}) - NumberAt(pc, StopPcs) >= IF count > 0 THEN 1 ELSE 0

ListenInv == Heard(listenCount, listenRegs, mPc, ploadListeners)

(* An actor that goes from where it is to l.                               *)
Shifted(pc, pc2, P, from, to) ==
  /\ NumberAt(pc, P) \in Nat /\ NumberAt(pc2, P) \in Nat
  /\ NumberAt(pc2, P) = NumberAt(pc, P) + (IF to \in P THEN 1 ELSE 0) - (IF from \in P THEN 1 ELSE 0)

LEMMA NumberShifts ==
  ASSUME NEW pc, NEW pc2, NEW a \in Actors, NEW l, NEW P,
         pc2[a] = l, \A b \in Actors : b # a => pc2[b] = pc[b]
  PROVE  Shifted(pc, pc2, P, pc[a], l)
  <1>1. At(pc, P) \in SUBSET Actors /\ At(pc2, P) \in SUBSET Actors
    BY DEF At
  <1>2. /\ IsFiniteSet(At(pc, P)) /\ IsFiniteSet(At(pc2, P))
        /\ NumberAt(pc, P) \in Nat /\ NumberAt(pc2, P) \in Nat
    BY <1>1, ActorsAre, FS_Subset, FS_CardinalityType DEF NumberAt
  <1>3. CASE l \in P /\ pc[a] \notin P
    <2>1. At(pc2, P) = At(pc, P) \cup {a} /\ a \notin At(pc, P)
      BY <1>3 DEF At
    <2>2. NumberAt(pc2, P) = NumberAt(pc, P) + 1
      BY <1>2, <2>1, FS_AddElement DEF NumberAt
    <2> QED  BY <1>2, <1>3, <2>2 DEF Shifted
  <1>4. CASE l \notin P /\ pc[a] \in P
    <2>1. At(pc2, P) = At(pc, P) \ {a} /\ a \in At(pc, P)
      BY <1>4 DEF At
    <2>2. NumberAt(pc2, P) = NumberAt(pc, P) - 1
      BY <1>2, <2>1, FS_RemoveElement DEF NumberAt
    <2> QED  BY <1>2, <1>4, <2>2 DEF Shifted
  <1>5. CASE l \in P <=> pc[a] \in P
    <2>1. At(pc2, P) = At(pc, P)
      BY <1>5 DEF At
    <2>2. NumberAt(pc2, P) = NumberAt(pc, P)
      BY <2>1 DEF NumberAt
    <2> QED  BY <1>2, <1>5, <2>2 DEF Shifted
  <1> QED  BY <1>3, <1>4, <1>5

LEMMA ListenersChange ==
  ASSUME NEW number \in [Sess -> Nat], NEW s \in Sess, IsFiniteSet(ListenersOf(number)), NEW number2
  PROVE  /\ Cardinality(ListenersOf(number)) \in Nat
         /\ number2 = [number EXCEPT ![s] = @ + 1] =>
              /\ IsFiniteSet(ListenersOf(number2))
              /\ Cardinality(ListenersOf(number2)) = Cardinality(ListenersOf(number)) + 1
         /\ number[s] > 0 /\ number2 = [number EXCEPT ![s] = @ - 1] =>
              /\ IsFiniteSet(ListenersOf(number2))
              /\ Cardinality(ListenersOf(number2)) = Cardinality(ListenersOf(number)) - 1
  <1>1. Cardinality(ListenersOf(number)) \in Nat
    BY FS_CardinalityType
  <1>2. ASSUME number2 = [number EXCEPT ![s] = @ + 1]
        PROVE  /\ IsFiniteSet(ListenersOf(number2))
               /\ Cardinality(ListenersOf(number2)) = Cardinality(ListenersOf(number)) + 1
    <2>1. PICK n \in Nat : n = number[s]
      OBVIOUS
    <2>2. number2[s] = n + 1 /\ \A r \in Sess : r # s => number2[r] = number[r]
      BY <1>2, <2>1
    <2>3. \A i : i \in 1 .. n + 1 <=> i \in 1 .. n \/ i = n + 1
      BY <2>1
    <2>4. ListenersOf(number2) = ListenersOf(number) \cup {<<s, n + 1>>}
      <3>1. ASSUME NEW x \in ListenersOf(number2) PROVE x \in ListenersOf(number) \cup {<<s, n + 1>>}
        <4>1. PICK r \in Sess : x \in {r} \X (1 .. number2[r])
          BY DEF ListenersOf
        <4>2. CASE r # s
          BY <2>2, <4>1, <4>2 DEF ListenersOf
        <4>3. CASE r = s
          <5>1. PICK i : i \in 1 .. n + 1 /\ x = <<s, i>>
            BY <2>2, <4>1, <4>3
          <5> QED  BY <2>1, <2>3, <5>1 DEF ListenersOf
        <4> QED  BY <4>2, <4>3
      <3>2. ASSUME NEW x \in ListenersOf(number) PROVE x \in ListenersOf(number2)
        <4>1. PICK r \in Sess : x \in {r} \X (1 .. number[r])
          BY DEF ListenersOf
        <4>2. CASE r # s
          BY <2>2, <4>1, <4>2 DEF ListenersOf
        <4>3. CASE r = s
          <5>1. PICK i : i \in 1 .. n /\ x = <<s, i>>
            BY <2>1, <4>1, <4>3
          <5>2. i \in 1 .. number2[s]
            BY <2>2, <2>3, <5>1
          <5> QED  BY <5>1, <5>2 DEF ListenersOf
        <4> QED  BY <4>2, <4>3
      <3>3. <<s, n + 1>> \in ListenersOf(number2)
        <4>1. n + 1 \in 1 .. number2[s]
          BY <2>2, <2>3
        <4> QED  BY <4>1 DEF ListenersOf
      <3> QED  BY <3>1, <3>2, <3>3
    <2>5. <<s, n + 1>> \notin ListenersOf(number)
      <3> SUFFICES ASSUME <<s, n + 1>> \in ListenersOf(number) PROVE FALSE
        OBVIOUS
      <3>1. PICK r \in Sess : <<s, n + 1>> \in {r} \X (1 .. number[r])
        BY DEF ListenersOf
      <3>2. n + 1 \in 1 .. n
        BY <2>1, <3>1
      <3> QED  BY <3>2
    <2> QED  BY <2>4, <2>5, FS_AddElement
  <1>3. ASSUME number[s] > 0, number2 = [number EXCEPT ![s] = @ - 1]
        PROVE  /\ IsFiniteSet(ListenersOf(number2))
               /\ Cardinality(ListenersOf(number2)) = Cardinality(ListenersOf(number)) - 1
    <2>1. PICK n \in Nat : n = number[s] /\ n > 0
      BY <1>3
    <2>2. number2[s] = n - 1 /\ \A r \in Sess : r # s => number2[r] = number[r]
      BY <1>3, <2>1
    <2>3. \A i : i \in 1 .. n - 1 <=> i \in 1 .. n /\ i # n
      BY <2>1
    <2>4. ListenersOf(number2) = ListenersOf(number) \ {<<s, n>>}
      <3>1. ASSUME NEW x \in ListenersOf(number2) PROVE x \in ListenersOf(number) \ {<<s, n>>}
        <4>1. PICK r \in Sess : x \in {r} \X (1 .. number2[r])
          BY DEF ListenersOf
        <4>2. CASE r # s
          BY <2>2, <4>1, <4>2 DEF ListenersOf
        <4>3. CASE r = s
          <5>1. PICK i : i \in 1 .. n - 1 /\ x = <<s, i>>
            BY <2>2, <4>1, <4>3
          <5>2. i \in 1 .. number[s] /\ i # n
            BY <2>1, <2>3, <5>1
          <5> QED  BY <5>1, <5>2 DEF ListenersOf
        <4> QED  BY <4>2, <4>3
      <3>2. ASSUME NEW x \in ListenersOf(number), x # <<s, n>> PROVE x \in ListenersOf(number2)
        <4>1. PICK r \in Sess : x \in {r} \X (1 .. number[r])
          BY DEF ListenersOf
        <4>2. CASE r # s
          BY <2>2, <4>1, <4>2 DEF ListenersOf
        <4>3. CASE r = s
          <5>1. PICK i : i \in 1 .. n /\ x = <<s, i>>
            BY <2>1, <4>1, <4>3
          <5>2. i \in 1 .. number2[s]
            BY <2>2, <2>3, <3>2, <5>1
          <5> QED  BY <5>1, <5>2 DEF ListenersOf
        <4> QED  BY <4>2, <4>3
      <3> QED  BY <3>1, <3>2
    <2>5. <<s, n>> \in ListenersOf(number)
      <3>1. n \in 1 .. number[s]
        BY <2>1
      <3> QED  BY <3>1 DEF ListenersOf
    <2> QED  BY <2>4, <2>5, FS_RemoveElement
  <1> QED  BY <1>1, <1>2, <1>3

(* The calls that listen to payloads, and stop.                            *)
LEMMA ListenSteps ==
  ASSUME MonitorInv, ListenInv, NEW a \in Actors, NEW s \in Sess,
         \/ AddPload(a, s) \/ RemovePload(a, s)
         \/ Count(a) \/ ListenPloads(a) \/ Uncount(a) \/ StopPloads(a) \/ UnlistenAll(a)
  PROVE  ListenInv'
  <1>1. /\ ~ruined /\ mPc \in [Actors -> ActorPcs] /\ mSess[a] \in Sess \cup {NoSess}
        /\ ploadListeners \in [Sess -> Nat] /\ (mPc[a] # "idle" => mSess[a] \in Sess)
    BY DEF AddPload, RemovePload, Couple, Locks, Finds, Count, ListenPloads, Uncount,
           StopPloads, UnlistenAll, Is, MonitorInv, MonTypeOK, SessionsKept, WithSession
  <1>2. PICK pc2, number2, count2, regs2 :
          /\ pc2 = mPc' /\ number2 = ploadListeners' /\ count2 = listenCount' /\ regs2 = listenRegs'
    OBVIOUS
  <1>3. PICK l : l = pc2[a]
    OBVIOUS
  <1>4. /\ \A b \in Actors : b # a => pc2[b] = mPc[b]
    BY <1>1, <1>2 DEF AddPload, RemovePload, Count, ListenPloads, Uncount, StopPloads,
                      UnlistenAll, RemoveOne, To, Jump
  <1>5. \A P : Shifted(mPc, pc2, P, mPc[a], l)
    BY <1>3, <1>4, NumberShifts
  <1>6. PICK c1 \in Nat, c2 \in Nat, u1 \in Nat, u2 \in Nat :
          /\ c1 = NumberAt(mPc, {"count"}) /\ c2 = NumberAt(pc2, {"count"})
          /\ u1 = NumberAt(mPc, {"uncount"}) /\ u2 = NumberAt(pc2, {"uncount"})
          /\ c2 = c1 + (IF l = "count" THEN 1 ELSE 0) - (IF mPc[a] = "count" THEN 1 ELSE 0)
          /\ u2 = u1 + (IF l = "uncount" THEN 1 ELSE 0) - (IF mPc[a] = "uncount" THEN 1 ELSE 0)
    <2>1. Shifted(mPc, pc2, {"count"}, mPc[a], l) /\ Shifted(mPc, pc2, {"uncount"}, mPc[a], l)
      BY <1>5
    <2> QED  BY <2>1 DEF Shifted
  <1>7. PICK l1 \in Nat, l2 \in Nat, p1 \in Nat, p2 \in Nat :
          /\ l1 = NumberAt(mPc, {"listen"}) /\ l2 = NumberAt(pc2, {"listen"})
          /\ p1 = NumberAt(mPc, StopPcs) /\ p2 = NumberAt(pc2, StopPcs)
          /\ l2 = l1 + (IF l = "listen" THEN 1 ELSE 0) - (IF mPc[a] = "listen" THEN 1 ELSE 0)
          /\ p2 = p1 + (IF l \in StopPcs THEN 1 ELSE 0) - (IF mPc[a] \in StopPcs THEN 1 ELSE 0)
    <2>1. Shifted(mPc, pc2, {"listen"}, mPc[a], l) /\ Shifted(mPc, pc2, StopPcs, mPc[a], l)
      BY <1>5
    <2> QED  BY <2>1 DEF Shifted
  <1>8. PICK n \in Nat : n = Cardinality(ListenersOf(ploadListeners)) /\ IsFiniteSet(ListenersOf(ploadListeners))
    BY FS_CardinalityType DEF ListenInv, Heard
  <1>9. PICK count \in Int, regs \in Nat :
          /\ count = listenCount /\ regs = listenRegs /\ count + c1 = n + u1
          /\ regs + l1 - p1 >= IF count > 0 THEN 1 ELSE 0
    BY <1>6, <1>7, <1>8 DEF ListenInv, Heard
  <1>10. SUFFICES ASSUME TRUE
         PROVE  \E n2 \in Nat :
                  /\ n2 = Cardinality(ListenersOf(number2)) /\ IsFiniteSet(ListenersOf(number2))
                  /\ count2 \in Int /\ regs2 \in Nat /\ count2 + c2 = n2 + u2
                  /\ regs2 + l2 - p2 >= IF count2 > 0 THEN 1 ELSE 0
    <2>1. Heard(count2, regs2, pc2, number2)
      BY <1>6, <1>7, <1>10 DEF Heard
    <2> QED  BY <1>2, <2>1 DEF ListenInv, Heard, ListenersOf, NumberAt, At
  <1>11. CASE AddPload(a, s)
    <2>1. /\ mPc[a] \in {"idle", "addPload"} /\ l = "count"
          /\ number2 = [ploadListeners EXCEPT ![s] = @ + 1] /\ count2 = count /\ regs2 = regs
      BY <1>1, <1>2, <1>3, <1>9, <1>11
         DEF AddPload, Couple, Locks, Finds, Is, Jump, listenVars
    <2>2. IsFiniteSet(ListenersOf(number2)) /\ Cardinality(ListenersOf(number2)) = n + 1
      BY <1>1, <1>8, <2>1, ListenersChange
    <2>3. c2 = c1 + 1 /\ u2 = u1 /\ l2 = l1 /\ p2 = p1
      BY <1>6, <1>7, <2>1 DEF StopPcs
    <2> QED  BY <1>9, <2>1, <2>2, <2>3
  <1>12. CASE RemovePload(a, s)
    <2>1. /\ mPc[a] \in {"idle", "removePload"} /\ count2 = count /\ regs2 = regs
          /\ \/ l = "idle" /\ number2 = ploadListeners
             \/ /\ l = "uncount" /\ ploadListeners[s] > 0
                /\ number2 = [ploadListeners EXCEPT ![s] = @ - 1]
      BY <1>1, <1>2, <1>3, <1>9, <1>12
         DEF RemovePload, Couple, Locks, Finds, Is, To, Jump, listenVars
    <2>2. CASE l = "idle" /\ number2 = ploadListeners
      <3>1. c2 = c1 /\ u2 = u1 /\ l2 = l1 /\ p2 = p1
        BY <1>6, <1>7, <2>1, <2>2 DEF StopPcs
      <3> QED  BY <1>8, <1>9, <2>1, <2>2, <3>1
    <2>3. CASE l = "uncount" /\ ploadListeners[s] > 0 /\ number2 = [ploadListeners EXCEPT ![s] = @ - 1]
      <3>1. IsFiniteSet(ListenersOf(number2)) /\ Cardinality(ListenersOf(number2)) = n - 1
        BY <1>1, <1>8, <2>3, ListenersChange
      <3>2. n - 1 \in Nat
        BY <3>1, FS_CardinalityType
      <3>3. c2 = c1 /\ u2 = u1 + 1 /\ l2 = l1 /\ p2 = p1
        BY <1>6, <1>7, <2>1, <2>3 DEF StopPcs
      <3> QED  BY <1>9, <2>1, <3>1, <3>2, <3>3
    <2> QED  BY <2>1, <2>2, <2>3
  <1>13. CASE Count(a)
    <2>1. /\ mPc[a] = "count" /\ l = (IF count = 0 THEN "listen" ELSE "idle")
          /\ number2 = ploadListeners /\ count2 = count + 1 /\ regs2 = regs
      BY <1>1, <1>2, <1>3, <1>9, <1>13 DEF Count, FirstListener, Is, To, Jump, sessionVars
    <2>2. c2 = c1 - 1 /\ u2 = u1 /\ p2 = p1 /\ l2 = l1 + (IF count = 0 THEN 1 ELSE 0)
      BY <1>6, <1>7, <2>1 DEF StopPcs
    <2> QED  BY <1>8, <1>9, <2>1, <2>2
  <1>14. CASE ListenPloads(a)
    <2>1. /\ mPc[a] = "listen" /\ l = "idle"
          /\ number2 = ploadListeners /\ count2 = count /\ regs2 = regs + 1
      BY <1>1, <1>2, <1>3, <1>9, <1>14 DEF ListenPloads, Is, To, Jump, sessionVars
    <2>2. c2 = c1 /\ u2 = u1 /\ p2 = p1 /\ l2 = l1 - 1
      BY <1>6, <1>7, <2>1 DEF StopPcs
    <2> QED  BY <1>8, <1>9, <2>1, <2>2
  <1>15. CASE Uncount(a)
    <2>1. /\ mPc[a] = "uncount" /\ l = (IF count = 1 THEN "stop" ELSE "idle")
          /\ number2 = ploadListeners /\ count2 = count - 1 /\ regs2 = regs
      BY <1>1, <1>2, <1>3, <1>9, <1>15 DEF Uncount, LastListener, Is, To, Jump, sessionVars
    <2>2. c2 = c1 /\ u2 = u1 - 1 /\ l2 = l1 /\ p2 = p1 + (IF count = 1 THEN 1 ELSE 0)
      BY <1>6, <1>7, <2>1 DEF StopPcs
    <2> QED  BY <1>8, <1>9, <2>1, <2>2
  <1>16. CASE StopPloads(a)
    <2>1. /\ mPc[a] \in StopPcs /\ l \in {"idle", "unlisten"}
          /\ number2 = ploadListeners /\ count2 = count
          /\ regs2 = (IF regs = 0 THEN 0 ELSE regs - 1)
      BY <1>1, <1>2, <1>3, <1>9, <1>16 DEF StopPloads, Is, To, Jump, sessionVars, StopPcs
    <2>2. c2 = c1 /\ u2 = u1 /\ l2 = l1 /\ p2 = p1 - 1
      BY <1>6, <1>7, <2>1 DEF StopPcs
    <2> QED  BY <1>8, <1>9, <2>1, <2>2
  <1>17. CASE UnlistenAll(a)
    <2>1. PICK r \in Sess : r = mSess[a]
      BY <1>1, <1>17 DEF UnlistenAll, Is
    <2>2. /\ mPc[a] = "unlisten" /\ l = (IF count = 1 THEN "stopThenUnlisten" ELSE "unlisten")
          /\ ploadListeners[r] > 0 /\ number2 = [ploadListeners EXCEPT ![r] = @ - 1]
          /\ count2 = count - 1 /\ regs2 = regs
      BY <1>1, <1>2, <1>3, <1>9, <1>17, <2>1
         DEF UnlistenAll, RemoveOne, LastListener, Is, To, Jump
    <2>3. IsFiniteSet(ListenersOf(number2)) /\ Cardinality(ListenersOf(number2)) = n - 1
      BY <1>1, <1>8, <2>2, ListenersChange
    <2>4. n - 1 \in Nat
      BY <2>3, FS_CardinalityType
    <2>5. c2 = c1 /\ u2 = u1 /\ l2 = l1 /\ p2 = p1 + (IF count = 1 THEN 1 ELSE 0)
      BY <1>6, <1>7, <2>2 DEF StopPcs
    <2> QED  BY <1>9, <2>2, <2>3, <2>4, <2>5
  <1> QED  BY <1>11, <1>12, <1>13, <1>14, <1>15, <1>16, <1>17

(* All others leave what listens alone, and those who are about to change  *)
(* it where they are.                                                      *)
LEMMA OtherSteps ==
  ASSUME ListenInv, UNCHANGED <<ploadListeners, listenCount, listenRegs>>,
         \A a \in Actors : mPc'[a] = mPc[a] \/ (mPc[a] \notin ListenPcs /\ mPc'[a] \notin ListenPcs)
  PROVE  ListenInv'
  <1>1. ASSUME NEW P, P \subseteq ListenPcs PROVE At(mPc', P) = At(mPc, P)
    BY <1>1 DEF At
  <1>2. /\ {"count"} \subseteq ListenPcs /\ {"uncount"} \subseteq ListenPcs
        /\ {"listen"} \subseteq ListenPcs /\ StopPcs \subseteq ListenPcs
    BY DEF ListenPcs
  <1>3. /\ At(mPc', {"count"}) = At(mPc, {"count"}) /\ At(mPc', {"uncount"}) = At(mPc, {"uncount"})
        /\ At(mPc', {"listen"}) = At(mPc, {"listen"}) /\ At(mPc', StopPcs) = At(mPc, StopPcs)
    BY <1>1, <1>2
  <1>4. PICK pc2 : pc2 = mPc'
    OBVIOUS
  <1>5. Heard(listenCount, listenRegs, pc2, ploadListeners)
    BY <1>3, <1>4 DEF ListenInv, Heard, NumberAt
  <1> QED  BY <1>4, <1>5 DEF ListenInv, Heard, ListenersOf, NumberAt, At

LEMMA ListenStep ==
  ASSUME MonitorInv, ListenInv, [MonitorNext]_monitorVars
  PROVE  ListenInv'
  <1>1. mPc \in [Actors -> ActorPcs]
    BY DEF MonitorInv, MonTypeOK
  <1>2. CASE UNCHANGED monitorVars
    BY <1>2, OtherSteps DEF monitorVars
  <1>3. ASSUME NEW p \in Procs, PacketEvent(p) \/ PacketPload(p) \/ ProcStep(p) PROVE ListenInv'
    <2>1. UNCHANGED <<ploadListeners, listenCount, listenRegs, mPc>>
      BY <1>3 DEF PacketEvent, PacketPload, ProcStep, EvtProcess, EventDone, LockTable,
                  PloadOpen, sessionVars, listenVars
    <2> QED  BY <2>1, OtherSteps
  <1>4. ASSUME NEW a \in Actors,
               \/ MonitorStart(a) \/ MonitorStop(a) \/ PollTimesOut(a)
               \/ \E l \in ClientCalls : WaitForSession(a, l)
               \/ (SessionTimeout /\ a = Main)
        PROVE  ListenInv'
    <2>1. UNCHANGED <<ploadListeners, listenCount, listenRegs>>
      BY <1>4 DEF MonitorStart, MonitorStop, PollTimesOut, WaitForSession, SessionTimeout,
                  sessionVars, listenVars
    <2>2. /\ \A b \in Actors : b # a => mPc'[b] = mPc[b]
          /\ mPc[a] \notin ListenPcs /\ mPc'[a] \notin ListenPcs
      BY <1>1, <1>4
         DEF MonitorStart, MonitorStop, PollTimesOut, WaitForSession, SessionTimeout,
                        Finds, Is, To, Jump, ListenPcs, StopPcs, ClientCalls
    <2> QED  BY <2>1, <2>2, OtherSteps
  <1>5. ASSUME NEW a \in Actors, NEW s \in Sess, Poll(a, s) \/ AddEvent(a, s) \/ RemoveEvent(a, s)
        PROVE  ListenInv'
    <2>1. UNCHANGED <<ploadListeners, listenCount, listenRegs>>
      BY <1>5 DEF Poll, AddEvent, RemoveEvent, ChangeEvents, listenVars
    <2>2. CASE Poll(a, s)
      <3>1. /\ \A b \in Actors : b # a => mPc'[b] = mPc[b]
            /\ mPc[a] \notin ListenPcs /\ mPc'[a] \notin ListenPcs
        BY <1>1, <2>2
           DEF Poll, TakeItems, Couple, Locks, Finds, Is, Jump, ListenPcs, StopPcs
      <3> QED  BY <2>1, <3>1, OtherSteps
    <2>3. CASE AddEvent(a, s) \/ RemoveEvent(a, s)
      <3>1. PICK n, l : l \in {"addEvent", "removeEvent"} /\ ChangeEvents(a, l, s, n)
        BY <2>3 DEF AddEvent, RemoveEvent
      <3>2. mPc[a] \in {"idle", "addEvent", "removeEvent"}
        BY <3>1 DEF ChangeEvents, Couple, Locks, Finds, Is
      <3>3. /\ \A b \in Actors : b # a => mPc'[b] = mPc[b]
            /\ mPc'[a] \in {"idle", "register", "unregisterOne"}
        BY <1>1, <3>1 DEF ChangeEvents, Pauses, To, Jump
      <3>4. mPc[a] \notin ListenPcs /\ mPc'[a] \notin ListenPcs
        BY <3>2, <3>3 DEF ListenPcs, StopPcs
      <3> QED  BY <2>1, <3>3, <3>4, OtherSteps
    <2> QED  BY <1>5, <2>2, <2>3
  <1>6. ASSUME NEW a \in Actors,
               \/ QueueSessionTimer(a) \/ PollWakes(a)
               \/ ReadId(a) \/ TooLate(a) \/ Unlink(a) \/ MarkStopped(a) \/ WakePolls(a) \/ Drained(a)
               \/ UnregisterAll(a) \/ FreeSession(a) \/ RegisterEvent(a) \/ UnregisterEvent(a)
        PROVE  ListenInv'
    <2>1. UNCHANGED <<ploadListeners, listenCount, listenRegs>>
      BY <1>6
         DEF QueueSessionTimer, PollWakes, ReadId, TooLate, Unlink, MarkStopped, WakePolls,
                  Drained, UnregisterAll, FreeSession, RegisterEvent, UnregisterEvent,
                  sessionVars, listenVars
    <2>2. \A b \in Actors : b # a => mPc'[b] = mPc[b]
      BY <1>1, <1>6
         DEF QueueSessionTimer, PollWakes, ReadId, TooLate, Unlink, MarkStopped, WakePolls,
                  Drained, UnregisterAll, FreeSession, RegisterEvent, UnregisterEvent, TakeItems,
                  To, Jump
    <2>3. mPc[a] \notin ListenPcs
      BY <1>6
         DEF QueueSessionTimer, PollWakes, ReadId, TooLate, Unlink, MarkStopped, WakePolls,
                  Drained, UnregisterAll, FreeSession, RegisterEvent, UnregisterEvent, Is,
                  ListenPcs, StopPcs
    <2>4. mPc'[a] \notin ListenPcs
      BY <1>1, <1>6, <2>3
         DEF QueueSessionTimer, PollWakes, ReadId, TooLate, Unlink, MarkStopped, WakePolls,
                  Drained, UnregisterAll, FreeSession, RegisterEvent, UnregisterEvent, TakeItems,
                  To, Jump, ListenPcs, StopPcs
    <2> QED  BY <2>1, <2>2, <2>3, <2>4, OtherSteps
  <1>7. ASSUME NEW a \in Actors, ActorStep(a) \/ Served(a) PROVE ListenInv'
    <2>1. CASE Served(a)
      BY <1>5, <2>1, ListenSteps DEF Served
    <2>2. CASE ActorStep(a)
      <3>1. CASE Count(a) \/ ListenPloads(a) \/ Uncount(a) \/ StopPloads(a) \/ UnlistenAll(a)
        <4>1. mPc[a] # "idle" /\ ~ruined
          BY <3>1 DEF Count, ListenPloads, Uncount, StopPloads, UnlistenAll, Is
        <4>2. mSess[a] \in Sess
          BY <4>1 DEF MonitorInv, SessionsKept, WithSession
        <4> QED  BY <3>1, <4>2, ListenSteps
      <3> QED  BY <1>6, <2>2, <3>1 DEF ActorStep
    <2> QED  BY <1>7, <2>1, <2>2
  <1>8. ASSUME MonitorNext PROVE ListenInv'
    <2>1. CASE SessionTimeout
      BY <1>4, <2>1 DEF Actors
    <2> QED  BY <1>3, <1>4, <1>7, <1>8, <2>1 DEF MonitorNext
  <1> QED  BY <1>2, <1>8

LEMMA ListenInitial ==
  ASSUME MonitorInit
  PROVE  ListenInv
  <1>1. ListenersOf(ploadListeners) = {}
    <2>1. \A s \in Sess : ploadListeners[s] = 0 /\ 1 .. ploadListeners[s] = {}
      BY DEF MonitorInit
    <2> QED  BY <2>1 DEF ListenersOf
  <1>2. \A P \in {{"count"}, {"uncount"}, {"listen"}, StopPcs} : At(mPc, P) = {}
    BY DEF MonitorInit, At, StopPcs
  <1>3. /\ NumberAt(mPc, {"count"}) = 0 /\ NumberAt(mPc, {"uncount"}) = 0
        /\ NumberAt(mPc, {"listen"}) = 0 /\ NumberAt(mPc, StopPcs) = 0
    BY <1>2, FS_EmptySet DEF NumberAt
  <1>4. listenCount = 0 /\ listenRegs = 0
    BY DEF MonitorInit
  <1> QED  BY <1>1, <1>3, <1>4, FS_EmptySet DEF ListenInv, Heard

(* Whatever two calls and the cleanup of a session do at the same time,    *)
(* when none is under way the listeners are counted, and the monitor       *)
(* listens to payloads if there is one: of what is counted late as many    *)
(* are on their way as the count is wrong by, and no call stops listening  *)
(* that another has not started to.                                        *)
THEOREM ListenersAreHeard == MonitorSpec => []ListenersHear
  <1>1. MonitorInit => MonitorInv /\ ListenInv
    BY MonitorInitial, ListenInitial
  <1>2. MonitorInv /\ ListenInv /\ [MonitorNext]_monitorVars => (MonitorInv /\ ListenInv)'
    BY MonitorStep, ListenStep
  <1>3. ASSUME ListenInv PROVE ListenersHear
    <2> SUFFICES ASSUME \A a \in Actors : mPc[a] \notin ListenPcs
                 PROVE  /\ listenCount = Cardinality(ListenersOf(ploadListeners))
                        /\ listenCount > 0 => listenRegs > 0
      BY DEF ListenersHear, ListenPcs, StopPcs
    <2>1. \A P \in {{"count"}, {"uncount"}, {"listen"}, StopPcs} : At(mPc, P) = {}
      BY DEF At, ListenPcs, StopPcs
    <2>2. /\ NumberAt(mPc, {"count"}) = 0 /\ NumberAt(mPc, {"uncount"}) = 0
          /\ NumberAt(mPc, {"listen"}) = 0 /\ NumberAt(mPc, StopPcs) = 0
      BY <2>1, FS_EmptySet DEF NumberAt
    <2>3. Cardinality(ListenersOf(ploadListeners)) \in Nat
      BY <1>3, FS_CardinalityType DEF ListenInv, Heard
    <2> QED  BY <1>3, <2>2, <2>3 DEF ListenInv, Heard
  <1> QED  BY <1>1, <1>2, <1>3, PTL DEF MonitorSpec

-----------------------------------------------------------------------------
(***************************************************************************)
(* Connections of a datastore (Datastore).                                 *)
(***************************************************************************)
ConnOrNone == DsConns \cup {NoConn}
Pools == [cons : ConnOrNone, unused : ConnOrNone,
          next : [DsConns -> ConnOrNone], prev : [DsConns -> ConnOrNone]]

(* The list of those that wait does not come back to where it was.         *)
NoLoop(p) ==
  /\ \A x \in Unused(p) : p.next[x] # p.unused \/ p.unused = NoConn
  /\ \A x, y \in Unused(p) : p.next[x] = p.next[y] /\ p.next[x] # NoConn => x = y

(* Those of held are linked to each other, in both directions, though only *)
(* some of them may be reached from cons; the others are in no list.       *)
Linked(p, held) ==
  /\ held \subseteq DsConns /\ held \cap Unused(p) = {}
  /\ p.cons \in held \cup {NoConn}
  /\ p.cons # NoConn => p.prev[p.cons] = NoConn
  /\ \A x \in held : p.next[x] \in held \cup {NoConn} /\ p.prev[x] \in held \cup {NoConn}
  /\ \A x, y \in held : p.next[x] = y <=> p.prev[y] = x

(* Following them ends.                                                    *)
NoRing(p, held) ==
  \A S \in SUBSET held : S # {} => \E x \in S : p.next[x] \notin S

PoolGood(p, held) == p \in Pools /\ NoLoop(p) /\ Linked(p, held) /\ NoRing(p, held)

LEMMA UnusedClosed ==
  ASSUME NEW p \in Pools
  PROVE  /\ Unused(p) \subseteq DsConns
         /\ p.unused \in Unused(p) \cup {NoConn}
         /\ \A x \in Unused(p) : p.next[x] \in Unused(p) \cup {NoConn}
  BY DEF Unused, Pools, ConnOrNone

LEMMA UnusedLeast ==
  ASSUME NEW p \in Pools, NEW S \in SUBSET DsConns, p.unused \in S \cup {NoConn},
         \A x \in S : p.next[x] \in S \cup {NoConn}
  PROVE  Unused(p) \subseteq S
  BY DEF Unused

LEMMA NothingUnused ==
  ASSUME NEW p \in Pools, p.unused = NoConn
  PROVE  Unused(p) = {}
  <1>1. {} \in SUBSET DsConns /\ p.unused \in {} \cup {NoConn} /\ \A x \in {} : p.next[x] \in {} \cup {NoConn}
    OBVIOUS
  <1>2. Unused(p) \subseteq {}
    BY <1>1, UnusedLeast
  <1> QED  BY <1>2

(* datastore_connection_new takes the first that waits.                    *)
LEMMA ReuseGood ==
  ASSUME NEW p, NEW held, PoolGood(p, held), p.unused # NoConn, NEW q, q = Reuse(p)
  PROVE  /\ p.unused \in Unused(p) /\ Unused(q) = Unused(p) \ {p.unused}
         /\ PoolGood(q, held \cup {p.unused})
  <1> DEFINE c == p.unused
             n == p.next[c]
  <1>1. p \in Pools /\ NoConn \notin DsConns
    BY DatastoreAssumption DEF PoolGood
  <1>2. c \in Unused(p) /\ c \in DsConns /\ n \in Unused(p) \cup {NoConn}
    BY <1>1, UnusedClosed
  <1>3. /\ q \in Pools /\ q.cons = p.cons /\ q.unused = n
        /\ q.next = [p.next EXCEPT ![c] = NoConn]
        /\ q.prev = [x \in DsConns |-> IF x \in {c, n} THEN NoConn ELSE p.prev[x]]
    BY <1>1, <1>2 DEF Reuse, Pools, ConnOrNone
  <1> HIDE DEF c, n
  <1>4. /\ q.next[c] = NoConn /\ q.prev[c] = NoConn /\ (n # NoConn => q.prev[n] = NoConn)
        /\ \A x \in DsConns : x # c => q.next[x] = p.next[x]
        /\ \A x \in DsConns : x # c /\ x # n => q.prev[x] = p.prev[x]
    <2>1. p.next \in [DsConns -> ConnOrNone] /\ n \in DsConns \cup {NoConn}
      BY <1>1, <1>2, UnusedClosed DEF Pools
    <2> QED  BY <1>2, <1>3, <2>1
  <1>5. \A x \in Unused(p) : p.next[x] # c
    BY <1>1, <1>2 DEF PoolGood, NoLoop, c
  <1>6. n # c
    BY <1>2, <1>5 DEF n
  <1>7. Unused(q) \subseteq Unused(p) \ {c}
    <2>1. Unused(p) \ {c} \in SUBSET DsConns
      BY <1>1, UnusedClosed
    <2>2. q.unused \in (Unused(p) \ {c}) \cup {NoConn}
      BY <1>2, <1>3, <1>6
    <2>3. \A x \in Unused(p) \ {c} : q.next[x] \in (Unused(p) \ {c}) \cup {NoConn}
      BY <1>1, <1>4, <1>5, UnusedClosed
    <2> QED  BY <1>3, <2>1, <2>2, <2>3, UnusedLeast
  <1>8. Unused(p) \subseteq Unused(q) \cup {c}
    <2>1. Unused(q) \cup {c} \in SUBSET DsConns
      BY <1>2, <1>3, UnusedClosed
    <2>2. p.unused \in Unused(q) \cup {c}
      BY DEF c
    <2>3. \A x \in Unused(q) \cup {c} : p.next[x] \in Unused(q) \cup {c} \cup {NoConn}
      <3>1. p.next[c] \in Unused(q) \cup {NoConn}
        BY <1>3, UnusedClosed DEF n
      <3>2. ASSUME NEW x \in Unused(q), x # c PROVE p.next[x] \in Unused(q) \cup {NoConn}
        BY <1>3, <1>4, <3>2, UnusedClosed
      <3> QED  BY <3>1, <3>2
    <2> QED  BY <1>1, <2>1, <2>2, <2>3, UnusedLeast
  <1>9. Unused(q) = Unused(p) \ {c}
    BY <1>7, <1>8
  <1>10. NoLoop(q)
    <2>1. \A x \in Unused(q) : x \in Unused(p) /\ x # c /\ q.next[x] = p.next[x]
      BY <1>1, <1>4, <1>9, UnusedClosed
    <2>2. \A x, y \in Unused(p) : p.next[x] = p.next[y] /\ p.next[x] # NoConn => x = y
      BY DEF PoolGood, NoLoop
    <2>3. \A x \in Unused(q) : q.next[x] # q.unused \/ q.unused = NoConn
      BY <1>2, <1>3, <2>1, <2>2 DEF n
    <2>4. \A x, y \in Unused(q) : q.next[x] = q.next[y] /\ q.next[x] # NoConn => x = y
      BY <2>1, <2>2
    <2> QED  BY <2>3, <2>4 DEF NoLoop
  <1>11. /\ held \subseteq DsConns /\ held \cap Unused(p) = {} /\ p.cons \in held \cup {NoConn}
         /\ p.cons # NoConn => p.prev[p.cons] = NoConn
         /\ \A x \in held : p.next[x] \in held \cup {NoConn} /\ p.prev[x] \in held \cup {NoConn}
         /\ \A x, y \in held : p.next[x] = y <=> p.prev[y] = x
    BY DEF PoolGood, Linked
  <1>12. c \notin held /\ n \notin held
    BY <1>1, <1>2, <1>11
  <1>13. \A x \in held : q.next[x] = p.next[x] /\ q.prev[x] = p.prev[x]
    BY <1>4, <1>11, <1>12
  <1>14. Linked(q, held \cup {c})
    <2>1. (held \cup {c}) \cap Unused(q) = {} /\ held \cup {c} \subseteq DsConns
      BY <1>2, <1>9, <1>11
    <2>2. q.cons \in held \cup {c} \cup {NoConn} /\ (q.cons # NoConn => q.prev[q.cons] = NoConn)
      BY <1>3, <1>11, <1>13
    <2>3. \A x \in held \cup {c} : q.next[x] \in held \cup {c} \cup {NoConn} /\ q.prev[x] \in held \cup {c} \cup {NoConn}
      BY <1>4, <1>11, <1>13
    <2>4. \A x, y \in held \cup {c} : q.next[x] = y <=> q.prev[y] = x
      BY <1>1, <1>2, <1>4, <1>11, <1>12, <1>13
    <2> QED  BY <2>1, <2>2, <2>3, <2>4 DEF Linked
  <1>15. NoRing(q, held \cup {c})
    <2> SUFFICES ASSUME NEW S \in SUBSET (held \cup {c}), S # {} PROVE \E x \in S : q.next[x] \notin S
      BY DEF NoRing
    <2>1. CASE c \in S
      BY <1>1, <1>2, <1>4, <1>11, <2>1
    <2>2. CASE c \notin S
      BY <1>13, <2>2 DEF PoolGood, NoRing
    <2> QED  BY <2>1, <2>2
  <1>16. PoolGood(q, held \cup {c})
    BY <1>3, <1>10, <1>14, <1>15 DEF PoolGood
  <1> QED  BY <1>2, <1>9, <1>16 DEF c

(* A new connection is put on cons.                                        *)
LEMMA PutGood ==
  ASSUME NEW p, NEW held, PoolGood(p, held), NEW c \in DsConns, c \notin held,
         c \notin Unused(p), NEW q, q = PutOnCons(p, c)
  PROVE  Unused(q) = Unused(p) /\ PoolGood(q, held \cup {c})
  <1>1. p \in Pools /\ NoConn \notin DsConns
    BY DatastoreAssumption DEF PoolGood
  <1>2. /\ q \in Pools /\ q.cons = c /\ q.unused = p.unused
        /\ q.next = [p.next EXCEPT ![c] = p.cons]
        /\ q.prev = [x \in DsConns |-> IF x = c THEN NoConn ELSE IF x = p.cons THEN c ELSE p.prev[x]]
    BY <1>1 DEF PutOnCons, Pools, ConnOrNone
  <1>3. /\ q.next[c] = p.cons /\ q.prev[c] = NoConn
        /\ \A x \in DsConns : x # c => q.next[x] = p.next[x]
        /\ \A x \in DsConns : x # c => q.prev[x] = IF x = p.cons THEN c ELSE p.prev[x]
    BY <1>1, <1>2 DEF Pools
  <1>4. Unused(q) = Unused(p)
    <2>1. \A x \in Unused(p) : x \in DsConns /\ q.next[x] = p.next[x]
      BY <1>1, <1>3, UnusedClosed
    <2>2. Unused(q) \subseteq Unused(p)
      BY <1>1, <1>2, <2>1, UnusedClosed, UnusedLeast
    <2>3. \A x \in Unused(q) : x \in DsConns /\ q.next[x] = p.next[x]
      BY <2>1, <2>2
    <2>4. Unused(p) \subseteq Unused(q)
      BY <1>1, <1>2, <2>3, UnusedClosed, UnusedLeast
    <2> QED  BY <2>2, <2>4
  <1>5. NoLoop(q)
    <2>1. \A x \in Unused(p) : q.next[x] = p.next[x]
      BY <1>1, <1>3, UnusedClosed
    <2> QED  BY <1>2, <1>4, <2>1 DEF PoolGood, NoLoop
  <1>6. /\ held \subseteq DsConns /\ held \cap Unused(p) = {} /\ p.cons \in held \cup {NoConn}
        /\ p.cons # NoConn => p.prev[p.cons] = NoConn
        /\ \A x \in held : p.next[x] \in held \cup {NoConn} /\ p.prev[x] \in held \cup {NoConn}
        /\ \A x, y \in held : p.next[x] = y <=> p.prev[y] = x
    BY DEF PoolGood, Linked
  <1>7. \A x \in held : /\ x # c /\ x # NoConn /\ q.next[x] = p.next[x]
                        /\ q.prev[x] = IF x = p.cons THEN c ELSE p.prev[x]
    BY <1>1, <1>3, <1>6
  <1>8. \A x, y \in held \cup {c} : q.next[x] = y <=> q.prev[y] = x
    <2>1. \A x, y \in held : q.next[x] = y <=> q.prev[y] = x
      BY <1>6, <1>7
    <2>2. ASSUME NEW y \in held PROVE q.next[c] = y <=> q.prev[y] = c
      <3>1. p.prev[y] # c
        BY <1>1, <1>6
      <3> QED  BY <1>3, <1>6, <1>7, <3>1
    <2>3. \A x \in held : q.next[x] # c /\ q.prev[c] # x
      BY <1>1, <1>3, <1>6, <1>7
    <2>4. q.next[c] # c /\ q.prev[c] # c
      BY <1>1, <1>3, <1>6
    <2> QED  BY <2>1, <2>2, <2>3, <2>4
  <1>9. Linked(q, held \cup {c})
    <2>1. \A x \in held \cup {c} : q.next[x] \in held \cup {c} \cup {NoConn} /\ q.prev[x] \in held \cup {c} \cup {NoConn}
      BY <1>3, <1>6, <1>7
    <2>2. held \cup {c} \subseteq DsConns /\ (held \cup {c}) \cap Unused(q) = {}
      BY <1>4, <1>6
    <2>3. q.cons \in held \cup {c} \cup {NoConn} /\ (q.cons # NoConn => q.prev[q.cons] = NoConn)
      BY <1>2, <1>3
    <2> QED  BY <1>8, <2>1, <2>2, <2>3 DEF Linked
  <1>10. NoRing(q, held \cup {c})
    <2> SUFFICES ASSUME NEW S \in SUBSET (held \cup {c}), S # {} PROVE \E x \in S : q.next[x] \notin S
      BY DEF NoRing
    <2>1. CASE S = {c}
      BY <1>1, <1>3, <1>6, <2>1
    <2>2. CASE S # {c}
      <3>1. S \ {c} \in SUBSET held /\ S \ {c} # {}
        BY <2>2
      <3>2. PICK x \in S \ {c} : p.next[x] \notin S \ {c}
        BY <3>1 DEF PoolGood, NoRing
      <3>3. x \in held
        BY <3>1, <3>2
      <3>4. q.next[x] = p.next[x] /\ p.next[x] \in held \cup {NoConn} /\ NoConn # c
        BY <1>1, <1>6, <1>7, <3>3
      <3> QED  BY <3>2, <3>4
    <2> QED  BY <2>1, <2>2
  <1> QED  BY <1>2, <1>4, <1>5, <1>9, <1>10 DEF PoolGood

(* datastore_connection_release takes one off the links it has, and puts   *)
(* it first among those that wait.                                         *)
LEMMA GiveBackGood ==
  ASSUME NEW p, NEW held, PoolGood(p, held), NEW c \in held, NEW q, q = GiveBack(p, c)
  PROVE  Unused(q) = Unused(p) \cup {c} /\ PoolGood(q, held \ {c})
  <1> DEFINE n == p.next[c]
             b == p.prev[c]
             a == p.unused
  <1>1. p \in Pools /\ NoConn \notin DsConns
    BY DatastoreAssumption DEF PoolGood
  <1>2. /\ held \subseteq DsConns /\ held \cap Unused(p) = {} /\ p.cons \in held \cup {NoConn}
        /\ p.cons # NoConn => p.prev[p.cons] = NoConn
        /\ \A x \in held : p.next[x] \in held \cup {NoConn} /\ p.prev[x] \in held \cup {NoConn}
        /\ \A x, y \in held : p.next[x] = y <=> p.prev[y] = x
    BY DEF PoolGood, Linked
  <1>3. c \in DsConns /\ n \in held \cup {NoConn} /\ b \in held \cup {NoConn}
        /\ a \in Unused(p) \cup {NoConn} /\ c \notin Unused(p)
    BY <1>1, <1>2, UnusedClosed
  <1>4. /\ q \in Pools /\ q.cons = (IF b = NoConn THEN n ELSE p.cons) /\ q.unused = c
        /\ q.next = [x \in DsConns |-> IF x = b THEN n ELSE IF x = c THEN a ELSE p.next[x]]
        /\ q.prev = [x \in DsConns |-> IF x = a THEN c ELSE IF x = n THEN b ELSE p.prev[x]]
    BY <1>1, <1>2, <1>3 DEF GiveBack, Pools, ConnOrNone
  <1> HIDE DEF n, b, a
  <1>5. \A x \in Unused(p) : x \in DsConns /\ x \notin held /\ q.next[x] = p.next[x]
    BY <1>1, <1>2, <1>3, <1>4, UnusedClosed
  <1>6. \A x \in held : q.prev[x] = (IF x = n THEN b ELSE p.prev[x])
    BY <1>1, <1>2, <1>3, <1>4
  <1>7. \A x \in held : x # c => q.next[x] = IF x = b THEN n ELSE p.next[x]
    BY <1>2, <1>4
  <1>8. n # c /\ b # c /\ (b # NoConn => b # n)
    <2>1. n # c
      <3>1. {c} \in SUBSET held /\ {c} # {}
        OBVIOUS
      <3> QED  BY <3>1 DEF PoolGood, NoRing, n
    <2>2. b # c
      BY <1>2, <2>1 DEF b, n
    <2>3. b # NoConn => p.next[b] = c
      BY <1>2, <1>3 DEF b
    <2>4. ASSUME b # NoConn, b = n PROVE FALSE
      <3>1. {b, c} \in SUBSET held
        BY <1>3, <2>4
      <3>2. p.next[b] = c /\ p.next[c] = b
        BY <2>3, <2>4 DEF n
      <3> QED  BY <3>1, <3>2 DEF PoolGood, NoRing
    <2> QED  BY <2>1, <2>2, <2>4
  <1>9. (b # NoConn => p.next[b] = c) /\ (n # NoConn => p.prev[n] = c)
    BY <1>2, <1>3 DEF b, n
  <1>10. q.next[c] = a
    BY <1>3, <1>4, <1>8
  <1>11. Unused(q) = Unused(p) \cup {c}
    <2>1. Unused(p) \cup {c} \in SUBSET DsConns
      BY <1>3, <1>5
    <2>2. \A x \in Unused(p) \cup {c} : q.next[x] \in (Unused(p) \cup {c}) \cup {NoConn}
      BY <1>1, <1>3, <1>5, <1>10, UnusedClosed
    <2>3. Unused(q) \subseteq Unused(p) \cup {c}
      BY <1>4, <2>1, <2>2, UnusedLeast
    <2>4. c \in Unused(q) /\ Unused(q) \subseteq DsConns /\ a \in Unused(q) \cup {NoConn}
      <3>1. c \in Unused(q) /\ Unused(q) \subseteq DsConns
        BY <1>1, <1>3, <1>4, UnusedClosed
      <3> QED  BY <1>4, <1>10, <3>1, UnusedClosed
    <2>5. Unused(p) \subseteq Unused(q) \cap Unused(p)
      <3>1. p.unused \in (Unused(q) \cap Unused(p)) \cup {NoConn}
        BY <1>3, <2>4 DEF a
      <3>2. \A x \in Unused(q) \cap Unused(p) : p.next[x] \in (Unused(q) \cap Unused(p)) \cup {NoConn}
        <4> TAKE x \in Unused(q) \cap Unused(p)
        <4>1. q.next[x] \in Unused(q) \cup {NoConn}
          BY <1>4, UnusedClosed
        <4>2. p.next[x] \in Unused(p) \cup {NoConn}
          BY <1>1, UnusedClosed
        <4> QED  BY <1>5, <4>1, <4>2
      <3>3. Unused(q) \cap Unused(p) \in SUBSET DsConns
        BY <2>4
      <3> QED  BY <1>1, <3>1, <3>2, <3>3, UnusedLeast
    <2> QED  BY <2>3, <2>4, <2>5
  <1>12. NoLoop(q)
    <2>1. \A x \in Unused(p) : p.next[x] \in Unused(p) \cup {NoConn}
      BY <1>1, UnusedClosed
    <2>2. \A x \in Unused(p) \cup {c} : q.next[x] # c
      BY <1>1, <1>3, <1>5, <1>10, <2>1
    <2>3. /\ \A x \in Unused(p) : p.next[x] # a \/ a = NoConn
          /\ \A x, y \in Unused(p) : p.next[x] = p.next[y] /\ p.next[x] # NoConn => x = y
      BY DEF PoolGood, NoLoop, a
    <2>4. \A x, y \in Unused(p) \cup {c} : q.next[x] = q.next[y] /\ q.next[x] # NoConn => x = y
      BY <1>5, <1>10, <2>3
    <2> QED  BY <1>4, <1>11, <2>2, <2>4 DEF NoLoop
  <1>13. Linked(q, held \ {c})
    <2>1. held \ {c} \subseteq DsConns /\ (held \ {c}) \cap Unused(q) = {}
      BY <1>2, <1>11
    <2>2. q.cons \in (held \ {c}) \cup {NoConn}
      BY <1>2, <1>3, <1>4, <1>8 DEF b
    <2>3. q.cons # NoConn => q.prev[q.cons] = NoConn
      <3>1. CASE b = NoConn
        BY <1>3, <1>4, <1>6, <3>1
      <3>2. CASE b # NoConn
        <4>1. q.cons = p.cons /\ (p.cons # NoConn => p.cons # n)
          BY <1>1, <1>2, <1>3, <1>4, <1>9, <3>2
        <4> QED  BY <1>2, <1>6, <4>1
      <3> QED  BY <3>1, <3>2
    <2>4. \A x \in held \ {c} : q.next[x] \in (held \ {c}) \cup {NoConn}
      <3> TAKE x \in held \ {c}
      <3>1. CASE x = b
        BY <1>3, <1>7, <1>8, <3>1
      <3>2. CASE x # b
        <4>1. p.next[x] # c
          BY <1>2, <3>2 DEF b
        <4> QED  BY <1>2, <1>7, <3>2, <4>1
      <3> QED  BY <3>1, <3>2
    <2>5. \A x \in held \ {c} : q.prev[x] \in (held \ {c}) \cup {NoConn}
      <3> TAKE x \in held \ {c}
      <3>1. CASE x = n
        BY <1>3, <1>6, <1>8, <3>1
      <3>2. CASE x # n
        <4>1. p.prev[x] # c
          BY <1>2, <3>2 DEF n
        <4> QED  BY <1>2, <1>6, <3>2, <4>1
      <3> QED  BY <3>1, <3>2
    <2>6. ASSUME NEW x \in held \ {c}, NEW y \in held \ {c} PROVE q.next[x] = y <=> q.prev[y] = x
      <3>1. /\ q.next[x] = (IF x = b THEN n ELSE p.next[x])
            /\ q.prev[y] = (IF y = n THEN b ELSE p.prev[y])
            /\ p.next[x] = y <=> p.prev[y] = x
        BY <1>2, <1>6, <1>7
      <3>2. x # NoConn /\ y # NoConn
        BY <1>1, <1>2
      <3>3. (x = b => p.next[x] = c) /\ (y = n => p.prev[y] = c)
        BY <1>9, <3>2
      <3> QED  BY <3>1, <3>3
    <2> QED  BY <2>1, <2>2, <2>3, <2>4, <2>5, <2>6 DEF Linked
  <1>14. NoRing(q, held \ {c})
    <2> SUFFICES ASSUME NEW S \in SUBSET (held \ {c}), S # {} PROVE \E x \in S : q.next[x] \notin S
      BY DEF NoRing
    <2>1. CASE b \notin S
      <3>1. \A x \in S : q.next[x] = p.next[x]
        BY <1>7, <2>1
      <3> QED  BY <3>1 DEF PoolGood, NoRing
    <2>2. CASE b \in S
      <3>1. S \cup {c} \in SUBSET held /\ S \cup {c} # {} /\ b \in held
        BY <2>2
      <3>2. PICK x \in S \cup {c} : p.next[x] \notin S \cup {c}
        BY <3>1 DEF PoolGood, NoRing
      <3>3. x # b
        BY <1>1, <1>2, <1>9, <3>1, <3>2
      <3>4. q.next[b] = n
        BY <1>7, <1>8, <3>1
      <3>5. CASE x = c
        BY <2>2, <3>2, <3>4, <3>5 DEF n
      <3>6. CASE x # c
        BY <1>7, <3>2, <3>3, <3>6
      <3> QED  BY <3>5, <3>6
    <2> QED  BY <2>1, <2>2
  <1> QED  BY <1>4, <1>11, <1>12, <1>13, <1>14 DEF PoolGood

-----------------------------------------------------------------------------
(***************************************************************************)
(* The file: each dataset has its table, one entry and all its fields,     *)
(* whatever became of those whose creation was partial short; identifiers are  *)
(* counted.                                                                *)
(***************************************************************************)
Files == [system : BOOLEAN, tables : SUBSET DataNames,
          listed : SUBSET [id : Nat, name : DataNames],
          schema : SUBSET [id : Nat, field : Nat]]

IdsCounted(f) ==
  /\ IsFiniteSet(f.listed)
  /\ \A e \in f.listed : e.id <= Cardinality(f.listed) /\ e.name \in f.tables
  /\ \A s \in f.schema : s.id <= Cardinality(f.listed)

Whole(f, n) == \E i \in Nat : IdsOf(f, n) = {i} /\ FieldsOf(f, n) = 1 .. Fields

FileGood(f, partial) ==
  f \in Files /\ IdsCounted(f) /\ \A n \in f.tables \ partial : Whole(f, n)

SameFor(f, g, m) ==
  /\ m \in g.tables <=> m \in f.tables
  /\ IdsOf(g, m) = IdsOf(f, m) /\ FieldsOf(g, m) = FieldsOf(f, m)

(* A creation that goes on to the statement i touches no other dataset.    *)
LEMMA CreationGood ==
  ASSUME NEW f, NEW partial, FileGood(f, partial), NEW n \in DataNames, n \notin f.tables,
         NEW i \in 0 .. Statements, NEW g, g = Creation(f, n, i)
  PROVE  /\ i = 0 => g = f
         /\ i > 0 => FileGood(g, partial \cup {n}) /\ n \in g.tables
         /\ i = Statements => FileGood(g, partial)
         /\ \A m \in DataNames \ {n} : SameFor(f, g, m)
  <1> DEFINE id == 1 + Cardinality(f.listed)
             new == [id |-> id, name |-> n]
             rows == {[id |-> id, field |-> j] : j \in 1 .. i - 2}
  <1>1. f \in Files /\ IdsCounted(f) /\ Fields \in Nat \ {0} /\ i \in Nat
    BY DatastoreAssumption DEF FileGood, Statements
  <1>2. Cardinality(f.listed) \in Nat /\ IsFiniteSet(f.listed)
    BY <1>1, FS_CardinalityType DEF IdsCounted
  <1>3. id \in Nat /\ new \in [id : Nat, name : DataNames] /\ rows \in SUBSET [id : Nat, field : Nat]
    BY <1>1, <1>2
  <1>4. /\ f = [system |-> f.system, tables |-> f.tables, listed |-> f.listed, schema |-> f.schema]
        /\ f.system \in BOOLEAN /\ f.tables \in SUBSET DataNames
        /\ f.listed \in SUBSET [id : Nat, name : DataNames]
        /\ f.schema \in SUBSET [id : Nat, field : Nat]
    BY <1>1 DEF Files
  <1>5. g = [system |-> f.system,
             tables |-> f.tables \cup IF i >= 1 THEN {n} ELSE {},
             listed |-> f.listed \cup IF i >= 2 THEN {new} ELSE {},
             schema |-> f.schema \cup rows]
    BY <1>4 DEF Creation
  <1>6. \A e \in f.listed : e.id \in Nat /\ e.id < id /\ e.name \in f.tables /\ e.name # n
    BY <1>1, <1>2, <1>4 DEF IdsCounted
  <1>7. \A s \in f.schema : s.id \in Nat /\ s.id < id
    BY <1>1, <1>2, <1>4 DEF IdsCounted
  <1>8. i <= 2 => rows = {}
    BY <1>1
  <1>9. i = 0 => g = f
    BY <1>4, <1>5, <1>8
  <1>10. g \in Files
    BY <1>3, <1>4, <1>5 DEF Files
  <1>11. /\ IsFiniteSet(g.listed)
         /\ Cardinality(g.listed) = (IF i >= 2 THEN id ELSE Cardinality(f.listed))
    <2>1. new \notin f.listed
      BY <1>2, <1>6
    <2>2. CASE i >= 2
      BY <1>2, <1>5, <2>1, <2>2, FS_AddElement
    <2>3. CASE ~(i >= 2)
      BY <1>2, <1>5, <2>3
    <2> QED  BY <2>2, <2>3
  <1>12. IdsCounted(g)
    <2>1. \A e \in g.listed : e.id <= Cardinality(g.listed) /\ e.name \in g.tables
      <3> TAKE e \in g.listed
      <3>1. CASE e \in f.listed
        BY <1>1, <1>2, <1>5, <1>6, <1>11, <3>1
      <3>2. CASE e \notin f.listed
        <4>1. i >= 2 /\ e = new
          BY <1>5, <3>2
        <4>2. e.id = id /\ e.name = n /\ n \in g.tables
          BY <1>1, <1>5, <4>1
        <4> QED  BY <1>3, <1>11, <4>1, <4>2
      <3> QED  BY <3>1, <3>2
    <2>2. \A s \in g.schema : s.id <= Cardinality(g.listed)
      <3> TAKE s \in g.schema
      <3>1. CASE s \in f.schema
        BY <1>2, <1>7, <1>11, <3>1
      <3>2. CASE s \notin f.schema
        <4>1. s \in rows
          BY <1>5, <3>2
        <4>2. s.id = id /\ i >= 2
          BY <1>1, <1>8, <4>1
        <4> QED  BY <1>3, <1>11, <4>2
      <3> QED  BY <3>1, <3>2
    <2> QED  BY <1>11, <2>1, <2>2 DEF IdsCounted
  <1>13. ASSUME NEW m \in DataNames \ {n} PROVE SameFor(f, g, m)
    <2>1. IdsOf(g, m) = IdsOf(f, m)
      <3>1. {x \in g.listed : x.name = m} = {x \in f.listed : x.name = m}
        BY <1>5
      <3> QED  BY <3>1 DEF IdsOf
    <2>2. \A x \in IdsOf(f, m) : x < id
      BY <1>6 DEF IdsOf
    <2>3. id \notin IdsOf(f, m)
      BY <1>3, <2>2
    <2>4. {x \in g.schema : x.id \in IdsOf(g, m)} = {x \in f.schema : x.id \in IdsOf(f, m)}
      <3>1. \A x \in rows : x.id = id
        OBVIOUS
      <3>2. g.schema = f.schema \cup rows
        BY <1>5
      <3> QED  BY <2>1, <2>3, <3>1, <3>2
    <2>5. FieldsOf(g, m) = FieldsOf(f, m)
      BY <2>4 DEF FieldsOf
    <2>6. m \in g.tables <=> m \in f.tables
      BY <1>5
    <2> QED  BY <2>1, <2>5, <2>6 DEF SameFor
  <1>14. \A m \in g.tables \ (partial \cup {n}) : Whole(g, m)
    <2> TAKE m \in g.tables \ (partial \cup {n})
    <2>1. m \in DataNames \ {n} /\ SameFor(f, g, m)
      BY <1>10, <1>13 DEF Files
    <2> QED  BY <2>1 DEF FileGood, Whole, SameFor
  <1>15. i = Statements => Whole(g, n)
    <2> SUFFICES ASSUME i = Statements PROVE Whole(g, n)
      OBVIOUS
    <2>1. i = 2 + Fields /\ i >= 2
      BY <1>1 DEF Statements
    <2>2. g.listed = f.listed \cup {new} /\ g.schema = f.schema \cup rows
      BY <1>5, <2>1
    <2>3. {x \in g.listed : x.name = n} = {new}
      BY <1>6, <2>2
    <2>4. IdsOf(g, n) = {id}
      <3>1. new.id = id
        OBVIOUS
      <3> HIDE DEF new
      <3>2. IdsOf(g, n) = {e.id : e \in {new}}
        BY <2>3 DEF IdsOf
      <3> QED  BY <3>1, <3>2
    <2>5. {x \in g.schema : x.id \in IdsOf(g, n)} = rows
      <3>1. \A x \in f.schema : x.id # id
        BY <1>3, <1>7
      <3>2. \A x \in rows : x.id = id
        OBVIOUS
      <3> QED  BY <2>2, <2>4, <3>1, <3>2
    <2>6. {s.field : s \in rows} = 1 .. i - 2
      <3>1. \A j \in 1 .. i - 2 : [id |-> id, field |-> j].field = j
        OBVIOUS
      <3>2. \A s \in rows : s.field \in 1 .. i - 2
        BY <3>1
      <3>3. \A j \in 1 .. i - 2 : \E s \in rows : s.field = j
        BY <3>1
      <3> HIDE DEF rows
      <3> QED  BY <3>2, <3>3
    <2>7. i - 2 = Fields
      BY <1>1, <2>1
    <2> QED  BY <1>3, <2>4, <2>5, <2>6, <2>7 DEF Whole, FieldsOf
  <1>16. i > 0 => FileGood(g, partial \cup {n}) /\ n \in g.tables
    BY <1>1, <1>5, <1>10, <1>12, <1>14 DEF FileGood
  <1>17. i = Statements => FileGood(g, partial)
    <2>1. ASSUME i = Statements, NEW m \in g.tables \ partial PROVE Whole(g, m)
      BY <1>14, <1>15, <2>1
    <2> QED  BY <1>10, <1>12, <2>1 DEF FileGood
  <1> QED  BY <1>9, <1>13, <1>16, <1>17

-----------------------------------------------------------------------------
(***************************************************************************)
(* The invariant of a datastore.                                           *)
(***************************************************************************)
DsStates == {"null", "connected", "unconnected", "freed"}
DsPlaces == {"away", "open", "query", "freed query", "leave", "write"}
Datasets == [DataNames -> [fields : SUBSET Nat, refs : Int, there : BOOLEAN]]

DatastoreTypes ==
  /\ conMain \in DsStates /\ inMemory \in Datasets /\ cutShort \in SUBSET DataNames
  /\ dsPc \in [DsUsers -> DsPlaces] /\ dsConn \in [DsUsers -> ConnOrNone]
  /\ dsName \in [DsUsers -> DataNames \cup {"none"}]
  /\ \A u \in DsUsers : dsPc[u] \in {"query", "freed query"} => dsName[u] \in DataNames
  /\ dsQueries \in [DsUsers -> SUBSET DataNames]
  /\ dsCrashed \in BOOLEAN

(* Who has a connection, has it alone and off the list of those that wait. *)
ConnsOf(cs) == {cs[u] : u \in DsUsers} \ {NoConn}
ConnsGood(p, con, cs) ==
  /\ \A u, v \in DsUsers : u # v /\ cs[u] # NoConn => cs[u] # cs[v]
  /\ PoolGood(p, ConnsOf(cs))
  /\ Unused(p) \cup ConnsOf(cs) \subseteq con

KnownMatches(f, partial, k) ==
  \A n \in DataNames \ partial :
    (k[n].there <=> n \in f.tables) /\ (k[n].there => k[n].fields = 1 .. Fields)

(* The datasets in memory count the queries that use them.                 *)
AskersOf(qs, n) == {u \in DsUsers : n \in qs[u]}
QueriesGood(k, qs, pc, nm) ==
  /\ \A n \in DataNames : k[n].refs = Cardinality(AskersOf(qs, n))
  /\ \A u \in DsUsers : \A n \in qs[u] : k[n].there
  /\ \A u \in DsUsers : pc[u] = "query" => k[nm[u]].there /\ nm[u] \notin qs[u]
NoneAsks(qs, pc) == \A u \in DsUsers : qs[u] = {} /\ pc[u] # "query"

DatastoreInvariant ==
  /\ DatastoreTypes
  /\ ConnsGood(pool, connected, dsConn)
  /\ FileGood(file, cutShort)
  /\ conMain = "connected" => KnownMatches(file, cutShort, inMemory)
  /\ ~dsCrashed => /\ QueriesGood(inMemory, dsQueries, dsPc, dsName)
                   /\ conMain # "connected" => NoneAsks(dsQueries, dsPc)

(* What datastore_connection_new hands out is used by nobody.              *)
LEMMA HandedGood ==
  ASSUME ConnsGood(pool, connected, dsConn), NEW h \in Handed
  PROVE  /\ h.c \in DsConns /\ h.c \notin ConnsOf(dsConn)
         /\ PoolGood(h.p, ConnsOf(dsConn) \cup {h.c})
         /\ Unused(h.p) = Unused(pool) \ {h.c}
  <1> DEFINE H == ConnsOf(dsConn)
  <1>1. PoolGood(pool, H) /\ pool \in Pools /\ H \cap Unused(pool) = {} /\ H \subseteq connected
    BY DEF ConnsGood, PoolGood, Linked
  <1> HIDE DEF H
  <1>2. CASE pool.unused # NoConn
    <2>1. h = [c |-> pool.unused, p |-> Reuse(pool)]
      BY <1>2 DEF Handed
    <2>2. h.c = pool.unused /\ h.p = Reuse(pool)
      BY <2>1
    <2>3. /\ h.c \in Unused(pool) /\ Unused(h.p) = Unused(pool) \ {h.c}
          /\ PoolGood(h.p, H \cup {h.c})
      BY <1>1, <1>2, <2>2, ReuseGood
    <2> QED  BY <1>1, <2>3, UnusedClosed DEF H
  <1>3. CASE pool.unused = NoConn
    <2>1. PICK x \in Fresh : h = [c |-> x, p |-> PutOnCons(pool, x)]
      BY <1>3 DEF Handed
    <2>2. h.c = x /\ h.p = PutOnCons(pool, x)
      BY <2>1
    <2>3. x \in DsConns /\ x \notin H /\ x \notin Unused(pool)
      BY <1>1 DEF Fresh
    <2>4. Unused(h.p) = Unused(pool) /\ PoolGood(h.p, H \cup {x})
      BY <1>1, <2>2, <2>3, PutGood
    <2> QED  BY <2>2, <2>3, <2>4 DEF H
  <1> QED  BY <1>2, <1>3

LEMMA BorrowedGood ==
  ASSUME ConnsGood(pool, connected, dsConn), Borrowed
  PROVE  ConnsGood(pool', connected', dsConn)
  <1> DEFINE H == ConnsOf(dsConn)
  <1>1. PICK h \in Handed : pool' = GiveBack(h.p, h.c) /\ connected' = connected \cup {h.c}
    BY DEF Borrowed
  <1>2. /\ h.c \in DsConns /\ h.c \notin H /\ PoolGood(h.p, H \cup {h.c})
        /\ Unused(h.p) = Unused(pool) \ {h.c}
    BY HandedGood
  <1>3. Unused(pool) \cup H \subseteq connected
    BY DEF ConnsGood
  <1> HIDE DEF H
  <1>4. /\ Unused(pool') = Unused(h.p) \cup {h.c}
        /\ PoolGood(pool', (H \cup {h.c}) \ {h.c})
    BY <1>1, <1>2, GiveBackGood
  <1>5. (H \cup {h.c}) \ {h.c} = H
    BY <1>2
  <1> USE DEF H
  <1> QED  BY <1>1, <1>2, <1>3, <1>4, <1>5 DEF ConnsGood

LEMMA CreatePartGood ==
  ASSUME NEW f, FileGood(f, cutShort), cutShort \in SUBSET DataNames,
         NEW u \in DsUsers, NEW n \in DataNames, CreatePart(u, n, f)
  PROVE  /\ FileGood(file', cutShort') /\ cutShort' \in SUBSET DataNames
         /\ cutShort \subseteq cutShort'
         /\ \A m \in DataNames \ cutShort' : m \in file'.tables <=> m \in f.tables
  <1>1. PICK i \in 0 .. Statements - 1 :
           /\ n \in f.tables => i = 0
           /\ file' = IF Isolated(u) THEN f ELSE Creation(f, n, i)
           /\ cutShort' = IF Isolated(u) \/ i = 0 THEN cutShort ELSE cutShort \cup {n}
    BY DEF CreatePart
  <1>2. CASE Isolated(u)
    BY <1>1, <1>2
  <1>3. CASE ~Isolated(u) /\ n \in f.tables
    <2>1. f \in Files /\ i = 0 /\ cutShort' = cutShort /\ file' = Creation(f, n, 0)
      BY <1>1, <1>3 DEF FileGood
    <2>2. /\ f = [system |-> f.system, tables |-> f.tables, listed |-> f.listed, schema |-> f.schema]
          /\ f.system \in BOOLEAN /\ f.tables \in SUBSET DataNames
          /\ f.listed \in SUBSET [id : Nat, name : DataNames]
          /\ f.schema \in SUBSET [id : Nat, field : Nat]
      BY <2>1 DEF Files
    <2> DEFINE id == 1 + Cardinality(f.listed)
               new == [id |-> id, name |-> n]
               rows == {[id |-> id, field |-> j] : j \in 1 .. i - 2}
    <2>3. file' = [system |-> f.system,
                   tables |-> f.tables \cup IF i >= 1 THEN {n} ELSE {},
                   listed |-> f.listed \cup IF i >= 2 THEN {new} ELSE {},
                   schema |-> f.schema \cup rows]
      <3>1. file' = Creation(f, n, i)
        BY <2>1
      <3> QED  BY <2>2, <3>1 DEF Creation
    <2>4. rows = {} /\ ~(i >= 1) /\ ~(i >= 2)
      BY <2>1
    <2> HIDE DEF rows
    <2>5. file' = f
      BY <2>2, <2>3, <2>4
    <2> QED  BY <2>1, <2>5
  <1>4. CASE ~Isolated(u) /\ n \notin f.tables
    <2>1. i \in 0 .. Statements /\ Statements \in Nat
      BY <1>1, DatastoreAssumption DEF Statements
    <2>2. file' = Creation(f, n, i)
      BY <1>1, <1>4
    <2>3. /\ i = 0 => file' = f
          /\ i > 0 => FileGood(file', cutShort \cup {n})
          /\ \A m \in DataNames \ {n} : SameFor(f, file', m)
      BY <1>4, <2>1, <2>2, CreationGood
    <2>4. CASE i = 0
      BY <1>1, <1>4, <2>3, <2>4
    <2>5. CASE i > 0
      <3>1. cutShort' = cutShort \cup {n}
        BY <1>1, <1>4, <2>1, <2>5
      <3> QED  BY <2>3, <2>5, <3>1 DEF SameFor
    <2> QED  BY <2>1, <2>4, <2>5
  <1> QED  BY <1>2, <1>3, <1>4

LEMMA CreateAllGood ==
  ASSUME NEW f, FileGood(f, cutShort), NEW u \in DsUsers, NEW n \in DataNames, CreateAll(u, n, f)
  PROVE  /\ FileGood(file', cutShort) /\ n \in file'.tables /\ n \notin f.tables
         /\ \A m \in DataNames \ {n} : m \in file'.tables <=> m \in f.tables
  <1>1. /\ Statements \in 0 .. Statements /\ Statements > 0
        /\ n \notin f.tables /\ file' = Creation(f, n, Statements)
    BY DatastoreAssumption DEF Statements, CreateAll
  <1>2. FileGood(file', cutShort) /\ n \in file'.tables /\ \A m \in DataNames \ {n} : SameFor(f, file', m)
    BY <1>1, CreationGood
  <1> QED  BY <1>1, <1>2 DEF SameFor

-----------------------------------------------------------------------------
(* datastore_dataset_open, with the datasets k that are in memory then.    *)
OpenOf(u, n, k, f) == OpenKnown(u, n, k, f) \/ OpenNew(u, n, k, f) \/ OpenFailed(u, n, k, f)

LEMMA OpensGood ==
  ASSUME DatastoreTypes, ConnsGood(pool, connected, dsConn), ~dsCrashed,
         NEW u \in DsUsers, NEW n \in DataNames, NEW k, NEW f, FileGood(f, cutShort),
         k \in Datasets, KnownMatches(f, cutShort, k), QueriesGood(k, dsQueries, dsPc, dsName),
         dsPc[u] = "open", n \notin dsQueries[u], OpenOf(u, n, k, f), conMain' = "connected",
         UNCHANGED <<dsConn, dsQueries, dsCrashed>>
  PROVE  DatastoreInvariant'
  <1>1. /\ \A m \in DataNames : k[m].refs = Cardinality(AskersOf(dsQueries, m))
        /\ \A v \in DsUsers : \A m \in dsQueries[v] : k[m].there
        /\ \A v \in DsUsers : dsPc[v] = "query" => k[dsName[v]].there /\ dsName[v] \notin dsQueries[v]
    BY DEF QueriesGood
  <1>2. /\ cutShort \in SUBSET DataNames /\ dsPc \in [DsUsers -> DsPlaces]
        /\ dsConn \in [DsUsers -> ConnOrNone] /\ dsName \in [DsUsers -> DataNames \cup {"none"}]
        /\ \A v \in DsUsers : dsPc[v] \in {"query", "freed query"} => dsName[v] \in DataNames
        /\ dsQueries \in [DsUsers -> SUBSET DataNames] /\ dsCrashed \in BOOLEAN
    BY DEF DatastoreTypes
  <1>3. ConnsGood(pool', connected', dsConn')
    <2>1. UNCHANGED <<pool, connected>> \/ Borrowed
      BY DEF OpenOf, OpenKnown, OpenNew, OpenFailed, InFile
    <2>2. dsConn' = dsConn
      OBVIOUS
    <2> QED  BY <2>1, <2>2, BorrowedGood
  <1>4. CASE OpenKnown(u, n, k, f)
    <2>1. /\ inMemory' = k /\ dsName' = [dsName EXCEPT ![u] = n] /\ dsPc' = [dsPc EXCEPT ![u] = "query"]
          /\ file' = f /\ cutShort' = cutShort /\ k[n].there
      BY <1>4 DEF OpenKnown, Opened, InFile, DsGoto
    <2>2. DatastoreTypes'
      BY <1>2, <2>1 DEF DatastoreTypes, DsStates, DsPlaces
    <2>3. QueriesGood(inMemory', dsQueries', dsPc', dsName')
      BY <1>1, <1>2, <2>1 DEF QueriesGood
    <2> QED  BY <1>3, <2>1, <2>2, <2>3 DEF DatastoreInvariant
  <1>5. CASE OpenNew(u, n, k, f)
    <2>1. /\ inMemory' = [k EXCEPT ![n] = [fields |-> 1 .. Fields, refs |-> 0, there |-> TRUE]]
          /\ dsName' = [dsName EXCEPT ![u] = n] /\ dsPc' = [dsPc EXCEPT ![u] = "query"]
          /\ CreateAll(u, n, f) /\ cutShort' = cutShort /\ ~k[n].there
      BY <1>5 DEF OpenNew, Opened, CreateAll, DsGoto
    <2>2. /\ FileGood(file', cutShort) /\ n \in file'.tables
          /\ \A m \in DataNames \ {n} : m \in file'.tables <=> m \in f.tables
      BY <2>1, CreateAllGood
    <2>3. /\ inMemory' \in Datasets /\ inMemory'[n] = [fields |-> 1 .. Fields, refs |-> 0, there |-> TRUE]
          /\ \A m \in DataNames : m # n => inMemory'[m] = k[m]
      <3>1. 1 .. Fields \in SUBSET Nat
        BY DatastoreAssumption
      <3> QED  BY <2>1, <3>1 DEF Datasets
    <2>4. inMemory'[n].there /\ inMemory'[n].refs = 0 /\ inMemory'[n].fields = 1 .. Fields
      BY <2>3
    <2>5. DatastoreTypes'
      BY <1>2, <2>1, <2>3 DEF DatastoreTypes, DsStates, DsPlaces
    <2>6. AskersOf(dsQueries, n) = {}
      BY <1>1, <2>1 DEF AskersOf
    <2>7. Cardinality(AskersOf(dsQueries, n)) = 0
      BY <2>6, FS_EmptySet
    <2>8. QueriesGood(inMemory', dsQueries', dsPc', dsName')
      <3>1. \A m \in DataNames : inMemory'[m].refs = Cardinality(AskersOf(dsQueries, m))
        BY <1>1, <2>3, <2>4, <2>7
      <3>2. \A v \in DsUsers : \A m \in dsQueries[v] : inMemory'[m].there
        BY <1>1, <1>2, <2>3, <2>4
      <3>3. ASSUME NEW v \in DsUsers, dsPc'[v] = "query"
            PROVE  inMemory'[dsName'[v]].there /\ dsName'[v] \notin dsQueries[v]
        <4>1. CASE v = u
          BY <1>2, <2>1, <2>4, <4>1
        <4>2. CASE v # u
          <5>1. dsPc[v] = "query" /\ dsName'[v] = dsName[v] /\ dsName[v] \in DataNames
            BY <1>2, <2>1, <3>3, <4>2
          <5> QED  BY <1>1, <2>3, <2>4, <5>1
        <4> QED  BY <4>1, <4>2
      <3> QED  BY <3>1, <3>2, <3>3 DEF QueriesGood
    <2>9. KnownMatches(file', cutShort', inMemory')
      BY <2>1, <2>2, <2>3, <2>4 DEF KnownMatches
    <2> QED  BY <1>3, <2>1, <2>2, <2>5, <2>8, <2>9 DEF DatastoreInvariant
  <1>6. CASE OpenFailed(u, n, k, f)
    <2>1. /\ inMemory' = k /\ dsName' = dsName /\ dsPc' = [dsPc EXCEPT ![u] = "leave"]
          /\ CreatePart(u, n, f)
      BY <1>6 DEF OpenFailed, Refused, DsGoto
    <2>2. /\ FileGood(file', cutShort') /\ cutShort' \in SUBSET DataNames
          /\ cutShort \subseteq cutShort'
          /\ \A m \in DataNames \ cutShort' : m \in file'.tables <=> m \in f.tables
      BY <1>2, <2>1, CreatePartGood
    <2>3. DatastoreTypes'
      BY <1>2, <2>1, <2>2 DEF DatastoreTypes, DsStates, DsPlaces
    <2>4. KnownMatches(file', cutShort', inMemory')
      BY <2>1, <2>2 DEF KnownMatches
    <2>5. QueriesGood(inMemory', dsQueries', dsPc', dsName')
      BY <1>1, <1>2, <2>1 DEF QueriesGood
    <2> QED  BY <1>3, <2>2, <2>3, <2>4, <2>5 DEF DatastoreInvariant
  <1> QED  BY <1>4, <1>5, <1>6 DEF OpenOf

-----------------------------------------------------------------------------
LEMMA InvariantParts ==
  ASSUME DatastoreInvariant
  PROVE  /\ conMain \in DsStates /\ inMemory \in Datasets /\ cutShort \in SUBSET DataNames
         /\ dsPc \in [DsUsers -> DsPlaces] /\ dsConn \in [DsUsers -> ConnOrNone]
         /\ dsName \in [DsUsers -> DataNames \cup {"none"}]
         /\ \A u \in DsUsers : dsPc[u] \in {"query", "freed query"} => dsName[u] \in DataNames
         /\ dsQueries \in [DsUsers -> SUBSET DataNames] /\ dsCrashed \in BOOLEAN
         /\ ConnsGood(pool, connected, dsConn) /\ FileGood(file, cutShort)
         /\ conMain = "connected" => KnownMatches(file, cutShort, inMemory)
         /\ ~dsCrashed => QueriesGood(inMemory, dsQueries, dsPc, dsName)
         /\ ~dsCrashed /\ conMain # "connected" => NoneAsks(dsQueries, dsPc)
  BY DEF DatastoreInvariant, DatastoreTypes

(* The steps that only move a thread.                                      *)
LEMMA MoveGood ==
  ASSUME DatastoreInvariant, NEW u \in DsUsers, NEW l \in {"away", "open", "leave", "write"},
         dsPc' = [dsPc EXCEPT ![u] = l], NEW cs, cs = dsConn', cs \in [DsUsers -> ConnOrNone],
         ConnsGood(pool', connected', cs),
         UNCHANGED <<file, conMain, inMemory, dsName, dsQueries, cutShort, dsCrashed>>
  PROVE  DatastoreInvariant'
  <1>1. DatastoreTypes'
    BY InvariantParts DEF DatastoreTypes, DsPlaces
  <1>2. \A v \in DsUsers : dsPc'[v] = "query" => dsPc[v] = "query"
    BY InvariantParts
  <1>3. /\ QueriesGood(inMemory, dsQueries, dsPc, dsName) => QueriesGood(inMemory, dsQueries, dsPc', dsName)
        /\ NoneAsks(dsQueries, dsPc) => NoneAsks(dsQueries, dsPc')
    BY <1>2 DEF QueriesGood, NoneAsks
  <1> QED  BY <1>1, <1>3, InvariantParts DEF DatastoreInvariant

LEMMA BeginOwnGood ==
  ASSUME DatastoreInvariant, NEW u \in DsUsers, BeginOwn(u)
  PROVE  DatastoreInvariant'
  <1>1. PICK h \in Handed : /\ dsConn' = [dsConn EXCEPT ![u] = h.c]
                            /\ pool' = h.p /\ connected' = connected \cup {h.c}
    BY DEF BeginOwn
  <1>2. dsPc' = [dsPc EXCEPT ![u] = "open"] /\ dsConn[u] = NoConn /\ NoConn \notin DsConns
    BY DatastoreAssumption DEF BeginOwn, DsGoto
  <1>3. /\ h.c \in DsConns /\ h.c \notin ConnsOf(dsConn)
        /\ PoolGood(h.p, ConnsOf(dsConn) \cup {h.c})
        /\ Unused(h.p) = Unused(pool) \ {h.c}
    BY InvariantParts, HandedGood
  <1>4. PICK cs : cs = dsConn'
    OBVIOUS
  <1>5. cs \in [DsUsers -> ConnOrNone] /\ cs[u] = h.c /\ \A v \in DsUsers : v # u => cs[v] = dsConn[v]
    BY <1>1, <1>3, <1>4, InvariantParts DEF ConnOrNone
  <1>6. ConnsOf(cs) = ConnsOf(dsConn) \cup {h.c}
    BY <1>2, <1>3, <1>5 DEF ConnsOf
  <1>7. ConnsGood(pool', connected', cs)
    <2>1. \A v, w \in DsUsers : v # w /\ cs[v] # NoConn => cs[v] # cs[w]
      BY <1>3, <1>5, InvariantParts DEF ConnsGood, ConnsOf
    <2>2. Unused(pool') \cup ConnsOf(cs) \subseteq connected'
      BY <1>1, <1>3, <1>6, InvariantParts DEF ConnsGood
    <2> QED  BY <1>1, <1>3, <1>6, <2>1, <2>2 DEF ConnsGood
  <1> QED  BY <1>2, <1>4, <1>5, <1>7, MoveGood DEF BeginOwn

LEMMA ReleaseGood ==
  ASSUME DatastoreInvariant, NEW u \in DsUsers, Release(u)
  PROVE  DatastoreInvariant'
  <1>1. /\ pool' = IF dsConn[u] = NoConn THEN pool ELSE GiveBack(pool, dsConn[u])
        /\ dsConn' = [dsConn EXCEPT ![u] = NoConn] /\ dsPc' = [dsPc EXCEPT ![u] = "away"]
        /\ connected' = connected
    BY DEF Release, DsGoto
  <1>2. PICK cs : cs = dsConn'
    OBVIOUS
  <1>3. cs \in [DsUsers -> ConnOrNone] /\ cs[u] = NoConn /\ \A v \in DsUsers : v # u => cs[v] = dsConn[v]
    BY <1>1, <1>2, InvariantParts DEF ConnOrNone
  <1>4. \A v, w \in DsUsers : v # w /\ dsConn[v] # NoConn => dsConn[v] # dsConn[w]
    BY InvariantParts DEF ConnsGood
  <1>5. \A v, w \in DsUsers : v # w /\ cs[v] # NoConn => cs[v] # cs[w]
    BY <1>3, <1>4
  <1>6. ConnsGood(pool', connected', cs)
    <2>1. CASE dsConn[u] = NoConn
      <3>1. ConnsOf(cs) = ConnsOf(dsConn)
        BY <1>3, <2>1 DEF ConnsOf
      <3> QED  BY <1>1, <1>5, <2>1, <3>1, InvariantParts DEF ConnsGood
    <2>2. CASE dsConn[u] # NoConn
      <3>1. dsConn[u] \in ConnsOf(dsConn) /\ ConnsOf(cs) = ConnsOf(dsConn) \ {dsConn[u]}
        BY <1>3, <1>4, <2>2 DEF ConnsOf
      <3>2. PoolGood(pool, ConnsOf(dsConn)) /\ pool' = GiveBack(pool, dsConn[u])
        BY <1>1, <2>2, InvariantParts DEF ConnsGood
      <3>3. /\ Unused(pool') = Unused(pool) \cup {dsConn[u]}
            /\ PoolGood(pool', ConnsOf(dsConn) \ {dsConn[u]})
        BY <3>1, <3>2, GiveBackGood
      <3> QED  BY <1>1, <1>5, <3>1, <3>3, InvariantParts DEF ConnsGood
    <2> QED  BY <2>1, <2>2
  <1> QED  BY <1>1, <1>2, <1>3, <1>6, MoveGood DEF Release

(* A dataset is opened with those in memory, or with those of the file.    *)
LEMMA OpenDatasetGood ==
  ASSUME DatastoreInvariant, NEW u \in DsUsers, NEW n \in DataNames, OpenDataset(u, n)
  PROVE  DatastoreInvariant'
  <1>1. /\ ~dsCrashed /\ dsPc[u] = "open" /\ n \notin dsQueries[u] /\ conMain' = "connected"
        /\ OpenOf(u, n, inMemory, file) /\ UNCHANGED <<dsConn, dsQueries, dsCrashed>>
        /\ conMain = "connected"
    BY DEF OpenDataset, DsOn, OpenOf
  <1>2. DatastoreTypes /\ ConnsGood(pool, connected, dsConn) /\ FileGood(file, cutShort)
        /\ inMemory \in Datasets /\ KnownMatches(file, cutShort, inMemory)
        /\ QueriesGood(inMemory, dsQueries, dsPc, dsName)
    BY <1>1, InvariantParts DEF DatastoreInvariant
  <1> QED  BY <1>1, <1>2, OpensGood

Nothing == [n \in DataNames |-> NotKnownYet]

LEMMA NothingGood ==
  /\ Nothing \in Datasets
  /\ \A n \in DataNames : ~Nothing[n].there /\ Nothing[n].refs = 0
  BY DEF Nothing, NotKnownYet, Datasets

LEMMA ReadGood ==
  ASSUME NEW partial \in SUBSET DataNames, FileGood(file, partial), NEW k, k = Read(file)
  PROVE  /\ k \in Datasets /\ KnownMatches(file, partial, k)
         /\ \A n \in DataNames : k[n].refs = 0
  <1>1. file \in Files /\ IdsCounted(file) /\ \A n \in file.tables \ partial : Whole(file, n)
    BY DEF FileGood
  <1>2. ASSUME NEW n \in DataNames
        PROVE  /\ k[n] \in [fields : SUBSET Nat, refs : Int, there : BOOLEAN]
               /\ k[n].refs = 0 /\ (k[n].there <=> IdsOf(file, n) # {})
               /\ k[n].there => k[n].fields = FieldsOf(file, n)
    <2>1. FieldsOf(file, n) \in SUBSET Nat
      <3>1. \A s \in file.schema : s.field \in Nat
        BY <1>1 DEF Files
      <3> QED  BY <3>1 DEF FieldsOf
    <2>2. k[n] = IF IdsOf(file, n) = {} THEN [fields |-> {}, refs |-> 0, there |-> FALSE]
                 ELSE [fields |-> FieldsOf(file, n), refs |-> 0, there |-> TRUE]
      BY DEF Read, NotKnownYet
    <2>3. CASE IdsOf(file, n) = {}
      BY <2>2, <2>3
    <2>4. CASE IdsOf(file, n) # {}
      BY <2>1, <2>2, <2>4
    <2> QED  BY <2>3, <2>4
  <1>3. k \in Datasets
    <2>1. k = [n \in DataNames |-> k[n]]
      BY DEF Read
    <2> QED  BY <1>2, <2>1 DEF Datasets
  <1>4. ASSUME NEW n \in DataNames \ partial PROVE (k[n].there <=> n \in file.tables) /\ (k[n].there => k[n].fields = 1 .. Fields)
    <2>1. CASE n \in file.tables
      BY <1>1, <1>2, <2>1 DEF Whole
    <2>2. CASE n \notin file.tables
      <3>1. IdsOf(file, n) = {}
        BY <1>1, <2>2 DEF IdsOf, IdsCounted
      <3> QED  BY <1>2, <2>2, <3>1
    <2> QED  BY <2>1, <2>2
  <1> QED  BY <1>2, <1>3, <1>4 DEF KnownMatches

LEMMA NoneAsksGood ==
  ASSUME NEW k, \A n \in DataNames : k[n].refs = 0, NEW qs, NEW pc, NEW nm, NoneAsks(qs, pc)
  PROVE  QueriesGood(k, qs, pc, nm)
  <1>1. \A n \in DataNames : AskersOf(qs, n) = {}
    BY DEF NoneAsks, AskersOf
  <1>2. \A n \in DataNames : Cardinality(AskersOf(qs, n)) = 0
    BY <1>1, FS_EmptySet
  <1> QED  BY <1>2 DEF NoneAsks, QueriesGood

LEMMA OpenStoreGood ==
  ASSUME DatastoreInvariant, NEW u \in DsUsers, NEW n \in DataNames, OpenStoreAndDataset(u, n)
  PROVE  DatastoreInvariant'
  <1>1. ~dsCrashed /\ dsPc[u] = "open" /\ conMain = "null" /\ UNCHANGED <<dsConn, dsQueries, dsCrashed>>
    BY DEF OpenStoreAndDataset, DsOn
  <1>2. NoneAsks(dsQueries, dsPc) /\ cutShort \in SUBSET DataNames /\ FileGood(file, cutShort)
    BY <1>1, InvariantParts
  <1>3. PICK f \in {file, [file EXCEPT !.system = TRUE]},
             k \in {Read(file), [m \in DataNames |-> NotKnownYet]} :
          /\ OpenStore(k, f)
          /\ IF conMain' = "connected"
             THEN ~NoSchema /\ \/ OpenKnown(u, n, k, f)
                               \/ OpenNew(u, n, k, f)
                               \/ n \in f.tables /\ OpenFailed(u, n, k, f)
             ELSE Refused(u, k) /\ InFile(f)
    BY DEF OpenStoreAndDataset
  <1>4. CASE conMain' = "connected"
    <2>1. k = Read(file) /\ f = [file EXCEPT !.system = TRUE] /\ OpenOf(u, n, k, f)
      BY <1>3, <1>4 DEF OpenStore, OpenOf
    <2>2. k \in Datasets /\ KnownMatches(file, cutShort, k) /\ \A m \in DataNames : k[m].refs = 0
      BY <1>2, <2>1, ReadGood
    <2>3. /\ f \in Files /\ f.tables = file.tables /\ f.listed = file.listed /\ f.schema = file.schema
      BY <1>2, <2>1 DEF FileGood, Files
    <2>4. FileGood(f, cutShort) /\ KnownMatches(f, cutShort, k)
      BY <1>2, <2>2, <2>3 DEF FileGood, IdsCounted, Whole, IdsOf, FieldsOf, KnownMatches
    <2>5. QueriesGood(k, dsQueries, dsPc, dsName) /\ n \notin dsQueries[u]
      <3>1. QueriesGood(k, dsQueries, dsPc, dsName)
        BY <1>2, <2>2, NoneAsksGood
      <3> QED  BY <1>2, <3>1 DEF NoneAsks
    <2>6. DatastoreTypes /\ ConnsGood(pool, connected, dsConn)
      BY DEF DatastoreInvariant
    <2> QED  BY <1>1, <1>4, <2>1, <2>2, <2>4, <2>5, <2>6, OpensGood
  <1>5. CASE conMain' # "connected"
    <2>1. /\ conMain' \in DsStates /\ file' = file /\ inMemory' = Nothing
          /\ UNCHANGED <<dsName, cutShort, pool, connected, dsConn, dsQueries, dsCrashed>>
          /\ dsPc' = [dsPc EXCEPT ![u] = "leave"]
      BY <1>1, <1>3, <1>5 DEF OpenStore, DsStates, Refused, InFile, DsGoto, Nothing
    <2>2. DatastoreTypes'
      BY <2>1, NothingGood, InvariantParts DEF DatastoreTypes, DsPlaces
    <2>3. NoneAsks(dsQueries', dsPc')
      BY <1>2, <2>1, InvariantParts DEF NoneAsks
    <2>4. QueriesGood(inMemory', dsQueries', dsPc', dsName')
      BY <2>1, <2>3, NothingGood, NoneAsksGood
    <2> QED  BY <1>2, <1>5, <2>1, <2>2, <2>3, <2>4, InvariantParts DEF DatastoreInvariant
  <1> QED  BY <1>4, <1>5

LEMMA OpenBrokenGood ==
  ASSUME DatastoreInvariant, NEW u \in DsUsers, NEW n \in DataNames, OpenBroken(u, n)
  PROVE  DatastoreInvariant'
  <1>1. /\ dsCrashed' = TRUE
        /\ UNCHANGED <<file, conMain, pool, connected, inMemory, dsPc, dsConn, dsName, dsQueries, cutShort>>
    BY DEF OpenBroken
  <1>2. DatastoreTypes'
    BY <1>1, InvariantParts DEF DatastoreTypes
  <1> QED  BY <1>1, <1>2, InvariantParts DEF DatastoreInvariant

(* A query counts itself, and takes itself off the count.                  *)
LEMMA AllocQueryGood ==
  ASSUME DatastoreInvariant, NEW u \in DsUsers, AllocQuery(u)
  PROVE  DatastoreInvariant'
  <1> DEFINE d == dsName[u]
  <1>1. /\ ~dsCrashed /\ dsPc[u] \in {"query", "freed query"}
        /\ dsQueries' = [dsQueries EXCEPT ![u] = @ \cup {d}]
        /\ dsName' = [dsName EXCEPT ![u] = "none"] /\ dsPc' = [dsPc EXCEPT ![u] = "open"]
        /\ UNCHANGED <<file, conMain, pool, connected, dsConn, cutShort>>
    BY DEF AllocQuery, DsOn, DsGoto
  <1>2. d \in DataNames
    BY <1>1, InvariantParts
  <1>3. CASE dsPc[u] = "freed query"
    <2>1. inMemory' = inMemory /\ dsCrashed' = TRUE
      BY <1>3 DEF AllocQuery
    <2>2. DatastoreTypes'
      BY <1>1, <1>2, <2>1, InvariantParts DEF DatastoreTypes, DsPlaces
    <2> QED  BY <1>1, <2>1, <2>2, InvariantParts DEF DatastoreInvariant
  <1>4. CASE dsPc[u] = "query"
    <2>1. inMemory' = [inMemory EXCEPT ![d].refs = @ + 1] /\ dsCrashed' = dsCrashed
      BY <1>4 DEF AllocQuery
    <2>2. /\ inMemory' \in Datasets /\ inMemory'[d].refs = inMemory[d].refs + 1
          /\ \A m \in DataNames : m # d => inMemory'[m].refs = inMemory[m].refs
          /\ \A m \in DataNames : inMemory'[m].there = inMemory[m].there /\ inMemory'[m].fields = inMemory[m].fields
      <3>1. inMemory[d] \in [fields : SUBSET Nat, refs : Int, there : BOOLEAN] /\ DOMAIN inMemory = DataNames
        BY <1>2, InvariantParts DEF Datasets
      <3>2. /\ inMemory'[d] = [inMemory[d] EXCEPT !.refs = inMemory[d].refs + 1]
            /\ \A m \in DataNames : m # d => inMemory'[m] = inMemory[m]
            /\ inMemory' = [m \in DataNames |-> inMemory'[m]]
        BY <1>2, <2>1, InvariantParts DEF Datasets
      <3>3. /\ inMemory'[d] \in [fields : SUBSET Nat, refs : Int, there : BOOLEAN]
            /\ inMemory'[d].refs = inMemory[d].refs + 1
            /\ inMemory'[d].there = inMemory[d].there /\ inMemory'[d].fields = inMemory[d].fields
        BY <3>1, <3>2
      <3>4. inMemory' \in Datasets
        BY <3>2, <3>3, InvariantParts DEF Datasets
      <3> QED  BY <3>2, <3>3, <3>4
    <2>3. /\ \A m \in DataNames : inMemory[m].refs = Cardinality(AskersOf(dsQueries, m))
          /\ \A v \in DsUsers : \A m \in dsQueries[v] : inMemory[m].there
          /\ \A v \in DsUsers : dsPc[v] = "query" => inMemory[dsName[v]].there /\ dsName[v] \notin dsQueries[v]
      BY <1>1, InvariantParts DEF QueriesGood
    <2>4. conMain = "connected"
      BY <1>1, <1>4, InvariantParts DEF NoneAsks
    <2>5. DatastoreTypes'
      BY <1>1, <1>2, <2>1, <2>2, InvariantParts DEF DatastoreTypes, DsPlaces
    <2>6. PICK qs : qs = dsQueries'
      OBVIOUS
    <2>7. qs[u] = dsQueries[u] \cup {d} /\ \A v \in DsUsers : v # u => qs[v] = dsQueries[v]
      BY <1>1, <2>6, InvariantParts
    <2>8. \A m \in DataNames : inMemory'[m].refs = Cardinality(AskersOf(qs, m))
      <3> TAKE m \in DataNames
      <3>1. CASE m # d
        <4>1. AskersOf(qs, m) = AskersOf(dsQueries, m)
          BY <2>7, <3>1 DEF AskersOf
        <4> QED  BY <2>2, <2>3, <3>1, <4>1
      <3>2. CASE m = d
        <4>1. AskersOf(qs, d) = AskersOf(dsQueries, d) \cup {u} /\ u \notin AskersOf(dsQueries, d)
          BY <1>4, <2>3, <2>7 DEF AskersOf
        <4>2. IsFiniteSet(AskersOf(dsQueries, d))
          BY DatastoreAssumption, FS_Subset DEF AskersOf
        <4>3. Cardinality(AskersOf(qs, d)) = Cardinality(AskersOf(dsQueries, d)) + 1
          BY <4>1, <4>2, FS_AddElement
        <4> QED  BY <1>2, <2>2, <2>3, <3>2, <4>3
      <3> QED  BY <3>1, <3>2
    <2>9. \A v \in DsUsers : \A m \in qs[v] : inMemory'[m].there
      <3>1. \A v \in DsUsers : \A m \in qs[v] : m \in DataNames /\ inMemory[m].there
        BY <1>2, <1>4, <2>3, <2>7, InvariantParts
      <3> QED  BY <2>2, <3>1
    <2>10. ASSUME NEW v \in DsUsers, dsPc'[v] = "query"
           PROVE  inMemory'[dsName'[v]].there /\ dsName'[v] \notin qs[v]
      <3>1. v # u /\ dsPc[v] = "query" /\ dsName'[v] = dsName[v] /\ dsName[v] \in DataNames
        BY <1>1, <2>10, InvariantParts
      <3> QED  BY <2>2, <2>3, <2>7, <3>1
    <2>11. QueriesGood(inMemory', qs, dsPc', dsName')
      BY <2>8, <2>9, <2>10 DEF QueriesGood
    <2>12. conMain' = "connected" /\ KnownMatches(file', cutShort', inMemory')
      BY <1>1, <2>2, <2>4, InvariantParts DEF KnownMatches
    <2> QED  BY <1>1, <2>5, <2>6, <2>11, <2>12, InvariantParts DEF DatastoreInvariant
  <1> QED  BY <1>1, <1>3, <1>4

LEMMA CleanupQueryGood ==
  ASSUME DatastoreInvariant, NEW u \in DsUsers, NEW d \in DataNames, CleanupQuery(u, d)
  PROVE  DatastoreInvariant'
  <1>1. /\ ~dsCrashed /\ dsPc[u] \in {"open", "leave"} /\ d \in dsQueries[u]
        /\ inMemory' = [inMemory EXCEPT ![d].refs = @ - 1]
        /\ dsQueries' = [dsQueries EXCEPT ![u] = @ \ {d}] /\ dsPc' = [dsPc EXCEPT ![u] = "leave"]
        /\ UNCHANGED <<file, conMain, pool, connected, dsConn, dsName, cutShort, dsCrashed>>
    BY DEF CleanupQuery, DsOn, DsGoto
  <1>2. /\ inMemory' \in Datasets /\ inMemory'[d].refs = inMemory[d].refs - 1
        /\ \A m \in DataNames : m # d => inMemory'[m].refs = inMemory[m].refs
        /\ \A m \in DataNames : inMemory'[m].there = inMemory[m].there /\ inMemory'[m].fields = inMemory[m].fields
    <2>1. inMemory[d] \in [fields : SUBSET Nat, refs : Int, there : BOOLEAN] /\ DOMAIN inMemory = DataNames
      BY InvariantParts DEF Datasets
    <2>2. /\ inMemory'[d] = [inMemory[d] EXCEPT !.refs = inMemory[d].refs - 1]
          /\ \A m \in DataNames : m # d => inMemory'[m] = inMemory[m]
          /\ inMemory' = [m \in DataNames |-> inMemory'[m]]
      BY <1>1, InvariantParts DEF Datasets
    <2>3. /\ inMemory'[d] \in [fields : SUBSET Nat, refs : Int, there : BOOLEAN]
          /\ inMemory'[d].refs = inMemory[d].refs - 1
          /\ inMemory'[d].there = inMemory[d].there /\ inMemory'[d].fields = inMemory[d].fields
      BY <2>1, <2>2
    <2>4. inMemory' \in Datasets
      BY <2>2, <2>3, InvariantParts DEF Datasets
    <2> QED  BY <2>2, <2>3, <2>4
  <1>3. /\ \A m \in DataNames : inMemory[m].refs = Cardinality(AskersOf(dsQueries, m))
        /\ \A v \in DsUsers : \A m \in dsQueries[v] : inMemory[m].there
        /\ \A v \in DsUsers : dsPc[v] = "query" => inMemory[dsName[v]].there /\ dsName[v] \notin dsQueries[v]
    BY <1>1, InvariantParts DEF QueriesGood
  <1>4. conMain = "connected"
    BY <1>1, InvariantParts DEF NoneAsks
  <1>5. DatastoreTypes'
    BY <1>1, <1>2, InvariantParts DEF DatastoreTypes, DsPlaces
  <1>6. PICK qs : qs = dsQueries'
    OBVIOUS
  <1>7. qs[u] = dsQueries[u] \ {d} /\ \A v \in DsUsers : v # u => qs[v] = dsQueries[v]
    BY <1>1, <1>6, InvariantParts
  <1>8. \A m \in DataNames : inMemory'[m].refs = Cardinality(AskersOf(qs, m))
    <2> TAKE m \in DataNames
    <2>1. CASE m # d
      <3>1. AskersOf(qs, m) = AskersOf(dsQueries, m)
        BY <1>7, <2>1 DEF AskersOf
      <3> QED  BY <1>2, <1>3, <2>1, <3>1
    <2>2. CASE m = d
      <3>1. AskersOf(qs, d) = AskersOf(dsQueries, d) \ {u} /\ u \in AskersOf(dsQueries, d)
        BY <1>1, <1>7 DEF AskersOf
      <3>2. IsFiniteSet(AskersOf(dsQueries, d))
        BY DatastoreAssumption, FS_Subset DEF AskersOf
      <3>3. Cardinality(AskersOf(qs, d)) = Cardinality(AskersOf(dsQueries, d)) - 1
        BY <3>1, <3>2, FS_RemoveElement
      <3> QED  BY <1>2, <1>3, <2>2, <3>3
    <2> QED  BY <2>1, <2>2
  <1>9. \A v \in DsUsers : qs[v] \subseteq dsQueries[v] /\ qs[v] \subseteq DataNames
    BY <1>7, InvariantParts
  <1>10. \A v \in DsUsers : \A m \in qs[v] : inMemory'[m].there
    BY <1>2, <1>3, <1>9
  <1>11. ASSUME NEW v \in DsUsers, dsPc'[v] = "query"
         PROVE  inMemory'[dsName'[v]].there /\ dsName'[v] \notin qs[v]
    <2>1. dsPc[v] = "query" /\ dsName'[v] = dsName[v] /\ dsName[v] \in DataNames
      BY <1>1, <1>11, InvariantParts
    <2> QED  BY <1>2, <1>3, <1>9, <2>1
  <1>12. QueriesGood(inMemory', qs, dsPc', dsName')
    BY <1>8, <1>10, <1>11 DEF QueriesGood
  <1>13. conMain' = "connected" /\ KnownMatches(file', cutShort', inMemory')
    BY <1>1, <1>2, <1>4, InvariantParts DEF KnownMatches
  <1> QED  BY <1>1, <1>5, <1>6, <1>12, <1>13, InvariantParts DEF DatastoreInvariant

(* No query is counted, then there is none: the datasets can be freed.     *)
LEMMA ChangeParamGood ==
  ASSUME DatastoreInvariant, ChangeParam
  PROVE  DatastoreInvariant'
  <1>1. /\ ~dsCrashed /\ conMain' = "null" /\ NoQueries /\ inMemory' = Nothing
        /\ connected' = connected \ Unused(pool) /\ pool' = [pool EXCEPT !.unused = NoConn]
        /\ dsPc' = [u \in DsUsers |-> IF dsPc[u] = "query" THEN "freed query" ELSE dsPc[u]]
        /\ UNCHANGED <<file, dsConn, dsName, dsQueries, cutShort, dsCrashed>>
    BY DEF ChangeParam, Close, DsOn, Nothing
  <1>2. PICK pc : pc = dsPc'
    OBVIOUS
  <1>3. \A u \in DsUsers : pc[u] = IF dsPc[u] = "query" THEN "freed query" ELSE dsPc[u]
    BY <1>1, <1>2
  <1>4. \A u \in DsUsers : dsQueries[u] = {}
    <2> SUFFICES ASSUME NEW u \in DsUsers, NEW n \in dsQueries[u] PROVE FALSE
      OBVIOUS
    <2>1. n \in DataNames
      BY InvariantParts
    <2>2. Cardinality(AskersOf(dsQueries, n)) = 0
      BY <1>1, <2>1, InvariantParts DEF NoQueries, QueriesGood
    <2>3. IsFiniteSet(AskersOf(dsQueries, n))
      BY DatastoreAssumption, FS_Subset DEF AskersOf
    <2>4. AskersOf(dsQueries, n) = {}
      BY <2>2, <2>3, FS_EmptySet
    <2> QED  BY <2>4 DEF AskersOf
  <1>5. NoneAsks(dsQueries, pc)
    BY <1>3, <1>4 DEF NoneAsks
  <1>6. QueriesGood(inMemory', dsQueries', pc, dsName')
    BY <1>1, <1>5, NothingGood, NoneAsksGood
  <1>7. DatastoreTypes'
    <2>1. pc \in [DsUsers -> DsPlaces]
      BY <1>1, <1>2, InvariantParts DEF DsPlaces
    <2>2. \A u \in DsUsers : pc[u] \in {"query", "freed query"} => dsPc[u] \in {"query", "freed query"}
      BY <1>3
    <2> QED  BY <1>1, <1>2, <2>1, <2>2, NothingGood, InvariantParts DEF DatastoreTypes, DsStates
  <1>8. ConnsGood(pool', connected', dsConn')
    <2> DEFINE H == ConnsOf(dsConn)
    <2>1. /\ \A u, v \in DsUsers : u # v /\ dsConn[u] # NoConn => dsConn[u] # dsConn[v]
          /\ PoolGood(pool, H) /\ Unused(pool) \cup H \subseteq connected
      BY InvariantParts DEF ConnsGood
    <2> HIDE DEF H
    <2>2. PICK q : q = pool'
      OBVIOUS
    <2>3. /\ q \in Pools /\ q.unused = NoConn /\ q.cons = pool.cons /\ q.next = pool.next /\ q.prev = pool.prev
      BY <1>1, <2>1, <2>2 DEF PoolGood, Pools, ConnOrNone
    <2>4. Unused(q) = {}
      BY <2>3, NothingUnused
    <2>5. PoolGood(q, H)
      <3>1. NoLoop(q)
        BY <2>4 DEF NoLoop
      <3>2. Linked(q, H)
        BY <2>1, <2>3, <2>4 DEF PoolGood, Linked
      <3>3. NoRing(q, H)
        BY <2>1, <2>3 DEF PoolGood, NoRing
      <3> QED  BY <2>3, <3>1, <3>2, <3>3 DEF PoolGood
    <2>6. H \subseteq connected'
      BY <1>1, <2>1 DEF PoolGood, Linked
    <2> USE DEF H
    <2> QED  BY <1>1, <2>1, <2>2, <2>4, <2>5, <2>6 DEF ConnsGood
  <1> QED  BY <1>1, <1>2, <1>5, <1>6, <1>7, <1>8, InvariantParts DEF DatastoreInvariant

LEMMA EmptyConns ==
  ASSUME NEW cs, cs = [u \in DsUsers |-> NoConn]
  PROVE  ConnsGood(EmptyPool, {}, cs)
  <1>1. ConnsOf(cs) = {}
    BY DEF ConnsOf
  <1>2. EmptyPool \in Pools /\ EmptyPool.unused = NoConn /\ EmptyPool.cons = NoConn
    BY DEF EmptyPool, Pools, ConnOrNone
  <1>3. Unused(EmptyPool) = {}
    BY <1>2, NothingUnused
  <1>4. PoolGood(EmptyPool, {})
    BY <1>2, <1>3 DEF PoolGood, NoLoop, Linked, NoRing
  <1> QED  BY <1>1, <1>3, <1>4 DEF ConnsGood

LEMMA RestartGood ==
  ASSUME DatastoreInvariant, Restart
  PROVE  DatastoreInvariant'
  <1>1. /\ conMain' = "null" /\ pool' = EmptyPool /\ connected' = {} /\ inMemory' = Nothing
        /\ dsPc' = [u \in DsUsers |-> "away"] /\ dsConn' = [u \in DsUsers |-> NoConn]
        /\ dsName' = [u \in DsUsers |-> "none"] /\ dsQueries' = [u \in DsUsers |-> {}]
        /\ dsCrashed' = FALSE
    BY DEF Restart, Nothing
  <1>2. FileGood(file', cutShort') /\ cutShort' \in SUBSET DataNames
    <2>1. CASE UNCHANGED <<file, cutShort>>
      BY <2>1, InvariantParts
    <2>2. CASE \E u \in DsUsers, n \in DataNames : CreatePart(u, n, file)
      BY <2>2, CreatePartGood, InvariantParts
    <2> QED  BY <2>1, <2>2 DEF Restart
  <1>3. DatastoreTypes'
    BY <1>1, <1>2, NothingGood DEF DatastoreTypes, DsStates, DsPlaces, ConnOrNone
  <1>4. NoneAsks(dsQueries', dsPc')
    BY <1>1 DEF NoneAsks
  <1>5. QueriesGood(inMemory', dsQueries', dsPc', dsName')
    BY <1>1, <1>4, NothingGood, NoneAsksGood
  <1>6. ConnsGood(pool', connected', dsConn')
    BY <1>1, EmptyConns
  <1> QED  BY <1>1, <1>2, <1>3, <1>4, <1>5, <1>6 DEF DatastoreInvariant

LEMMA DsInitGood ==
  ASSUME DsInit
  PROVE  DatastoreInvariant
  <1>1. /\ conMain = "null" /\ pool = EmptyPool /\ connected = {} /\ inMemory = Nothing
        /\ dsPc = [u \in DsUsers |-> "away"] /\ dsConn = [u \in DsUsers |-> NoConn]
        /\ dsName = [u \in DsUsers |-> "none"] /\ dsQueries = [u \in DsUsers |-> {}]
        /\ dsCrashed = FALSE /\ file = EmptyFile /\ cutShort = {}
    BY DEF DsInit, Nothing
  <1>2. FileGood(file, cutShort)
    <2>1. /\ file \in Files /\ file.tables = {} /\ file.listed = {} /\ file.schema = {}
      BY <1>1 DEF EmptyFile, Files
    <2> QED  BY <2>1, FS_EmptySet DEF FileGood, IdsCounted
  <1>3. DatastoreTypes
    BY <1>1, NothingGood DEF DatastoreTypes, DsStates, DsPlaces, ConnOrNone
  <1>4. NoneAsks(dsQueries, dsPc)
    BY <1>1 DEF NoneAsks
  <1>5. QueriesGood(inMemory, dsQueries, dsPc, dsName)
    BY <1>1, <1>4, NothingGood, NoneAsksGood
  <1>6. ConnsGood(pool, connected, dsConn)
    BY <1>1, EmptyConns
  <1> QED  BY <1>1, <1>2, <1>3, <1>4, <1>5, <1>6 DEF DatastoreInvariant

LEMMA DsStepGood ==
  ASSUME DatastoreInvariant, [DsNext]_dsVars
  PROVE  DatastoreInvariant'
  <1>1. CASE UNCHANGED dsVars
    <2>1. UNCHANGED <<file, conMain, pool, connected, inMemory, dsPc, dsConn, dsName, dsQueries, cutShort, dsCrashed>>
      BY <1>1 DEF dsVars
    <2>2. DatastoreTypes'
      BY <2>1 DEF DatastoreInvariant, DatastoreTypes
    <2> QED  BY <2>1, <2>2, InvariantParts DEF DatastoreInvariant
  <1>2. ASSUME NEW u \in DsUsers, BeginMain(u) \/ BeginWrites(u) \/ EndWrites(u)
        PROVE  DatastoreInvariant'
    <2>1. /\ \E l \in {"open", "write", "leave"} : dsPc' = [dsPc EXCEPT ![u] = l]
          /\ UNCHANGED <<pool, connected, dsConn>>
          /\ UNCHANGED <<file, conMain, inMemory, dsName, dsQueries, cutShort, dsCrashed>>
      BY <1>2 DEF BeginMain, BeginWrites, EndWrites, DsGoto
    <2>2. PICK l \in {"away", "open", "leave", "write"} : dsPc' = [dsPc EXCEPT ![u] = l]
      BY <2>1
    <2>3. ConnsGood(pool', connected', dsConn) /\ dsConn \in [DsUsers -> ConnOrNone]
      BY <2>1, InvariantParts
    <2> QED  BY <2>1, <2>2, <2>3, MoveGood
  <1> QED  BY <1>1, <1>2, BeginOwnGood, ReleaseGood, OpenDatasetGood, OpenStoreGood, OpenBrokenGood,
              AllocQueryGood, CleanupQueryGood, ChangeParamGood, RestartGood DEF DsNext

(* Theorem: along every execution, the datasets in memory are those of the *)
(* file and count the queries that use them, and each connection has one   *)
(* place: with a thread, or on the list of those that wait.                *)
THEOREM DatastoreStays == DsSpec => []DatastoreInvariant
  <1>1. DsInit => DatastoreInvariant
    BY DsInitGood
  <1>2. DatastoreInvariant /\ [DsNext]_dsVars => DatastoreInvariant'
    BY DsStepGood
  <1> QED  BY <1>1, <1>2, PTL DEF DsSpec

(* Theorem: a dataset is in the file as a whole or not at all, and memory  *)
(* agrees with the file, whatever fails and wherever the process stops.    *)
THEOREM DatasetsStayWhole == DsSpec => []DatasetsWhole
  <1>1. DatastoreInvariant => DatasetsWhole
    <2> SUFFICES ASSUME DatastoreInvariant, NEW n \in DataNames \ cutShort
                 PROVE  /\ n \in file.tables <=> IdsOf(file, n) # {}
                        /\ n \in file.tables => Cardinality(IdsOf(file, n)) = 1 /\ FieldsOf(file, n) = 1 .. Fields
                        /\ conMain = "connected" /\ ~dsCrashed =>
                             (inMemory[n].there <=> n \in file.tables) /\ (inMemory[n].there => inMemory[n].fields = 1 .. Fields)
      BY DEF DatasetsWhole
    <2>1. FileGood(file, cutShort) /\ (conMain = "connected" => KnownMatches(file, cutShort, inMemory))
      BY InvariantParts
    <2>2. CASE n \in file.tables
      <3>1. PICK i \in Nat : IdsOf(file, n) = {i} /\ FieldsOf(file, n) = 1 .. Fields
        BY <2>1, <2>2 DEF FileGood, Whole
      <3>2. Cardinality({i}) = 1
        BY FS_Singleton
      <3> QED  BY <2>1, <2>2, <3>1, <3>2 DEF KnownMatches
    <2>3. CASE n \notin file.tables
      <3>1. IdsOf(file, n) = {}
        BY <2>1, <2>3 DEF FileGood, IdsOf, IdsCounted
      <3> QED  BY <2>1, <2>3, <3>1 DEF KnownMatches
    <2> QED  BY <2>2, <2>3
  <1> QED  BY <1>1, DatastoreStays, PTL

(* Theorem: no two threads use a connection, none waits while it is used,  *)
(* a close leaves those in use open, and what a query uses is there.       *)
THEOREM ConnectionsAreOwned == DsSpec => []ConnsHaveOneUser
  <1>1. DatastoreInvariant => ConnsHaveOneUser
    <2> SUFFICES ASSUME DatastoreInvariant, ~dsCrashed
                 PROVE  /\ \A u, v \in DsUsers : u # v /\ dsConn[u] # NoConn => dsConn[u] # dsConn[v]
                        /\ \A u \in DsUsers : dsConn[u] # NoConn => dsConn[u] \in connected \ Unused(pool)
                        /\ Unused(pool) \subseteq connected
                        /\ \A u \in DsUsers : \A n \in dsQueries[u] : inMemory[n].there /\ conMain = "connected"
      BY DEF ConnsHaveOneUser
    <2>1. ConnsGood(pool, connected, dsConn) /\ QueriesGood(inMemory, dsQueries, dsPc, dsName)
          /\ (conMain # "connected" => NoneAsks(dsQueries, dsPc))
      BY InvariantParts
    <2>2. \A u \in DsUsers : dsConn[u] # NoConn => dsConn[u] \in connected \ Unused(pool)
      BY <2>1 DEF ConnsGood, ConnsOf, PoolGood, Linked
    <2> QED  BY <2>1, <2>2 DEF ConnsGood, QueriesGood, NoneAsks
  <1> QED  BY <1>1, DatastoreStays, PTL
=============================================================================
