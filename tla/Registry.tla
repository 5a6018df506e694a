------------------------------ MODULE Registry ------------------------------
(***************************************************************************)
(* Configurations of the registry (registry.c): outputs that users add,    *)
(* remove, set up and run, a parameter of a class whose instances are      *)
(* fixed, and configurations that are saved in the system datastore, then  *)
(* loaded or deleted, by several XML-RPC threads at the same time.         *)
(*                                                                         *)
(* An operation under registry_lock is a step, unless it writes to the     *)
(* datastore with the lock held.  A datastore (sqlite) has one writer at a *)
(* time, from the first write of a transaction on; another one retries     *)
(* until it is gone.  Readers see what was committed.                      *)
(***************************************************************************)
EXTENDS Integers, Sequences, FiniteSets, SequencesExt

CONSTANTS
  RegUsers,      \* threads of the XML-RPC server
  NoUser,
  Outputs,
  Values,        \* of the parameters
  Default,       \* their default value
  Configs,
  NoConfig,
  MaxSaves

ASSUME RegistryAssumption ==
  /\ Default \in Values /\ NoUser \notin RegUsers /\ NoConfig \notin Configs
  /\ MaxSaves \in Nat

VARIABLES
  insts,         \* the instances of class output, in registry order
  outParam,      \* a parameter of each; Default for those that are not there
  outRunning,
  fixedParam,    \* a parameter of an instance the user cannot remove
  regHolder,     \* who holds registry_lock across steps
  dbWriter,      \* who writes to the datastore
  listed,        \* the id of each configuration in the list, 0 if it is not there
  rowsOf,        \* the committed rows that go with an id
  lastId,        \* ids are never used again
  uPc, uConf,    \* what each thread does, with which configuration
  uId,           \* the id it has found or written
  uRows,         \* the rows it has written
  expected       \* what the last load has to show, until the next change

dbVars == <<dbWriter, listed, rowsOf, lastId>>
uVars == <<uPc, uConf, uId, uRows>>
regVars == <<insts, outParam, outRunning, fixedParam, regHolder, dbVars, uVars, expected>>
registryVars == <<insts, outParam, outRunning, fixedParam>>

(* What a user sees of the registry.                                       *)
View == [outs |-> {<<o, outParam[o]>> : o \in Range(insts)}, fixed |-> fixedParam]
NoView == [outs |-> {}, fixed |-> NoConfig]
ResetView == [outs |-> {}, fixed |-> Default]

(* Rows, with what their writer saw (view), and whether they were deleted. *)
NoRows == [outs |-> <<>>, params |-> {}, fixed |-> {}, view |-> NoView, gone |-> FALSE]
DeletedRows == [NoRows EXCEPT !.gone = TRUE]

NoLoad == [done |-> FALSE, gone |-> FALSE, view |-> NoView]

RegistryInit ==
  /\ insts = <<>> /\ fixedParam = Default
  /\ outParam = [o \in Outputs |-> Default] /\ outRunning = [o \in Outputs |-> FALSE]
  /\ regHolder = NoUser /\ dbWriter = NoUser
  /\ listed = [c \in Configs |-> 0] /\ rowsOf = [i \in 1 .. MaxSaves |-> NoRows] /\ lastId = 0
  /\ uPc = [u \in RegUsers |-> "away"]
  /\ uConf = [u \in RegUsers |-> NoConfig]
  /\ uId = [u \in RegUsers |-> 0]
  /\ uRows = [u \in RegUsers |-> NoRows]
  /\ expected = NoLoad

-----------------------------------------------------------------------------
(* Changes by a user: xmlrpccmd_registry and output.                       *)
RegFree == regHolder = NoUser

Change ==
  /\ RegFree
  /\ expected' = NoLoad
  /\ UNCHANGED <<regHolder, dbVars, uVars>>

(* output_instance_add; one that fails leaves the registry as it was.      *)
AddInstance(o) ==
  /\ Change /\ o \notin Range(insts)
  /\ insts' = <<o>> \o insts
  /\ UNCHANGED <<outParam, outRunning, fixedParam>>

(* output_instance_remove closes it first.                                 *)
RemoveInstance(o) ==
  /\ Change /\ o \in Range(insts)
  /\ insts' = RemoveAt(insts, CHOOSE i \in DOMAIN insts : insts[i] = o)
  /\ outParam' = [outParam EXCEPT ![o] = Default]
  /\ outRunning' = [outRunning EXCEPT ![o] = FALSE]
  /\ UNCHANGED fixedParam

(* output_instance_start_stop_handler: the value is put back on failure.   *)
SetRunning(o, on) ==
  /\ Change /\ o \in Range(insts) /\ outRunning[o] # on
  /\ outRunning' = [outRunning EXCEPT ![o] = on]
  /\ UNCHANGED <<insts, outParam, fixedParam>>

(* output_param_locked_while_running.                                      *)
SetParam(o, v) ==
  /\ Change /\ o \in Range(insts) /\ ~outRunning[o]
  /\ outParam' = [outParam EXCEPT ![o] = v]
  /\ UNCHANGED <<insts, outRunning, fixedParam>>

SetFixed(v) ==
  /\ Change
  /\ fixedParam' = v
  /\ UNCHANGED <<insts, outParam, outRunning>>

-----------------------------------------------------------------------------
(* registry_config_reset: instances are removed from the head on, up to    *)
(* one that does not close; where they cannot be, parameters are reset.    *)
InstancesOnly == fixedParam
ResetFixed == Default

Reset(failed) ==
  /\ \A o \in failed : outRunning[o]
  /\ LET firsts == {i \in DOMAIN insts : insts[i] \in failed}
     IN /\ insts' = IF firsts = {} THEN <<>>
                    ELSE SubSeq(insts, CHOOSE i \in firsts : \A j \in firsts : i <= j, Len(insts))
        /\ fixedParam' \in {ResetFixed} \cup IF firsts = {} THEN {} ELSE {fixedParam}
  /\ outParam' = [o \in Outputs |-> IF o \in Range(insts') THEN outParam[o] ELSE Default]
  /\ outRunning' = [o \in Outputs |-> outRunning[o] /\ o \in Range(insts')]

ConfigReset(failed) == Change /\ Reset(failed)

-----------------------------------------------------------------------------
(* registry_config_save.  The transaction writes to the list first, so no  *)
(* other thread can write; then it takes registry_lock.                    *)
Becomes(u, l) == uPc' = [uPc EXCEPT ![u] = l]

Leaves(u) ==
  /\ Becomes(u, "away")
  /\ uConf' = [uConf EXCEPT ![u] = NoConfig]
  /\ uId' = [uId EXCEPT ![u] = 0]
  /\ uRows' = [uRows EXCEPT ![u] = NoRows]

SaveBegin(u, c) ==
  /\ uPc[u] = "away" /\ dbWriter = NoUser /\ lastId < MaxSaves
  /\ dbWriter' = u
  /\ lastId' = lastId + 1
  /\ uConf' = [uConf EXCEPT ![u] = c]
  /\ uId' = [uId EXCEPT ![u] = lastId + 1]
  /\ Becomes(u, "saving")
  /\ UNCHANGED <<registryVars, regHolder, listed, rowsOf, uRows, expected>>

(* An entry for each instance, and for each parameter that does not have   *)
(* its default value.                                                      *)
Rows ==
  [outs |-> insts,
   params |-> {<<o, outParam[o]>> : o \in {x \in Range(insts) : outParam[x] # Default}},
   fixed |-> {fixedParam} \ {Default}, view |-> View, gone |-> FALSE]

SaveRows(u) ==
  /\ uPc[u] = "saving" /\ RegFree
  /\ uRows' = [uRows EXCEPT ![u] = Rows]
  /\ Becomes(u, "saved")
  /\ UNCHANGED <<registryVars, regHolder, dbVars, uConf, uId, expected>>

(* Commit, which deletes the rows of the id the name had before, or roll   *)
(* back after any error.                                                   *)
SaveEnd(u) ==
  /\ \/ /\ uPc[u] = "saved"
        /\ listed' = [listed EXCEPT ![uConf[u]] = uId[u]]
        /\ rowsOf' = [i \in 1 .. MaxSaves |->
                        IF i = uId[u] THEN uRows[u]
                        ELSE IF i = listed[uConf[u]] THEN DeletedRows ELSE rowsOf[i]]
     \/ uPc[u] \in {"saving", "saved"} /\ UNCHANGED <<listed, rowsOf>>
  /\ dbWriter' = NoUser
  /\ Leaves(u)
  /\ UNCHANGED <<registryVars, regHolder, lastId, expected>>

-----------------------------------------------------------------------------
(* registry_config_load: the id is found before registry_lock is taken.    *)
LoadFind(u, c) ==
  /\ uPc[u] = "away" /\ listed[c] # 0
  /\ uConf' = [uConf EXCEPT ![u] = c]
  /\ uId' = [uId EXCEPT ![u] = listed[c]]
  /\ Becomes(u, "loading")
  /\ UNCHANGED <<registryVars, regHolder, dbVars, uRows, expected>>

(* The rows that go with that id: none, if they were deleted meanwhile.    *)
RowsFound(u) == rowsOf[uId[u]]

ParamOf(rows, o) == IF \E p \in rows.params : p[1] = o
                    THEN (CHOOSE p \in rows.params : p[1] = o)[2] ELSE Default

(* The instances q are added in that order, each at the head, but for      *)
(* those that cannot be added, which are skipped.                          *)
PutBack(q, skipped) ==
  {s \in SeqOf(Range(q) \ skipped, Len(q)) :
     /\ Range(s) = Range(q) \ skipped
     /\ \A i, j \in DOMAIN s : i < j => \E k, l \in DOMAIN q : k > l /\ q[k] = s[i] /\ q[l] = s[j]}

(* Once everything was reset, the instances, then the parameters; what     *)
(* registry_set_param returns is ignored.  Nothing is set running.         *)
Restore(u, skipped, unset, fixedSet) ==
  LET rows == RowsFound(u)
  IN /\ insts' \in PutBack(rows.outs, skipped)
     /\ outParam' = [o \in Outputs |->
                       IF o \in Range(insts') \ unset THEN ParamOf(rows, o) ELSE Default]
     /\ outRunning' = [o \in Outputs |-> FALSE]
     /\ fixedParam' = IF fixedSet /\ rows.fixed # {} THEN CHOOSE v \in rows.fixed : TRUE
                      ELSE ResetFixed

(* A view, less the instances that could not be added and with the default *)
(* value where a parameter could not be set.                               *)
Less(view, skipped, unset, fixedSet) ==
  [outs |-> {<<p[1], IF p[1] \in unset THEN Default ELSE p[2]>> :
               p \in {q \in view.outs : q[1] \notin skipped}},
   fixed |-> IF fixedSet THEN view.fixed ELSE Default]

ResetFails ==
  /\ expected' = NoLoad
  /\ \E failed \in SUBSET Range(insts) : failed # {} /\ Reset(failed)

(* When reading fails, what it has not come to is missing as well.         *)
LoadReads(u) ==
  LET rows == RowsFound(u)
  IN \E skipped \in SUBSET Range(rows.outs), fixedSet \in BOOLEAN :
     \E unset \in SUBSET {p[1] : p \in {q \in rows.params : q[1] \notin skipped}} :
       /\ rows.fixed = {} => fixedSet
       /\ Restore(u, skipped, unset, fixedSet)
       /\ expected' \in {NoLoad, [done |-> TRUE, gone |-> rows.gone,
                                  view |-> Less(rows.view, skipped, unset, fixedSet)]}

LoadApply(u) ==
  /\ uPc[u] = "loading" /\ RegFree
  /\ ResetFails \/ LoadReads(u)
  /\ Leaves(u)
  /\ UNCHANGED <<regHolder, dbVars>>

-----------------------------------------------------------------------------
(* registry_config_delete writes twice with registry_lock held: the rows   *)
(* of the id it has found, then the entry of that name.                    *)
DeleteFind(u, c) ==
  /\ uPc[u] = "away" /\ RegFree /\ listed[c] # 0
  /\ regHolder' = u
  /\ uConf' = [uConf EXCEPT ![u] = c]
  /\ uId' = [uId EXCEPT ![u] = listed[c]]
  /\ Becomes(u, "deleting")
  /\ UNCHANGED <<registryVars, dbVars, uRows, expected>>

DeleteRows(u) ==
  /\ uPc[u] = "deleting" /\ dbWriter = NoUser
  /\ \/ /\ rowsOf' = [rowsOf EXCEPT ![uId[u]] = DeletedRows]
        /\ Becomes(u, "delisting")
        /\ UNCHANGED <<regHolder, uConf, uId, uRows>>
     \/ regHolder' = NoUser /\ Leaves(u) /\ UNCHANGED rowsOf
  /\ UNCHANGED <<registryVars, dbWriter, listed, lastId, expected>>

(* What this deletion returns is ignored.                                  *)
DeleteEntry(u) ==
  /\ uPc[u] = "delisting" /\ dbWriter = NoUser
  /\ listed' \in {listed, [listed EXCEPT ![uConf[u]] = 0]}
  /\ regHolder' = NoUser
  /\ Leaves(u)
  /\ UNCHANGED <<registryVars, dbWriter, rowsOf, lastId, expected>>

RegistryNext ==
  \/ \E o \in Outputs :
       \/ AddInstance(o) \/ RemoveInstance(o)
       \/ \E on \in BOOLEAN : SetRunning(o, on)
       \/ \E v \in Values : SetParam(o, v)
  \/ \E v \in Values : SetFixed(v)
  \/ \E failed \in SUBSET Range(insts) : ConfigReset(failed)
  \/ \E u \in RegUsers :
       \/ \E c \in Configs : SaveBegin(u, c) \/ LoadFind(u, c) \/ DeleteFind(u, c)
       \/ SaveRows(u) \/ SaveEnd(u) \/ LoadApply(u) \/ DeleteRows(u) \/ DeleteEntry(u)

RegistrySpec == RegistryInit /\ [][RegistryNext]_regVars

-----------------------------------------------------------------------------
(* After a load that reports success the registry shows what was seen when *)
(* the id that the load found was saved, whatever was changed, saved and   *)
(* deleted since, but for the entries that could not be put back, which    *)
(* get a warning at most.  The exception: when the rows of that id are     *)
(* gone, because a save or a deletion of that name came between the        *)
(* look-up and registry_lock, or because a deletion left the entry in the  *)
(* list, the load resets everything and reports success all the same.      *)
LoadRestores ==
  expected.done => View = IF expected.gone THEN ResetView ELSE expected.view
=============================================================================
