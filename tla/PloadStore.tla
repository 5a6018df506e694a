----------------------------- MODULE PloadStore -----------------------------
(***************************************************************************)
(* One payload, the file it is stored in (pload.c), the monitoring         *)
(* sessions that list it and the HTTP requests that read it (httpd.c,      *)
(* xmlrpccmd_monitor.c).  A processing thread appends to the payload and   *)
(* ends it; requests read the file while it grows.                         *)
(*                                                                         *)
(* The unit of size is what one call to pload_append brings.  What is done *)
(* with the lock of the store held is one step.                            *)
(***************************************************************************)
EXTENDS Integers, FiniteSets

CONSTANTS
  Viewers,       \* monitoring sessions
  Readers,       \* HTTP requests
  MaxChunks      \* bound: calls to pload_append

ASSUME PloadStoreAssumption ==
  MaxChunks \in Nat /\ IsFiniteSet(Viewers) /\ IsFiniteSet(Readers)

VARIABLES
  ploadPhase,         \* of the payload: "new", "opening", "mapping", "open", "ended"
  written,       \* calls to pload_append so far
  opening,       \* how many of them came before it was opened
  ploadRef, ploadFreed,
  storeRef,
  store,         \* "none", "empty", "mapped", "complete" or "freed"
  fileSize,      \* ps->file_size
  fdOpen,        \* ps->fd is not -1
  listed,        \* viewers that list the payload in httpd_ploads
  told,          \* viewers that have it in sess->ploads
  rPc, pos,      \* of each reader
  readMaps,      \* readers in ps->read_maps
  woken,         \* readers that the condition was broadcast to
  crashed        \* a step has used a store that was freed

ploadVars == <<ploadPhase, written, opening, ploadRef, ploadFreed, storeRef, store,
               fileSize, fdOpen, listed, told, rPc, pos, readMaps, woken, crashed>>

PloadInit ==
  /\ ploadPhase = "new" /\ written = 0 /\ opening = 0
  /\ ploadRef = 1 /\ ploadFreed = FALSE
  /\ storeRef = 0 /\ store = "none" /\ fileSize = 0 /\ fdOpen = FALSE
  /\ listed = {} /\ told = {}
  /\ rPc = [r \in Readers |-> "away"]
  /\ pos = [r \in Readers |-> 0]
  /\ readMaps = {} /\ woken = {} /\ crashed = FALSE

-----------------------------------------------------------------------------
Goes(r, l) == rPc' = [rPc EXCEPT ![r] = l]
Broadcast == woken' = woken \cup {r \in Readers : rPc[r] = "waiting"}
Silence == UNCHANGED woken

(* pload_refcount_dec, n times.                                            *)
DropPload(n) ==
  /\ ploadRef' = ploadRef - n
  /\ ploadFreed' = (ploadRef = n)

(* pload_store_release: the last one drops the reference of the store on   *)
(* the payload.                                                            *)
StoreFreedBy(n) == storeRef = n
ReleaseStore(state, n) ==
  /\ storeRef' = storeRef - 1
  /\ store' = IF StoreFreedBy(1) THEN "freed" ELSE state
  /\ DropPload(IF StoreFreedBy(1) THEN n + 1 ELSE n)

(* pload_append before the payload is opened: kept in its buffer.          *)
Buffer ==
  /\ ploadPhase = "new" /\ written < MaxChunks
  /\ written' = written + 1
  /\ UNCHANGED <<ploadPhase, opening, ploadRef, ploadFreed, storeRef, store, fileSize,
                 fdOpen, listed, told, rPc, pos, readMaps, woken, crashed>>

(* The append that opens it.  xmlrpccmd_monitor_pload_open, for the viewers *)
(* that want it: httpd_pload_add, pload_store_get, pload_refcount_inc.     *)
OpenStored ==
  /\ ploadPhase = "new" /\ written < MaxChunks
  /\ written' = written + 1 /\ opening' = written + 1
  /\ \E vs \in SUBSET Viewers :
       /\ listed' = vs /\ told' = vs
       /\ storeRef' = Cardinality(vs)
       /\ store' = IF vs = {} THEN "none" ELSE "empty"
       /\ ploadRef' = 1 + Cardinality(vs) + (IF vs = {} THEN 0 ELSE 1)
  /\ ploadPhase' = "opening"
  /\ UNCHANGED <<ploadFreed, fileSize, fdOpen, rPc, pos, readMaps, woken, crashed>>

(* Is there a store still?  Then pload_store_open takes a reference and    *)
(* the buffered data is copied; file_size stays as it was.                 *)
SeeStore ==
  /\ ploadPhase = "opening"
  /\ ploadPhase' = IF store = "empty" THEN "mapping" ELSE "open"
  /\ UNCHANGED <<written, opening, ploadRef, ploadFreed, storeRef, store, fileSize,
                 fdOpen, listed, told, rPc, pos, readMaps, woken, crashed>>

Unreferenced == storeRef
Referenced == storeRef + 1

MapStore ==
  /\ ploadPhase = "mapping"
  /\ IF store = "freed"
     THEN /\ crashed' = TRUE
          /\ UNCHANGED <<storeRef, store, fdOpen>>
     ELSE /\ storeRef' = Referenced
          /\ store' = "mapped" /\ fdOpen' = TRUE
          /\ UNCHANGED crashed
  /\ ploadPhase' = "open"
  /\ UNCHANGED <<written, opening, ploadRef, ploadFreed, fileSize, listed, told, rPc,
                 pos, readMaps, woken>>

(* pload_append on an open payload: pload_store_append.                    *)
AppendStored ==
  /\ ploadPhase = "open" /\ written < MaxChunks
  /\ written' = written + 1
  /\ IF store = "mapped" THEN fileSize' = written + 1 /\ Broadcast
     ELSE UNCHANGED <<fileSize, woken>>
  /\ UNCHANGED <<ploadPhase, opening, ploadRef, ploadFreed, storeRef, store, fdOpen, listed,
                 told, rPc, pos, readMaps, crashed>>

(* pload_end and pload_store_end.                                          *)
EndSignal == Broadcast

EndPload ==
  /\ ploadPhase \in {"new", "open"}
  /\ ploadPhase' = "ended"
  /\ IF store = "mapped"
     THEN /\ ReleaseStore("complete", 1)
          /\ fdOpen' = (fdOpen /\ readMaps # {})
          /\ EndSignal
     ELSE /\ DropPload(1)
          /\ UNCHANGED <<storeRef, store, fdOpen, woken>>
  /\ UNCHANGED <<written, opening, fileSize, listed, told, rPc, pos, readMaps, crashed>>

-----------------------------------------------------------------------------
(* A session hands the payload over to its client, or is cleaned up.       *)
Tell(v) ==
  /\ v \in told
  /\ told' = told \ {v}
  /\ DropPload(1)
  /\ UNCHANGED <<ploadPhase, written, opening, storeRef, store, fileSize, fdOpen, listed, rPc,
                 pos, readMaps, woken, crashed>>

(* xmlrpccmd_monitor_pload_discard or the cleanup: httpd_pload_remove.     *)
Unlist(v) ==
  /\ v \in listed
  /\ listed' = listed \ {v}
  /\ ReleaseStore(store, 0)
  /\ UNCHANGED <<ploadPhase, written, opening, fileSize, fdOpen, told, rPc, pos, readMaps,
                 woken, crashed>>

-----------------------------------------------------------------------------
(* httpd_mhd_answer_connection: found in httpd_ploads, under its lock.     *)
TakeRef == storeRef' = storeRef + 1

Request(r) ==
  /\ rPc[r] = "away" /\ listed # {}
  /\ TakeRef
  /\ Goes(r, "asked")
  /\ UNCHANGED <<ploadPhase, written, opening, ploadRef, ploadFreed, store, fileSize, fdOpen,
                 listed, told, pos, readMaps, woken, crashed>>

(* pload_store_read_start: a store that is not opened has no file yet.     *)
ReadStart(r) ==
  /\ rPc[r] = "asked"
  /\ IF store = "empty"
     THEN Goes(r, "failed") /\ UNCHANGED <<fdOpen, readMaps>>
     ELSE /\ Goes(r, "reading")
          /\ fdOpen' = TRUE /\ readMaps' = readMaps \cup {r}
  /\ UNCHANGED <<ploadPhase, written, opening, ploadRef, ploadFreed, storeRef, store, fileSize,
                 listed, told, pos, woken, crashed>>

(* pload_store_read: what the file has, its end, or a wait for more.       *)
EofWhenEmpty == TRUE
Complete == store # "mapped"

ReadStored(r) ==
  /\ rPc[r] = "reading"
  /\ \/ /\ pos[r] < fileSize
        /\ \E n \in pos[r] + 1 .. fileSize : pos' = [pos EXCEPT ![r] = n]
        /\ UNCHANGED rPc
     \/ /\ pos[r] = fileSize /\ Complete
        /\ Goes(r, "eof") /\ UNCHANGED pos
     \/ /\ pos[r] = fileSize /\ ~Complete
        /\ Goes(r, "waiting") /\ UNCHANGED pos
  /\ UNCHANGED <<ploadPhase, written, opening, ploadRef, ploadFreed, storeRef, store, fileSize,
                 fdOpen, listed, told, readMaps, woken, crashed>>

Wake(r) ==
  /\ rPc[r] = "waiting" /\ r \in woken
  /\ woken' = woken \ {r}
  /\ Goes(r, "reading")
  /\ UNCHANGED <<ploadPhase, written, opening, ploadRef, ploadFreed, storeRef, store, fileSize,
                 fdOpen, listed, told, pos, readMaps, crashed>>

(* httpd_pload_response_callback_free, at the end or when the client has   *)
(* gone away: pload_store_read_end, then pload_store_release.              *)
ReadEnd(r) ==
  /\ rPc[r] \in {"reading", "eof", "failed"}
  /\ readMaps' = readMaps \ {r}
  /\ fdOpen' = (fdOpen /\ (readMaps' # {} \/ store = "mapped"))
  /\ Goes(r, "closed")
  /\ UNCHANGED <<ploadPhase, written, opening, ploadRef, ploadFreed, storeRef, store, fileSize,
                 listed, told, pos, woken, crashed>>

LetGo(r) ==
  /\ rPc[r] = "closed"
  /\ ReleaseStore(store, 0)
  /\ Goes(r, "gone")
  /\ UNCHANGED <<ploadPhase, written, opening, fileSize, fdOpen, listed, told, pos, readMaps,
                 woken, crashed>>

PloadThread == SeeStore \/ MapStore \/ EndPload
PloadNext ==
  /\ ~crashed
  /\ \/ Buffer \/ OpenStored \/ AppendStored \/ PloadThread
     \/ \E v \in Viewers : Tell(v) \/ Unlist(v)
     \/ \E r \in Readers :
          Request(r) \/ ReadStart(r) \/ ReadStored(r) \/ Wake(r) \/ ReadEnd(r) \/ LetGo(r)

PloadSpec == PloadInit /\ [][PloadNext]_ploadVars

(* The connection ends, so a payload that was opened does; a request goes  *)
(* on.                                                                     *)
PloadFairness ==
  /\ WF_ploadVars(PloadThread /\ ploadPhase # "new" /\ ~crashed)
  /\ \A r \in Readers : WF_ploadVars((ReadStored(r) \/ Wake(r)) /\ ~crashed)

-----------------------------------------------------------------------------
(* The store and the payload are there as long as somebody can use them:   *)
(* the sessions that list it, requests, the payload until it has ended.    *)
(* When all have let go, the file is removed and the payload is freed.  A  *)
(* request that gets to the end has read the whole payload, if anything    *)
(* was appended once the payload had been opened.                          *)
ReadsWhole ==
  /\ \A r \in Readers : rPc[r] = "eof" => pos[r] = written \/ written = opening
  /\ store = "freed" =>
       listed = {} /\ \A r \in Readers : rPc[r] \in {"away", "gone"}
  /\ ploadFreed =>
       ploadPhase = "ended" /\ told = {} /\ store \in {"none", "freed"}
  /\ ploadPhase = "ended" /\ told = {} /\ listed = {} /\ ~crashed
       /\ (\A r \in Readers : rPc[r] \in {"away", "gone"})
     => ploadFreed /\ store # "complete"

(* A request never waits for ever.                                         *)
ReadGoesOn == \A r \in Readers : rPc[r] = "waiting" ~> rPc[r] # "waiting"
=============================================================================
