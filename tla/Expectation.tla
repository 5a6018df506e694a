----------------------------- MODULE Expectation -----------------------------
(***************************************************************************)
(* Expected connections (proto.c).  A packet of one connection announces   *)
(* another: an expectation is queued on a protocol, for a limited time.    *)
(* Each packet of that protocol is compared with the queued expectations   *)
(* under the read lock, which marks the ones that match; then the list is  *)
(* gone through again under the write lock, and every marked expectation   *)
(* is bound to the connection of the packet at hand.                       *)
(*                                                                         *)
(* A connection stands for the conntrack entry that the expected protocol  *)
(* has, or will have, on it.  That entry is locked while an expectation is *)
(* bound to it, and while its own packets queue one (proto_tftp.c).        *)
(***************************************************************************)
EXTENDS Integers, FiniteSets

CONSTANTS
  XThreads, NoXThread,
  Conns, NoConn,
  Exps, NoExp,
  Matches,     \* pairs: a packet of the connection matches the expectation
  Asks         \* pairs: a packet of the connection queues the expectation

ASSUME ExpectationAssumption ==
  /\ NoXThread \notin XThreads /\ NoConn \notin Conns /\ NoExp \notin Exps
  /\ Matches \subseteq Conns \X Exps /\ Asks \subseteq Conns \X Exps

VARIABLES
  onList,      \* expectations of the protocol that are queued
  matched,     \* those with the MATCHED flag
  xLife,       \* "new", "live" or "freed"
  expiry,      \* the timer of each: "none", "idle", "queued" or "taken"
  writer,      \* who holds expectation_lock for writing
  entryLock,   \* who holds the conntrack entry of each connection
  xPc, xConn, xExp,   \* of each thread: where it is, and with what
  bound,       \* the connection each expectation was bound to
  broken       \* a step has used memory that was freed

xVars == <<onList, matched, xLife, expiry, writer, entryLock, xPc, xConn, xExp,
           bound, broken>>

ExpectationInit ==
  /\ onList = {} /\ matched = {}
  /\ xLife = [e \in Exps |-> "new"]
  /\ expiry = [e \in Exps |-> "none"]
  /\ writer = NoXThread
  /\ entryLock = [c \in Conns |-> NoXThread]
  /\ xPc = [t \in XThreads |-> "away"]
  /\ xConn = [t \in XThreads |-> NoConn]
  /\ xExp = [t \in XThreads |-> NoExp]
  /\ bound = [e \in Exps |-> NoConn]
  /\ broken = FALSE

-----------------------------------------------------------------------------
At(t, l) == xPc[t] = l /\ ~broken
Move(t, l) == xPc' = [xPc EXCEPT ![t] = l]

(* proto_process, the read lock: of the expectations the packet matches,   *)
(* those that no other thread has marked already are marked.               *)
MarkedByScan(c) == {e \in onList \ matched : <<c, e>> \in Matches}

Scan(t, c) ==
  /\ At(t, "away") /\ writer = NoXThread
  /\ MarkedByScan(c) # {}
  /\ matched' = matched \cup MarkedByScan(c)
  /\ xConn' = [xConn EXCEPT ![t] = c]
  /\ Move(t, "marked")
  /\ UNCHANGED <<onList, xLife, expiry, writer, entryLock, xExp, bound, broken>>

TakeWriteLock(t, from, to) ==
  /\ At(t, from) /\ writer = NoXThread
  /\ writer' = t
  /\ Move(t, to)
  /\ UNCHANGED <<onList, matched, xLife, expiry, entryLock, xConn, xExp, bound, broken>>

Relock(t) == TakeWriteLock(t, "marked", "handling")

(* proto_expectation_cleanup, by the thread that handles a match: only an  *)
(* expectation that has a timer is freed, and its timer with it.           *)
FreedWithTimer(e) == expiry[e] # "none"

Unlisted(e) == onList \ {e}

(* The write lock: one marked expectation is taken off the list and bound, *)
(* with the entry of the connection locked.                                *)
Handle(t, e) ==
  /\ At(t, "handling") /\ e \in matched
  /\ entryLock[xConn[t]] = NoXThread
  /\ onList' = Unlisted(e)
  /\ matched' = matched \ {e}
  /\ bound' = [bound EXCEPT ![e] = xConn[t]]
  /\ xLife' = [xLife EXCEPT ![e] = IF FreedWithTimer(e) THEN "freed" ELSE @]
  /\ expiry' = [expiry EXCEPT ![e] = IF @ = "queued" THEN "none" ELSE @]
  /\ UNCHANGED <<writer, entryLock, xPc, xConn, xExp, broken>>

StopAtFirst(t) == \E e \in Exps : bound[e] = xConn[t]
NoneMarked(t) == matched = {}

EndHandling(t) ==
  /\ At(t, "handling") /\ NoneMarked(t)
  /\ writer' = NoXThread
  /\ xConn' = [xConn EXCEPT ![t] = NoConn]
  /\ Move(t, "away")
  /\ UNCHANGED <<onList, matched, xLife, expiry, entryLock, xExp, bound, broken>>

-----------------------------------------------------------------------------
(* proto_tftp_process: the entry is locked, the expectation is queued, and *)
(* only then it is given a timer (proto_expectation_add_and_cleanup).      *)
Ask(t, c, e) ==
  /\ At(t, "away") /\ xLife[e] = "new" /\ entryLock[c] = NoXThread
  /\ xLife' = [xLife EXCEPT ![e] = "live"]
  /\ entryLock' = [entryLock EXCEPT ![c] = t]
  /\ xConn' = [xConn EXCEPT ![t] = c]
  /\ xExp' = [xExp EXCEPT ![t] = e]
  /\ Move(t, "adding")
  /\ UNCHANGED <<onList, matched, expiry, writer, bound, broken>>

Add(t) ==
  /\ At(t, "adding") /\ writer = NoXThread
  /\ onList' = onList \cup {xExp[t]}
  /\ Move(t, "added")
  /\ UNCHANGED <<matched, xLife, expiry, writer, entryLock, xConn, xExp, bound, broken>>

AllocExpiry(t) ==
  /\ At(t, "added")
  /\ expiry' = [expiry EXCEPT ![xExp[t]] = "idle"]
  /\ Move(t, "timed")
  /\ UNCHANGED <<onList, matched, xLife, writer, entryLock, xConn, xExp, bound, broken>>

(* The timer was freed if the expectation was matched in the meantime.     *)
StartExpiry(t) ==
  /\ At(t, "timed")
  /\ broken' = (xLife[xExp[t]] = "freed")
  /\ expiry' = [expiry EXCEPT ![xExp[t]] = "queued"]
  /\ entryLock' = [entryLock EXCEPT ![xConn[t]] = NoXThread]
  /\ xConn' = [xConn EXCEPT ![t] = NoConn]
  /\ xExp' = [xExp EXCEPT ![t] = NoExp]
  /\ Move(t, "away")
  /\ UNCHANGED <<onList, matched, xLife, writer, bound>>

-----------------------------------------------------------------------------
(* proto_expectation_timeout, by a thread that runs the timers.            *)
Expire(t, e) ==
  /\ At(t, "away") /\ expiry[e] = "queued"
  /\ expiry' = [expiry EXCEPT ![e] = "taken"]
  /\ xExp' = [xExp EXCEPT ![t] = e]
  /\ Move(t, "expiring")
  /\ UNCHANGED <<onList, matched, xLife, writer, entryLock, xConn, bound, broken>>

ExpireLock(t) ==
  /\ TakeWriteLock(t, "expiring", "removing")
  /\ xLife[xExp[t]] # "freed"

UseFreed(t) ==
  /\ At(t, "expiring") /\ xLife[xExp[t]] = "freed"
  /\ broken' = TRUE
  /\ UNCHANGED <<onList, matched, xLife, expiry, writer, entryLock, xPc, xConn, xExp,
                 bound>>

(* proto_expectation_remove takes it off the list if it is there still.    *)
RemoveExpired(t) ==
  /\ At(t, "removing")
  /\ onList' = Unlisted(xExp[t])
  /\ matched' = matched \ {xExp[t]}
  /\ writer' = NoXThread
  /\ xLife' = [xLife EXCEPT ![xExp[t]] = "freed"]
  /\ expiry' = [expiry EXCEPT ![xExp[t]] = "none"]
  /\ xExp' = [xExp EXCEPT ![t] = NoExp]
  /\ Move(t, "away")
  /\ UNCHANGED <<entryLock, xConn, bound, broken>>

ExpectationStep(t) ==
  \/ Relock(t) \/ EndHandling(t) \/ Add(t) \/ AllocExpiry(t) \/ StartExpiry(t)
  \/ ExpireLock(t) \/ UseFreed(t) \/ RemoveExpired(t)
  \/ \E e \in Exps : Handle(t, e)

ExpectationNext ==
  \E t \in XThreads :
    \/ \E c \in Conns : Scan(t, c)
    \/ \E a \in Asks : Ask(t, a[1], a[2])
    \/ \E e \in Exps : Expire(t, e)
    \/ ExpectationStep(t)

ExpectationFairness ==
  \A t \in XThreads : WF_xVars(ExpectationStep(t)) /\ SF_xVars(Relock(t))

ExpectationSpec == ExpectationInit /\ [][ExpectationNext]_xVars

-----------------------------------------------------------------------------
(* Crossed: a packet of a connection has its entry and waits to queue an   *)
(* expectation, another of the same connection handles matches and waits   *)
(* for the entry (a read request that is sent again, in proto_tftp.c).     *)
Crossed == \E t, u \in XThreads :
  /\ xPc[t] = "handling" /\ matched # {}
  /\ entryLock[xConn[t]] = u /\ xPc[u] = "adding"

(* A marked expectation is never left behind: whichever thread marked it,  *)
(* some thread takes it off the list, unless freed memory was used before  *)
(* or two packets of a connection have crossed, which is for good.         *)
MatchIsHandled == \A e \in Exps : e \in matched ~> e \notin matched \/ broken \/ Crossed
=============================================================================
