-------------------------------- MODULE Dns --------------------------------
(***************************************************************************)
(* The offline DNS cache (dns.c).  Every answer that was captured links    *)
(* its name to its value; both expire together or later, from queues that  *)
(* the garbage collector serves from their heads.  Everything is done with *)
(* dns_table_lock held, so an operation is a step.                         *)
(***************************************************************************)
EXTENDS Integers, Sequences, FiniteSets, SequencesExt

CONSTANTS
  Names,         \* names and addresses
  Answers,       \* pairs <<name, value>> that may be captured
  Ttls,
  QueueOfTtl,    \* dns_cache_queues_time: the queue of each TTL
  MaxClock

CacheQueues == {QueueOfTtl[ttl] : ttl \in Ttls}

ASSUME DnsAssumption ==
  /\ Ttls \subseteq Nat /\ MaxClock \in Nat
  /\ Answers \subseteq Names \X Names /\ \A a \in Answers : a[1] # a[2]

VARIABLES
  dnsClock,      \* core_get_clock
  cached,        \* entries of dns_table
  cacheQueues,   \* each in the order of expiry
  expiry,
  links,         \* pairs <<q, v>>: v is in q->values
  backLinks,     \* pairs <<q, v>>: q is in v->query
  collected      \* the time the garbage collector ran last

dnsVars == <<dnsClock, cached, cacheQueues, expiry, links, backLinks, collected>>

DnsInit ==
  /\ dnsClock = 1 /\ collected = 0
  /\ cached = {} /\ links = {} /\ backLinks = {}
  /\ cacheQueues = [q \in CacheQueues |-> <<>>]
  /\ expiry = [r \in Names |-> 0]

-----------------------------------------------------------------------------
(* dns_update_expiry: of the two, those that would expire earlier than the *)
(* new answer are moved.                                                   *)
Extended(query, response, until) == {r \in {query, response} : expiry[r] < until}

Unlinked(queues, r) ==
  [q \in CacheQueues |->
     LET at == {i \in DOMAIN queues[q] : queues[q][i] = r}
     IN IF at = {} THEN queues[q] ELSE RemoveAt(queues[q], Min(at))]

(* The place in a queue is looked for from the tail, behind what does not  *)
(* expire later.                                                           *)
Behind(list, until) ==
  LET earlier == {i \in DOMAIN list : expiry[list[i]] <= until}
  IN IF earlier = {} THEN 0 ELSE Max(earlier)

PutBehind(queues, q, n, r) == [queues EXCEPT ![q] = InsertAt(@, n + 1, r)]

(* Both are taken out before one is put back; the query comes to stand     *)
(* before the response.                                                    *)
UpdateExpiry(query, response, ttl) ==
  LET until == dnsClock + ttl
      q == QueueOfTtl[ttl]
      moved == Extended(query, response, until)
      one == IF query \in moved THEN Unlinked(cacheQueues, query) ELSE cacheQueues
      left == IF response \in moved THEN Unlinked(one, response) ELSE one
      n == Behind(left[q], until)
      back == IF response \in moved THEN PutBehind(left, q, n, response) ELSE left
  IN /\ cacheQueues' = IF query \in moved THEN PutBehind(back, q, n, query) ELSE back
     /\ expiry' = [r \in Names |-> IF r \in moved THEN until ELSE expiry[r]]

(* dns_process_event, for an A, AAAA, CNAME or PTR record of class IN.     *)
DnsProcessEvent(query, response, ttl) ==
  /\ cached' = cached \cup {query, response}
  /\ UpdateExpiry(query, response, ttl)
  /\ IF <<query, response>> \in backLinks
     THEN UNCHANGED <<links, backLinks>>
     ELSE /\ links' = links \cup {<<query, response>>}
          /\ backLinks' = backLinks \cup {<<query, response>>}
  /\ UNCHANGED <<dnsClock, collected>>

-----------------------------------------------------------------------------
(* dns_gc: of each queue, as many as there are before the first that is    *)
(* not due.                                                                *)
DueOf(list, time) ==
  LET later == {i \in DOMAIN list : expiry[list[i]] >= time}
  IN IF later = {} THEN Len(list) ELSE Min(later) - 1

(* The links of a dead entry are cut from both ends.                       *)
OwnLinksCut(pairs, dead) == {p \in pairs : p[1] \notin dead}
LinksCut(pairs, dead) == {p \in pairs : p[1] \notin dead /\ p[2] \notin dead}

DnsGc ==
  LET due == [q \in CacheQueues |-> DueOf(cacheQueues[q], dnsClock)]
      dead == UNION {{cacheQueues[q][i] : i \in 1 .. due[q]} : q \in CacheQueues}
  IN /\ cacheQueues' = [q \in CacheQueues |->
                          SubSeq(cacheQueues[q], due[q] + 1, Len(cacheQueues[q]))]
     /\ cached' = cached \ dead
     /\ expiry' = [r \in Names |-> IF r \in dead THEN 0 ELSE expiry[r]]
     /\ links' = LinksCut(links, dead)
     /\ backLinks' = LinksCut(backLinks, dead)
     /\ collected' = dnsClock
     /\ UNCHANGED dnsClock

DnsTimePasses ==
  /\ dnsClock < MaxClock
  /\ dnsClock' = dnsClock + 1
  /\ UNCHANGED <<cached, cacheQueues, expiry, links, backLinks, collected>>

DnsNext ==
  \/ \E a \in Answers, ttl \in Ttls : DnsProcessEvent(a[1], a[2], ttl)
  \/ DnsGc
  \/ DnsTimePasses

DnsSpec == DnsInit /\ [][DnsNext]_dnsVars

-----------------------------------------------------------------------------
(* The places of r in the queues.                                         *)
WaitingPlaces(r) ==
  UNION {{q} \X {i \in DOMAIN cacheQueues[q] : cacheQueues[q][i] = r} : q \in CacheQueues}

(* What a lookup walks is there: names and values are linked both ways,    *)
(* between entries of the table, each of which waits in one queue.  And no *)
(* answer outlives a run of the garbage collector after its expiry,        *)
(* although the collector looks at the heads only and answers may be       *)
(* renewed, for a shorter or a longer time, and put in another queue.      *)
CacheIsSound ==
  /\ links = backLinks
  /\ \A p \in links : {p[1], p[2]} \subseteq cached
  /\ \A r \in Names :
       Cardinality(WaitingPlaces(r)) = IF r \in cached THEN 1 ELSE 0
  /\ \A r \in cached : expiry[r] >= collected
=============================================================================
