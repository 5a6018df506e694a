---------------------------- MODULE StorageProofs ----------------------------
(***************************************************************************)
(* Theorems about Postgres, for any number of threads, configurations and  *)
(* rows, and for any number of connections lost and statements refused.    *)
(*                                                                         *)
(* The calls of the datastore are sets of outcomes, so the proofs go the   *)
(* way the calls are built: what a statement leaves (AfterQuery), what a   *)
(* statement with its reconnection leaves (AfterExec), and on top of these *)
(* what the calls leave that the main connection makes (Confined), and     *)
(* those of a connection that saves (SaverLink).  A step of the            *)
(* specification is then an outcome (SaverStep, MainStep), and three       *)
(* invariants rest on it: the types, the count of nested transactions, and *)
(* what is stored.                                                         *)
(***************************************************************************)
EXTENDS Postgres, FiniteSetTheorems, TLAPS

(***************************************************************************)
(* What a call of PQexec, and then of the functions on top of it, does to  *)
(* the committed rows and to its link.                                     *)
(***************************************************************************)
PgRecords == [table : {"list"}, id : Nat, what : PgNames] \cup [table : {"config"}, id : Nat, what : PgRows]
Changes == [add : SUBSET PgRecords, del : SUBSET PgRecords]
PgLinks == [up : BOOLEAN, block : {"none", "open", "aborted"}, pend : Changes,
            cursors : SUBSET (Tables \cup {""}), trans : Nat]
Calls == [base : SUBSET PgRecords, l : PgLinks, lost : Nat, refused : Nat,
          r : {"ok", "err", "lost", "crash"}, rows : SUBSET PgRecords, gone : BOOLEAN]
Queries == [do : {"BEGIN", "DECLARE", "FETCH", "CLOSE", "INSERT", "DELETE", "COMMIT", "ROLLBACK"},
            table : Tables \cup {""}, rows : SUBSET PgRecords]

(* A session that ended, or is outside of a block, has changed nothing     *)
(* that is not committed.                                                  *)
LinkWell(l) == (~l.up => l.block = "none") /\ (l.block = "none" => l.pend = NoChanges)

LEMMA NoChangesType == NoChanges \in Changes /\ NoChanges.add = {} /\ NoChanges.del = {}
  BY DEF NoChanges, Changes

EndBlockSo(x, b, y) ==
  /\ y \in Calls /\ y.base = b /\ y.r = x.r /\ y.gone = x.gone
  /\ y.l.up = x.l.up /\ y.l.block = "none" /\ y.l.pend = NoChanges /\ y.l.trans = x.l.trans

LEMMA EndBlockFields ==
  ASSUME NEW x \in Calls, NEW b \in SUBSET PgRecords, NEW y, y = EndBlock(x, b)
  PROVE  EndBlockSo(x, b, y)
  BY NoChangesType DEF EndBlockSo, EndBlock, Calls, PgLinks

OkSo(x, y) ==
  y \in Calls /\ y.base = x.base /\ y.r = "ok" /\ y.gone = x.gone /\ y.l = x.l

LEMMA OkFields ==
  ASSUME NEW x \in Calls, NEW y, y = Ok(x)
  PROVE  OkSo(x, y)
  BY DEF OkSo, Ok, Calls

BadSo(x, y) ==
  /\ y \in Calls /\ y.base = x.base /\ y.r = "err" /\ y.gone = x.gone
  /\ y.l.up = x.l.up /\ y.l.pend = x.l.pend /\ y.l.trans = x.l.trans
  /\ y.l.block = (IF x.l.block = "open" THEN "aborted" ELSE x.l.block)

LEMMA BadFields ==
  ASSUME NEW x \in Calls, NEW y, y = Bad(x)
  PROVE  BadSo(x, y)
  BY DEF BadSo, Bad, Calls, PgLinks

ChangeSo(x, add, del, y) ==
  /\ y \in Calls /\ y.r = x.r /\ y.gone = x.gone
  /\ y.l.up = x.l.up /\ y.l.trans = x.l.trans /\ y.l.block = x.l.block
  /\ x.l.block = "none" => y.l = x.l /\ y.base = (x.base \ del) \cup add
  /\ x.l.block # "none" => /\ y.base = x.base
                           /\ y.l.pend.add = (x.l.pend.add \ del) \cup add
                           /\ y.l.pend.del = x.l.pend.del \cup del

LEMMA ChangeFields ==
  ASSUME NEW x \in Calls, NEW add \in SUBSET PgRecords, NEW del \in SUBSET PgRecords,
         NEW y, y = Change(x, add, del)
  PROVE  ChangeSo(x, add, del, y)
  <1> DEFINE p == [add |-> (x.l.pend.add \ del) \cup add, del |-> x.l.pend.del \cup del]
  <1>1. p \in Changes
    BY DEF Calls, PgLinks, Changes
  <1>2. CASE x.l.block = "none"
    BY <1>2 DEF ChangeSo, Change, Applied, Calls
  <1>3. CASE x.l.block # "none"
    <2>1. y = [x EXCEPT !.l.pend = p]
      BY <1>3 DEF Change
    <2>2. p.add = (x.l.pend.add \ del) \cup add /\ p.del = x.l.pend.del \cup del
      OBVIOUS
    <2> HIDE DEF p
    <2>4. [x.l EXCEPT !.pend = p] \in PgLinks
      BY <1>1 DEF Calls, PgLinks
    <2>5. y = [x EXCEPT !.l = [x.l EXCEPT !.pend = p]]
      BY <2>1 DEF Calls
    <2>3. y \in Calls /\ y.l = [x.l EXCEPT !.pend = p] /\ y.base = x.base /\ y.r = x.r /\ y.gone = x.gone
      BY <2>4, <2>5 DEF Calls
    <2> QED  BY <1>3, <2>2, <2>3 DEF ChangeSo, Calls, PgLinks
  <1> QED  BY <1>2, <1>3

-----------------------------------------------------------------------------
Added(q) == IF q.do = "INSERT" THEN q.rows ELSE {}
Removed(x, q) == IF q.do = "DELETE" THEN q.rows \cap Seen(x) ELSE {}

(* A query q in the state x of a call may end in the state y.              *)
BaseAfter(x, q, y) ==
  /\ x.l.up = FALSE => y.base = x.base
  /\ q.do = "COMMIT" => /\ y.base \in {x.base, Seen(x)}
                        /\ y.r = "ok" /\ x.l.block = "open" => y.base = Seen(x)
  /\ q.do # "COMMIT" /\ x.l.block # "none" => y.base = x.base
  /\ q.do # "COMMIT" /\ x.l.block = "none" => y.base \in {x.base, (x.base \ Removed(x, q)) \cup Added(q)}

LinkAfter(x, q, y) ==
  /\ LinkWell(y.l) /\ y.l.trans = x.l.trans
  /\ q.do \in {"COMMIT", "ROLLBACK"} => y.l.block = "none" /\ y.r # "err"
  /\ q.do # "BEGIN" /\ x.l.block = "none" => y.l.block = "none"
  /\ y.r # "lost" /\ x.l.block # "none" /\ q.do \notin {"COMMIT", "ROLLBACK"} => y.l.block # "none"
  /\ y.r # "ok" /\ x.l.block = "none" => y.l.block = "none"
  /\ y.r = "ok" /\ q.do = "BEGIN" => y.l.block = "open"
  /\ y.r = "ok" /\ q.do \in {"INSERT", "DELETE"} /\ x.l.block # "none" => x.l.block = "open" /\ y.l.block = "open"
  /\ \/ y.l.pend = NoChanges \/ y.l.pend = x.l.pend
     \/ /\ q.do \in {"INSERT", "DELETE"} /\ y.r = "ok" /\ y.l.pend.add = (x.l.pend.add \ Removed(x, q)) \cup Added(q)
        /\ y.l.pend.del = x.l.pend.del \cup Removed(x, q)
  /\ y.r = "ok" /\ q.do \in {"INSERT", "DELETE"} /\ x.l.block # "none" =>
        /\ y.l.pend.add = (x.l.pend.add \ Removed(x, q)) \cup Added(q)
        /\ y.l.pend.del = x.l.pend.del \cup Removed(x, q)

AfterQuery(x, q, y) ==
  /\ y \in Calls /\ y.gone = x.gone
  /\ y.r \in {"ok", "err", "lost"} /\ (y.r = "lost" <=> ~y.l.up) /\ (y.r # "lost" => x.l.up)
  /\ BaseAfter(x, q, y) /\ LinkAfter(x, q, y)

LEMMA SeenType ==
  ASSUME NEW x \in Calls
  PROVE  Seen(x) \in SUBSET PgRecords /\ Seen(x) = (x.base \ x.l.pend.del) \cup x.l.pend.add
  BY DEF Seen, Applied, Calls, PgLinks, Changes

CursorSo(x, y) ==
  /\ y \in Calls /\ y.base = x.base /\ y.r = x.r /\ y.gone = x.gone
  /\ y.l.up = x.l.up /\ y.l.block = x.l.block /\ y.l.pend = x.l.pend /\ y.l.trans = x.l.trans

BlockSo(x, b, y) ==
  /\ y \in Calls /\ y.base = x.base /\ y.r = x.r /\ y.gone = x.gone
  /\ y.l.up = x.l.up /\ y.l.block = b /\ y.l.pend = x.l.pend /\ y.l.trans = x.l.trans

LEMMA CursorFields ==
  ASSUME NEW x \in Calls, NEW c \in SUBSET (Tables \cup {""}), NEW y, y = [x EXCEPT !.l.cursors = c]
  PROVE  CursorSo(x, y)
  BY DEF CursorSo, BlockSo, Calls, PgLinks

LEMMA BlockFields ==
  ASSUME NEW x \in Calls, NEW b \in {"none", "open", "aborted"}, NEW y, y = [x EXCEPT !.l.block = b]
  PROVE  BlockSo(x, b, y)
  BY DEF CursorSo, BlockSo, Calls, PgLinks

LEMMA ServerGood ==
  ASSUME NEW x \in Calls, LinkWell(x.l), x.l.up = TRUE, NEW q \in Queries, NEW y, y = Server(x, q)
  PROVE  AfterQuery(x, q, y)
  <1>1. x.l.block \in {"none", "open", "aborted"} /\ x.l \in PgLinks /\ x.base \in SUBSET PgRecords
        /\ x.l.pend \in Changes /\ x.l.cursors \in SUBSET (Tables \cup {""})
    BY DEF Calls, PgLinks
  <1>2. q.do \in {"BEGIN", "DECLARE", "FETCH", "CLOSE", "INSERT", "DELETE", "COMMIT", "ROLLBACK"}
        /\ q.rows \in SUBSET PgRecords /\ q.table \in Tables \cup {""}
    BY DEF Queries
  <1>3. CASE q.do = "COMMIT"
    <2>1. PICK b : b = IF x.l.block = "aborted" THEN x.base ELSE Seen(x)
      OBVIOUS
    <2>2. b \in SUBSET PgRecords /\ y = Ok(EndBlock(x, b))
      BY <1>1, <1>3, <2>1, SeenType DEF Server
    <2>3. PICK z : z = EndBlock(x, b)
      OBVIOUS
    <2>4. EndBlockSo(x, b, z)
      BY <2>2, <2>3, EndBlockFields
    <2>5. OkSo(z, y)
      BY <2>2, <2>3, <2>4, OkFields DEF EndBlockSo
    <2> QED  BY <1>3, <2>1, <2>4, <2>5 DEF EndBlockSo, OkSo, LinkWell, AfterQuery, BaseAfter, LinkAfter
  <1>4. CASE q.do = "ROLLBACK"
    <2>5. PICK b : b = x.base
      OBVIOUS
    <2>2. PICK z : z = EndBlock(x, b)
      OBVIOUS
    <2>1. y = Ok(z)
      BY <1>4, <2>2, <2>5 DEF Server
    <2>3. EndBlockSo(x, b, z)
      BY <1>1, <2>2, <2>5, EndBlockFields
    <2>4. OkSo(z, y)
      BY <2>1, <2>3, OkFields DEF EndBlockSo
    <2> QED  BY <1>4, <2>3, <2>4, <2>5 DEF EndBlockSo, OkSo, LinkWell, AfterQuery, BaseAfter, LinkAfter
  <1>5. ASSUME y = Bad(x), q.do \notin {"COMMIT", "ROLLBACK"} PROVE AfterQuery(x, q, y)
    <2>1. BadSo(x, y)
      BY <1>5, BadFields
    <2> QED  BY <1>1, <1>5, <2>1 DEF BadSo, LinkWell, AfterQuery, BaseAfter, LinkAfter
  <1>6. ASSUME NEW z \in Calls, CursorSo(x, z), y = Ok(z), q.do \in {"DECLARE", "FETCH", "CLOSE"}
        PROVE  AfterQuery(x, q, y)
    <2>1. OkSo(z, y)
      BY <1>6, OkFields
    <2> QED  BY <1>6, <2>1 DEF CursorSo, OkSo, LinkWell, AfterQuery, BaseAfter, LinkAfter
  <1>7. CASE q.do = "BEGIN" /\ x.l.block # "aborted"
    <2>5. PICK b : b = "open"
      OBVIOUS
    <2>2. PICK z : z = [x EXCEPT !.l.block = b]
      OBVIOUS
    <2>1. y = Ok(z)
      BY <1>1, <1>7, <2>2, <2>5 DEF Server, Statement
    <2>3. BlockSo(x, b, z)
      BY <2>2, <2>5, BlockFields
    <2>4. OkSo(z, y)
      BY <2>1, <2>3, OkFields DEF BlockSo
    <2> QED  BY <1>7, <2>3, <2>4, <2>5 DEF BlockSo, OkSo, LinkWell, AfterQuery, BaseAfter, LinkAfter
  <1>8. CASE q.do \in {"DECLARE", "FETCH", "CLOSE"} /\ x.l.block # "aborted"
    <2>1. y = Bad(x) \/ y = Ok(x) \/ \E c \in SUBSET (Tables \cup {""}) : y = Ok([x EXCEPT !.l.cursors = c])
      <3>1. CASE q.do = "DECLARE"
        <4>1. x.l.cursors \cup {q.table} \in SUBSET (Tables \cup {""})
          BY <1>1, <1>2
        <4> QED  BY <1>8, <3>1, <4>1 DEF Server, Statement
      <3>2. CASE q.do = "FETCH"
        BY <1>8, <3>2 DEF Server, Statement
      <3>3. CASE q.do = "CLOSE"
        <4>1. x.l.cursors \ {q.table} \in SUBSET (Tables \cup {""})
          BY <1>1
        <4> QED  BY <1>8, <3>3, <4>1 DEF Server, Statement
      <3> QED  BY <1>8, <3>1, <3>2, <3>3
    <2>2. CASE y = Bad(x)
      BY <1>5, <1>8, <2>2
    <2>3. CASE y = Ok(x)
      BY <1>6, <1>8, <2>3 DEF CursorSo
    <2>4. ASSUME NEW c \in SUBSET (Tables \cup {""}), y = Ok([x EXCEPT !.l.cursors = c]) PROVE AfterQuery(x, q, y)
      <3>1. PICK z : z = [x EXCEPT !.l.cursors = c]
        OBVIOUS
      <3>2. CursorSo(x, z)
        BY <3>1, CursorFields
      <3>3. z \in Calls
        BY <3>2 DEF CursorSo
      <3> QED  BY <1>6, <1>8, <2>4, <3>1, <3>2, <3>3
    <2> QED  BY <2>1, <2>2, <2>3, <2>4
  <1>9. CASE q.do \in {"INSERT", "DELETE"} /\ x.l.block # "aborted"
    <2>1. y = Ok(Change(x, Added(q), Removed(x, q)))
      BY <1>9 DEF Server, Statement, Added, Removed
    <2>2. PICK add, del : add = Added(q) /\ del = Removed(x, q)
      OBVIOUS
    <2>8. add \in SUBSET PgRecords /\ del \in SUBSET PgRecords
      BY <1>2, <2>2 DEF Added, Removed
    <2>3. PICK z : z = Change(x, add, del)
      OBVIOUS
    <2>7. ChangeSo(x, add, del, z)
      BY <2>8, <2>3, ChangeFields
    <2>4. OkSo(z, y)
      BY <2>1, <2>2, <2>3, <2>7, OkFields DEF ChangeSo
    <2>5. CASE x.l.block = "none"
      BY <1>1, <1>9, <2>2, <2>4, <2>5, <2>7 DEF ChangeSo, OkSo, LinkWell, AfterQuery, BaseAfter, LinkAfter
    <2>6. CASE x.l.block = "open"
      BY <1>1, <1>9, <2>2, <2>4, <2>6, <2>7 DEF ChangeSo, OkSo, LinkWell, AfterQuery, BaseAfter, LinkAfter
    <2> QED  BY <1>1, <1>9, <2>5, <2>6
  <1>10. CASE x.l.block = "aborted" /\ q.do \notin {"COMMIT", "ROLLBACK"}
    BY <1>5, <1>10 DEF Server
  <1> QED  BY <1>2, <1>3, <1>4, <1>7, <1>8, <1>9, <1>10

LEMMA CutGood ==
  ASSUME NEW x \in Calls, NEW z \in Calls, NEW q \in Queries, NEW y, y = Cut(z),
         z = x \/ AfterQuery(x, q, z), LinkWell(x.l), x.l.up = TRUE
  PROVE  AfterQuery(x, q, y)
  <1>6. PICK v : v = EndBlock(z, z.base)
    OBVIOUS
  <1>1. /\ v \in Calls /\ v.base = z.base /\ v.gone = z.gone
        /\ v.l.block = "none" /\ v.l.pend = NoChanges /\ v.l.trans = z.l.trans
    <2>1. z.base \in SUBSET PgRecords
      BY DEF Calls
    <2>2. PICK b : b = z.base
      OBVIOUS
    <2>3. EndBlockSo(z, b, v)
      BY <1>6, <2>1, <2>2, EndBlockFields
    <2> QED  BY <2>2, <2>3 DEF EndBlockSo
  <1>2. y = [v EXCEPT !.r = "lost", !.l.up = FALSE, !.lost = @ + 1]
    BY <1>6 DEF Cut
  <1>3. /\ y \in Calls /\ y.base = v.base /\ y.gone = v.gone /\ y.r = "lost" /\ y.l.up = FALSE
        /\ y.l.block = v.l.block /\ y.l.pend = v.l.pend /\ y.l.trans = v.l.trans
    <2>1. PICK k : k = [v.l EXCEPT !.up = FALSE]
      OBVIOUS
    <2>2. k \in PgLinks /\ k.up = FALSE /\ k.block = v.l.block /\ k.pend = v.l.pend /\ k.trans = v.l.trans
      BY <1>1, <2>1 DEF Calls, PgLinks
    <2>3. v.lost + 1 \in Nat /\ "lost" \in {"ok", "err", "lost", "crash"}
      BY <1>1 DEF Calls
    <2>4. y = [v EXCEPT !.r = "lost", !.l = k, !.lost = v.lost + 1]
      BY <1>1, <1>2, <2>1 DEF Calls
    <2>5. y.base = v.base /\ y.gone = v.gone /\ y.r = "lost" /\ y.l = k
      BY <1>1, <2>4 DEF Calls
    <2>6. y \in Calls
      BY <1>1, <2>2, <2>3, <2>4 DEF Calls
    <2> QED  BY <2>2, <2>5, <2>6
  <1>4. BaseAfter(x, q, y)
    <2>1. CASE z = x
      BY <1>1, <1>3, <2>1 DEF BaseAfter
    <2>2. CASE AfterQuery(x, q, z)
      BY <1>1, <1>3, <2>2 DEF BaseAfter, AfterQuery
    <2> QED  BY <2>1, <2>2
  <1>5. z.gone = x.gone /\ z.l.trans = x.l.trans
    BY DEF AfterQuery, LinkAfter
  <1> QED  BY <1>1, <1>3, <1>4, <1>5 DEF AfterQuery, LinkAfter, LinkWell

LEMMA PQexecGood ==
  ASSUME NEW x \in Calls, LinkWell(x.l), NEW q \in Queries, NEW y \in PQexec(x, q)
  PROVE  AfterQuery(x, q, y)
  <1>1. CASE ~x.l.up
    <2>1. y = [x EXCEPT !.r = "lost"]
      BY <1>1 DEF PQexec
    <2>2. y \in Calls /\ y.base = x.base /\ y.gone = x.gone /\ y.l = x.l /\ y.r = "lost"
      BY <2>1 DEF Calls
    <2>3. x.l.up \in BOOLEAN
      BY DEF Calls, PgLinks
    <2> QED  BY <1>1, <2>2, <2>3 DEF AfterQuery, BaseAfter, LinkAfter, LinkWell
  <1>2. CASE x.l.up = TRUE
    <2>1. AfterQuery(x, q, Server(x, q)) /\ Server(x, q) \in Calls
      <3>1. AfterQuery(x, q, Server(x, q))
        BY <1>2, ServerGood
      <3> QED  BY <3>1 DEF AfterQuery
    <2>2. y \in {Server(x, q), Cut(x), Cut(Server(x, q))}
          \/ (q.do = "INSERT" /\ y = Bad([x EXCEPT !.refused = @ + 1]))
      BY <1>2 DEF PQexec
    <2>3. CASE y = Server(x, q)
      BY <2>1, <2>3
    <2>4. CASE y = Cut(x) \/ y = Cut(Server(x, q))
      BY <1>2, <2>1, <2>4, CutGood
    <2>5. CASE q.do = "INSERT" /\ y = Bad([x EXCEPT !.refused = @ + 1])
      <3>1. PICK z : z = [x EXCEPT !.refused = @ + 1]
        OBVIOUS
      <3>2. z \in Calls /\ z.base = x.base /\ z.gone = x.gone /\ z.l = x.l
        BY <3>1 DEF Calls
      <3>3. /\ y \in Calls /\ y.base = z.base /\ y.r = "err" /\ y.gone = z.gone
            /\ y.l.up = z.l.up /\ y.l.pend = z.l.pend /\ y.l.trans = z.l.trans
            /\ y.l.block = (IF z.l.block = "open" THEN "aborted" ELSE z.l.block)
        BY <2>5, <3>1, <3>2, BadFields DEF BadSo
      <3> QED  BY <1>2, <2>5, <3>2, <3>3 DEF AfterQuery, BaseAfter, LinkAfter, LinkWell
    <2> QED  BY <2>2, <2>3, <2>4, <2>5
  <1>3. x.l.up \in BOOLEAN
    BY DEF Calls, PgLinks
  <1> QED  BY <1>1, <1>2, <1>3

-----------------------------------------------------------------------------
(* The link of x, with the link of y in its place up to these.             *)
SameSession(x, y) == y.base = x.base /\ y.gone = x.gone /\ y.l.block = x.l.block /\ y.l.pend = x.l.pend

(* A query that found the connection broken, or broke it.                  *)
LostBy(x, q, z) == AfterQuery(x, q, z) /\ z.r = "lost"

Unconnected(x, q, y) == \E z \in Calls : /\ LostBy(x, q, z) /\ SameSession(z, y) /\ y.r = "err"
                                         /\ y.l.up = z.l.up /\ y.l.trans = z.l.trans
Forgotten(x, q, y) == /\ x.l.trans # NotInTrans /\ y.l.trans = NotInTrans /\ y.r = "err"
                      /\ \E z \in Calls : LostBy(x, q, z) /\ SameSession(z, y)
Repeated(x, q, y) ==
  /\ x.l.trans = NotInTrans
  /\ \E z, v, w \in Calls : /\ LostBy(x, q, z)
                            /\ SameSession(z, v) /\ v.l.trans = z.l.trans /\ LinkWell(v.l)
                            /\ AfterQuery(v, q, w) /\ y.base = w.base /\ y.l = w.l /\ y.gone = w.gone
                            /\ y.r = "ok" <=> w.r = "ok"

AfterExec(x, q, y) ==
  /\ y \in Calls /\ y.r # "lost"
  /\ AfterQuery(x, q, y) \/ Unconnected(x, q, y) \/ Forgotten(x, q, y) \/ Repeated(x, q, y)

WithResult(x, r, y) == y \in Calls /\ y.base = x.base /\ y.l = x.l /\ y.gone = x.gone /\ y.r = r

LEMMA ResultFields ==
  ASSUME NEW x \in Calls, NEW r \in {"ok", "err", "lost", "crash"}, NEW y, y = [x EXCEPT !.r = r]
  PROVE  WithResult(x, r, y)
  BY DEF WithResult, Calls

LEMMA StateErrorFields ==
  ASSUME NEW x \in Calls, NEW y, y = StateError(x)
  PROVE  WithResult(x, IF x.r = "lost" THEN "crash" ELSE "err", y)
  <1>1. CASE x.r = "lost"
    BY <1>1 DEF WithResult, StateError, Calls
  <1>2. CASE x.r # "lost"
    BY <1>2 DEF WithResult, StateError, Calls
  <1> QED  BY <1>1, <1>2

TransSet(x, n, y) == /\ y \in Calls /\ SameSession(x, y) /\ y.r = x.r
                     /\ y.l.up = x.l.up /\ y.l.trans = n

LEMMA TransFields ==
  ASSUME NEW x \in Calls, NEW n \in Nat, NEW y, y = SetTrans(x, n)
  PROVE  TransSet(x, n, y)
  <1>1. PICK l : l = [x.l EXCEPT !.trans = n]
    OBVIOUS
  <1>2. l \in PgLinks /\ l.up = x.l.up /\ l.block = x.l.block /\ l.pend = x.l.pend /\ l.trans = n
    BY <1>1 DEF Calls, PgLinks
  <1>3. y = [x EXCEPT !.l = l]
    BY <1>1 DEF SetTrans, Calls
  <1>4. y \in Calls /\ y.l = l /\ y.base = x.base /\ y.r = x.r /\ y.gone = x.gone
    BY <1>2, <1>3 DEF Calls
  <1> QED  BY <1>2, <1>4 DEF TransSet, SameSession

UpAgain(x, y) == y \in Calls /\ SameSession(x, y) /\ y.l.up = TRUE /\ y.l.trans = x.l.trans

LEMMA UpFields ==
  ASSUME NEW x \in Calls, NEW y, y = [x EXCEPT !.l.up = TRUE]
  PROVE  UpAgain(x, y)
  <1>1. PICK l : l = [x.l EXCEPT !.up = TRUE]
    OBVIOUS
  <1>2. l \in PgLinks /\ l.up = TRUE /\ l.block = x.l.block /\ l.pend = x.l.pend /\ l.trans = x.l.trans
    BY <1>1 DEF Calls, PgLinks
  <1>3. y = [x EXCEPT !.l = l]
    BY <1>1 DEF Calls
  <1>4. y \in Calls /\ y.l = l /\ y.base = x.base /\ y.gone = x.gone
    BY <1>2, <1>3 DEF Calls
  <1> QED  BY <1>2, <1>4 DEF UpAgain, SameSession

LEMMA ExecGood ==
  ASSUME NEW x \in Calls, LinkWell(x.l), NEW q \in Queries, NEW y \in Exec(x, q)
  PROVE  AfterExec(x, q, y)
  <1>1. PICK z \in PQexec(x, q) : y \in OrReconnected(z, q)
    BY DEF Exec
  <1>2. AfterQuery(x, q, z) /\ z \in Calls
    <2>1. AfterQuery(x, q, z)
      BY PQexecGood
    <2> QED  BY <2>1 DEF AfterQuery
  <1>3. CASE z.r # "lost"
    BY <1>1, <1>2, <1>3 DEF OrReconnected, AfterExec
  <1>4. CASE z.r = "lost"
    <2>1. LostBy(x, q, z)
      BY <1>2, <1>4 DEF LostBy
    <2>2. PICK v : v = [z EXCEPT !.l.up = TRUE]
      OBVIOUS
    <2>3. UpAgain(z, v)
      BY <1>2, <2>2, UpFields
    <2>4. v \in Calls /\ LinkWell(v.l) /\ SameSession(z, v) /\ v.l.trans = z.l.trans
      BY <1>2, <1>4, <2>3 DEF UpAgain, SameSession, LinkWell, AfterQuery, LinkAfter
    <2>5. z.l.trans = x.l.trans
      BY <1>2 DEF AfterQuery, LinkAfter
    <2>6. CASE y = [z EXCEPT !.r = "err"]
      <3>1. WithResult(z, "err", y)
        BY <1>2, <2>6, ResultFields
      <3> QED  BY <1>2, <2>1, <3>1 DEF AfterExec, Unconnected, WithResult, SameSession
    <2>7. CASE y \in Reconnected(v, q) /\ v.l.trans # NotInTrans
      <3>1. y = [v EXCEPT !.r = "err", !.l.trans = NotInTrans]
        BY <2>7 DEF Reconnected, LostWithIt, InTransaction
      <3>2. PICK k : k = [v EXCEPT !.r = "err"]
        OBVIOUS
      <3>3. WithResult(v, "err", k)
        BY <2>4, <3>2, ResultFields
      <3>4. y = SetTrans(k, NotInTrans)
        BY <2>4, <3>1, <3>2 DEF SetTrans, Calls
      <3>5. TransSet(k, NotInTrans, y)
        <4>1. NotInTrans \in Nat
          BY DEF NotInTrans
        <4> QED  BY <3>3, <3>4, <4>1, TransFields DEF WithResult
      <3>6. SameSession(z, y) /\ y.r = "err" /\ y.l.trans = NotInTrans /\ y \in Calls
        BY <2>4, <3>3, <3>5 DEF TransSet, WithResult, SameSession
      <3> QED  BY <1>2, <2>1, <2>4, <2>5, <2>7, <3>6 DEF AfterExec, Forgotten
    <2>8. CASE y \in Reconnected(v, q) /\ v.l.trans = NotInTrans
      <3>1. PICK w \in PQexec(v, q) : y = IF w.r = "ok" THEN w ELSE StateError(w)
        BY <2>8 DEF Reconnected, LostWithIt, InTransaction
      <3>2. AfterQuery(v, q, w) /\ w \in Calls
        <4>1. AfterQuery(v, q, w)
          BY <2>4, PQexecGood
        <4> QED  BY <4>1 DEF AfterQuery
      <3>3. y \in Calls /\ y.base = w.base /\ y.l = w.l /\ y.gone = w.gone /\ y.r # "lost" /\ (y.r = "ok" <=> w.r = "ok")
        <4>1. CASE w.r = "ok"
          BY <3>1, <3>2, <4>1
        <4>2. CASE w.r # "ok"
          <5>1. WithResult(w, IF w.r = "lost" THEN "crash" ELSE "err", y)
            BY <3>1, <3>2, <4>2, StateErrorFields
          <5> QED  BY <4>2, <5>1 DEF WithResult
        <4> QED  BY <4>1, <4>2
      <3>4. Repeated(x, q, y)
        BY <1>2, <2>1, <2>4, <2>5, <2>8, <3>2, <3>3 DEF Repeated
      <3> QED  BY <3>3, <3>4 DEF AfterExec
    <2> QED  BY <1>1, <1>4, <2>2, <2>6, <2>7, <2>8 DEF OrReconnected
  <1> QED  BY <1>3, <1>4

-----------------------------------------------------------------------------
(***************************************************************************)
(* The main connection: loading and deleting only remove, and what they    *)
(* remove are records of T.                                                *)
(***************************************************************************)
Confined(b, A, T, x) ==
  /\ x \in Calls /\ LinkWell(x.l)
  /\ x.base \subseteq b \cup A /\ \A d \in b : d \notin x.base => d.id \in T
  /\ x.l.pend.add \subseteq A /\ \A d \in x.l.pend.del : d.id \in T

Does(A, T, q) == /\ q \in Queries
                 /\ q.do = "INSERT" => q.rows \subseteq A
                 /\ q.do = "DELETE" => \A d \in q.rows : d.id \in T

LEMMA ConfinedSame ==
  ASSUME NEW b, NEW A, NEW T, NEW x, Confined(b, A, T, x), NEW y \in Calls, SameSession(x, y), LinkWell(y.l)
  PROVE  Confined(b, A, T, y)
  BY DEF Confined, SameSession

LEMMA ConfinedQuery ==
  ASSUME NEW b, NEW A, NEW T, NEW x, Confined(b, A, T, x), NEW q, Does(A, T, q), NEW y, AfterQuery(x, q, y)
  PROVE  Confined(b, A, T, y) /\ y.l.trans = x.l.trans /\ y.gone = x.gone
  <1>1. x \in Calls /\ y \in Calls /\ q \in Queries /\ LinkWell(y.l) /\ y.l.trans = x.l.trans /\ y.gone = x.gone
    BY DEF Confined, Does, AfterQuery, LinkAfter
  <1>2. Added(q) \subseteq A /\ \A d \in Removed(x, q) : d.id \in T
    BY DEF Added, Removed, Does
  <1>3. y.base \subseteq (x.base \cup A) /\ \A d \in x.base : d \notin y.base => d.id \in T
    <2>1. Seen(x) \subseteq (x.base \cup A) /\ \A d \in x.base : d \notin Seen(x) => d.id \in T
      BY <1>1, SeenType DEF Confined
    <2>2. y.base \in {x.base, Seen(x), (x.base \ Removed(x, q)) \cup Added(q)}
      BY DEF AfterQuery, BaseAfter
    <2> QED  BY <1>2, <2>1, <2>2
  <1>4. y.l.pend.add \subseteq A /\ \A d \in y.l.pend.del : d.id \in T
    <2>1. CASE y.l.pend = NoChanges
      BY <2>1, NoChangesType
    <2>2. CASE y.l.pend = x.l.pend
      BY <2>2 DEF Confined
    <2>3. CASE /\ y.l.pend.add = (x.l.pend.add \ Removed(x, q)) \cup Added(q)
               /\ y.l.pend.del = x.l.pend.del \cup Removed(x, q)
      BY <1>2, <2>3 DEF Confined
    <2> QED  BY <2>1, <2>2, <2>3 DEF AfterQuery, LinkAfter
  <1> QED  BY <1>1, <1>3, <1>4 DEF Confined

LEMMA ConfinedExec ==
  ASSUME NEW b, NEW A, NEW T, NEW x, Confined(b, A, T, x), NEW q, Does(A, T, q), NEW y \in Exec(x, q)
  PROVE  Confined(b, A, T, y) /\ y.l.trans \in {0, x.l.trans} /\ y.gone = x.gone /\ y.r # "lost"
  <1>1. AfterExec(x, q, y) /\ x \in Calls /\ y \in Calls /\ y.r # "lost"
    <2>1. x \in Calls /\ LinkWell(x.l) /\ q \in Queries
      BY DEF Confined, Does
    <2>2. AfterExec(x, q, y)
      BY <2>1, ExecGood
    <2> QED  BY <2>1, <2>2 DEF AfterExec
  <1>2. CASE AfterQuery(x, q, y)
    BY <1>1, <1>2, ConfinedQuery
  <1>3. CASE Unconnected(x, q, y)
    <2>1. PICK z \in Calls : LostBy(x, q, z) /\ SameSession(z, y) /\ y.l.up = z.l.up /\ y.l.trans = z.l.trans
      BY <1>3 DEF Unconnected
    <2>2. Confined(b, A, T, z) /\ z.l.trans = x.l.trans /\ z.gone = x.gone
      BY <2>1, ConfinedQuery DEF LostBy
    <2>3. LinkWell(y.l)
      BY <2>1, <2>2 DEF Confined, SameSession, LinkWell
    <2>4. Confined(b, A, T, y)
      BY <1>1, <2>1, <2>2, <2>3, ConfinedSame
    <2> QED  BY <1>1, <2>1, <2>2, <2>4 DEF SameSession
  <1>4. CASE Forgotten(x, q, y)
    <2>1. PICK z \in Calls : LostBy(x, q, z) /\ SameSession(z, y)
      BY <1>4 DEF Forgotten
    <2>2. Confined(b, A, T, z) /\ z.gone = x.gone
      BY <2>1, ConfinedQuery DEF LostBy
    <2>3. LinkWell(y.l)
      BY <2>1, <2>2 DEF LostBy, AfterQuery, Confined, SameSession, LinkWell
    <2>4. Confined(b, A, T, y)
      BY <1>1, <2>1, <2>2, <2>3, ConfinedSame
    <2> QED  BY <1>1, <1>4, <2>1, <2>2, <2>4 DEF SameSession, Forgotten, NotInTrans
  <1>5. CASE Repeated(x, q, y)
    <2>1. PICK z, v, w \in Calls : /\ LostBy(x, q, z)
                                   /\ SameSession(z, v) /\ v.l.trans = z.l.trans /\ LinkWell(v.l)
                                   /\ AfterQuery(v, q, w) /\ y.base = w.base /\ y.l = w.l /\ y.gone = w.gone
      BY <1>5 DEF Repeated
    <2>2. Confined(b, A, T, z) /\ z.l.trans = x.l.trans /\ z.gone = x.gone
      BY <2>1, ConfinedQuery DEF LostBy
    <2>3. Confined(b, A, T, v)
      BY <2>1, <2>2, ConfinedSame
    <2>4. Confined(b, A, T, w) /\ w.l.trans = v.l.trans /\ w.gone = v.gone
      BY <2>1, <2>3, ConfinedQuery
    <2>5. SameSession(w, y) /\ LinkWell(y.l)
      BY <2>1, <2>4 DEF SameSession, Confined
    <2>6. Confined(b, A, T, y)
      BY <1>1, <2>4, <2>5, ConfinedSame
    <2> QED  BY <1>1, <2>1, <2>2, <2>4, <2>6 DEF SameSession
  <1> QED  BY <1>1, <1>2, <1>3, <1>4, <1>5 DEF AfterExec

LEMMA QueryTypes ==
  ASSUME NEW A, NEW T
  PROVE  /\ \A d \in {"BEGIN", "COMMIT", "ROLLBACK"} : Stmt(d) \in Queries /\ Stmt(d).do = d /\ Does(A, T, Stmt(d))
         /\ \A d \in {"DECLARE", "FETCH", "CLOSE"}, t \in Tables :
               StmtOn(d, t) \in Queries /\ StmtOn(d, t).do = d /\ Does(A, T, StmtOn(d, t))
         /\ \A d \in {"INSERT", "DELETE"}, s \in SUBSET PgRecords :
               StmtWith(d, s) \in Queries /\ StmtWith(d, s).do = d /\ StmtWith(d, s).rows = s
  <1>1. \A d \in {"BEGIN", "COMMIT", "ROLLBACK"} : Stmt(d) \in Queries /\ Stmt(d).do = d /\ Stmt(d).do \notin {"INSERT", "DELETE"}
    <2>1. {} \in SUBSET PgRecords
      OBVIOUS
    <2> QED  BY <2>1 DEF Stmt, Queries
  <1>2. \A d \in {"DECLARE", "FETCH", "CLOSE"}, t \in Tables :
           StmtOn(d, t) \in Queries /\ StmtOn(d, t).do = d /\ StmtOn(d, t).do \notin {"INSERT", "DELETE"}
    <2>1. {} \in SUBSET PgRecords
      OBVIOUS
    <2> QED  BY <2>1 DEF StmtOn, Queries
  <1>3. \A d \in {"INSERT", "DELETE"}, s \in SUBSET PgRecords :
           StmtWith(d, s) \in Queries /\ StmtWith(d, s).do = d /\ StmtWith(d, s).rows = s
    BY DEF StmtWith, Queries
  <1> QED  BY <1>1, <1>2, <1>3 DEF Does

(* A read or a write enters a transaction, its own if need be.             *)
Entered(n) == IF n = 0 THEN 2 ELSE IF n = 1 THEN 1 ELSE n + 1
LeftTo(n) == IF n > 2 THEN n - 1 ELSE IF n = 1 THEN 1 ELSE 0

LEMMA ConfinedSet ==
  ASSUME NEW b, NEW A, NEW T, NEW x, Confined(b, A, T, x), NEW n \in Nat, NEW y, y = SetTrans(x, n)
  PROVE  Confined(b, A, T, y) /\ y.l.trans = n /\ y.r = x.r /\ y.gone = x.gone
  <1>1. TransSet(x, n, y)
    BY TransFields DEF Confined
  <1>2. y \in Calls /\ SameSession(x, y) /\ LinkWell(y.l)
    BY <1>1 DEF TransSet, Confined, SameSession, LinkWell
  <1>3. Confined(b, A, T, y)
    BY <1>2, ConfinedSame
  <1> QED  BY <1>1, <1>3 DEF TransSet, SameSession

LEMMA ConfinedResult ==
  ASSUME NEW b, NEW A, NEW T, NEW x, Confined(b, A, T, x), NEW r, NEW y, WithResult(x, r, y)
  PROVE  Confined(b, A, T, y) /\ y.l = x.l /\ y.gone = x.gone /\ y.r = r
  BY DEF WithResult, Confined

ConfinedIn(b, A, T, x, y) ==
  /\ Confined(b, A, T, y) /\ y.r # "lost"
  /\ y.r # "ok" => y.gone = TRUE /\ x.l.trans = 0 /\ y.l.trans = 0
  /\ y.r = "ok" => y.gone = FALSE /\ y.l.trans = Entered(x.l.trans)

LEMMA ConfinedEnter ==
  ASSUME NEW b, NEW A, NEW T, NEW x, Confined(b, A, T, x), x.gone = FALSE, NEW y \in EnterTrans(x)
  PROVE  ConfinedIn(b, A, T, x, y)
  <1> USE DEF ConfinedIn
  <1>0. x \in Calls /\ x.l.trans \in Nat
    BY DEF Confined, Calls, PgLinks
  <1>1. CASE x.l.trans = 0
    <2>1. PICK z \in Exec(x, Stmt("BEGIN")) : y = IF Failed(z) THEN [z EXCEPT !.gone = TRUE] ELSE SetTrans(z, InTempTrans)
      BY <1>1 DEF EnterTrans, NotInTrans
    <2>2. Confined(b, A, T, z) /\ z.l.trans = 0 /\ z.gone = FALSE /\ z.r # "lost"
      <3>1. PICK q : q = Stmt("BEGIN")
        OBVIOUS
      <3>2. Does(A, T, q)
        BY <3>1, QueryTypes
      <3> QED  BY <1>1, <2>1, <3>1, <3>2, ConfinedExec
    <2>3. CASE z.r = "ok"
      <3>1. y = SetTrans(z, InTempTrans) /\ InTempTrans \in Nat /\ InTempTrans = 2
        BY <2>1, <2>3 DEF Failed, InTempTrans
      <3>2. Confined(b, A, T, y) /\ y.l.trans = 2 /\ y.r = "ok" /\ y.gone = FALSE
        BY <2>2, <2>3, <3>1, ConfinedSet
      <3> QED  BY <1>1, <3>2 DEF Entered
    <2>4. CASE z.r # "ok"
      <3>1. y = [z EXCEPT !.gone = TRUE] /\ z \in Calls
        BY <2>1, <2>2, <2>4 DEF Failed, Confined
      <3>2. y \in Calls /\ y.base = z.base /\ y.l = z.l /\ y.r = z.r /\ y.gone = TRUE
        BY <3>1 DEF Calls
      <3> QED  BY <1>1, <2>2, <2>4, <3>2 DEF Confined
    <2> QED  BY <2>3, <2>4
  <1>2. CASE x.l.trans # 0
    <2>1. PICK z : z = IF x.l.trans >= InTempTrans THEN SetTrans(x, x.l.trans + 1) ELSE x
      OBVIOUS
    <2>2. y = Ok(z)
      BY <1>2, <2>1 DEF EnterTrans, NotInTrans
    <2>3. Confined(b, A, T, z) /\ z.l.trans = Entered(x.l.trans) /\ z.gone = FALSE
      <3>1. CASE x.l.trans >= 2
        <4>1. PICK n : n = x.l.trans + 1
          OBVIOUS
        <4>2. z = SetTrans(x, n) /\ n \in Nat
          BY <1>0, <2>1, <3>1, <4>1 DEF InTempTrans
        <4>3. Confined(b, A, T, z) /\ z.l.trans = n /\ z.gone = x.gone
          BY <4>2, ConfinedSet
        <4> QED  BY <1>0, <3>1, <4>1, <4>3 DEF Entered
      <3>2. CASE ~(x.l.trans >= 2)
        BY <1>0, <1>2, <2>1, <3>2 DEF InTempTrans, Entered
      <3> QED  BY <3>1, <3>2
    <2>4. OkSo(z, y)
      BY <2>2, <2>3, OkFields DEF Confined
    <2> QED  BY <2>3, <2>4 DEF OkSo, Confined
  <1> QED  BY <1>1, <1>2

LEMMA ConfinedKeeping ==
  ASSUME NEW b, NEW A, NEW T, NEW x \in Calls, NEW z, Confined(b, A, T, z), NEW y,
         y = IF z.r = "crash" THEN z ELSE [z EXCEPT !.r = x.r]
  PROVE  /\ Confined(b, A, T, y) /\ y.l = z.l /\ y.gone = z.gone /\ y.r \in {"crash", x.r}
  <1>1. CASE z.r = "crash"
    BY <1>1
  <1>2. CASE z.r # "crash"
    <2>1. PICK r : r = x.r
      OBVIOUS
    <2>2. r \in {"ok", "err", "lost", "crash"} /\ z \in Calls
      BY <2>1 DEF Calls, Confined
    <2>3. WithResult(z, r, y)
      BY <1>2, <2>1, <2>2, ResultFields
    <2> QED  BY <2>1, <2>3, ConfinedResult
  <1> QED  BY <1>1, <1>2

LEMMA ConfinedLeave ==
  ASSUME NEW b, NEW A, NEW T, NEW x, Confined(b, A, T, x), x.gone = FALSE, NEW n \in Nat, x.l.trans \in {0, n},
         NEW y \in LeaveTrans(x)
  PROVE  /\ Confined(b, A, T, y) /\ y.r \in {"crash", x.r} 
         /\ y.r # "crash" => y.l.trans \in {0, LeftTo(n)}
  <1>0. x \in Calls /\ x.l.trans \in Nat
    BY DEF Confined, Calls, PgLinks
  <1>1. CASE x.r = "crash" \/ x.l.trans < 2
    <2>1. y = x
      BY <1>1 DEF LeaveTrans, InTempTrans
    <2> QED  BY <1>0, <1>1, <2>1 DEF LeftTo
  <1>2. CASE x.r # "crash" /\ x.l.trans > 2
    <2>1. PICK k : k = x.l.trans - 1
      OBVIOUS
    <2>2. y = SetTrans(x, k) /\ k \in Nat
      BY <1>0, <1>2, <2>1 DEF LeaveTrans, InTempTrans
    <2>3. Confined(b, A, T, y) /\ y.l.trans = k /\ y.r = x.r
      BY <2>2, ConfinedSet
    <2> QED  BY <1>0, <1>2, <2>1, <2>3 DEF LeftTo
  <1>3. CASE x.r # "crash" /\ x.l.trans = 2
    <2>1. PICK q : q = Stmt(IF x.r = "ok" THEN "COMMIT" ELSE "ROLLBACK")
      OBVIOUS
    <2>2. PICK z \in Exec(x, q) : y = SetTrans(IF z.r = "crash" THEN z ELSE [z EXCEPT !.r = x.r], NotInTrans)
      BY <1>3, <2>1 DEF LeaveTrans, InTempTrans, Keeping
    <2>3. Does(A, T, q)
      BY <2>1, QueryTypes
    <2>4. Confined(b, A, T, z)
      BY <2>2, <2>3, ConfinedExec
    <2>5. PICK k : k = IF z.r = "crash" THEN z ELSE [z EXCEPT !.r = x.r]
      OBVIOUS
    <2>6. Confined(b, A, T, k) /\ k.r \in {"crash", x.r}
      BY <1>0, <2>4, <2>5, ConfinedKeeping
    <2>7. y = SetTrans(k, 0) /\ 0 \in Nat
      BY <2>2, <2>5 DEF NotInTrans
    <2>8. Confined(b, A, T, y) /\ y.l.trans = 0 /\ y.r = k.r
      BY <2>6, <2>7, ConfinedSet
    <2> QED  BY <2>6, <2>8
  <1> QED  BY <1>0, <1>1, <1>2, <1>3

-----------------------------------------------------------------------------
RowsSet(x, s, y) == y \in Calls /\ y.base = x.base /\ y.l = x.l /\ y.gone = x.gone /\ y.r = x.r /\ y.rows = s

LEMMA RowsFields ==
  ASSUME NEW x \in Calls, NEW s \in SUBSET PgRecords, NEW y, y = [x EXCEPT !.rows = s]
  PROVE  RowsSet(x, s, y)
  BY DEF RowsSet, Calls

(* The result of the statement that fetches, or of the first of a write.   *)
LEMMA OrStateErrorFields ==
  ASSUME NEW x \in Calls, NEW y, y = OrStateError(x)
  PROVE  WithResult(x, y.r, y) /\ y.r \in {"ok", "err", "crash"} /\ (y.r = "ok" <=> x.r = "ok")
  <1>1. CASE x.r = "ok"
    BY <1>1 DEF OrStateError, Failed, WithResult
  <1>2. CASE x.r # "ok"
    <2>1. y = StateError(x)
      BY <1>2 DEF OrStateError, Failed
    <2>2. WithResult(x, IF x.r = "lost" THEN "crash" ELSE "err", y)
      BY <2>1, StateErrorFields
    <2> QED  BY <1>2, <2>2 DEF WithResult
  <1> QED  BY <1>1, <1>2

(* What a reading of the main connection leaves behind.                    *)
MainRead(b, A, T, n, wanted, y) ==
  /\ Confined(b, A, T, y) /\ y.r # "lost"
  /\ y.r = "ok" => y.l.trans \in {0, Entered(n)} /\ y.rows \subseteq wanted
  /\ y.r = "err" => y.l.trans \in {0, n}

LEMMA EnteredLeft ==
  ASSUME NEW n \in Nat
  PROVE  Entered(n) \in Nat /\ LeftTo(Entered(n)) = n /\ LeftTo(n) \in Nat
  BY DEF Entered, LeftTo

LEMMA MainReads ==
  ASSUME NEW b, NEW A, NEW T, NEW x, Confined(b, A, T, x), x.r = "ok", x.gone = FALSE,
         NEW t \in Tables, NEW wanted \in SUBSET PgRecords, NEW y \in ReadStart(x, t, wanted)
  PROVE  MainRead(b, A, T, x.l.trans, wanted, y)
  <1>0. PICK n, m : n = x.l.trans /\ m = Entered(n)
    OBVIOUS
  <1>1. n \in Nat /\ m \in Nat /\ LeftTo(m) = n
    <2>1. n \in Nat
      BY <1>0 DEF Confined, Calls, PgLinks
    <2> QED  BY <1>0, <2>1, EnteredLeft
  <1>2. PICK z \in EnterTrans(x) : y \in Declared(z, t, wanted)
    BY DEF ReadStart
  <1>3. /\ Confined(b, A, T, z) /\ z.r # "lost"
        /\ z.r # "ok" => z.gone = TRUE /\ n = 0 /\ z.l.trans = 0
        /\ z.r = "ok" => z.gone = FALSE /\ z.l.trans = m
    <2>1. ConfinedIn(b, A, T, x, z)
      BY <1>2, ConfinedEnter
    <2> QED  BY <1>0, <2>1 DEF ConfinedIn
  <1>4. CASE z.r # "ok"
    <2>1. y = z
      BY <1>2, <1>4 DEF Declared, Failed
    <2> QED  BY <1>0, <1>3, <1>4, <2>1 DEF MainRead
  <1>5. ASSUME NEW k, Confined(b, A, T, k), k.gone = FALSE, k.l.trans \in {0, m}, k.r \in {"err", "crash"}, y \in LeaveTrans(k)
        PROVE  MainRead(b, A, T, n, wanted, y)
    <2>1. Confined(b, A, T, y) /\ y.r \in {"crash", k.r} /\ (y.r # "crash" => y.l.trans \in {0, LeftTo(m)})
      BY <1>1, <1>5, ConfinedLeave
    <2> QED  BY <1>1, <1>5, <2>1 DEF MainRead
  <1>6. CASE z.r = "ok"
    <2>1. PICK q : q = StmtOn("DECLARE", t)
      OBVIOUS
    <2>2. PICK v \in Exec(z, q) : y \in FetchAll(v, t, wanted)
      BY <1>2, <1>6, <2>1 DEF Declared, Failed
    <2>3. Does(A, T, q)
      BY <2>1, QueryTypes
    <2>4. Confined(b, A, T, v) /\ v.l.trans \in {0, m} /\ v.gone = FALSE /\ v.r \in {"ok", "err", "crash"}
      <3>1. Confined(b, A, T, v) /\ v.l.trans \in {0, z.l.trans} /\ v.gone = z.gone /\ v.r # "lost"
        BY <1>3, <2>2, <2>3, ConfinedExec
      <3> QED  BY <1>3, <1>6, <3>1 DEF Confined, Calls
    <2>5. CASE v.r # "ok"
      BY <1>0, <1>5, <2>2, <2>4, <2>5 DEF FetchAll, Failed
    <2>6. CASE v.r = "ok"
      <3>1. PICK p : p = StmtOn("FETCH", t)
        OBVIOUS
      <3>2. PICK w \in PQexec(v, p) : y \in OrLeave([OrStateError(w) EXCEPT !.rows = Seen(w) \cap wanted])
        BY <2>2, <2>6, <3>1 DEF FetchAll, Failed
      <3>3. Does(A, T, p)
        BY <3>1, QueryTypes
      <3>4. Confined(b, A, T, w) /\ w.l.trans \in {0, m} /\ w.gone = FALSE
        <4>1. AfterQuery(v, p, w)
          BY <2>4, <3>2, <3>3, PQexecGood DEF Confined, Does
        <4> QED  BY <2>4, <3>3, <4>1, ConfinedQuery
      <3>5. PICK e : e = OrStateError(w)
        OBVIOUS
      <3>6. WithResult(w, e.r, e) /\ e.r \in {"ok", "err", "crash"}
        BY <3>4, <3>5, OrStateErrorFields DEF Confined
      <3>7. Confined(b, A, T, e) /\ e.l = w.l /\ e.gone = FALSE
        BY <3>4, <3>6, ConfinedResult
      <3>8. PICK k, s : k = [e EXCEPT !.rows = s] /\ s = Seen(w) \cap wanted
        OBVIOUS
      <3>9. RowsSet(e, s, k)
        <4>1. s \in SUBSET PgRecords /\ e \in Calls
          BY <3>7, <3>8 DEF Confined
        <4> QED  BY <3>8, <4>1, RowsFields
      <3>10. Confined(b, A, T, k) /\ k.l.trans \in {0, m} /\ k.gone = FALSE /\ k.r \in {"ok", "err", "crash"} /\ k.rows \subseteq wanted
        BY <3>4, <3>6, <3>7, <3>8, <3>9 DEF RowsSet, Confined
      <3>11. y \in OrLeave(k)
        BY <3>2, <3>5, <3>8
      <3>12. CASE k.r = "ok"
        BY <1>0, <3>10, <3>11, <3>12 DEF OrLeave, Failed, MainRead
      <3>13. CASE k.r # "ok"
        BY <1>0, <1>5, <3>10, <3>11, <3>13 DEF OrLeave, Failed
      <3> QED  BY <3>12, <3>13
    <2> QED  BY <2>5, <2>6
  <1> QED  BY <1>4, <1>6

LEMMA MainReadEnds ==
  ASSUME NEW b, NEW A, NEW T, NEW x, Confined(b, A, T, x), x.r = "ok", x.gone = FALSE,
         NEW t \in Tables, NEW y \in ReadEnd(x, t)
  PROVE  /\ Confined(b, A, T, y) /\ y.r \in {"ok", "crash"}
         /\ y.r # "crash" => y.l.trans \in {0, LeftTo(x.l.trans)}
  <1>0. x \in Calls /\ x.l.trans \in Nat
    BY DEF Confined, Calls, PgLinks
  <1>1. PICK q, k : q = StmtOn("CLOSE", t) /\ k = Ok(x)
    OBVIOUS
  <1>2. PICK z \in Exec(x, q) : y \in LeaveTrans(IF z.r = "crash" THEN z ELSE [z EXCEPT !.r = k.r])
    BY <1>1 DEF ReadEnd, Keeping
  <1>3. OkSo(x, k)
    BY <1>0, <1>1, OkFields
  <1>4. Does(A, T, q)
    BY <1>1, QueryTypes
  <1>5. Confined(b, A, T, z) /\ z.l.trans \in {0, x.l.trans} /\ z.gone = FALSE
    BY <1>2, <1>4, ConfinedExec
  <1>6. PICK v : v = IF z.r = "crash" THEN z ELSE [z EXCEPT !.r = k.r]
    OBVIOUS
  <1>7. Confined(b, A, T, v) /\ v.l = z.l /\ v.gone = z.gone /\ v.r \in {"crash", k.r}
    BY <1>3, <1>5, <1>6, ConfinedKeeping DEF OkSo
  <1>8. y \in LeaveTrans(v)
    BY <1>2, <1>6
  <1>9. PICK n : n = x.l.trans
    OBVIOUS
  <1>10. Confined(b, A, T, y) /\ y.r \in {"crash", v.r} /\ (y.r # "crash" => y.l.trans \in {0, LeftTo(n)})
    <2>1. v.gone = FALSE /\ n \in Nat /\ v.l.trans \in {0, n}
      BY <1>0, <1>5, <1>7, <1>9
    <2> QED  BY <1>7, <1>8, <2>1, ConfinedLeave
  <1> QED  BY <1>3, <1>7, <1>9, <1>10 DEF OkSo

LEMMA MainDeletes ==
  ASSUME NEW b, NEW A, NEW T, NEW x, Confined(b, A, T, x), NEW s \in SUBSET PgRecords, \A d \in s : d.id \in T,
         NEW y \in Delete(x, s)
  PROVE  Confined(b, A, T, y) /\ y.l.trans \in {0, x.l.trans} /\ y.r # "lost"
  <1>1. PICK q : q = StmtWith("DELETE", s)
    OBVIOUS
  <1>2. q \in Queries /\ q.do = "DELETE" /\ q.rows = s
    BY <1>1, QueryTypes
  <1>3. Does(A, T, q) /\ y \in Exec(x, q)
    BY <1>1, <1>2 DEF Does, Delete
  <1> QED  BY <1>3, ConfinedExec

-----------------------------------------------------------------------------
(***************************************************************************)
(* The connection of a saver: it never nests its transaction.              *)
(***************************************************************************)
SaverLink(l) ==
  /\ LinkWell(l) /\ l.trans \in {NotInTrans, InTrans}
  /\ l.trans = NotInTrans => l.block = "none"
  /\ l.trans = InTrans /\ l.up = TRUE => l.block # "none"

(* A statement of the transaction, up to the end of the transaction        *)
(* itself.                                                                 *)
Within(x) == x \in Calls /\ SaverLink(x.l) /\ x.l.trans = InTrans

Ended(y) == /\ LinkWell(y.l) /\ y.l.trans \in {NotInTrans, InTrans} /\ y.l.block = "none"

AfterStatement(x, q, y) ==
  /\ y \in Calls /\ y.r \in {"ok", "err"} /\ y.gone = x.gone
  /\ BaseAfter(x, q, y)
  /\ q.do # "COMMIT" => y.base = x.base
  /\ q.do \in {"COMMIT", "ROLLBACK"} => Ended(y)
  /\ y.r # "ok" \/ q.do \notin {"COMMIT", "ROLLBACK"} => SaverLink(y.l)
  /\ y.r # "ok" => y.l.pend \in {NoChanges, x.l.pend}
  /\ y.r = "ok" => AfterQuery(x, q, y) /\ y.l.up = TRUE /\ x.l.up = TRUE

QueryWithin(x, q, y) ==
  /\ q.do # "COMMIT" => y.base = x.base
  /\ q.do \in {"COMMIT", "ROLLBACK"} => Ended(y)
  /\ q.do \notin {"COMMIT", "ROLLBACK"} => SaverLink(y.l)
  /\ y.r # "ok" => y.l.pend \in {NoChanges, x.l.pend}
  /\ y.r # "lost" => y.l.up = TRUE /\ x.l.up = TRUE
  /\ y.r = "lost" => y.l.block = "none" /\ y.l.pend = NoChanges /\ y.l.up = FALSE
  /\ y.l.trans = InTrans

LEMMA SaverQuery ==
  ASSUME NEW x, Within(x), NEW q \in Queries, q.do # "BEGIN", NEW y, AfterQuery(x, q, y)
  PROVE  QueryWithin(x, q, y)
  <1>1. x.l.up \in BOOLEAN /\ y.l.up \in BOOLEAN /\ y.l.trans = InTrans /\ LinkWell(y.l) /\ LinkWell(x.l)
    BY DEF Within, SaverLink, AfterQuery, LinkAfter, Calls, PgLinks
  <1>2. y.r # "lost" => y.l.up = TRUE /\ x.l.up = TRUE
    BY <1>1 DEF AfterQuery
  <1>3. y.r = "lost" => y.l.block = "none" /\ y.l.pend = NoChanges /\ y.l.up = FALSE
    BY <1>1 DEF AfterQuery, LinkWell
  <1>4. x.l.up = TRUE => x.l.block # "none"
    BY DEF Within, SaverLink
  <1>5. q.do # "COMMIT" => y.base = x.base
    BY <1>1, <1>4 DEF AfterQuery, BaseAfter
  <1>6. q.do \in {"COMMIT", "ROLLBACK"} => Ended(y)
    BY <1>1 DEF AfterQuery, LinkAfter, Ended
  <1>7. q.do \notin {"COMMIT", "ROLLBACK"} => SaverLink(y.l)
    <2>1. InTrans # NotInTrans
      BY DEF InTrans, NotInTrans
    <2> QED  BY <1>1, <1>2, <1>3, <1>4, <2>1 DEF AfterQuery, LinkAfter, SaverLink
  <1>8. y.r # "ok" => y.l.pend \in {NoChanges, x.l.pend}
    BY DEF AfterQuery, LinkAfter
  <1> QED  BY <1>1, <1>2, <1>3, <1>5, <1>6, <1>7, <1>8 DEF QueryWithin

LEMMA SaverExec ==
  ASSUME NEW x, Within(x), NEW q \in Queries, q.do # "BEGIN", NEW y \in Exec(x, q)
  PROVE  AfterStatement(x, q, y)
  <1>1. AfterExec(x, q, y) /\ y \in Calls /\ y.r # "lost"
    <2>1. x \in Calls /\ LinkWell(x.l)
      BY DEF Within, SaverLink
    <2>2. AfterExec(x, q, y)
      BY <2>1, ExecGood
    <2> QED  BY <2>2 DEF AfterExec
  <1>2. InTrans # NotInTrans
    BY DEF InTrans, NotInTrans
  <1>3. CASE AfterQuery(x, q, y)
    <2>1. /\ q.do # "COMMIT" => y.base = x.base
          /\ q.do \in {"COMMIT", "ROLLBACK"} => Ended(y)
          /\ q.do \notin {"COMMIT", "ROLLBACK"} => SaverLink(y.l)
          /\ y.r # "ok" => y.l.pend \in {NoChanges, x.l.pend}
          /\ y.l.up = TRUE /\ x.l.up = TRUE
      BY <1>1, <1>3, SaverQuery DEF QueryWithin
    <2>2. q.do \in {"COMMIT", "ROLLBACK"} => y.r = "ok"
      BY <1>1, <1>3 DEF AfterQuery, LinkAfter
    <2> QED  BY <1>1, <1>3, <2>1, <2>2 DEF AfterQuery, AfterStatement
  <1>4. ASSUME NEW z \in Calls, LostBy(x, q, z), SameSession(z, y), y.r = "err",
               y.l.trans = NotInTrans \/ (y.l.trans = InTrans /\ y.l.up = FALSE)
        PROVE  AfterStatement(x, q, y)
    <2>1. /\ q.do # "COMMIT" => z.base = x.base
          /\ z.l.block = "none" /\ z.l.pend = NoChanges /\ z.gone = x.gone /\ BaseAfter(x, q, z)
      <3>1. AfterQuery(x, q, z) /\ z.r = "lost"
        BY <1>4 DEF LostBy
      <3>2. QueryWithin(x, q, z)
        BY <3>1, SaverQuery
      <3> QED  BY <3>1, <3>2 DEF AfterQuery, QueryWithin
    <2>2. y.base = z.base /\ y.l.block = "none" /\ y.l.pend = NoChanges /\ y.gone = x.gone
      BY <1>4, <2>1 DEF SameSession
    <2>3. BaseAfter(x, q, y)
      BY <1>4, <2>1, <2>2 DEF BaseAfter
    <2>4. SaverLink(y.l) /\ Ended(y)
      BY <1>2, <1>4, <2>2 DEF SaverLink, LinkWell, Ended
    <2> QED  BY <1>1, <1>4, <2>1, <2>2, <2>3, <2>4 DEF AfterStatement
  <1>5. CASE Unconnected(x, q, y)
    <2>1. PICK z \in Calls : LostBy(x, q, z) /\ SameSession(z, y) /\ y.r = "err" /\ y.l.up = z.l.up /\ y.l.trans = z.l.trans
      BY <1>5 DEF Unconnected
    <2>2. z.l.up = FALSE /\ z.l.trans = InTrans
      BY <2>1, SaverQuery DEF LostBy, QueryWithin
    <2> QED  BY <1>4, <2>1, <2>2
  <1>6. CASE Forgotten(x, q, y)
    BY <1>4, <1>6 DEF Forgotten
  <1>7. ~Repeated(x, q, y)
    BY <1>2 DEF Repeated, Within
  <1> QED  BY <1>1, <1>3, <1>5, <1>6, <1>7 DEF AfterExec

(* Nothing has changed, unless the transaction is gone.                    *)
Quiet(x, y) == /\ y \in Calls /\ SaverLink(y.l) /\ y.base = x.base /\ y.l.pend \in {NoChanges, x.l.pend}

LEMMA SaverLeaves ==
  ASSUME NEW x \in Calls, x.l.trans \in {NotInTrans, InTrans}, NEW y \in LeaveTrans(x)
  PROVE  y = x
  BY DEF LeaveTrans, NotInTrans, InTrans, InTempTrans

LEMMA SaverEnters ==
  ASSUME NEW x, Within(x), NEW y \in EnterTrans(x)
  PROVE  OkSo(x, y)
  <1>1. y = Ok(x)
    BY DEF EnterTrans, Within, NotInTrans, InTrans, InTempTrans
  <1> QED  BY <1>1, OkFields DEF Within

LEMMA SaverReads ==
  ASSUME NEW x, Within(x), x.l.pend = NoChanges,
         NEW t \in Tables, NEW wanted \in SUBSET PgRecords, NEW y \in ReadStart(x, t, wanted)
  PROVE  Quiet(x, y) /\ y.r # "lost" /\ (y.r = "ok" => y.l.trans = InTrans /\ y.rows \subseteq (wanted \cap y.base))
  <1>1. PICK z \in EnterTrans(x) : y \in Declared(z, t, wanted)
    BY DEF ReadStart
  <1>2. z.r = "ok" /\ Within(z) /\ z.base = x.base /\ z.l = x.l
    BY <1>1, SaverEnters DEF OkSo, Within
  <1>3. PICK q, p : q = StmtOn("DECLARE", t) /\ p = StmtOn("FETCH", t)
    OBVIOUS
  <1>4. q \in Queries /\ q.do = "DECLARE" /\ p \in Queries /\ p.do = "FETCH"
    BY <1>3, QueryTypes
  <1>5. PICK v \in Exec(z, q) : y \in FetchAll(v, t, wanted)
    BY <1>1, <1>2, <1>3 DEF Declared, Failed
  <1>6. AfterStatement(z, q, v) /\ v \in Calls
    <2>1. AfterStatement(z, q, v)
      BY <1>2, <1>4, <1>5, SaverExec
    <2> QED  BY <2>1 DEF AfterStatement
  <1>7. Quiet(x, v)
    <2>1. v.l.pend \in {NoChanges, x.l.pend}
      BY <1>2, <1>4, <1>6 DEF AfterStatement, AfterQuery, LinkAfter
    <2> QED  BY <1>2, <1>4, <1>6, <2>1 DEF AfterStatement, Quiet
  <1>8. CASE v.r # "ok"
    <2>1. y \in LeaveTrans(v)
      BY <1>5, <1>8 DEF FetchAll, Failed
    <2>2. y = v
      BY <1>6, <1>7, <2>1, SaverLeaves DEF Quiet, SaverLink
    <2> QED  BY <1>6, <1>7, <1>8, <2>2 DEF AfterStatement
  <1>9. CASE v.r = "ok"
    <2>1. Within(v)
      BY <1>2, <1>6, <1>7, <1>9 DEF Within, Quiet, AfterStatement, AfterQuery, LinkAfter
    <2>2. PICK w \in PQexec(v, p) : y \in OrLeave([OrStateError(w) EXCEPT !.rows = Seen(w) \cap wanted])
      BY <1>3, <1>5, <1>9 DEF FetchAll, Failed
    <2>3. AfterQuery(v, p, w) /\ w \in Calls
      <3>1. v \in Calls /\ LinkWell(v.l)
        BY <2>1 DEF Within, SaverLink
      <3>2. AfterQuery(v, p, w)
        BY <1>4, <2>2, <3>1, PQexecGood
      <3> QED  BY <3>2 DEF AfterQuery
    <2>4. w.base = v.base /\ SaverLink(w.l) /\ w.l.trans = InTrans
      BY <1>4, <2>1, <2>3, SaverQuery DEF QueryWithin
    <2>5. w.l.pend \in {NoChanges, x.l.pend}
      BY <1>4, <1>7, <2>3 DEF AfterQuery, LinkAfter, Quiet
    <2>6. PICK e : e = OrStateError(w)
      OBVIOUS
    <2>7. WithResult(w, e.r, e) /\ e.r \in {"ok", "err", "crash"}
      BY <2>3, <2>6, OrStateErrorFields
    <2>8. PICK k, s : k = [e EXCEPT !.rows = s] /\ s = Seen(w) \cap wanted
      OBVIOUS
    <2>9. s \in SUBSET PgRecords /\ s \subseteq (wanted \cap w.base)
      <3>1. Seen(w) = (w.base \ w.l.pend.del) \cup w.l.pend.add
        BY <2>3, SeenType
      <3>2. w.l.pend.add = {}
        BY <2>5, NoChangesType
      <3> QED  BY <2>8, <3>1, <3>2
    <2>10. RowsSet(e, s, k)
      BY <2>7, <2>8, <2>9, RowsFields DEF WithResult
    <2>11. Quiet(x, k) /\ k.l.trans = InTrans /\ k.r # "lost" /\ k.rows \subseteq (wanted \cap k.base)
      BY <1>7, <2>4, <2>5, <2>7, <2>9, <2>10 DEF RowsSet, WithResult, Quiet
    <2>12. y \in OrLeave(k)
      BY <2>2, <2>6, <2>8
    <2>13. y = k
      <3>1. CASE k.r = "ok"
        BY <2>12, <3>1 DEF OrLeave, Failed
      <3>2. CASE k.r # "ok"
        <4>1. y \in LeaveTrans(k) /\ k \in Calls
          BY <2>11, <2>12, <3>2 DEF OrLeave, Failed, Quiet
        <4> QED  BY <2>11, <4>1, SaverLeaves
      <3> QED  BY <3>1, <3>2
    <2> QED  BY <2>11, <2>13
  <1> QED  BY <1>8, <1>9

LEMMA SaverReadEnds ==
  ASSUME NEW x, Within(x), x.l.pend = NoChanges, NEW t \in Tables, NEW y \in ReadEnd(x, t)
  PROVE  Quiet(x, y)
  <1>1. PICK q, k : q = StmtOn("CLOSE", t) /\ k = Ok(x)
    OBVIOUS
  <1>2. PICK z \in Exec(x, q) : y \in LeaveTrans(IF z.r = "crash" THEN z ELSE [z EXCEPT !.r = k.r])
    BY <1>1 DEF ReadEnd, Keeping
  <1>3. OkSo(x, k)
    BY <1>1, OkFields DEF Within
  <1>4. q \in Queries /\ q.do = "CLOSE"
    BY <1>1, QueryTypes
  <1>5. AfterStatement(x, q, z)
    BY <1>2, <1>4, SaverExec
  <1>6. Quiet(x, z)
    <2>1. z.l.pend \in {NoChanges, x.l.pend}
      BY <1>4, <1>5 DEF AfterStatement, AfterQuery, LinkAfter
    <2> QED  BY <1>4, <1>5, <2>1 DEF AfterStatement, Quiet
  <1>7. PICK v, r : v = [z EXCEPT !.r = r] /\ r = "ok"
    OBVIOUS
  <1>8. WithResult(z, r, v)
    BY <1>6, <1>7, ResultFields DEF Quiet
  <1>9. Quiet(x, v)
    BY <1>6, <1>8 DEF WithResult, Quiet
  <1>10. y \in LeaveTrans(v)
    BY <1>2, <1>3, <1>5, <1>7 DEF AfterStatement, OkSo
  <1>11. y = v
    BY <1>9, <1>10, SaverLeaves DEF Quiet, SaverLink
  <1> QED  BY <1>9, <1>11

-----------------------------------------------------------------------------
(* A record is dropped, or written, in the transaction.                    *)
Dropped(x, s, y) ==
  /\ y \in Calls /\ SaverLink(y.l) /\ y.base = x.base /\ y.r # "lost"
  /\ y.r # "ok" => y.l.pend \in {NoChanges, x.l.pend}
  /\ y.r = "ok" => /\ y.l.trans = InTrans /\ y.l.up = TRUE /\ y.l.block = "open"
                   /\ y.l.pend.add = x.l.pend.add \ (s \cap Seen(x))
                   /\ y.l.pend.del = x.l.pend.del \cup (s \cap Seen(x))

LEMMA SaverDeletes ==
  ASSUME NEW x, Within(x), NEW s \in SUBSET PgRecords, NEW y \in Delete(x, s)
  PROVE  Dropped(x, s, y)
  <1>1. PICK q : q = StmtWith("DELETE", s)
    OBVIOUS
  <1>2. q \in Queries /\ q.do = "DELETE" /\ q.rows = s
    BY <1>1, QueryTypes
  <1>3. AfterStatement(x, q, y)
    <2>1. y \in Exec(x, q)
      BY <1>1 DEF Delete
    <2> QED  BY <1>2, <2>1, SaverExec
  <1>4. CASE y.r = "ok"
    <2>1. AfterQuery(x, q, y) /\ y.l.up = TRUE /\ x.l.up = TRUE
      BY <1>3, <1>4 DEF AfterStatement
    <2>2. x.l.block # "none" /\ y.l.trans = InTrans
      BY <2>1 DEF Within, SaverLink, AfterQuery, LinkAfter
    <2>3. /\ y.l.block = "open"
          /\ y.l.pend.add = (x.l.pend.add \ Removed(x, q)) \cup Added(q)
          /\ y.l.pend.del = x.l.pend.del \cup Removed(x, q)
      BY <1>2, <1>4, <2>1, <2>2 DEF AfterQuery, LinkAfter
    <2>4. Removed(x, q) = s \cap Seen(x) /\ Added(q) = {}
      BY <1>2 DEF Removed, Added
    <2> QED  BY <1>2, <1>3, <1>4, <2>1, <2>2, <2>3, <2>4 DEF Dropped, AfterStatement
  <1>5. CASE y.r # "ok"
    BY <1>2, <1>3, <1>5 DEF Dropped, AfterStatement
  <1> QED  BY <1>4, <1>5

Written(x, s, y) ==
  /\ y \in Calls /\ y.base = x.base /\ y.r # "lost" /\ SaverLink(y.l)
  /\ y.r # "ok" => y.l.pend \in {NoChanges, x.l.pend}
  /\ y.r = "ok" => /\ y.l.trans = InTrans /\ y.l.block = "open"
                   /\ y.l.pend.add = x.l.pend.add \cup s /\ y.l.pend.del = x.l.pend.del

LEMMA SaverWrites ==
  ASSUME NEW x, Within(x), NEW s \in SUBSET PgRecords, NEW y \in Write(x, s)
  PROVE  Written(x, s, y)
  <1>1. PICK z \in EnterTrans(x) : y \in Inserted(z, s)
    BY DEF Write
  <1>2. z.r = "ok" /\ Within(z) /\ z.base = x.base /\ z.l = x.l
    BY <1>1, SaverEnters DEF OkSo, Within
  <1>3. PICK q : q = StmtWith("INSERT", s)
    OBVIOUS
  <1>4. q \in Queries /\ q.do = "INSERT" /\ q.rows = s
    BY <1>3, QueryTypes
  <1>5. PICK w \in PQexec(z, q) : y \in LeaveTrans(OrStateError(w))
    BY <1>1, <1>2, <1>3 DEF Inserted, Failed
  <1>6. AfterQuery(z, q, w) /\ w \in Calls
    <2>1. z \in Calls /\ LinkWell(z.l)
      BY <1>2 DEF Within, SaverLink
    <2>2. AfterQuery(z, q, w)
      BY <1>4, <1>5, <2>1, PQexecGood
    <2> QED  BY <2>2 DEF AfterQuery
  <1>7. QueryWithin(z, q, w)
    BY <1>2, <1>4, <1>6, SaverQuery
  <1>8. PICK e : e = OrStateError(w)
    OBVIOUS
  <1>9. WithResult(w, e.r, e) /\ e.r \in {"ok", "err", "crash"} /\ (e.r = "ok" <=> w.r = "ok")
    BY <1>6, <1>8, OrStateErrorFields
  <1>10. e \in Calls /\ e.l = w.l /\ e.base = x.base /\ SaverLink(e.l) /\ e.l.trans = InTrans
    BY <1>2, <1>4, <1>7, <1>9 DEF WithResult, QueryWithin
  <1>11. y = e
    BY <1>5, <1>8, <1>10, SaverLeaves
  <1>12. CASE e.r = "ok"
    <2>1. z.l.block # "none" /\ w.r = "ok"
      BY <1>2, <1>7, <1>9, <1>12 DEF QueryWithin, Within, SaverLink
    <2>2. /\ w.l.block = "open"
          /\ w.l.pend.add = (z.l.pend.add \ Removed(z, q)) \cup Added(q)
          /\ w.l.pend.del = z.l.pend.del \cup Removed(z, q)
      BY <1>4, <1>6, <2>1 DEF AfterQuery, LinkAfter
    <2>3. Removed(z, q) = {} /\ Added(q) = s
      BY <1>4 DEF Removed, Added
    <2> QED  BY <1>2, <1>10, <1>11, <1>12, <2>2, <2>3 DEF Written
  <1>13. CASE e.r # "ok"
    <2>1. w.l.pend \in {NoChanges, z.l.pend}
      BY <1>7, <1>9, <1>13 DEF QueryWithin
    <2> QED  BY <1>2, <1>9, <1>10, <1>11, <1>13, <2>1 DEF Written
  <1> QED  BY <1>12, <1>13

(* The beginning and the end of the transaction.                           *)
Begun(x, y) == Quiet(x, y) /\ y.r # "lost" /\ (y.r = "ok" => y.l.trans = InTrans)

LEMMA SaverBegins ==
  ASSUME NEW x \in Calls, SaverLink(x.l), x.l.block = "none", NEW y \in TransactionBegin(x)
  PROVE  Begun(x, y)
  <1>1. LinkWell(x.l) /\ x.l.pend = NoChanges /\ x.l.trans \in {NotInTrans, InTrans}
    BY DEF SaverLink, LinkWell
  <1>2. CASE x.l.trans # NotInTrans
    <2>1. y = [x EXCEPT !.r = "err"]
      BY <1>2 DEF TransactionBegin
    <2>2. WithResult(x, "err", y)
      BY <2>1, ResultFields
    <2> QED  BY <2>2 DEF WithResult, Begun, Quiet
  <1>3. CASE x.l.trans = NotInTrans
    <2>1. PICK q : q = Stmt("BEGIN")
      OBVIOUS
    <2>2. q \in Queries /\ q.do = "BEGIN"
      BY <2>1, QueryTypes
    <2>3. PICK z \in Exec(x, q) : y = IF Failed(z) THEN z ELSE SetTrans(z, InTrans)
      BY <1>3, <2>1 DEF TransactionBegin
    <2>4. AfterExec(x, q, z) /\ z \in Calls /\ z.r # "lost"
      <3>1. AfterExec(x, q, z)
        BY <1>1, <2>2, <2>3, ExecGood
      <3> QED  BY <3>1 DEF AfterExec
    <2>5. ASSUME NEW v \in Calls, LinkWell(v.l), v.l.block = "none", v.l.pend = NoChanges, v.base = x.base,
                 v.l.trans = NotInTrans, NEW w, AfterQuery(v, q, w)
          PROVE  /\ w.base = x.base /\ w.l.pend = NoChanges /\ w.l.trans = NotInTrans /\ LinkWell(w.l)
                 /\ w.r = "ok" => w.l.block = "open"
                 /\ w.r # "ok" => w.l.block = "none"
      <3>1. Added(q) = {} /\ Removed(v, q) = {}
        BY <2>2 DEF Added, Removed
      <3>2. w.base = x.base
        BY <2>2, <2>5, <3>1 DEF AfterQuery, BaseAfter
      <3> QED  BY <2>2, <2>5, <3>2 DEF AfterQuery, LinkAfter
    <2>6. /\ z.base = x.base /\ z.l.pend = NoChanges /\ z.l.trans = NotInTrans /\ LinkWell(z.l)
          /\ z.r = "ok" => z.l.block = "open"
          /\ z.r # "ok" => z.l.block = "none"
      <3>1. CASE AfterQuery(x, q, z)
        BY <1>1, <1>3, <2>5, <3>1
      <3>2. CASE Unconnected(x, q, z)
        <4>1. PICK v \in Calls : LostBy(x, q, v) /\ SameSession(v, z) /\ z.r = "err" /\ z.l.up = v.l.up /\ z.l.trans = v.l.trans
          BY <3>2 DEF Unconnected
        <4>2. /\ v.base = x.base /\ v.l.pend = NoChanges /\ v.l.trans = NotInTrans /\ LinkWell(v.l)
              /\ v.r = "ok" => v.l.block = "open"
              /\ v.r # "ok" => v.l.block = "none"
          BY <1>1, <1>3, <2>5, <4>1 DEF LostBy
        <4> QED  BY <4>1, <4>2 DEF LostBy, SameSession, LinkWell
      <3>3. CASE Forgotten(x, q, z)
        BY <1>3, <3>3 DEF Forgotten
      <3>4. CASE Repeated(x, q, z)
        <4>1. PICK k, v, w \in Calls :
                 /\ LostBy(x, q, k)
                 /\ SameSession(k, v) /\ v.l.trans = k.l.trans /\ LinkWell(v.l)
                 /\ AfterQuery(v, q, w) /\ z.base = w.base /\ z.l = w.l /\ z.gone = w.gone
                 /\ z.r = "ok" <=> w.r = "ok"
          BY <3>4 DEF Repeated
        <4>5. AfterQuery(x, q, k) /\ k.r = "lost"
          BY <4>1 DEF LostBy
        <4>2. k.base = x.base /\ k.l.pend = NoChanges /\ k.l.trans = NotInTrans /\ k.l.block = "none"
          BY <1>1, <1>3, <2>5, <4>5
        <4>3. v.l.block = "none" /\ v.l.pend = NoChanges /\ v.base = x.base /\ v.l.trans = NotInTrans /\ LinkWell(v.l)
          BY <4>1, <4>2 DEF SameSession
        <4>6. AfterQuery(v, q, w) /\ z.base = w.base /\ z.l = w.l /\ (z.r = "ok" <=> w.r = "ok")
          BY <4>1
        <4>4. /\ w.base = x.base /\ w.l.pend = NoChanges /\ w.l.trans = NotInTrans /\ LinkWell(w.l)
              /\ w.r = "ok" => w.l.block = "open"
              /\ w.r # "ok" => w.l.block = "none"
          BY <2>5, <4>3, <4>6
        <4> QED  BY <4>4, <4>6
      <3> QED  BY <2>4, <3>1, <3>2, <3>3, <3>4 DEF AfterExec
    <2>7. InTrans # NotInTrans /\ InTrans \in Nat
      BY DEF InTrans, NotInTrans
    <2>8. CASE z.r # "ok"
      <3>1. y = z
        BY <2>3, <2>8 DEF Failed
      <3> QED  BY <2>4, <2>6, <2>7, <2>8, <3>1 DEF Begun, Quiet, SaverLink
    <2>9. CASE z.r = "ok"
      <3>1. y = SetTrans(z, InTrans)
        BY <2>3, <2>9 DEF Failed
      <3>2. TransSet(z, InTrans, y)
        BY <2>4, <2>7, <3>1, TransFields
      <3>3. y \in Calls /\ y.base = x.base /\ y.l.block = "open" /\ y.l.pend = NoChanges /\ y.l.trans = InTrans /\ y.r = "ok"
            /\ y.l.up = z.l.up
        BY <2>6, <2>9, <3>2 DEF TransSet, SameSession
      <3>4. SaverLink(y.l)
        BY <2>6, <2>7, <2>9, <3>3 DEF SaverLink, LinkWell
      <3> QED  BY <3>3, <3>4 DEF Begun, Quiet
    <2> QED  BY <2>8, <2>9
  <1> QED  BY <1>2, <1>3

Finished(x, how, y) ==
  /\ y \in Calls /\ SaverLink(y.l) /\ y.r # "lost" /\ y.l.pend \in {NoChanges, x.l.pend}
  /\ how = "ROLLBACK" => y.base = x.base /\ y.l.block = "none"
  /\ y.base \in {x.base, Seen(x)}
  /\ y.r = "ok" => y.l.block = "none"
  /\ y.r = "ok" /\ how = "COMMIT" /\ x.l.block = "open" => y.base = Seen(x)

LEMMA SaverEnds ==
  ASSUME NEW x \in Calls, SaverLink(x.l), NEW how \in {"COMMIT", "ROLLBACK"}, NEW y \in TransactionEnd(x, how)
  PROVE  Finished(x, how, y)
  <1>1. CASE x.l.trans # InTrans
    <2>1. y = [x EXCEPT !.r = "err"]
      BY <1>1 DEF TransactionEnd
    <2>2. WithResult(x, "err", y)
      BY <2>1, ResultFields
    <2>3. x.l.block = "none"
      BY <1>1 DEF SaverLink
    <2> QED  BY <2>2, <2>3 DEF WithResult, Finished
  <1>2. CASE x.l.trans = InTrans
    <2>1. PICK q : q = Stmt(how)
      OBVIOUS
    <2>2. q \in Queries /\ q.do = how
      BY <2>1, QueryTypes
    <2>3. PICK z \in Exec(x, q) : y = IF Failed(z) THEN z ELSE SetTrans(z, NotInTrans)
      BY <1>2, <2>1 DEF TransactionEnd
    <2>4. AfterStatement(x, q, z)
      BY <1>2, <2>2, <2>3, SaverExec DEF Within
    <2>5. Ended(z) /\ z \in Calls /\ z.l.pend = NoChanges /\ z.r # "lost"
      BY <2>2, <2>4 DEF AfterStatement, Ended, LinkWell
    <2>6. /\ how = "ROLLBACK" => z.base = x.base
          /\ z.base \in {x.base, Seen(x)}
          /\ z.r = "ok" /\ how = "COMMIT" /\ x.l.block = "open" => z.base = Seen(x)
      BY <2>2, <2>4 DEF AfterStatement, BaseAfter
    <2>7. CASE z.r # "ok"
      <3>1. y = z
        BY <2>3, <2>7 DEF Failed
      <3>2. SaverLink(z.l)
        BY <2>4, <2>7 DEF AfterStatement
      <3> QED  BY <2>5, <2>6, <2>7, <3>1, <3>2 DEF Finished, Ended
    <2>8. CASE z.r = "ok"
      <3>1. y = SetTrans(z, NotInTrans) /\ NotInTrans \in Nat
        BY <2>3, <2>8 DEF Failed, NotInTrans
      <3>2. TransSet(z, NotInTrans, y)
        BY <2>5, <3>1, TransFields
      <3>3. y \in Calls /\ y.base = z.base /\ y.l.block = "none" /\ y.l.pend = NoChanges /\ y.l.trans = NotInTrans
            /\ y.r = "ok" /\ y.l.up = z.l.up
        BY <2>5, <2>8, <3>2 DEF TransSet, SameSession, Ended
      <3>4. SaverLink(y.l)
        <4>1. NotInTrans # InTrans
          BY DEF NotInTrans, InTrans
        <4> QED  BY <2>5, <3>3, <4>1 DEF SaverLink, LinkWell, Ended
      <3> QED  BY <2>6, <2>8, <3>3, <3>4 DEF Finished
    <2> QED  BY <2>7, <2>8
  <1> QED  BY <1>1, <1>2

-----------------------------------------------------------------------------
LEMMA ConfinedWrites ==
  ASSUME NEW b, NEW A, NEW T, NEW x, Confined(b, A, T, x), x.gone = FALSE,
         NEW s \in SUBSET PgRecords, s \subseteq A, NEW y \in Write(x, s)
  PROVE  Confined(b, A, T, y)
  <1>1. PICK z \in EnterTrans(x) : y \in Inserted(z, s)
    BY DEF Write
  <1>2. ConfinedIn(b, A, T, x, z)
    BY <1>1, ConfinedEnter
  <1>3. CASE z.r # "ok"
    BY <1>1, <1>2, <1>3 DEF Inserted, Failed, ConfinedIn
  <1>4. CASE z.r = "ok"
    <2>1. PICK q : q = StmtWith("INSERT", s)
      OBVIOUS
    <2>2. PICK w \in PQexec(z, q) : y \in LeaveTrans(OrStateError(w))
      BY <1>1, <1>4, <2>1 DEF Inserted, Failed
    <2>3. q \in Queries /\ q.do = "INSERT" /\ q.rows = s
      BY <2>1, QueryTypes
    <2>4. Does(A, T, q)
      BY <2>3 DEF Does
    <2>5. Confined(b, A, T, w) /\ w.gone = FALSE
      <3>1. AfterQuery(z, q, w)
        BY <1>2, <2>2, <2>3, PQexecGood DEF ConfinedIn, Confined
      <3> QED  BY <1>2, <1>4, <2>4, <3>1, ConfinedQuery DEF ConfinedIn
    <2>6. PICK e : e = OrStateError(w)
      OBVIOUS
    <2>7. WithResult(w, e.r, e)
      BY <2>5, <2>6, OrStateErrorFields DEF Confined
    <2>8. Confined(b, A, T, e) /\ e.gone = FALSE
      BY <2>5, <2>7, ConfinedResult
    <2>9. PICK n : n = e.l.trans
      OBVIOUS
    <2>10. n \in Nat /\ e.l.trans \in {0, n}
      BY <2>8, <2>9 DEF Confined, Calls, PgLinks
    <2>11. y \in LeaveTrans(e)
      BY <2>2, <2>6
    <2> QED  BY <2>8, <2>10, <2>11, ConfinedLeave
  <1> QED  BY <1>3, <1>4

LEMMA ConfinedBegins ==
  ASSUME NEW b, NEW A, NEW T, NEW x, Confined(b, A, T, x), NEW y \in TransactionBegin(x)
  PROVE  Confined(b, A, T, y)
  <1>1. CASE x.l.trans # NotInTrans
    <2>1. y = [x EXCEPT !.r = "err"]
      BY <1>1 DEF TransactionBegin
    <2>2. WithResult(x, "err", y)
      BY <2>1, ResultFields DEF Confined
    <2> QED  BY <2>2, ConfinedResult
  <1>2. CASE x.l.trans = NotInTrans
    <2>1. PICK q : q = Stmt("BEGIN")
      OBVIOUS
    <2>2. PICK z \in Exec(x, q) : y = IF Failed(z) THEN z ELSE SetTrans(z, InTrans)
      BY <1>2, <2>1 DEF TransactionBegin
    <2>3. Does(A, T, q)
      BY <2>1, QueryTypes
    <2>4. Confined(b, A, T, z)
      BY <2>2, <2>3, ConfinedExec
    <2>5. InTrans \in Nat
      BY DEF InTrans
    <2> QED  BY <2>2, <2>4, <2>5, ConfinedSet
  <1> QED  BY <1>1, <1>2

LEMMA ConfinedEnds ==
  ASSUME NEW b, NEW A, NEW T, NEW x, Confined(b, A, T, x), NEW how \in {"COMMIT", "ROLLBACK"},
         NEW y \in TransactionEnd(x, how)
  PROVE  Confined(b, A, T, y)
  <1>1. CASE x.l.trans # InTrans
    <2>1. y = [x EXCEPT !.r = "err"]
      BY <1>1 DEF TransactionEnd
    <2>2. WithResult(x, "err", y)
      BY <2>1, ResultFields DEF Confined
    <2> QED  BY <2>2, ConfinedResult
  <1>2. CASE x.l.trans = InTrans
    <2>1. PICK q : q = Stmt(how)
      OBVIOUS
    <2>2. PICK z \in Exec(x, q) : y = IF Failed(z) THEN z ELSE SetTrans(z, NotInTrans)
      BY <1>2, <2>1 DEF TransactionEnd
    <2>3. Does(A, T, q)
      BY <2>1, QueryTypes
    <2>4. Confined(b, A, T, z)
      BY <2>2, <2>3, ConfinedExec
    <2>5. NotInTrans \in Nat
      BY DEF NotInTrans
    <2> QED  BY <2>2, <2>4, <2>5, ConfinedSet
  <1> QED  BY <1>1, <1>2

(***************************************************************************)
(* The type of the state.                                                  *)
(***************************************************************************)
PgPlaces == {"start", "find", "found", "drop entry", "drop rows", "entry", "rows", "commit", "saved", "fail",
             "done", "fetch", "read"}
Results == [open : BOOLEAN, rows : SUBSET PgRecords]

SharedTypeOK(b, c, n, m) == /\ b \in SUBSET PgRecords /\ c \in [Savers \cup {Main} -> PgLinks]
                            /\ \A k \in Savers \cup {Main} : LinkWell(c[k])
                            /\ n \in Nat /\ m \in Nat
PgTypeOK ==
  /\ SharedTypeOK(base, links, lost, refused)
  /\ pgPc \in [Users -> PgPlaces] /\ pgName \in [Users -> PgNames] /\ pgId \in [Users -> Nat]
  /\ readRes \in [Users -> Results]
  /\ ids \in 0 .. MaxIds /\ abandoned \in BOOLEAN /\ pgCrashed \in BOOLEAN

LEMMA LinkOf ==
  ASSUME NEW u \in Users
  PROVE  /\ Link(u) \in Savers \cup {Main}
         /\ u \in Savers => Link(u) = u /\ u # Main
         /\ u \notin Savers => Link(u) = Main
         /\ u \in Loaders \cup Deleters => u \notin Savers
  BY PostgresAssumption DEF Link, Main

CallOf(u, x) == /\ x \in Calls /\ LinkWell(x.l) /\ x.base = base /\ x.l = links[Link(u)]
                /\ x.lost = lost /\ x.refused = refused /\ x.r = "ok" /\ x.gone = FALSE

LEMMA CallFields ==
  ASSUME PgTypeOK, NEW u \in Users, NEW x, x = Call(u)
  PROVE  CallOf(u, x)
  <1>1. links[Link(u)] \in PgLinks /\ LinkWell(links[Link(u)]) /\ base \in SUBSET PgRecords /\ lost \in Nat /\ refused \in Nat
    BY LinkOf DEF PgTypeOK, SharedTypeOK
  <1>2. {} \in SUBSET PgRecords
    OBVIOUS
  <1> QED  BY <1>1, <1>2 DEF Call, Calls, CallOf

(* Any call keeps the types; nothing of it is excluded by A and T.         *)
LEMMA CallAffects ==
  ASSUME NEW u, NEW x, CallOf(u, x), NEW A, NEW T, x.l.pend.add \subseteq A, \A d \in x.l.pend.del : d.id \in T
  PROVE  Confined(base, A, T, x)
  BY DEF CallOf, Confined

LEMMA EffectTypes ==
  ASSUME PgTypeOK, NEW u \in Users, NEW x \in Calls, LinkWell(x.l), Effect(u, x)
  PROVE  /\ SharedTypeOK(base', links', lost', refused') /\ pgCrashed' \in BOOLEAN
         /\ base' = x.base /\ links' = [links EXCEPT ![Link(u)] = x.l] /\ links'[Link(u)] = x.l
         /\ \A k \in (Savers \cup {Main}) \ {Link(u)} : links'[k] = links[k]
         /\ pgCrashed' = (x.r = "crash")
  <1>1. x.base \in SUBSET PgRecords /\ x.l \in PgLinks /\ x.lost \in Nat /\ x.refused \in Nat
    BY DEF Calls
  <1>2. Link(u) \in Savers \cup {Main}
    BY LinkOf
  <1>3. /\ base' = x.base /\ links' = [links EXCEPT ![Link(u)] = x.l] /\ lost' = x.lost /\ refused' = x.refused
        /\ pgCrashed' = (x.r = "crash")
    BY DEF Effect
  <1>4. /\ links'[Link(u)] = x.l
        /\ \A k \in (Savers \cup {Main}) \ {Link(u)} : links'[k] = links[k]
        /\ links' \in [Savers \cup {Main} -> PgLinks]
    BY <1>1, <1>2, <1>3 DEF PgTypeOK, SharedTypeOK
  <1>5. \A k \in Savers \cup {Main} : LinkWell(links'[k])
    BY <1>2, <1>4 DEF PgTypeOK, SharedTypeOK
  <1>6. SharedTypeOK(base', links', lost', refused')
    BY <1>1, <1>3, <1>4, <1>5 DEF SharedTypeOK
  <1>7. pgCrashed' \in BOOLEAN
    BY <1>3
  <1> QED  BY <1>3, <1>4, <1>6, <1>7

-----------------------------------------------------------------------------
LEMMA RecordTypes ==
  /\ \A n \in PgNames, i \in Nat : Entry(n, i) \in PgRecords /\ Entry(n, i).table = "list" /\ Entry(n, i).id = i
  /\ \A n \in PgRows, i \in Nat : Row(n, i) \in PgRecords /\ Row(n, i).table = "config" /\ Row(n, i).id = i
  /\ \A d \in PgRecords : d.id \in Nat /\ d.table \in Tables
  BY DEF Entry, Row, PgRecords, Tables

EntriesOf(n) == {Entry(n, i) : i \in 1 .. MaxIds}
AllRows(i) == {Row(r, i) : r \in PgRows}

LEMMA RowSets ==
  /\ \A n \in PgNames : EntriesOf(n) \in SUBSET PgRecords /\ \A d \in EntriesOf(n) : d.id \in 1 .. MaxIds /\ d = Entry(n, d.id)
  /\ \A i \in Nat : AllRows(i) \in SUBSET PgRecords /\ \A d \in AllRows(i) : d.id = i
  <1>1. \A n \in PgNames : EntriesOf(n) \in SUBSET PgRecords /\ \A d \in EntriesOf(n) : d.id \in 1 .. MaxIds /\ d = Entry(n, d.id)
    <2>1. SUFFICES ASSUME NEW n \in PgNames, NEW d \in EntriesOf(n)
                   PROVE  d \in PgRecords /\ d.id \in 1 .. MaxIds /\ d = Entry(n, d.id)
      OBVIOUS
    <2>2. PICK i \in 1 .. MaxIds : d = Entry(n, i)
      BY DEF EntriesOf
    <2>3. i \in Nat
      BY PostgresAssumption
    <2> QED  BY <2>2, <2>3, RecordTypes
  <1>2. \A i \in Nat : AllRows(i) \in SUBSET PgRecords /\ \A d \in AllRows(i) : d.id = i
    BY RecordTypes DEF AllRows
  <1> QED  BY <1>1, <1>2

(* The outcomes of a call are of the type.                                 *)
Typed(y) == y \in Calls /\ LinkWell(y.l)

LEMMA OutcomesTyped ==
  ASSUME PgTypeOK, NEW u \in Users, NEW x, CallOf(u, x)
  PROVE  /\ \A y \in TransactionBegin(x) : Typed(y)
         /\ \A how \in {"COMMIT", "ROLLBACK"} : \A y \in TransactionEnd(x, how) : Typed(y)
         /\ \A t \in Tables, w \in SUBSET PgRecords : \A y \in ReadStart(x, t, w) : Typed(y) /\ (y.r = "ok" => y.rows \subseteq w)
         /\ \A t \in Tables : \A y \in ReadEnd(x, t) : Typed(y)
         /\ \A s \in SUBSET PgRecords : \A y \in Delete(x, s) : Typed(y)
         /\ \A s \in SUBSET PgRecords : \A y \in Write(x, s) : Typed(y)
  <1>1. PICK A, T, b : A = PgRecords /\ T = Nat /\ b = base
    OBVIOUS
  <1>2. Confined(b, A, T, x) /\ x.gone = FALSE /\ x.r = "ok"
    <2>1. x.l.pend.add \subseteq A /\ \A d \in x.l.pend.del : d.id \in T
      BY <1>1, RecordTypes DEF CallOf, Calls, PgLinks, Changes
    <2> QED  BY <1>1, <2>1, CallAffects DEF CallOf
  <1>3. \A y : Confined(b, A, T, y) => Typed(y)
    BY DEF Confined, Typed
  <1>4. \A y \in TransactionBegin(x) : Typed(y)
    BY <1>2, <1>3, ConfinedBegins
  <1>5. \A how \in {"COMMIT", "ROLLBACK"} : \A y \in TransactionEnd(x, how) : Typed(y)
    BY <1>2, <1>3, ConfinedEnds
  <1>6. ASSUME NEW t \in Tables, NEW w \in SUBSET PgRecords, NEW y \in ReadStart(x, t, w)
        PROVE  Typed(y) /\ (y.r = "ok" => y.rows \subseteq w)
    <2>1. MainRead(b, A, T, x.l.trans, w, y)
      BY <1>2, MainReads
    <2> QED  BY <1>3, <2>1 DEF MainRead
  <1>7. \A t \in Tables : \A y \in ReadEnd(x, t) : Typed(y)
    BY <1>2, <1>3, MainReadEnds
  <1>8. ASSUME NEW s \in SUBSET PgRecords, NEW y \in Delete(x, s) PROVE Typed(y)
    <2>1. \A d \in s : d.id \in T
      BY <1>1, RecordTypes
    <2> QED  BY <1>2, <1>3, <2>1, MainDeletes
  <1>9. ASSUME NEW s \in SUBSET PgRecords, NEW y \in Write(x, s) PROVE Typed(y)
    BY <1>1, <1>2, <1>3, ConfinedWrites
  <1> QED  BY <1>4, <1>5, <1>6, <1>7, <1>8, <1>9

(* A step that is a call: x before it, y after it.                         *)
Did(u, x, y) ==
  /\ CallOf(u, x) /\ Typed(y) /\ SharedTypeOK(base', links', lost', refused') /\ pgCrashed' \in BOOLEAN
  /\ base' = y.base /\ links'[Link(u)] = y.l
  /\ \A k \in (Savers \cup {Main}) \ {Link(u)} : links'[k] = links[k]
  /\ pgCrashed' = (y.r = "crash")

LEMMA EffectDid ==
  ASSUME PgTypeOK, NEW u \in Users, NEW x, CallOf(u, x), NEW y, Typed(y), Effect(u, y)
  PROVE  Did(u, x, y)
  BY EffectTypes DEF Typed, Did

WentTo(u, p) == pgPc' = [pgPc EXCEPT ![u] = p]

FoundStep(u, from, to, x, y) ==
  /\ PgAt(u, from) /\ Did(u, x, y) /\ y \in ReadStart(x, "list", EntriesOf(pgName[u]))
  /\ \/ y.r # "ok" /\ WentTo(u, "fail") /\ readRes' = readRes
     \/ /\ y.r = "ok" /\ WentTo(u, to) /\ y.rows \subseteq EntriesOf(pgName[u])
        /\ readRes' = [readRes EXCEPT ![u] = Result(y.rows)]

LEMMA FindEntryDoes ==
  ASSUME PgTypeOK, NEW u \in Users, NEW from, NEW to, FindEntry(u, from, to)
  PROVE  \E x, y : FoundStep(u, from, to, x, y)
  <1>1. PICK x, w : x = Call(u) /\ w = EntriesOf(pgName[u])
    OBVIOUS
  <1>2. PICK y \in ReadStart(x, "list", w) :
             /\ Effect(u, y)
             /\ IF Failed(y) THEN PgGoto(u, "fail") /\ UNCHANGED readRes
                ELSE PgGoto(u, to) /\ readRes' = [readRes EXCEPT ![u] = Result(y.rows)]
    BY <1>1 DEF FindEntry, EntriesOf
  <1>3. CallOf(u, x)
    BY <1>1, CallFields
  <1>4. w \in SUBSET PgRecords /\ "list" \in Tables
    BY <1>1, RowSets DEF PgTypeOK, Tables
  <1>5. Typed(y) /\ (y.r = "ok" => y.rows \subseteq w)
    BY <1>2, <1>3, <1>4, OutcomesTyped
  <1>6. Did(u, x, y)
    BY <1>2, <1>3, <1>5, EffectDid
  <1>7. FoundStep(u, from, to, x, y)
    BY <1>1, <1>2, <1>5, <1>6 DEF FindEntry, FoundStep, Failed, PgGoto, WentTo
  <1> QED  BY <1>7

(* The only row of a result, if it has one.                                *)
SingleStep(u, from, found, none, x, y) ==
  /\ PgAt(u, from) /\ Did(u, x, y) /\ y \in ReadEnd(x, "list")
  /\ \/ /\ WentTo(u, found)
        /\ \E d \in readRes[u].rows : pgId' = [pgId EXCEPT ![u] = d.id]
     \/ /\ pgId' = [pgId EXCEPT ![u] = 0]
        /\ (readRes[u].rows = {} /\ WentTo(u, none)) \/ WentTo(u, "fail")
  /\ tainted' = IF Unnoticed(u, y) THEN tainted \cup (0 .. MaxIds) ELSE tainted
  /\ readRes' = [readRes EXCEPT ![u] = NoResult]

LEMMA SingleFoundDoes ==
  ASSUME PgTypeOK, NEW u \in Users, NEW from, NEW found, NEW none, SingleFound(u, from, found, none)
  PROVE  \E x, y : SingleStep(u, from, found, none, x, y)
  <1>1. PICK x, rows : x = Call(u) /\ rows = readRes[u].rows
    OBVIOUS
  <1>2. PICK y \in ReadEnd(x, "list") :
          /\ Effect(u, y)
          /\ PgGoto(u, IF Cardinality(rows) = 1 THEN found ELSE IF rows = {} THEN none ELSE "fail")
          /\ pgId' = [pgId EXCEPT ![u] = IF Cardinality(rows) = 1 THEN (CHOOSE r \in rows : TRUE).id ELSE 0]
          /\ tainted' = IF Unnoticed(u, y) THEN tainted \cup (0 .. MaxIds) ELSE tainted
    BY <1>1 DEF SingleFound
  <1>3. CallOf(u, x)
    BY <1>1, CallFields
  <1>4. Typed(y)
    BY <1>2, <1>3, OutcomesTyped DEF Tables
  <1>5. Did(u, x, y)
    BY <1>2, <1>3, <1>4, EffectDid
  <1>6. PgAt(u, from) /\ readRes' = [readRes EXCEPT ![u] = NoResult]
    BY DEF SingleFound
  <1>7. CASE Cardinality(rows) = 1
    <2>1. rows # {}
      BY <1>7, FS_EmptySet
    <2>2. (CHOOSE r \in rows : TRUE) \in rows
      BY <2>1
    <2>3. PICK d \in rows : d = CHOOSE r \in rows : TRUE
      BY <2>2
    <2>4. pgId' = [pgId EXCEPT ![u] = d.id] /\ WentTo(u, found)
      BY <1>2, <1>7, <2>3 DEF PgGoto, WentTo
    <2>5. SingleStep(u, from, found, none, x, y)
      BY <1>1, <1>2, <1>5, <1>6, <2>4 DEF SingleStep
    <2> QED  BY <2>5
  <1>8. CASE Cardinality(rows) # 1
    <2>1. pgId' = [pgId EXCEPT ![u] = 0] /\ ((rows = {} /\ WentTo(u, none)) \/ WentTo(u, "fail"))
      BY <1>2, <1>8 DEF PgGoto, WentTo
    <2>2. SingleStep(u, from, found, none, x, y)
      BY <1>1, <1>2, <1>5, <1>6, <2>1 DEF SingleStep
    <2> QED  BY <2>2
  <1> QED  BY <1>7, <1>8

CallStep(u, good, bad, x, y) ==
  /\ Did(u, x, y)
  /\ \/ y.r = "ok" /\ WentTo(u, good)
     \/ y.r # "ok" /\ WentTo(u, bad)

LEMMA ReturnsDoes ==
  ASSUME PgTypeOK, NEW u \in Users, NEW x, x = Call(u), NEW S, \A y \in S : Typed(y),
         NEW good, NEW bad, Returns(u, S, good, bad)
  PROVE  \E y \in S : CallStep(u, good, bad, x, y)
  <1>1. PICK y \in S : Effect(u, y) /\ PgGoto(u, IF y.r = "ok" THEN good ELSE bad)
    BY DEF Returns
  <1>2. CallOf(u, x)
    BY CallFields
  <1>3. Did(u, x, y)
    BY <1>1, <1>2, EffectDid
  <1>4. CallStep(u, good, bad, x, y)
    BY <1>1, <1>3 DEF CallStep, PgGoto, WentTo
  <1> QED  BY <1>4

-----------------------------------------------------------------------------
Kept == readRes' = readRes /\ pgId' = pgId /\ tainted' = tainted

SaverStarts(u, x, y) == PgAt(u, "start") /\ y \in TransactionBegin(x) /\ CallStep(u, "find", "fail", x, y) /\ Kept /\ ids' = ids
SaverFinds(u, x, y) == FoundStep(u, "find", "found", x, y) /\ pgId' = pgId /\ tainted' = tainted /\ ids' = ids
SaverFound(u, x, y) == SingleStep(u, "found", "drop entry", "entry", x, y) /\ ids' = ids
DropsEntry(u, x, y) == /\ PgAt(u, "drop entry") /\ y \in Delete(x, {Entry(pgName[u], pgId[u])})
                       /\ CallStep(u, "drop rows", "fail", x, y) /\ Kept /\ ids' = ids
DropsRows(u, x, y) == /\ PgAt(u, "drop rows") /\ y \in Delete(x, AllRows(pgId[u]))
                      /\ CallStep(u, "entry", "fail", x, y) /\ Kept /\ ids' = ids
WritesEntry(u, x, y) == /\ PgAt(u, "entry") /\ ids < MaxIds /\ y \in Write(x, {Entry(pgName[u], ids + 1)})
                        /\ CallStep(u, "rows", "fail", x, y)
                        /\ ids' = ids + 1 /\ pgId' = [pgId EXCEPT ![u] = ids + 1] /\ readRes' = readRes /\ tainted' = tainted
WritesRow(u, x, y) ==
  /\ PgAt(u, "rows") /\ Kept /\ ids' = ids
  /\ \E r \in PgRows :
       /\ y \in Write(x, {Row(r, pgId[u])})
       /\ \/ /\ CallStep(u, "commit", "fail", x, y)
             /\ \A v \in PgRows : v = r \/ Row(v, pgId[u]) \in Seen(x)
          \/ CallStep(u, "rows", "fail", x, y)
Commits(u, x, y) == PgAt(u, "commit") /\ y \in TransactionEnd(x, "COMMIT") /\ CallStep(u, "saved", "fail", x, y) /\ Kept /\ ids' = ids
RollsBack(u, x, y) == PgAt(u, "fail") /\ y \in TransactionEnd(x, "ROLLBACK") /\ CallStep(u, "done", "done", x, y) /\ Kept /\ ids' = ids

SaverStep(u, x, y) ==
  \/ SaverStarts(u, x, y) \/ SaverFinds(u, x, y) \/ SaverFound(u, x, y) \/ DropsEntry(u, x, y) \/ DropsRows(u, x, y)
  \/ WritesEntry(u, x, y) \/ WritesRow(u, x, y) \/ Commits(u, x, y) \/ RollsBack(u, x, y)

LEMMA SavesDoes ==
  ASSUME PgTypeOK, NEW u \in Savers, Saves(u)
  PROVE  \E x, y : SaverStep(u, x, y)
  <1>0. u \in Users /\ pgName[u] \in PgNames /\ pgId[u] \in Nat /\ ids \in Nat
    BY PostgresAssumption DEF Users, PgTypeOK
  <1>1. PICK x, n, i : x = Call(u) /\ n = pgName[u] /\ i = pgId[u]
    OBVIOUS
  <1>2. CallOf(u, x) /\ n \in PgNames /\ i \in Nat
    BY <1>0, <1>1, CallFields
  <1>3. /\ \A y \in TransactionBegin(x) : Typed(y)
        /\ \A how \in {"COMMIT", "ROLLBACK"} : \A y \in TransactionEnd(x, how) : Typed(y)
        /\ \A s \in SUBSET PgRecords : \A y \in Delete(x, s) : Typed(y)
        /\ \A s \in SUBSET PgRecords : \A y \in Write(x, s) : Typed(y)
    BY <1>0, <1>2, OutcomesTyped
  <1>4. CASE PgAt(u, "start") /\ Returns(u, TransactionBegin(Call(u)), "find", "fail") /\ UNCHANGED <<readRes, pgId, ids, tainted>>
    <2>1. PICK S : S = TransactionBegin(x)
      OBVIOUS
    <2>2. Returns(u, S, "find", "fail") /\ \A y \in S : Typed(y)
      BY <1>1, <1>3, <1>4, <2>1
    <2>3. PICK y \in S : CallStep(u, "find", "fail", x, y)
      BY <1>0, <1>1, <2>2, ReturnsDoes
    <2>4. SaverStarts(u, x, y)
      BY <1>4, <2>1, <2>3 DEF SaverStarts, Kept
    <2> QED  BY <2>4 DEF SaverStep
  <1>5. CASE FindEntry(u, "find", "found") /\ UNCHANGED <<pgId, ids, tainted>>
    <2>1. PICK z, y : FoundStep(u, "find", "found", z, y)
      BY <1>0, <1>5, FindEntryDoes
    <2>2. SaverFinds(u, z, y)
      BY <1>5, <2>1 DEF SaverFinds
    <2> QED  BY <2>2 DEF SaverStep
  <1>6. CASE SingleFound(u, "found", "drop entry", "entry") /\ UNCHANGED ids
    <2>1. PICK z, y : SingleStep(u, "found", "drop entry", "entry", z, y)
      BY <1>0, <1>6, SingleFoundDoes
    <2>2. SaverFound(u, z, y)
      BY <1>6, <2>1 DEF SaverFound
    <2> QED  BY <2>2 DEF SaverStep
  <1>7. CASE /\ PgAt(u, "drop entry")
             /\ Returns(u, Delete(Call(u), {Entry(pgName[u], pgId[u])}), "drop rows", "fail")
             /\ UNCHANGED <<readRes, pgId, ids, tainted>>
    <2>1. PICK s, S : s = {Entry(n, i)} /\ S = Delete(x, s)
      OBVIOUS
    <2>2. s \in SUBSET PgRecords
      BY <1>2, <2>1, RecordTypes
    <2>3. Returns(u, S, "drop rows", "fail") /\ \A y \in S : Typed(y)
      BY <1>1, <1>3, <1>7, <2>1, <2>2
    <2>4. PICK y \in S : CallStep(u, "drop rows", "fail", x, y)
      BY <1>0, <1>1, <2>3, ReturnsDoes
    <2>5. DropsEntry(u, x, y)
      BY <1>1, <1>7, <2>1, <2>4 DEF DropsEntry, Kept
    <2> QED  BY <2>5 DEF SaverStep
  <1>8. CASE /\ PgAt(u, "drop rows")
             /\ Returns(u, Delete(Call(u), {Row(r, pgId[u]) : r \in PgRows}), "entry", "fail")
             /\ UNCHANGED <<readRes, pgId, ids, tainted>>
    <2>1. PICK s, S : s = AllRows(i) /\ S = Delete(x, s)
      OBVIOUS
    <2>2. s \in SUBSET PgRecords
      BY <1>2, <2>1, RowSets
    <2>3. Returns(u, S, "entry", "fail") /\ \A y \in S : Typed(y)
      BY <1>1, <1>3, <1>8, <2>1, <2>2 DEF AllRows
    <2>4. PICK y \in S : CallStep(u, "entry", "fail", x, y)
      BY <1>0, <1>1, <2>3, ReturnsDoes
    <2>5. DropsRows(u, x, y)
      BY <1>1, <1>8, <2>1, <2>4 DEF DropsRows, Kept
    <2> QED  BY <2>5 DEF SaverStep
  <1>9. CASE /\ PgAt(u, "entry") /\ ids < MaxIds
             /\ Returns(u, Write(Call(u), {Entry(pgName[u], ids + 1)}), "rows", "fail")
             /\ ids' = ids + 1 /\ pgId' = [pgId EXCEPT ![u] = ids + 1]
             /\ UNCHANGED <<readRes, tainted>>
    <2>1. PICK s, S, k : k = ids + 1 /\ s = {Entry(n, k)} /\ S = Write(x, s)
      OBVIOUS
    <2>2. s \in SUBSET PgRecords
      BY <1>0, <1>2, <2>1, RecordTypes
    <2>3. Returns(u, S, "rows", "fail") /\ \A y \in S : Typed(y)
      BY <1>1, <1>3, <1>9, <2>1, <2>2
    <2>4. PICK y \in S : CallStep(u, "rows", "fail", x, y)
      BY <1>0, <1>1, <2>3, ReturnsDoes
    <2>5. WritesEntry(u, x, y)
      BY <1>1, <1>9, <2>1, <2>4 DEF WritesEntry
    <2> QED  BY <2>5 DEF SaverStep
  <1>10. CASE /\ PgAt(u, "rows")
              /\ \E r \in PgRows :
                   LET rows == {z \in PgRows : Row(z, pgId[u]) \in Seen(Call(u))}
                   IN /\ r \notin rows
                      /\ Returns(u, Write(Call(u), {Row(r, pgId[u])}),
                                 IF rows \cup {r} = PgRows THEN "commit" ELSE "rows", "fail")
              /\ UNCHANGED <<readRes, pgId, ids, tainted>>
    <2>1. PICK r \in PgRows :
             Returns(u, Write(x, {Row(r, i)}),
                     IF {z \in PgRows : Row(z, i) \in Seen(x)} \cup {r} = PgRows THEN "commit" ELSE "rows", "fail")
      BY <1>1, <1>10
    <2>2. PICK s, S, to : /\ s = {Row(r, i)} /\ S = Write(x, s)
                          /\ to = IF {z \in PgRows : Row(z, i) \in Seen(x)} \cup {r} = PgRows THEN "commit" ELSE "rows"
      OBVIOUS
    <2>3. s \in SUBSET PgRecords
      BY <1>2, <2>2, RecordTypes
    <2>4. Returns(u, S, to, "fail") /\ \A y \in S : Typed(y)
      BY <1>3, <2>1, <2>2, <2>3
    <2>5. PICK y \in S : CallStep(u, to, "fail", x, y)
      BY <1>0, <1>1, <2>4, ReturnsDoes
    <2>6. to = "rows" \/ (to = "commit" /\ \A v \in PgRows : v = r \/ Row(v, i) \in Seen(x))
      BY <2>2
    <2>7. WritesRow(u, x, y)
      BY <1>1, <1>10, <2>2, <2>5, <2>6 DEF WritesRow, Kept
    <2> QED  BY <2>7 DEF SaverStep
  <1>11. CASE PgAt(u, "commit") /\ Returns(u, TransactionEnd(Call(u), "COMMIT"), "saved", "fail") /\ UNCHANGED <<readRes, pgId, ids, tainted>>
    <2>1. PICK S : S = TransactionEnd(x, "COMMIT")
      OBVIOUS
    <2>2. Returns(u, S, "saved", "fail") /\ \A y \in S : Typed(y)
      BY <1>1, <1>3, <1>11, <2>1
    <2>3. PICK y \in S : CallStep(u, "saved", "fail", x, y)
      BY <1>0, <1>1, <2>2, ReturnsDoes
    <2>4. Commits(u, x, y)
      BY <1>11, <2>1, <2>3 DEF Commits, Kept
    <2> QED  BY <2>4 DEF SaverStep
  <1>12. CASE PgAt(u, "fail") /\ Returns(u, TransactionEnd(Call(u), "ROLLBACK"), "done", "done") /\ UNCHANGED <<readRes, pgId, ids, tainted>>
    <2>1. PICK S : S = TransactionEnd(x, "ROLLBACK")
      OBVIOUS
    <2>2. Returns(u, S, "done", "done") /\ \A y \in S : Typed(y)
      BY <1>1, <1>3, <1>12, <2>1
    <2>3. PICK y \in S : CallStep(u, "done", "done", x, y)
      BY <1>0, <1>1, <2>2, ReturnsDoes
    <2>4. RollsBack(u, x, y)
      BY <1>12, <2>1, <2>3 DEF RollsBack, Kept
    <2> QED  BY <2>4 DEF SaverStep
  <1>13. Saves(u) BY DEF Saves
  <1>14. UNCHANGED <<readRes, pgId, ids, tainted, pgLock>> => UNCHANGED <<readRes, pgId, ids, tainted>>
    OBVIOUS
  <1> QED  BY <1>4, <1>5, <1>6, <1>7, <1>8, <1>9, <1>10, <1>11, <1>12, <1>13, <1>14 DEF Saves

-----------------------------------------------------------------------------
Others == Loaders \cup Deleters

Finds(u, x, y) == FoundStep(u, "start", "found", x, y) /\ pgId' = pgId /\ tainted' = tainted /\ abandoned' = abandoned
Found(u, x, y) == /\ \E found \in {"fetch", "drop rows"}, none \in {"done", "fail"} : SingleStep(u, "found", found, none, x, y)
                  /\ abandoned' = abandoned
Fetches(u, x, y) ==
  /\ PgAt(u, "fetch") /\ Did(u, x, y) /\ y \in ReadStart(x, "config", AllRows(pgId[u]))
  /\ \/ y.r # "ok" /\ WentTo(u, "fail") /\ readRes' = readRes
     \/ /\ y.r = "ok" /\ WentTo(u, "read") /\ y.rows \subseteq AllRows(pgId[u])
        /\ readRes' = [readRes EXCEPT ![u] = Result(y.rows)]
  /\ pgId' = pgId /\ tainted' = tainted /\ abandoned' = abandoned
Reads(u, x, y) ==
  /\ PgAt(u, "read") /\ y \in ReadEnd(x, "config") /\ CallStep(u, "done", "done", x, y)
  /\ readRes' = [readRes EXCEPT ![u] = NoResult]
  /\ pgId' = pgId /\ tainted' = tainted /\ abandoned' = abandoned
DeletesRows(u, x, y) ==
  /\ PgAt(u, "drop rows") /\ y \in Delete(x, AllRows(pgId[u])) /\ CallStep(u, "drop entry", "fail", x, y)
  /\ tainted' = tainted \cup {pgId[u]} /\ readRes' = readRes /\ pgId' = pgId /\ abandoned' = abandoned
DeletesEntry(u, x, y) ==
  /\ u \in Deleters /\ PgAt(u, "drop entry") /\ y \in Delete(x, {Entry(pgName[u], pgId[u])})
  /\ CallStep(u, "done", "done", x, y)
  /\ Kept /\ abandoned' = abandoned

MainStep(u, x, y) ==
  \/ Finds(u, x, y) \/ Found(u, x, y) \/ Fetches(u, x, y) \/ Reads(u, x, y)
  \/ DeletesRows(u, x, y) \/ DeletesEntry(u, x, y)

Silent == base' = base /\ links' = links /\ lost' = lost /\ refused' = refused /\ pgCrashed' = pgCrashed
Quits(u) == /\ ~pgCrashed /\ WentTo(u, "done") /\ Silent /\ pgId' = pgId /\ tainted' = tainted
            /\ \/ readRes' = readRes /\ abandoned' = abandoned /\ PgAt(u, "fail")
               \/ readRes' = [readRes EXCEPT ![u] = NoResult] /\ abandoned' = TRUE

LEMMA LoadsDoes ==
  ASSUME PgTypeOK, NEW u \in Loaders, Loads(u)
  PROVE  Quits(u) \/ \E x, y : MainStep(u, x, y)
  <1>0. u \in Users /\ pgId[u] \in Nat
    BY DEF Users, PgTypeOK
  <1>1. PICK x, w : x = Call(u) /\ w = AllRows(pgId[u])
    OBVIOUS
  <1>2. CallOf(u, x) /\ w \in SUBSET PgRecords /\ "config" \in Tables
    BY <1>0, <1>1, CallFields, RowSets DEF Tables
  <1>3. CASE FindEntry(u, "start", "found") /\ UNCHANGED <<pgId, tainted, pgLock, abandoned>>
    <2>1. PICK z, y : FoundStep(u, "start", "found", z, y)
      BY <1>0, <1>3, FindEntryDoes
    <2>2. Finds(u, z, y)
      BY <1>3, <2>1 DEF Finds
    <2> QED  BY <2>2 DEF MainStep
  <1>4. CASE SingleFound(u, "found", "fetch", "done") /\ UNCHANGED <<pgLock, abandoned>>
    <2>1. PICK z, y : SingleStep(u, "found", "fetch", "done", z, y)
      BY <1>0, <1>4, SingleFoundDoes
    <2>2. Found(u, z, y)
      BY <1>4, <2>1 DEF Found
    <2> QED  BY <2>2 DEF MainStep
  <1>5. CASE /\ PgAt(u, "fetch")
             /\ \E z \in ReadStart(Call(u), "config", {Row(r, pgId[u]) : r \in PgRows}) :
                  /\ Effect(u, z)
                  /\ IF Failed(z) THEN PgGoto(u, "fail") /\ UNCHANGED <<readRes, pgLock>>
                     ELSE PgGoto(u, "read") /\ readRes' = [readRes EXCEPT ![u] = Result(z.rows)] /\ pgLock' = u
             /\ UNCHANGED <<pgId, tainted, abandoned>>
    <2>1. PICK y \in ReadStart(x, "config", w) :
                  /\ Effect(u, y)
                  /\ IF Failed(y) THEN PgGoto(u, "fail") /\ readRes' = readRes
                     ELSE PgGoto(u, "read") /\ readRes' = [readRes EXCEPT ![u] = Result(y.rows)]
      BY <1>1, <1>5 DEF AllRows
    <2>2. Typed(y) /\ (y.r = "ok" => y.rows \subseteq w)
      BY <1>0, <1>2, <2>1, OutcomesTyped
    <2>3. Did(u, x, y)
      BY <1>0, <1>2, <2>1, <2>2, EffectDid
    <2>4. Fetches(u, x, y)
      BY <1>1, <1>5, <2>1, <2>2, <2>3 DEF Fetches, Failed, PgGoto, WentTo
    <2> QED  BY <2>4 DEF MainStep
  <1>6. CASE /\ PgAt(u, "read")
             /\ Returns(u, ReadEnd(Call(u), "config"), "done", "done") /\ UNCHANGED abandoned
             /\ readRes' = [readRes EXCEPT ![u] = NoResult] /\ UNCHANGED <<pgId, tainted>>
    <2>1. PICK S : S = ReadEnd(x, "config")
      OBVIOUS
    <2>2. Returns(u, S, "done", "done") /\ \A y \in S : Typed(y)
      BY <1>0, <1>1, <1>2, <1>6, <2>1, OutcomesTyped
    <2>3. PICK y \in S : CallStep(u, "done", "done", x, y)
      BY <1>0, <1>1, <2>2, ReturnsDoes
    <2>4. Reads(u, x, y)
      BY <1>6, <2>1, <2>3 DEF Reads
    <2> QED  BY <2>4 DEF MainStep
  <1>7. CASE /\ PgAt(u, "read") /\ PgGoto(u, "done") /\ abandoned' = TRUE
             /\ UNCHANGED <<base, links, lost, refused, pgCrashed>>
             /\ readRes' = [readRes EXCEPT ![u] = NoResult] /\ UNCHANGED <<pgId, tainted>>
    BY <1>7 DEF Quits, Silent, PgGoto, PgAt, WentTo
  <1>8. CASE /\ PgAt(u, "fail") /\ PgGoto(u, "done")
             /\ UNCHANGED <<base, links, lost, refused, pgCrashed, readRes, pgId, tainted, pgLock, abandoned>>
    BY <1>8 DEF Quits, Silent, PgGoto, PgAt, WentTo
  <1> QED  BY <1>3, <1>4, <1>5, <1>6, <1>7, <1>8 DEF Loads

LEMMA DeletesDoes ==
  ASSUME PgTypeOK, NEW u \in Deleters, Deletes(u), abandoned' = abandoned
  PROVE  Quits(u) \/ \E x, y : MainStep(u, x, y)
  <1>0. u \in Users /\ pgId[u] \in Nat /\ pgName[u] \in PgNames
    BY DEF Users, PgTypeOK
  <1>1. PICK x, n, i : x = Call(u) /\ n = pgName[u] /\ i = pgId[u]
    OBVIOUS
  <1>2. CallOf(u, x)
    BY <1>0, <1>1, CallFields
  <1>3. CASE FindEntry(u, "start", "found") /\ UNCHANGED <<pgId, tainted>>
    <2>1. PICK z, y : FoundStep(u, "start", "found", z, y)
      BY <1>0, <1>3, FindEntryDoes
    <2>2. Finds(u, z, y)
      BY <1>3, <2>1 DEF Finds
    <2> QED  BY <2>2 DEF MainStep
  <1>4. CASE SingleFound(u, "found", "drop rows", "fail") /\ UNCHANGED pgLock
    <2>1. PICK z, y : SingleStep(u, "found", "drop rows", "fail", z, y)
      BY <1>0, <1>4, SingleFoundDoes
    <2>2. Found(u, z, y)
      BY <1>4, <2>1 DEF Found
    <2> QED  BY <2>2 DEF MainStep
  <1>5. CASE /\ PgAt(u, "drop rows")
             /\ Returns(u, Delete(Call(u), {Row(r, pgId[u]) : r \in PgRows}), "drop entry", "fail")
             /\ tainted' = tainted \cup {pgId[u]}
             /\ UNCHANGED <<readRes, pgId, pgLock>>
    <2>1. PICK s, S : s = AllRows(i) /\ S = Delete(x, s)
      OBVIOUS
    <2>2. s \in SUBSET PgRecords
      BY <1>0, <1>1, <2>1, RowSets
    <2>3. Returns(u, S, "drop entry", "fail") /\ \A y \in S : Typed(y)
      BY <1>0, <1>1, <1>2, <1>5, <2>1, <2>2, OutcomesTyped DEF AllRows
    <2>4. PICK y \in S : CallStep(u, "drop entry", "fail", x, y)
      BY <1>0, <1>1, <2>3, ReturnsDoes
    <2>5. DeletesRows(u, x, y)
      BY <1>1, <1>5, <2>1, <2>4 DEF DeletesRows
    <2> QED  BY <2>5 DEF MainStep
  <1>6. CASE /\ PgAt(u, "drop entry")
             /\ Returns(u, Delete(Call(u), {Entry(pgName[u], pgId[u])}), "done", "done")
             /\ UNCHANGED <<readRes, pgId, tainted>>
    <2>1. PICK s, S : s = {Entry(n, i)} /\ S = Delete(x, s)
      OBVIOUS
    <2>2. s \in SUBSET PgRecords
      BY <1>0, <1>1, <2>1, RecordTypes
    <2>3. Returns(u, S, "done", "done") /\ \A y \in S : Typed(y)
      BY <1>0, <1>1, <1>2, <1>6, <2>1, <2>2, OutcomesTyped
    <2>4. PICK y \in S : CallStep(u, "done", "done", x, y)
      BY <1>0, <1>1, <2>3, ReturnsDoes
    <2>5. DeletesEntry(u, x, y)
      BY <1>1, <1>6, <2>1, <2>4 DEF DeletesEntry, Kept
    <2> QED  BY <2>5 DEF MainStep
  <1>7. CASE /\ PgAt(u, "fail") /\ PgGoto(u, "done")
             /\ UNCHANGED <<base, links, lost, refused, pgCrashed, readRes, pgId, tainted>>
    BY <1>7 DEF Quits, Silent, PgGoto, PgAt, WentTo
  <1> QED  BY <1>3, <1>4, <1>5, <1>6, <1>7 DEF Deletes

(* What a step of the specification is.                                    *)
PgStep ==
  \/ \E u \in Savers : \E x, y : SaverStep(u, x, y) /\ pgName' = pgName /\ abandoned' = abandoned
  \/ \E u \in Others : /\ pgName' = pgName /\ ids' = ids
                       /\ Quits(u) \/ \E x, y : MainStep(u, x, y)
  \/ \E u \in Users : Again(u)

LEMMA PgNextDoes ==
  ASSUME PgTypeOK, PgNext
  PROVE  PgStep
  <1>1. ASSUME NEW u \in Savers, Saves(u), NameKept PROVE PgStep
    BY <1>1, SavesDoes DEF PgStep, NameKept
  <1>2. ASSUME NEW u \in Loaders, Loads(u), UNCHANGED pgName PROVE PgStep
    <2>1. ids' = ids
      BY <1>2 DEF Loads
    <2> QED  BY <1>2, <2>1, LoadsDoes DEF PgStep, Others
  <1>3. ASSUME NEW u \in Deleters, Deletes(u), NameKept PROVE PgStep
    <2>1. ids' = ids
      BY <1>3 DEF Deletes
    <2> QED  BY <1>3, <2>1, DeletesDoes DEF PgStep, Others, NameKept
  <1>4. ASSUME NEW u \in Users, Again(u) PROVE PgStep
    BY <1>4 DEF PgStep
  <1> QED  BY <1>1, <1>2, <1>3, <1>4 DEF PgNext

-----------------------------------------------------------------------------
LEMMA ResultTypes ==
  /\ NoResult \in Results /\ NoResult.open = FALSE
  /\ \A s \in SUBSET PgRecords : Result(s) \in Results /\ Result(s).rows = s
  BY DEF NoResult, Result, Results

(* The parts of the type that a step of u may change.                      *)
LEMMA WentTypes ==
  ASSUME PgTypeOK, NEW u \in Users, NEW p \in PgPlaces, WentTo(u, p)
  PROVE  pgPc' \in [Users -> PgPlaces]
  BY DEF PgTypeOK, WentTo

LEMMA TypeFromDid ==
  ASSUME PgTypeOK, NEW u \in Users, NEW x, NEW y, Did(u, x, y), NEW p \in PgPlaces, WentTo(u, p),
         pgName' = pgName, NEW i \in Nat, pgId' = pgId \/ pgId' = [pgId EXCEPT ![u] = i],
         NEW r \in Results, readRes' = readRes \/ readRes' = [readRes EXCEPT ![u] = r],
         ids' \in 0 .. MaxIds, abandoned' = abandoned
  PROVE  PgTypeOK'
  <1>1. pgPc' \in [Users -> PgPlaces]
    BY WentTypes
  <1>2. pgId' \in [Users -> Nat] /\ readRes' \in [Users -> Results] /\ pgName' \in [Users -> PgNames]
    BY DEF PgTypeOK
  <1> QED  BY <1>1, <1>2 DEF PgTypeOK, Did

LEMMA SaverStepTypes ==
  ASSUME PgTypeOK, NEW u \in Savers, NEW x, NEW y, SaverStep(u, x, y), pgName' = pgName, abandoned' = abandoned
  PROVE  PgTypeOK'
  <1>0. u \in Users /\ ids \in 0 .. MaxIds /\ MaxIds \in Nat /\ 0 \in Nat /\ NoResult \in Results
    BY PostgresAssumption, ResultTypes DEF Users, PgTypeOK
  <1>p. /\ "find" \in PgPlaces /\ "found" \in PgPlaces /\ "drop entry" \in PgPlaces /\ "drop rows" \in PgPlaces
        /\ "entry" \in PgPlaces /\ "rows" \in PgPlaces /\ "commit" \in PgPlaces /\ "saved" \in PgPlaces
        /\ "fail" \in PgPlaces /\ "done" \in PgPlaces
    BY DEF PgPlaces
  <1>1. CASE SaverStarts(u, x, y)
    BY <1>0, <1>p, <1>1, TypeFromDid DEF SaverStarts, CallStep, Kept
  <1>2. CASE SaverFinds(u, x, y)
    <2>1. y.r = "ok" => Result(y.rows) \in Results
      BY <1>2, ResultTypes DEF SaverFinds, FoundStep, Did, Typed, Calls
    <2>2. Did(u, x, y) /\ pgId' = pgId /\ ids' = ids
      BY <1>2 DEF SaverFinds, FoundStep
    <2>3. CASE y.r = "ok"
      BY <1>0, <1>p, <1>2, <2>1, <2>2, <2>3, TypeFromDid DEF SaverFinds, FoundStep
    <2>4. CASE y.r # "ok"
      BY <1>0, <1>p, <1>2, <2>2, <2>4, TypeFromDid DEF SaverFinds, FoundStep
    <2> QED  BY <2>3, <2>4
  <1>3. CASE SaverFound(u, x, y)
    <2>1. Did(u, x, y) /\ ids' = ids /\ readRes' = [readRes EXCEPT ![u] = NoResult]
      BY <1>3 DEF SaverFound, SingleStep
    <2>2. CASE WentTo(u, "drop entry") /\ \E d \in readRes[u].rows : pgId' = [pgId EXCEPT ![u] = d.id]
      <3>1. PICK d \in readRes[u].rows : pgId' = [pgId EXCEPT ![u] = d.id]
        BY <2>2
      <3>2. d.id \in Nat
        BY <1>0, RecordTypes DEF PgTypeOK, Results
      <3> QED  BY <1>0, <1>p, <2>1, <2>2, <3>1, <3>2, TypeFromDid
    <2>3. CASE pgId' = [pgId EXCEPT ![u] = 0] /\ (WentTo(u, "entry") \/ WentTo(u, "fail"))
      BY <1>0, <1>p, <2>1, <2>3, TypeFromDid
    <2> QED  BY <1>3, <2>2, <2>3 DEF SaverFound, SingleStep
  <1>4. CASE DropsEntry(u, x, y)
    BY <1>0, <1>p, <1>4, TypeFromDid DEF DropsEntry, CallStep, Kept
  <1>5. CASE DropsRows(u, x, y)
    BY <1>0, <1>p, <1>5, TypeFromDid DEF DropsRows, CallStep, Kept
  <1>6. CASE WritesEntry(u, x, y)
    <2>1. Did(u, x, y) /\ readRes' = readRes /\ pgId' = [pgId EXCEPT ![u] = ids + 1]
          /\ (WentTo(u, "rows") \/ WentTo(u, "fail"))
      BY <1>6 DEF WritesEntry, CallStep
    <2>2. ids + 1 \in Nat /\ ids' \in 0 .. MaxIds
      BY <1>0, <1>6 DEF WritesEntry
    <2> QED  BY <1>0, <1>p, <2>1, <2>2, TypeFromDid
  <1>7. CASE WritesRow(u, x, y)
    <2>1. Did(u, x, y) /\ Kept /\ ids' = ids /\ (WentTo(u, "rows") \/ WentTo(u, "commit") \/ WentTo(u, "fail"))
      BY <1>7 DEF WritesRow, CallStep
    <2> QED  BY <1>0, <1>p, <2>1, TypeFromDid DEF Kept
  <1>8. CASE Commits(u, x, y)
    BY <1>0, <1>p, <1>8, TypeFromDid DEF Commits, CallStep, Kept
  <1>9. CASE RollsBack(u, x, y)
    BY <1>0, <1>p, <1>9, TypeFromDid DEF RollsBack, CallStep, Kept
  <1> QED  BY <1>1, <1>2, <1>3, <1>4, <1>5, <1>6, <1>7, <1>8, <1>9 DEF SaverStep

LEMMA MainStepTypes ==
  ASSUME PgTypeOK, NEW u \in Others, NEW x, NEW y, MainStep(u, x, y), pgName' = pgName, ids' = ids
  PROVE  PgTypeOK'
  <1>0. u \in Users /\ ids' \in 0 .. MaxIds /\ 0 \in Nat /\ NoResult \in Results
    BY ResultTypes DEF Users, Others, PgTypeOK
  <1>p. /\ "found" \in PgPlaces /\ "drop entry" \in PgPlaces /\ "drop rows" \in PgPlaces
        /\ "fetch" \in PgPlaces /\ "read" \in PgPlaces /\ "fail" \in PgPlaces /\ "done" \in PgPlaces
    BY DEF PgPlaces
  <1>1. ASSUME Did(u, x, y), pgId' = pgId, abandoned' = abandoned, NEW p \in PgPlaces,
               \/ y.r # "ok" /\ WentTo(u, "fail") /\ readRes' = readRes
               \/ y.r = "ok" /\ WentTo(u, p) /\ readRes' = [readRes EXCEPT ![u] = Result(y.rows)]
        PROVE  PgTypeOK'
    <2>1. Result(y.rows) \in Results
      BY <1>1, ResultTypes DEF Did, Typed, Calls
    <2>2. CASE y.r # "ok"
      BY <1>0, <1>p, <1>1, <2>2, TypeFromDid
    <2>3. CASE y.r = "ok"
      BY <1>0, <1>p, <1>1, <2>1, <2>3, TypeFromDid
    <2> QED  BY <2>2, <2>3
  <1>2. CASE Finds(u, x, y)
    BY <1>1, <1>2, <1>p DEF Finds, FoundStep
  <1>3. CASE Found(u, x, y)
    <2>1. PICK found \in {"fetch", "drop rows"}, none \in {"done", "fail"} : SingleStep(u, "found", found, none, x, y)
      BY <1>3 DEF Found
    <2>2. Did(u, x, y) /\ readRes' = [readRes EXCEPT ![u] = NoResult] /\ abandoned' = abandoned
      BY <1>3, <2>1 DEF Found, SingleStep
    <2>3. found \in PgPlaces /\ none \in PgPlaces
      BY <1>p
    <2>4. CASE WentTo(u, found) /\ \E d \in readRes[u].rows : pgId' = [pgId EXCEPT ![u] = d.id]
      <3>1. PICK d \in readRes[u].rows : pgId' = [pgId EXCEPT ![u] = d.id]
        BY <2>4
      <3>2. d.id \in Nat
        BY <1>0, RecordTypes DEF PgTypeOK, Results
      <3> QED  BY <1>0, <2>2, <2>3, <2>4, <3>1, <3>2, TypeFromDid
    <2>5. CASE pgId' = [pgId EXCEPT ![u] = 0] /\ (WentTo(u, none) \/ WentTo(u, "fail"))
      BY <1>0, <1>p, <2>2, <2>3, <2>5, TypeFromDid
    <2> QED  BY <2>1, <2>4, <2>5 DEF SingleStep
  <1>4. CASE Fetches(u, x, y)
    BY <1>1, <1>4, <1>p DEF Fetches
  <1>5. CASE Reads(u, x, y)
    BY <1>0, <1>p, <1>5, TypeFromDid DEF Reads, CallStep
  <1>6. CASE DeletesRows(u, x, y)
    BY <1>0, <1>p, <1>6, TypeFromDid DEF DeletesRows, CallStep
  <1>7. CASE DeletesEntry(u, x, y)
    BY <1>0, <1>p, <1>7, TypeFromDid DEF DeletesEntry, CallStep, Kept
  <1> QED  BY <1>2, <1>3, <1>4, <1>5, <1>6, <1>7 DEF MainStep

LEMMA PgTypeStep ==
  ASSUME PgTypeOK, [PgNext]_pgVars
  PROVE  PgTypeOK' /\ (PgStep \/ UNCHANGED pgVars)
  <1>1. CASE UNCHANGED pgVars
    BY <1>1 DEF pgVars, PgTypeOK, SharedTypeOK
  <1>2. CASE PgNext
    <2>1. PgStep
      BY <1>2, PgNextDoes
    <2>2. ASSUME NEW u \in Savers, NEW x, NEW y, SaverStep(u, x, y), pgName' = pgName, abandoned' = abandoned PROVE PgTypeOK'
      BY <2>2, SaverStepTypes
    <2>3. ASSUME NEW u \in Others, NEW x, NEW y, MainStep(u, x, y), pgName' = pgName, ids' = ids PROVE PgTypeOK'
      BY <2>3, MainStepTypes
    <2>4. ASSUME NEW u \in Others, pgName' = pgName, ids' = ids, Quits(u) PROVE PgTypeOK'
      <3>1. u \in Users /\ "done" \in PgPlaces /\ NoResult \in Results
        BY ResultTypes DEF Users, Others, PgPlaces
      <3>2. pgPc' \in [Users -> PgPlaces]
        BY <2>4, <3>1, WentTypes DEF Quits
      <3>3. readRes' \in [Users -> Results] /\ abandoned' \in BOOLEAN
        BY <2>4, <3>1 DEF Quits, PgTypeOK
      <3> QED  BY <2>4, <3>2, <3>3 DEF Quits, Silent, PgTypeOK, SharedTypeOK
    <2>5. ASSUME NEW u \in Users, Again(u) PROVE PgTypeOK'
      <3>1. "start" \in PgPlaces /\ WentTo(u, "start")
        BY <2>5 DEF Again, PgGoto, WentTo, PgPlaces
      <3>2. pgPc' \in [Users -> PgPlaces]
        BY <3>1, WentTypes
      <3>3. pgName' \in [Users -> PgNames] /\ pgId' \in [Users -> Nat]
        BY <2>5 DEF Again, PgTypeOK
      <3> QED  BY <2>5, <3>2, <3>3 DEF Again, PgTypeOK, SharedTypeOK
    <2>6. PgTypeOK'
      BY <2>1, <2>2, <2>3, <2>4, <2>5 DEF PgStep
    <2> QED  BY <2>1, <2>6
  <1> QED  BY <1>1, <1>2

LEMMA PgTypeInit ==
  ASSUME PgInit
  PROVE  PgTypeOK
  <1>1. NewLink \in PgLinks /\ LinkWell(NewLink)
    <2>1. {} \in SUBSET (Tables \cup {""})
      OBVIOUS
    <2> QED  BY <2>1, NoChangesType DEF NewLink, PgLinks, LinkWell, NotInTrans
  <1>2. {} \in SUBSET PgRecords
    OBVIOUS
  <1>3. SharedTypeOK(base, links, lost, refused)
    BY <1>1, <1>2 DEF PgInit, SharedTypeOK
  <1>4. pgPc \in [Users -> PgPlaces] /\ pgName \in [Users -> PgNames] /\ pgId \in [Users -> Nat] /\ readRes \in [Users -> Results]
    BY ResultTypes DEF PgInit, PgPlaces
  <1>5. ids \in 0 .. MaxIds
    BY PostgresAssumption DEF PgInit
  <1> QED  BY <1>3, <1>4, <1>5 DEF PgInit, PgTypeOK

(* The state is of its type in every behaviour.                            *)
THEOREM PostgresTypes == PgSpec => []PgTypeOK
  <1>1. PgTypeOK /\ [PgNext]_pgVars => PgTypeOK'
    BY PgTypeStep
  <1> QED  BY <1>1, PgTypeInit, PTL DEF PgSpec

-----------------------------------------------------------------------------
(***************************************************************************)
(* Transactions that nest are counted.                                     *)
(***************************************************************************)
Allowed(R) == IF R = {} THEN 0 ELSE Cardinality(R) + 1

LEMMA CountIn ==
  ASSUME NEW R, IsFiniteSet(R), NEW u, u \notin R, NEW n \in Nat, n <= Allowed(R), n # 1, NEW m, m \in {0, Entered(n)}
  PROVE  m <= Allowed(R \cup {u}) /\ m # 1
  <1>1. Cardinality(R) \in Nat /\ Cardinality(R \cup {u}) = Cardinality(R) + 1 /\ R \cup {u} # {}
    BY FS_CardinalityType, FS_AddElement
  <1>2. R # {} => Cardinality(R) > 0
    BY <1>1, FS_EmptySet
  <1>3. R = {} => Cardinality(R) = 0
    BY FS_EmptySet
  <1> QED  BY <1>1, <1>2, <1>3 DEF Allowed, Entered

LEMMA CountOut ==
  ASSUME NEW R, IsFiniteSet(R), NEW u, NEW n \in Nat, n <= Allowed(R), n # 1, NEW m, m \in {0, LeftTo(n)}
  PROVE  m <= Allowed(R \ {u}) /\ m # 1
  <1>1. Cardinality(R) \in Nat /\ IsFiniteSet(R \ {u})
    BY FS_CardinalityType, FS_Difference, FS_Singleton
  <1>2. Cardinality(R \ {u}) \in Nat /\ Cardinality(R \ {u}) = IF u \in R THEN Cardinality(R) - 1 ELSE Cardinality(R)
    BY <1>1, FS_CardinalityType, FS_RemoveElement
  <1>3. /\ R \ {u} # {} => Cardinality(R \ {u}) > 0
        /\ R \ {u} = {} => Cardinality(R \ {u}) = 0
    BY <1>1, <1>2, FS_EmptySet
  <1>4. u \notin R => R \ {u} = R
    OBVIOUS
  <1>5. u \in R => R # {}
    OBVIOUS
  <1> QED  BY <1>1, <1>2, <1>3, <1>4, <1>5 DEF Allowed, LeftTo

CountInv ==
  /\ PgTypeOK
  /\ \A u \in Others : readRes[u].open => pgPc[u] \in {"found", "read"}
  /\ ~pgCrashed => links[Main].trans # 1
  /\ TransactionsEnd

Readers(f) == {v \in Others : f[v].open}

LEMMA ReadersMain ==
  ASSUME PgTypeOK
  PROVE  Reading(Main) = Readers(readRes) /\ IsFiniteSet(Readers(readRes)) /\ links[Main].trans \in Nat
  <1>1. \A v \in Users : Link(v) = Main <=> v \in Others
    BY LinkOf DEF Users, Others, Main
  <1>2. Reading(Main) = Readers(readRes)
    BY <1>1 DEF Reading, Readers, Users, Others
  <1>3. IsFiniteSet(Readers(readRes))
    BY PostgresAssumption, FS_Subset DEF Readers, Others
  <1>4. links[Main].trans \in Nat
    BY DEF PgTypeOK, SharedTypeOK, PgLinks
  <1> QED  BY <1>2, <1>3, <1>4

(* The invariant in terms of what a step changes.                          *)
CountOf(res, pc, crashed, given, n) ==
  /\ \A u \in Others : res[u].open => pc[u] \in {"found", "read"}
  /\ ~crashed => n # 1
  /\ ~crashed /\ ~given => n <= Allowed(Readers(res))

LEMMA CountMeans ==
  ASSUME PgTypeOK
  PROVE  CountInv <=> CountOf(readRes, pgPc, pgCrashed, abandoned, links[Main].trans)
  BY ReadersMain DEF CountInv, CountOf, TransactionsEnd, Allowed, NotInTrans

LEMMA CountMeansNext ==
  ASSUME PgTypeOK', CountOf(readRes', pgPc', pgCrashed', abandoned', links'[Main].trans)
  PROVE  CountInv'
  <1>1. \A v \in Users : Link(v) = Main <=> v \in Others
    BY LinkOf DEF Users, Others, Main
  <1>2. Reading(Main)' = Readers(readRes')
    BY <1>1 DEF Reading, Readers, Users, Others
  <1>3. TransactionsEnd'
    BY <1>2 DEF CountOf, TransactionsEnd, Allowed, NotInTrans
  <1> QED  BY <1>3 DEF CountInv, CountOf

LEMMA MainOutcomes ==
  ASSUME PgTypeOK, NEW u \in Users, NEW x, CallOf(u, x)
  PROVE  /\ \A t \in Tables, w \in SUBSET PgRecords : \A y \in ReadStart(x, t, w) :
               /\ y.r = "ok" => y.l.trans \in {0, Entered(x.l.trans)}
               /\ y.r \notin {"ok", "crash"} => y.l.trans \in {0, x.l.trans}
         /\ \A t \in Tables : \A y \in ReadEnd(x, t) : y.r # "crash" => y.l.trans \in {0, LeftTo(x.l.trans)}
         /\ \A s \in SUBSET PgRecords : \A y \in Delete(x, s) : y.l.trans \in {0, x.l.trans}
  <1>1. PICK A, T, b : A = PgRecords /\ T = Nat /\ b = base
    OBVIOUS
  <1>2. Confined(b, A, T, x) /\ x.gone = FALSE /\ x.r = "ok"
    <2>1. x.l.pend.add \subseteq A /\ \A d \in x.l.pend.del : d.id \in T
      BY <1>1, RecordTypes DEF CallOf, Calls, PgLinks, Changes
    <2> QED  BY <1>1, <2>1, CallAffects DEF CallOf
  <1>3. ASSUME NEW t \in Tables, NEW w \in SUBSET PgRecords, NEW y \in ReadStart(x, t, w)
        PROVE  /\ y.r = "ok" => y.l.trans \in {0, Entered(x.l.trans)}
               /\ y.r \notin {"ok", "crash"} => y.l.trans \in {0, x.l.trans}
    <2>1. MainRead(b, A, T, x.l.trans, w, y)
      BY <1>2, MainReads
    <2> QED  BY <2>1 DEF MainRead, Confined, Calls
  <1>4. ASSUME NEW t \in Tables, NEW y \in ReadEnd(x, t), y.r # "crash" PROVE y.l.trans \in {0, LeftTo(x.l.trans)}
    BY <1>2, <1>4, MainReadEnds
  <1>5. ASSUME NEW s \in SUBSET PgRecords, NEW y \in Delete(x, s) PROVE y.l.trans \in {0, x.l.trans}
    <2>1. \A d \in s : d.id \in T
      BY <1>1, RecordTypes
    <2> QED  BY <1>2, <2>1, MainDeletes
  <1> QED  BY <1>3, <1>4, <1>5

LEMMA CountSaver ==
  ASSUME CountInv, PgTypeOK', NEW u \in Savers, NEW x, NEW y, SaverStep(u, x, y), abandoned' = abandoned
  PROVE  CountInv'
  <1>1. ~pgCrashed /\ \A k \in (Savers \cup {Main}) \ {Link(u)} : links'[k] = links[k]
    BY DEF SaverStep, SaverStarts, SaverFinds, SaverFound, DropsEntry, DropsRows, WritesEntry, WritesRow, Commits, RollsBack,
           CallStep, FoundStep, SingleStep, PgAt, Did
  <1>2. links'[Main] = links[Main]
    BY <1>1, LinkOf DEF Users
  <1>3. u \in Users /\ \A v \in Others : v \in Users /\ v # u
    BY LinkOf DEF Users, Others
  <1>4. \A v \in Others : pgPc'[v] = pgPc[v]
    <2>1. \E p : WentTo(u, p)
      BY DEF SaverStep, SaverStarts, SaverFinds, SaverFound, DropsEntry, DropsRows, WritesEntry, WritesRow, Commits, RollsBack,
             CallStep, FoundStep, SingleStep
    <2> QED  BY <1>3, <2>1 DEF WentTo, CountInv, PgTypeOK
  <1>5. \A v \in Others : readRes'[v] = readRes[v]
    <2>1. readRes' = readRes \/ \E r : readRes' = [readRes EXCEPT ![u] = r]
      BY DEF SaverStep, SaverStarts, SaverFinds, SaverFound, DropsEntry, DropsRows, WritesEntry, WritesRow, Commits, RollsBack,
             CallStep, FoundStep, SingleStep, Kept
    <2> QED  BY <1>3, <2>1 DEF CountInv, PgTypeOK
  <1>6. Readers(readRes') = Readers(readRes)
    BY <1>5 DEF Readers
  <1>7. CountOf(readRes, pgPc, pgCrashed, abandoned, links[Main].trans)
    BY CountMeans DEF CountInv
  <1>8. CountOf(readRes', pgPc', pgCrashed', abandoned', links'[Main].trans)
    BY <1>1, <1>2, <1>4, <1>5, <1>6, <1>7 DEF CountOf
  <1> QED  BY <1>8, CountMeansNext

LEMMA CountMain ==
  ASSUME CountInv, PgTypeOK', NEW u \in Others, NEW x, NEW y, MainStep(u, x, y)
  PROVE  CountInv'
  <1>0. /\ u \in Users /\ PgTypeOK /\ Link(u) = Main /\ "list" \in Tables /\ "config" \in Tables
        /\ pgId[u] \in Nat /\ pgName[u] \in PgNames /\ \A v \in Others : v \in Users
    BY LinkOf DEF Users, Others, CountInv, PgTypeOK, Tables
  <1>1. PICK n, m, R : n = links[Main].trans /\ m = links'[Main].trans /\ R = Readers(readRes)
    OBVIOUS
  <1>2. CountOf(readRes, pgPc, pgCrashed, abandoned, n) /\ n \in Nat /\ IsFiniteSet(R)
    BY <1>0, <1>1, CountMeans, ReadersMain DEF CountInv
  <1>3. ~pgCrashed /\ Did(u, x, y) /\ abandoned' = abandoned
    BY DEF MainStep, Finds, Found, Fetches, Reads, DeletesRows, DeletesEntry, CallStep, FoundStep, SingleStep, PgAt
  <1>4. CallOf(u, x) /\ x.l.trans = n /\ y.l.trans = m /\ pgCrashed' = (y.r = "crash") /\ y.r \in {"ok", "err", "lost", "crash"}
    BY <1>0, <1>1, <1>3 DEF Did, CallOf, Typed, Calls
  <1>5. /\ \A t \in Tables, w \in SUBSET PgRecords : \A z \in ReadStart(x, t, w) :
               /\ z.r = "ok" => z.l.trans \in {0, Entered(n)}
               /\ z.r \notin {"ok", "crash"} => z.l.trans \in {0, n}
        /\ \A t \in Tables : \A z \in ReadEnd(x, t) : z.r # "crash" => z.l.trans \in {0, LeftTo(n)}
        /\ \A s \in SUBSET PgRecords : \A z \in Delete(x, s) : z.l.trans \in {0, n}
    BY <1>0, <1>4, MainOutcomes
  <1>a. \A v \in Others \ {u} : pgPc'[v] = pgPc[v]
    <2>1. \E p : WentTo(u, p)
      BY DEF MainStep, Finds, Found, Fetches, Reads, DeletesRows, DeletesEntry, CallStep, FoundStep, SingleStep
    <2> QED  BY <1>0, <2>1 DEF WentTo, PgTypeOK
  <1>b. readRes' = readRes \/ \E r : readRes' = [readRes EXCEPT ![u] = r]
    BY DEF MainStep, Finds, Found, Fetches, Reads, DeletesRows, DeletesEntry, CallStep, FoundStep, SingleStep, Kept
  <1>c. \A v \in Others \ {u} : readRes'[v] = readRes[v]
    BY <1>0, <1>b DEF PgTypeOK
  <1>d. ~readRes[u].open \/ pgPc[u] \in {"found", "read"}
    BY <1>2 DEF CountOf
  <1>e. ASSUME readRes'[u].open => pgPc'[u] \in {"found", "read"},
               ~pgCrashed' => m # 1 /\ (~abandoned => m <= Allowed(Readers(readRes')))
        PROVE  CountInv'
    <2>1. CountOf(readRes', pgPc', pgCrashed', abandoned', links'[Main].trans)
      BY <1>1, <1>2, <1>3, <1>a, <1>c, <1>e DEF CountOf
    <2> QED  BY <2>1, CountMeansNext
  <1>f. n # 1 /\ (~abandoned => n <= Allowed(R))
    BY <1>1, <1>2, <1>3 DEF CountOf
  <1>1a. ASSUME NEW p, WentTo(u, p), p \in {"found", "read"}, NEW s, readRes' = [readRes EXCEPT ![u] = Result(s)],
               pgPc[u] \notin {"found", "read"}, ~pgCrashed' => m \in {0, Entered(n)}
        PROVE  CountInv'
    <2>1. pgPc'[u] = p /\ readRes'[u].open = TRUE
      BY <1>0, <1>1a DEF WentTo, PgTypeOK, Result
    <2>2. u \notin R /\ Readers(readRes') = R \cup {u}
      BY <1>1, <1>c, <1>d, <1>1a, <2>1 DEF Readers
    <2>3. ~pgCrashed' /\ ~abandoned => m <= Allowed(R \cup {u})
      BY <1>2, <1>f, <1>1a, <2>2, CountIn
    <2>4. ~pgCrashed' => m # 1
      BY <1>2, <1>1a, <1>f DEF Entered
    <2> QED  BY <1>e, <1>1a, <2>1, <2>2, <2>3, <2>4
  <1>2a. ASSUME NEW p, WentTo(u, p), readRes' = readRes, pgPc[u] \notin {"found", "read"}, ~pgCrashed' => m \in {0, n}
        PROVE  CountInv'
    <2>1. ~readRes'[u].open
      BY <1>d, <1>2a
    <2>2. Readers(readRes') = R
      BY <1>1, <1>2a
    <2>3. 0 <= Allowed(R)
      BY <1>2, FS_CardinalityType DEF Allowed
    <2> QED  BY <1>e, <1>f, <1>2a, <2>1, <2>2, <2>3
  <1>3a. ASSUME NEW p, WentTo(u, p), readRes' = [readRes EXCEPT ![u] = NoResult], ~pgCrashed' => m \in {0, LeftTo(n)}
        PROVE  CountInv'
    <2>1. readRes'[u].open = FALSE
      BY <1>0, <1>3a, ResultTypes DEF PgTypeOK
    <2>2. Readers(readRes') = R \ {u}
      BY <1>1, <1>c, <2>1 DEF Readers
    <2>3. ~pgCrashed' /\ ~abandoned => m <= Allowed(R \ {u})
      BY <1>2, <1>f, <1>3a, CountOut
    <2>4. ~pgCrashed' => m # 1
      BY <1>2, <1>3a, <1>f DEF LeftTo
    <2> QED  BY <1>e, <2>1, <2>2, <2>3, <2>4
  <1>7. pgCrashed' => y.r = "crash"
    BY <1>4
  <1>8. ~pgCrashed' => y.r # "crash"
    BY <1>4
  <1>9. CASE Finds(u, x, y)
    <2>1. EntriesOf(pgName[u]) \in SUBSET PgRecords /\ y \in ReadStart(x, "list", EntriesOf(pgName[u])) /\ pgPc[u] = "start"
      BY <1>0, <1>9, RowSets DEF Finds, FoundStep, PgAt
    <2>2. /\ y.r = "ok" => m \in {0, Entered(n)}
          /\ y.r \notin {"ok", "crash"} => m \in {0, n}
      BY <1>0, <1>4, <1>5, <2>1
    <2>3. CASE y.r = "ok"
      BY <1>9, <1>1a, <2>1, <2>2, <2>3 DEF Finds, FoundStep
    <2>4. CASE y.r # "ok"
      BY <1>8, <1>9, <1>2a, <2>1, <2>2, <2>4 DEF Finds, FoundStep
    <2> QED  BY <2>3, <2>4
  <1>10. CASE Found(u, x, y)
    <2>1. PICK found, none : SingleStep(u, "found", found, none, x, y)
      BY <1>10 DEF Found
    <2>2. y \in ReadEnd(x, "list") /\ readRes' = [readRes EXCEPT ![u] = NoResult] /\ \E p : WentTo(u, p)
      BY <2>1 DEF SingleStep
    <2>3. ~pgCrashed' => m \in {0, LeftTo(n)}
      BY <1>0, <1>4, <1>5, <1>8, <2>2
    <2> QED  BY <1>3a, <2>2, <2>3
  <1>11. CASE Fetches(u, x, y)
    <2>1. AllRows(pgId[u]) \in SUBSET PgRecords /\ y \in ReadStart(x, "config", AllRows(pgId[u])) /\ pgPc[u] = "fetch"
      BY <1>0, <1>11, RowSets DEF Fetches, PgAt
    <2>2. /\ y.r = "ok" => m \in {0, Entered(n)}
          /\ y.r \notin {"ok", "crash"} => m \in {0, n}
      BY <1>0, <1>4, <1>5, <2>1
    <2>3. CASE y.r = "ok"
      BY <1>11, <1>1a, <2>1, <2>2, <2>3 DEF Fetches
    <2>4. CASE y.r # "ok"
      BY <1>8, <1>11, <1>2a, <2>1, <2>2, <2>4 DEF Fetches
    <2> QED  BY <2>3, <2>4
  <1>12. CASE Reads(u, x, y)
    <2>1. y \in ReadEnd(x, "config") /\ readRes' = [readRes EXCEPT ![u] = NoResult] /\ \E p : WentTo(u, p)
      BY <1>12 DEF Reads, CallStep
    <2>2. ~pgCrashed' => m \in {0, LeftTo(n)}
      BY <1>0, <1>4, <1>5, <1>8, <2>1
    <2> QED  BY <1>3a, <2>1, <2>2
  <1>13. CASE DeletesRows(u, x, y)
    <2>1. AllRows(pgId[u]) \in SUBSET PgRecords
      BY <1>0, RowSets
    <2>2. m \in {0, n} /\ pgPc[u] = "drop rows" /\ readRes' = readRes /\ \E p : WentTo(u, p)
      BY <1>4, <1>5, <1>13, <2>1 DEF DeletesRows, CallStep, PgAt
    <2> QED  BY <1>2a, <2>2
  <1>14. CASE DeletesEntry(u, x, y)
    <2>1. {Entry(pgName[u], pgId[u])} \in SUBSET PgRecords
      BY <1>0, RecordTypes
    <2>2. m \in {0, n} /\ pgPc[u] = "drop entry" /\ readRes' = readRes /\ \E p : WentTo(u, p)
      BY <1>4, <1>5, <1>14, <2>1 DEF DeletesEntry, CallStep, PgAt, Kept
    <2> QED  BY <1>2a, <2>2
  <1> QED  BY <1>9, <1>10, <1>11, <1>12, <1>13, <1>14 DEF MainStep

LEMMA CountStep ==
  ASSUME CountInv, [PgNext]_pgVars
  PROVE  CountInv'
  <1>1. PgTypeOK' /\ (PgStep \/ UNCHANGED pgVars)
    BY PgTypeStep DEF CountInv
  <1>2. CASE UNCHANGED pgVars
    BY <1>1, <1>2 DEF CountInv, TransactionsEnd, Reading, pgVars
  <1>3. CASE PgStep
    <2>1. ASSUME NEW u \in Savers, NEW x, NEW y, SaverStep(u, x, y), abandoned' = abandoned PROVE CountInv'
      BY <1>1, <2>1, CountSaver
    <2>2. ASSUME NEW u \in Others, NEW x, NEW y, MainStep(u, x, y) PROVE CountInv'
      BY <1>1, <2>2, CountMain
    <2>3. CountOf(readRes, pgPc, pgCrashed, abandoned, links[Main].trans) /\ PgTypeOK
      BY CountMeans DEF CountInv
    <2>4. ASSUME NEW u \in Others, Quits(u) PROVE CountInv'
      <3>1. u \in Users /\ \A v \in Others : v \in Users
        BY DEF Users, Others
      <3>2. \A v \in Others \ {u} : pgPc'[v] = pgPc[v]
        BY <2>3, <2>4, <3>1 DEF Quits, WentTo, PgTypeOK
      <3>3. links' = links /\ pgCrashed' = pgCrashed
        BY <2>4 DEF Quits, Silent
      <3>4. CASE readRes' = readRes /\ abandoned' = abandoned /\ PgAt(u, "fail")
        <4>1. ~readRes[u].open
          BY <2>3, <3>4 DEF CountOf, PgAt
        <4>2. CountOf(readRes', pgPc', pgCrashed', abandoned', links'[Main].trans)
          BY <2>3, <3>2, <3>3, <3>4, <4>1 DEF CountOf
        <4> QED  BY <1>1, <4>2, CountMeansNext
      <3>5. CASE readRes' = [readRes EXCEPT ![u] = NoResult] /\ abandoned' = TRUE
        <4>1. readRes'[u].open = FALSE /\ \A v \in Others \ {u} : readRes'[v] = readRes[v]
          BY <2>3, <3>1, <3>5, ResultTypes DEF PgTypeOK
        <4>2. CountOf(readRes', pgPc', pgCrashed', abandoned', links'[Main].trans)
          BY <2>3, <3>2, <3>3, <3>5, <4>1 DEF CountOf
        <4> QED  BY <1>1, <4>2, CountMeansNext
      <3> QED  BY <2>4, <3>4, <3>5 DEF Quits
    <2>5. ASSUME NEW u \in Users, Again(u) PROVE CountInv'
      <3>1. readRes' = readRes /\ links' = links /\ pgCrashed' = pgCrashed /\ abandoned' = abandoned /\ pgPc[u] \in {"done", "saved"}
            /\ pgPc' = [pgPc EXCEPT ![u] = "start"]
        BY <2>5 DEF Again, PgGoto, PgAt
      <3>2. \A v \in Others : v \in Users
        BY DEF Users, Others
      <3>3. \A v \in Others : readRes[v].open => pgPc'[v] \in {"found", "read"}
        BY <2>3, <3>1, <3>2 DEF CountOf, PgTypeOK
      <3>4. CountOf(readRes', pgPc', pgCrashed', abandoned', links'[Main].trans)
        BY <2>3, <3>1, <3>3 DEF CountOf
      <3> QED  BY <1>1, <3>4, CountMeansNext
    <2> QED  BY <1>3, <2>1, <2>2, <2>4, <2>5 DEF PgStep
  <1> QED  BY <1>1, <1>2, <1>3

LEMMA CountInit ==
  ASSUME PgInit
  PROVE  CountInv
  <1>1. PgTypeOK
    BY PgTypeInit
  <1>2. \A u \in Others : ~readRes[u].open
    BY ResultTypes DEF PgInit, Users, Others
  <1>3. Readers(readRes) = {} /\ links[Main].trans = 0
    BY <1>2 DEF Readers, PgInit, NewLink, NotInTrans
  <1>4. CountOf(readRes, pgPc, pgCrashed, abandoned, links[Main].trans)
    BY <1>2, <1>3 DEF CountOf, Allowed
  <1> QED  BY <1>1, <1>4, CountMeans

(* The main connection is outside of any transaction once nobody reads     *)
(* from it, whatever connection breaks in the middle of which call.        *)
THEOREM PostgresTransactionsEnd == PgSpec => []TransactionsEnd
  <1>1. CountInv => TransactionsEnd
    BY DEF CountInv
  <1> QED  BY <1>1, CountInit, CountStep, PTL DEF PgSpec

-----------------------------------------------------------------------------
(***************************************************************************)
(* A configuration is stored whole, or not at all.                         *)
(***************************************************************************)
Pending == {"rows", "commit"}
SettledIn(n, pc, id, i) == i \in 1 .. n /\ \A v \in Savers : pc[v] \in Pending => id[v] # i
Settled(i) == SettledIn(ids, pgPc, pgId, i)

OnlyEntry(b, e) == \A d \in b : d.table = "list" /\ d.id = e.id => d = e
DelWhole(b, del, j) == (\A d \in b : d.id = j => d \in del) \/ (\A d \in b : d.id = j => d \notin del)
WholeIn(b, j) == \A r \in PgRows : Row(r, j) \in b <=> \E n \in PgNames : Entry(n, j) \in b
ListedIn(b, j) == \E n \in PgNames : Entry(n, j) \in b
AllTainted == (0 .. MaxIds) \subseteq tainted

BaseOK(b, n, pc, id, T) ==
  /\ \A d \in b : SettledIn(n, pc, id, d.id)
  /\ \A d \in b : d.table = "list" => OnlyEntry(b, d)
  /\ \A j \in (0 .. MaxIds) \ T : WholeIn(b, j)
  /\ \A v \in Savers : pc[v] = "saved" /\ id[v] = n /\ id[v] \notin T => ListedIn(b, id[v])
BaseWell == BaseOK(base, ids, pgPc, pgId, tainted)

InTransPlaces == {"find", "found", "drop entry", "drop rows", "entry", "rows", "commit"}

LinkedOK(l, p, i, n) ==
  /\ SaverLink(l)
  /\ p \in InTransPlaces => l.trans = InTrans
  /\ p \in {"start", "done", "saved"} => l.block = "none"
  /\ p \in {"find", "found", "drop entry"} => l.pend = NoChanges
  /\ p = "saved" => i <= n
FoundOK(b, n, pc, id, p, rows, name) ==
  p = "found" => \A d \in rows : d = Entry(name, d.id) /\ SettledIn(n, pc, id, d.id) /\ OnlyEntry(b, d)
DropEntryOK(b, n, pc, id, p, e) == p = "drop entry" => SettledIn(n, pc, id, e.id) /\ OnlyEntry(b, e)
DropRowsOK(b, n, pc, id, p, pend, e) ==
  p = "drop rows" => /\ pend.add = {} /\ pend.del \subseteq {e} /\ SettledIn(n, pc, id, e.id)
                     /\ \A d \in b : d.table = "list" /\ d.id = e.id => d \in pend.del
EntryOK(b, p, pend, T) ==
  /\ p = "entry" => pend.add = {}
  /\ p \in {"entry", "rows", "commit"} => \A j \in (0 .. MaxIds) \ T : DelWhole(b, pend.del, j)
PendingOK(b, n, pc, id, p, l, e, u) ==
  p \in Pending => /\ l.block = "open" /\ e.id \in 1 .. n
                   /\ e \in l.pend.add /\ \A d \in l.pend.add : d = e \/ \E r \in PgRows : d = Row(r, e.id)
                   /\ \A d \in b : d.id # e.id
                   /\ \A d \in l.pend.del : d.id < e.id
                   /\ \A v \in Savers \ {u} : pc[v] \in Pending => id[v] # e.id
                   /\ p = "commit" => \A r \in PgRows : Row(r, e.id) \in l.pend.add

SaverOK(u, b, n, pc, id, T, l, name, rows) ==
  /\ LinkedOK(l, pc[u], id[u], n)
  /\ \A d \in l.pend.del : SettledIn(n, pc, id, d.id)
  /\ FoundOK(b, n, pc, id, pc[u], rows, name)
  /\ DropEntryOK(b, n, pc, id, pc[u], Entry(name, id[u]))
  /\ DropRowsOK(b, n, pc, id, pc[u], l.pend, Entry(name, id[u]))
  /\ EntryOK(b, pc[u], l.pend, T)
  /\ PendingOK(b, n, pc, id, pc[u], l, Entry(name, id[u]), u)
SaverWell(u) == SaverOK(u, base, ids, pgPc, pgId, tainted, links[u], pgName[u], readRes[u].rows)

MainOK(l, pc, id, T) ==
  /\ l.pend.add = {} /\ \A d \in l.pend.del : d.id \in T
  /\ \A u \in Others : pc[u] = "drop entry" => id[u] \in T
MainWell == MainOK(links[Main], pgPc, pgId, tainted)

SavesInv ==
  /\ PgTypeOK
  /\ AllTainted \/ (BaseWell /\ (pgCrashed \/ ((\A u \in Savers : SaverWell(u)) /\ MainWell)))

LEMMA SavesMeans == SavesInv => SavesWhole
  <1> SUFFICES ASSUME SavesInv PROVE SavesWhole
    OBVIOUS
  <1>1. \A j : Listed(j) <=> ListedIn(base, j)
    BY DEF Listed, ListedIn
  <1>2. CASE AllTainted
    BY <1>2 DEF AllTainted, SavesWhole, SavesInv, PgTypeOK
  <1>3. CASE BaseWell
    <2>1. ASSUME NEW j \in (0 .. MaxIds) \ tainted PROVE RowsOf(j) = IF Listed(j) THEN PgRows ELSE {}
      <3>1. WholeIn(base, j)
        BY <1>3 DEF BaseWell, BaseOK
      <3>2. \A r \in PgRows : Row(r, j) \in base <=> Listed(j)
        BY <3>1 DEF WholeIn, Listed
      <3> QED  BY <3>2 DEF RowsOf
    <2>2. \A u \in Savers : pgPc[u] = "saved" /\ pgId[u] = ids /\ pgId[u] \notin tainted => Listed(pgId[u])
      BY <1>1, <1>3 DEF BaseWell, BaseOK
    <2> QED  BY <2>1, <2>2 DEF SavesWhole
  <1> QED  BY <1>2, <1>3 DEF SavesInv

(* What a step leaves for a saver that does not take it: records that are  *)
(* new are of an id that is settled by the step; n and m are the ids given *)
(* before it and after it.                                                 *)
Around(v, b, c, n, m, pc, pd, id, jd) ==
  /\ pd[v] = pc[v] /\ jd[v] = id[v] /\ n \in Nat /\ m \in Nat /\ n <= m
  /\ \A d \in c : d \in b \/ ~SettledIn(n, pc, id, d.id)
  /\ \A d \in c : d \in b \/ pc[v] \notin Pending \/ d.id # id[v]
  /\ \A i : SettledIn(n, pc, id, i) => SettledIn(m, pd, jd, i)
  /\ \A w \in Savers \ {v} : pd[w] \in Pending => \/ pc[w] \in Pending /\ jd[w] = id[w]
                                                  \/ jd[w] > n

LEMMA Bystander ==
  ASSUME NEW v \in Savers, NEW b, NEW c, NEW n, NEW m, NEW pc, NEW pd, NEW id, NEW jd,
         Around(v, b, c, n, m, pc, pd, id, jd), id[v] \in Nat,
         NEW T, NEW U, T \subseteq U, NEW l, NEW name \in PgNames, NEW rows \in SUBSET PgRecords,
         SaverOK(v, b, n, pc, id, T, l, name, rows)
  PROVE  SaverOK(v, c, m, pd, jd, U, l, name, rows)
  <1> DEFINE e == Entry(name, id[v])
  <1>1. e.id = id[v] /\ e.table = "list"
    BY DEF Entry
  <1>2. pd[v] = pc[v] /\ jd[v] = id[v] /\ n \in Nat /\ m \in Nat /\ n <= m
    BY DEF Around
  <1>3. \A i : SettledIn(n, pc, id, i) => SettledIn(m, pd, jd, i)
    BY DEF Around
  <1>4. \A d \in c : d \in b \/ ~SettledIn(n, pc, id, d.id)
    BY DEF Around
  <1>5. \A d \in l.pend.del : SettledIn(n, pc, id, d.id) /\ SettledIn(m, pd, jd, d.id)
    BY <1>3 DEF SaverOK
  <1>6. ASSUME NEW f, SettledIn(n, pc, id, f.id), OnlyEntry(b, f) PROVE OnlyEntry(c, f)
    BY <1>4, <1>6 DEF OnlyEntry
  <1>7. LinkedOK(l, pd[v], jd[v], m)
    <2>1. LinkedOK(l, pc[v], id[v], n)
      BY DEF SaverOK
    <2>2. pc[v] = "saved" => id[v] <= m
      BY <1>2, <2>1 DEF LinkedOK
    <2> QED  BY <1>2, <2>1, <2>2 DEF LinkedOK
  <1>8. FoundOK(c, m, pd, jd, pd[v], rows, name)
    BY <1>2, <1>3, <1>6 DEF SaverOK, FoundOK
  <1>9. DropEntryOK(c, m, pd, jd, pd[v], e)
    BY <1>2, <1>3, <1>6 DEF SaverOK, DropEntryOK
  <1>10. DropRowsOK(c, m, pd, jd, pd[v], l.pend, e)
    BY <1>2, <1>3, <1>4 DEF SaverOK, DropRowsOK
  <1>11. EntryOK(c, pd[v], l.pend, U)
    <2>1. ASSUME NEW j, DelWhole(b, l.pend.del, j) PROVE DelWhole(c, l.pend.del, j)
      BY <1>4, <1>5, <2>1 DEF DelWhole
    <2> QED  BY <1>2, <2>1 DEF SaverOK, EntryOK
  <1>12. PendingOK(c, m, pd, jd, pd[v], l, e, v)
    <2>1. CASE pc[v] \notin Pending
      BY <1>2, <2>1 DEF PendingOK
    <2>2. CASE pc[v] \in Pending
      <3>1. PendingOK(b, n, pc, id, pc[v], l, e, v)
        BY DEF SaverOK
      <3>2. \A d \in c : d.id # id[v]
        BY <1>1, <2>2, <3>1 DEF PendingOK, Around
      <3>3. \A w \in Savers \ {v} : pd[w] \in Pending => jd[w] # id[v]
        BY <1>1, <1>2, <2>2, <3>1 DEF PendingOK, Around
      <3>4. e.id \in 1 .. m
        BY <1>2, <2>2, <3>1 DEF PendingOK
      <3> HIDE DEF e
      <3> QED  BY <1>1, <1>2, <2>2, <3>1, <3>2, <3>3, <3>4 DEF PendingOK
    <2> QED  BY <2>1, <2>2
  <1> QED  BY <1>2, <1>5, <1>7, <1>8, <1>9, <1>10, <1>11, <1>12 DEF SaverOK

-----------------------------------------------------------------------------
(* A step of the saver u.                                                  *)
Saving(u, x, y) ==
  /\ PgTypeOK /\ BaseWell /\ (\A v \in Savers : SaverWell(v)) /\ MainWell
  /\ u \in Savers /\ Did(u, x, y) /\ pgName' = pgName

(* The other savers keep what they rely on.                                *)
Undisturbed(u) ==
  \A v \in Savers \ {u} : Around(v, base, base', ids, ids', pgPc, pgPc', pgId, pgId')

SavedOn(u) == BaseWell' /\ (pgCrashed' \/ (SaverWell(u)' /\ Undisturbed(u)))

SavingSo(u, x, y) ==
  /\ u \in Users /\ x \in Calls /\ y \in Calls /\ x.r = "ok" /\ x.base = base /\ y.base = base'
  /\ x.l = links[u] /\ y.l = links'[u]
  /\ pgName[u] \in PgNames /\ pgName' = pgName /\ pgId[u] \in Nat /\ ids \in Nat
  /\ SaverOK(u, base, ids, pgPc, pgId, tainted, x.l, pgName[u], readRes[u].rows)
  /\ pgCrashed' = (y.r = "crash")

LEMMA SavingFacts ==
  ASSUME NEW u, NEW x, NEW y, Saving(u, x, y)
  PROVE  SavingSo(u, x, y)
  <1>1. u \in Savers /\ u \in Users /\ Link(u) = u
    BY LinkOf DEF Saving, Users
  <1>2. ids \in Nat /\ pgName[u] \in PgNames /\ pgId[u] \in Nat
    BY <1>1, PostgresAssumption DEF Saving, PgTypeOK
  <1>3. /\ x \in Calls /\ y \in Calls /\ x.r = "ok" /\ x.base = base /\ y.base = base'
        /\ x.l = links[u] /\ y.l = links'[u] /\ pgCrashed' = (y.r = "crash")
    BY <1>1 DEF Saving, Did, CallOf, Typed
  <1>4. SaverOK(u, base, ids, pgPc, pgId, tainted, x.l, pgName[u], readRes[u].rows)
    BY <1>1, <1>3 DEF Saving, SaverWell
  <1>5. pgName' = pgName
    BY DEF Saving
  <1> QED  BY <1>1, <1>2, <1>3, <1>4, <1>5 DEF SavingSo

LEMMA Went ==
  ASSUME PgTypeOK, NEW u \in Users, NEW p, WentTo(u, p)
  PROVE  pgPc'[u] = p /\ \A v \in Users \ {u} : pgPc'[v] = pgPc[v]
  BY DEF PgTypeOK, WentTo

(* Nothing is committed, and no id given.                                  *)
LEMMA SameBase ==
  ASSUME NEW u, NEW x, NEW y, Saving(u, x, y), y.base = x.base, ids' = ids, tainted \subseteq tainted',
         NEW p, WentTo(u, p), p # "saved", p \in Pending => pgPc[u] \in Pending /\ pgId' = pgId,
         \A v \in Users \ {u} : pgId'[v] = pgId[v]
  PROVE  /\ BaseWell' /\ Undisturbed(u) /\ pgPc'[u] = p
         /\ \A j : Settled(j) => SettledIn(ids', pgPc', pgId', j)
  <1>0. SavingSo(u, x, y)
    BY SavingFacts
  <1>1. u \in Users /\ base' = base /\ PgTypeOK /\ ids \in Nat
    BY <1>0 DEF SavingSo, Saving
  <1>2. pgPc'[u] = p /\ \A v \in Users \ {u} : pgPc'[v] = pgPc[v]
    BY <1>1, Went
  <1>3. \A v \in Users \ {u} : pgId'[v] = pgId[v]
    OBVIOUS
  <1>4. \A v \in Savers : v \in Users
    BY DEF Users
  <1>5. \A v \in Savers : pgPc'[v] \in Pending => pgPc[v] \in Pending /\ pgId'[v] = pgId[v]
    BY <1>2, <1>3, <1>4
  <1>6. \A j : Settled(j) => SettledIn(ids', pgPc', pgId', j)
    BY <1>5 DEF Settled, SettledIn
  <1>7. BaseWell'
    <2>1. \A d \in base' : SettledIn(ids', pgPc', pgId', d.id)
      BY <1>1, <1>6 DEF Saving, BaseWell, BaseOK, Settled
    <2>2. \A d \in base' : d.table = "list" => OnlyEntry(base', d)
      BY <1>1 DEF Saving, BaseWell, BaseOK
    <2>3. \A j \in (0 .. MaxIds) \ tainted' : WholeIn(base', j)
      BY <1>1 DEF Saving, BaseWell, BaseOK
    <2>4. \A v \in Savers : pgPc'[v] = "saved" /\ pgId'[v] = ids' /\ pgId'[v] \notin tainted' => ListedIn(base', pgId'[v])
      BY <1>1, <1>2, <1>3, <1>4 DEF Saving, BaseWell, BaseOK
    <2> QED  BY <2>1, <2>2, <2>3, <2>4 DEF BaseWell, BaseOK
  <1>8. Undisturbed(u)
    <2>1. SUFFICES ASSUME NEW v \in Savers \ {u} PROVE Around(v, base, base', ids, ids', pgPc, pgPc', pgId, pgId')
      BY DEF Undisturbed
    <2> QED  BY <1>1, <1>2, <1>3, <1>4, <1>5, <1>6 DEF Around, Settled
  <1> QED  BY <1>2, <1>6, <1>7, <1>8

(* A call that failed leaves the transaction as it was, or lost it; only   *)
(* the end of the transaction is left.                                     *)
LEMMA Failing ==
  ASSUME NEW u, NEW b, NEW n, NEW pc, NEW id, NEW T, NEW l, NEW name, NEW rows,
         SaverOK(u, b, n, pc, id, T, l, name, rows),
         NEW k, SaverLink(k), k.pend \in {NoChanges, l.pend},
         NEW c, NEW m, NEW pd, NEW jd, NEW U, NEW nm, NEW rw,
         pd[u] \in {"fail", "done", "start"}, pd[u] # "fail" => k.block = "none",
         \A i : SettledIn(n, pc, id, i) => SettledIn(m, pd, jd, i)
  PROVE  SaverOK(u, c, m, pd, jd, U, k, nm, rw)
  <1>1. \A d \in k.pend.del : SettledIn(m, pd, jd, d.id)
    BY NoChangesType DEF SaverOK
  <1>2. LinkedOK(k, pd[u], jd[u], m)
    BY DEF LinkedOK, InTransPlaces
  <1>3. pd[u] \notin {"found", "drop entry", "drop rows", "entry", "rows", "commit"}
    OBVIOUS
  <1> QED  BY <1>1, <1>2, <1>3 DEF SaverOK, FoundOK, DropEntryOK, DropRowsOK, EntryOK, PendingOK, Pending

LEMMA Begins ==
  ASSUME NEW u, NEW x, NEW y, Saving(u, x, y), SaverStarts(u, x, y)
  PROVE  SavedOn(u)
  <1>1. SavingSo(u, x, y)
    BY SavingFacts
  <1>2. /\ CallStep(u, "find", "fail", x, y) /\ y \in TransactionBegin(x) /\ ids' = ids
        /\ pgId' = pgId /\ tainted' = tainted /\ pgPc[u] = "start" /\ readRes' = readRes
    BY DEF SaverStarts, Kept, PgAt
  <1>3. Begun(x, y)
    <2>1. SaverLink(x.l) /\ x.l.block = "none" /\ x \in Calls
      BY <1>1, <1>2 DEF SavingSo, SaverOK, LinkedOK
    <2> QED  BY <1>2, <2>1, SaverBegins
  <1>4. y.base = x.base /\ SaverLink(y.l) /\ y.l.pend = NoChanges /\ (y.r = "ok" => y.l.trans = InTrans)
    <2>1. x.l.pend = NoChanges
      BY <1>1, <1>2 DEF SavingSo, SaverOK, LinkedOK, SaverLink, LinkWell
    <2> QED  BY <1>3, <2>1 DEF Begun, Quiet
  <1>5. PICK p : WentTo(u, p) /\ (p = "fail" \/ (p = "find" /\ y.r = "ok"))
    BY <1>2 DEF CallStep
  <1>6. /\ BaseWell' /\ Undisturbed(u) /\ pgPc'[u] = p
        /\ \A j : Settled(j) => SettledIn(ids', pgPc', pgId', j)
    BY <1>2, <1>4, <1>5, SameBase DEF Pending
  <1>7. SaverWell(u)'
    <2>1. CASE p = "fail"
      <3>1. SaverOK(u, base', ids', pgPc', pgId', tainted', y.l, pgName'[u], readRes'[u].rows)
        BY <1>1, <1>4, <1>6, <2>1, Failing DEF SavingSo, Settled
      <3> QED  BY <1>1, <3>1 DEF SaverWell, SavingSo
    <2>2. CASE p = "find" /\ y.r = "ok"
      <3>1. LinkedOK(y.l, "find", pgId'[u], ids')
        BY <1>4, <2>2 DEF LinkedOK
      <3>2. y.l.pend.del = {}
        BY <1>4, NoChangesType
      <3>3. SaverOK(u, base', ids', pgPc', pgId', tainted', y.l, pgName'[u], readRes'[u].rows)
        BY <1>6, <2>2, <3>1, <3>2 DEF SaverOK, FoundOK, DropEntryOK, DropRowsOK, EntryOK, PendingOK, Pending
      <3> QED  BY <1>1, <3>3 DEF SaverWell, SavingSo
    <2> QED  BY <1>5, <2>1, <2>2
  <1> QED  BY <1>6, <1>7 DEF SavedOn

-----------------------------------------------------------------------------
LEMMA SaverFails ==
  ASSUME NEW u, NEW x, NEW y, Saving(u, x, y), SaverLink(y.l), y.l.pend \in {NoChanges, x.l.pend},
         pgPc'[u] \in {"fail", "done"}, pgPc'[u] = "done" => y.l.block = "none",
         \A j : Settled(j) => SettledIn(ids', pgPc', pgId', j)
  PROVE  SaverWell(u)'
  <1>1. SavingSo(u, x, y)
    BY SavingFacts
  <1>2. SaverOK(u, base', ids', pgPc', pgId', tainted', y.l, pgName'[u], readRes'[u].rows)
    BY <1>1, Failing DEF SavingSo, Settled
  <1> QED  BY <1>1, <1>2 DEF SaverWell, SavingSo

(* Reading in the transaction.                                             *)
LEMMA FindsEntry ==
  ASSUME NEW u, NEW x, NEW y, Saving(u, x, y), SaverFinds(u, x, y)
  PROVE  SavedOn(u)
  <1>1. SavingSo(u, x, y)
    BY SavingFacts
  <1>2. FoundStep(u, "find", "found", x, y) /\ pgId' = pgId /\ tainted' = tainted /\ ids' = ids /\ pgPc[u] = "find"
    BY DEF SaverFinds, FoundStep, PgAt
  <1>3. Within(x) /\ x.l.pend = NoChanges
    BY <1>1, <1>2 DEF SavingSo, SaverOK, LinkedOK, InTransPlaces, Within
  <1>4. PICK wanted : wanted = EntriesOf(pgName[u])
    OBVIOUS
  <1>5. wanted \in SUBSET PgRecords /\ \A d \in wanted : d = Entry(pgName[u], d.id) /\ d.table = "list"
    BY <1>1, <1>4, RowSets, RecordTypes, PostgresAssumption DEF SavingSo
  <1>6. Quiet(x, y) /\ (y.r = "ok" => y.l.trans = InTrans /\ y.rows \subseteq (wanted \cap y.base))
    <2>1. y \in ReadStart(x, "list", wanted) /\ "list" \in Tables
      BY <1>2, <1>4 DEF FoundStep, Tables
    <2> QED  BY <1>3, <1>5, <2>1, SaverReads
  <1>7. y.base = x.base /\ SaverLink(y.l) /\ y.l.pend = NoChanges
    BY <1>3, <1>6 DEF Quiet
  <1>8. PICK p : WentTo(u, p) /\ \/ p = "fail"
                                 \/ p = "found" /\ y.r = "ok" /\ readRes' = [readRes EXCEPT ![u] = Result(y.rows)]
    BY <1>2 DEF FoundStep
  <1>9. /\ BaseWell' /\ Undisturbed(u) /\ pgPc'[u] = p
        /\ \A j : Settled(j) => SettledIn(ids', pgPc', pgId', j)
    BY <1>2, <1>7, <1>8, SameBase DEF Pending
  <1>10. CASE p = "fail"
    <2>1. SaverWell(u)'
      BY <1>7, <1>9, <1>10, SaverFails
    <2> QED  BY <1>9, <2>1 DEF SavedOn
  <1>11. CASE p = "found" /\ y.r = "ok" /\ readRes' = [readRes EXCEPT ![u] = Result(y.rows)]
    <2>1. readRes'[u].rows = y.rows
      BY <1>1, <1>11 DEF SavingSo, Saving, PgTypeOK, Result
    <2>2. \A d \in y.rows : d = Entry(pgName[u], d.id) /\ SettledIn(ids', pgPc', pgId', d.id) /\ OnlyEntry(base', d)
      <3>1. SUFFICES ASSUME NEW d \in y.rows
                     PROVE  d = Entry(pgName[u], d.id) /\ SettledIn(ids', pgPc', pgId', d.id) /\ OnlyEntry(base', d)
        OBVIOUS
      <3>2. d \in wanted /\ d \in base /\ base' = base /\ d.table = "list"
        BY <1>1, <1>5, <1>6, <1>7, <1>11 DEF SavingSo
      <3>3. Settled(d.id) /\ OnlyEntry(base, d)
        BY <3>2 DEF Saving, BaseWell, BaseOK, Settled
      <3> QED  BY <1>5, <1>9, <3>2, <3>3
    <2>3. FoundOK(base', ids', pgPc', pgId', "found", y.rows, pgName[u])
      BY <2>2 DEF FoundOK
    <2>4. LinkedOK(y.l, "found", pgId'[u], ids')
      BY <1>6, <1>7, <1>11 DEF LinkedOK
    <2>5. y.l.pend.del = {}
      BY <1>7, NoChangesType
    <2>6. SaverOK(u, base', ids', pgPc', pgId', tainted', y.l, pgName[u], y.rows)
      BY <1>9, <1>11, <2>3, <2>4, <2>5 DEF SaverOK, DropEntryOK, DropRowsOK, EntryOK, PendingOK, Pending
    <2>7. SaverWell(u)'
      BY <1>1, <2>1, <2>6 DEF SaverWell, SavingSo
    <2> QED  BY <1>9, <2>7 DEF SavedOn
  <1> QED  BY <1>8, <1>10, <1>11

LEMMA FoundEntry ==
  ASSUME NEW u, NEW x, NEW y, Saving(u, x, y), SaverFound(u, x, y), ~AllTainted'
  PROVE  SavedOn(u)
  <1>1. SavingSo(u, x, y)
    BY SavingFacts
  <1>2. SingleStep(u, "found", "drop entry", "entry", x, y) /\ ids' = ids /\ pgPc[u] = "found"
    BY DEF SaverFound, SingleStep, PgAt
  <1>3. Within(x) /\ x.l.pend = NoChanges
    BY <1>1, <1>2 DEF SavingSo, SaverOK, LinkedOK, InTransPlaces, Within
  <1>4. Quiet(x, y)
    <2>1. y \in ReadEnd(x, "list") /\ "list" \in Tables
      BY <1>2 DEF SingleStep, Tables
    <2> QED  BY <1>3, <2>1, SaverReadEnds
  <1>5. y.base = x.base /\ SaverLink(y.l) /\ y.l.pend = NoChanges
    BY <1>3, <1>4 DEF Quiet
  <1>6. ~Unnoticed(u, y) /\ tainted' = tainted
    BY <1>2 DEF SingleStep, AllTainted
  <1>7. y.l.trans = InTrans
    BY <1>1, <1>3, <1>6 DEF Unnoticed, Saving, SavingSo, Within
  <1>8. /\ FoundOK(base, ids, pgPc, pgId, "found", readRes[u].rows, pgName[u])
        /\ base' = base /\ ids \in Nat
    BY <1>1, <1>2, <1>5 DEF SavingSo, SaverOK
  <1>9. CASE WentTo(u, "drop entry") /\ \E d \in readRes[u].rows : pgId' = [pgId EXCEPT ![u] = d.id]
    <2>1. PICK d \in readRes[u].rows : pgId' = [pgId EXCEPT ![u] = d.id]
      BY <1>9
    <2>2. d = Entry(pgName[u], d.id) /\ Settled(d.id) /\ OnlyEntry(base, d)
      BY <1>8 DEF FoundOK, Settled
    <2>3. pgId'[u] = d.id
      BY <1>1, <2>1 DEF SavingSo, Saving, PgTypeOK
    <2>5. \A v \in Users \ {u} : pgId'[v] = pgId[v]
      BY <1>1, <2>1 DEF SavingSo, Saving, PgTypeOK
    <2>6. /\ BaseWell' /\ Undisturbed(u) /\ pgPc'[u] = "drop entry"
          /\ \A j : Settled(j) => SettledIn(ids', pgPc', pgId', j)
      <3>1. PICK p : p = "drop entry"
        OBVIOUS
      <3>2. WentTo(u, p) /\ p # "saved" /\ p \notin Pending /\ ids' = ids /\ y.base = x.base /\ tainted \subseteq tainted'
        BY <1>2, <1>5, <1>6, <1>9, <3>1 DEF Pending
      <3> QED  BY <2>5, <3>1, <3>2, SameBase
    <2>7. DropEntryOK(base', ids', pgPc', pgId', "drop entry", Entry(pgName[u], pgId'[u]))
      <3>1. SettledIn(ids', pgPc', pgId', d.id)
        BY <2>2, <2>6
      <3> QED  BY <1>8, <2>2, <2>3, <3>1 DEF DropEntryOK
    <2>8. LinkedOK(y.l, "drop entry", pgId'[u], ids')
      BY <1>5, <1>7 DEF LinkedOK
    <2>9. y.l.pend.del = {}
      BY <1>5, NoChangesType
    <2>10. SaverOK(u, base', ids', pgPc', pgId', tainted', y.l, pgName[u], readRes'[u].rows)
      BY <2>6, <2>7, <2>8, <2>9 DEF SaverOK, FoundOK, DropRowsOK, EntryOK, PendingOK, Pending
    <2>11. SaverWell(u)'
      BY <1>1, <2>10 DEF SaverWell, SavingSo
    <2> QED  BY <2>6, <2>11 DEF SavedOn
  <1>10. CASE pgId' = [pgId EXCEPT ![u] = 0] /\ (WentTo(u, "entry") \/ WentTo(u, "fail"))
    <2>1. PICK p : WentTo(u, p) /\ p \in {"entry", "fail"}
      BY <1>10
    <2>3. \A v \in Users \ {u} : pgId'[v] = pgId[v]
      BY <1>1, <1>10 DEF SavingSo, Saving, PgTypeOK
    <2>6. /\ BaseWell' /\ Undisturbed(u) /\ pgPc'[u] = p
          /\ \A j : Settled(j) => SettledIn(ids', pgPc', pgId', j)
      <3>1. p # "saved" /\ p \notin Pending /\ ids' = ids /\ y.base = x.base /\ tainted \subseteq tainted'
        BY <1>2, <1>5, <1>6, <2>1 DEF Pending
      <3> QED  BY <2>1, <2>3, <3>1, SameBase
    <2>7. CASE p = "fail"
      <3>1. SaverWell(u)'
        BY <1>5, <2>6, <2>7, SaverFails
      <3> QED  BY <2>6, <3>1 DEF SavedOn
    <2>8. CASE p = "entry"
      <3>1. LinkedOK(y.l, "entry", pgId'[u], ids')
        BY <1>5, <1>7 DEF LinkedOK
      <3>2. y.l.pend.del = {} /\ y.l.pend.add = {}
        BY <1>5, NoChangesType
      <3>3. EntryOK(base', "entry", y.l.pend, tainted')
        BY <3>2 DEF EntryOK, DelWhole
      <3>4. SaverOK(u, base', ids', pgPc', pgId', tainted', y.l, pgName[u], readRes'[u].rows)
        BY <2>6, <2>8, <3>1, <3>2, <3>3 DEF SaverOK, FoundOK, DropEntryOK, DropRowsOK, PendingOK, Pending
      <3>5. SaverWell(u)'
        BY <1>1, <3>4 DEF SaverWell, SavingSo
      <3> QED  BY <2>6, <3>5 DEF SavedOn
    <2> QED  BY <2>1, <2>7, <2>8
  <1> QED  BY <1>2, <1>9, <1>10 DEF SingleStep

LEMMA RollsBackAll ==
  ASSUME NEW u, NEW x, NEW y, Saving(u, x, y), RollsBack(u, x, y)
  PROVE  SavedOn(u)
  <1>1. SavingSo(u, x, y)
    BY SavingFacts
  <1>2. y \in TransactionEnd(x, "ROLLBACK") /\ pgId' = pgId /\ tainted' = tainted /\ ids' = ids /\ WentTo(u, "done")
    BY DEF RollsBack, Kept, CallStep
  <1>3. Finished(x, "ROLLBACK", y)
    <2>1. x \in Calls /\ SaverLink(x.l)
      BY <1>1 DEF SavingSo, SaverOK, LinkedOK
    <2> QED  BY <1>2, <2>1, SaverEnds
  <1>4. y.base = x.base /\ SaverLink(y.l) /\ y.l.pend \in {NoChanges, x.l.pend} /\ y.l.block = "none"
    BY <1>3 DEF Finished
  <1>5. /\ BaseWell' /\ Undisturbed(u) /\ pgPc'[u] = "done"
        /\ \A j : Settled(j) => SettledIn(ids', pgPc', pgId', j)
    BY <1>2, <1>4, SameBase DEF Pending
  <1>6. SaverWell(u)'
    BY <1>4, <1>5, SaverFails
  <1> QED  BY <1>5, <1>6 DEF SavedOn

-----------------------------------------------------------------------------
(* What was stored under the name is dropped: first its entry.             *)
LEMMA DropsTheEntry ==
  ASSUME NEW u, NEW x, NEW y, Saving(u, x, y), DropsEntry(u, x, y)
  PROVE  SavedOn(u)
  <1>1. SavingSo(u, x, y)
    BY SavingFacts
  <1>2. PICK e : e = Entry(pgName[u], pgId[u])
    OBVIOUS
  <1>3. /\ y \in Delete(x, {e}) /\ CallStep(u, "drop rows", "fail", x, y)
        /\ pgId' = pgId /\ tainted' = tainted /\ ids' = ids /\ pgPc[u] = "drop entry"
    BY <1>2 DEF DropsEntry, Kept, PgAt
  <1>4. Within(x) /\ x.l.pend = NoChanges /\ Settled(e.id) /\ OnlyEntry(base, e) /\ e.id = pgId[u] /\ e \in PgRecords
    <2>1. e.id = pgId[u] /\ e \in PgRecords
      BY <1>1, <1>2, RecordTypes DEF SavingSo
    <2> QED  BY <1>1, <1>2, <1>3, <2>1 DEF SavingSo, SaverOK, LinkedOK, DropEntryOK, InTransPlaces, Within, Settled
  <1>5. Dropped(x, {e}, y)
    <2>1. {e} \in SUBSET PgRecords
      BY <1>4
    <2> QED  BY <1>3, <1>4, <2>1, SaverDeletes
  <1>6. y.base = x.base /\ SaverLink(y.l) /\ base' = base
    BY <1>1, <1>5 DEF Dropped, SavingSo
  <1>7. PICK p : WentTo(u, p) /\ ((p = "fail" /\ y.r # "ok") \/ (p = "drop rows" /\ y.r = "ok"))
    BY <1>3 DEF CallStep
  <1>8. /\ BaseWell' /\ Undisturbed(u) /\ pgPc'[u] = p
        /\ \A j : Settled(j) => SettledIn(ids', pgPc', pgId', j)
    BY <1>3, <1>6, <1>7, SameBase DEF Pending
  <1>9. CASE p = "fail" /\ y.r # "ok"
    <2>1. SaverWell(u)'
      BY <1>5, <1>8, <1>9, SaverFails DEF Dropped
    <2> QED  BY <1>8, <2>1 DEF SavedOn
  <1>10. CASE p = "drop rows" /\ y.r = "ok"
    <2>1. y.l.trans = InTrans /\ y.l.pend.add = {} /\ y.l.pend.del = {e} \cap base
      <3>1. Seen(x) = (x.base \ x.l.pend.del) \cup x.l.pend.add
        BY <1>1, SeenType DEF SavingSo
      <3>2. Seen(x) = base
        BY <1>1, <1>4, <3>1, NoChangesType DEF SavingSo
      <3> QED  BY <1>4, <1>5, <1>10, <3>2, NoChangesType DEF Dropped
    <2>2. DropRowsOK(base', ids', pgPc', pgId', "drop rows", y.l.pend, e)
      <3>1. \A d \in base' : d.table = "list" /\ d.id = e.id => d \in y.l.pend.del
        BY <1>4, <1>6, <2>1 DEF OnlyEntry
      <3> QED  BY <1>4, <1>8, <2>1, <3>1 DEF DropRowsOK
    <2>3. \A d \in y.l.pend.del : SettledIn(ids', pgPc', pgId', d.id)
      BY <1>4, <1>8, <2>1
    <2>4. LinkedOK(y.l, "drop rows", pgId'[u], ids')
      BY <1>6, <2>1 DEF LinkedOK
    <2>5. e = Entry(pgName[u], pgId'[u])
      BY <1>2, <1>3
    <2>6. SaverOK(u, base', ids', pgPc', pgId', tainted', y.l, pgName[u], readRes'[u].rows)
      BY <1>8, <1>10, <2>2, <2>3, <2>4, <2>5 DEF SaverOK, FoundOK, DropEntryOK, EntryOK, PendingOK, Pending
    <2>7. SaverWell(u)'
      BY <1>1, <2>6 DEF SaverWell, SavingSo
    <2> QED  BY <1>8, <2>7 DEF SavedOn
  <1> QED  BY <1>7, <1>9, <1>10

(* Then its rows: nothing of the id is left.                               *)
LEMMA DropsItsRows ==
  ASSUME NEW u, NEW x, NEW y, Saving(u, x, y), DropsRows(u, x, y)
  PROVE  SavedOn(u)
  <1>1. SavingSo(u, x, y)
    BY SavingFacts
  <1>2. PICK e, s : e = Entry(pgName[u], pgId[u]) /\ s = AllRows(pgId[u])
    OBVIOUS
  <1>3. /\ y \in Delete(x, s) /\ CallStep(u, "entry", "fail", x, y)
        /\ pgId' = pgId /\ tainted' = tainted /\ ids' = ids /\ pgPc[u] = "drop rows"
    BY <1>2 DEF DropsRows, Kept, PgAt
  <1>4. /\ Within(x) /\ e.id = pgId[u] /\ e \in PgRecords
        /\ s \in SUBSET PgRecords /\ \A d \in s : d.id = e.id
    <2>1. e.id = pgId[u] /\ e \in PgRecords /\ s \in SUBSET PgRecords /\ \A d \in s : d.id = pgId[u]
      BY <1>1, <1>2, RecordTypes, RowSets DEF SavingSo
    <2> QED  BY <1>1, <1>3, <2>1 DEF SavingSo, SaverOK, LinkedOK, InTransPlaces, Within
  <1>5. /\ x.l.pend.add = {} /\ x.l.pend.del \subseteq {e} /\ Settled(e.id)
        /\ \A d \in base : d.table = "list" /\ d.id = e.id => d \in x.l.pend.del
    BY <1>1, <1>2, <1>3 DEF SavingSo, SaverOK, DropRowsOK, Settled
  <1>6. Dropped(x, s, y)
    BY <1>3, <1>4, SaverDeletes
  <1>7. y.base = x.base /\ SaverLink(y.l) /\ base' = base
    BY <1>1, <1>6 DEF Dropped, SavingSo
  <1>8. PICK p : WentTo(u, p) /\ ((p = "fail" /\ y.r # "ok") \/ (p = "entry" /\ y.r = "ok"))
    BY <1>3 DEF CallStep
  <1>9. /\ BaseWell' /\ Undisturbed(u) /\ pgPc'[u] = p
        /\ \A j : Settled(j) => SettledIn(ids', pgPc', pgId', j)
    BY <1>3, <1>7, <1>8, SameBase DEF Pending
  <1>10. CASE p = "fail" /\ y.r # "ok"
    <2>1. SaverWell(u)'
      BY <1>6, <1>9, <1>10, SaverFails DEF Dropped
    <2> QED  BY <1>9, <2>1 DEF SavedOn
  <1>11. CASE p = "entry" /\ y.r = "ok"
    <2>1. Seen(x) = base \ x.l.pend.del
      <3>1. Seen(x) = (x.base \ x.l.pend.del) \cup x.l.pend.add
        BY <1>1, SeenType DEF SavingSo
      <3> QED  BY <1>1, <1>5, <3>1 DEF SavingSo
    <2>2. y.l.trans = InTrans /\ y.l.pend.add = {} /\ y.l.pend.del = x.l.pend.del \cup (s \cap base)
      BY <1>5, <1>6, <1>11, <2>1 DEF Dropped
    <2>3. \A d \in y.l.pend.del : d.id = e.id
      BY <1>4, <1>5, <2>2
    <2>4. \A d \in base : d.id = e.id => d \in y.l.pend.del
      <3>1. SUFFICES ASSUME NEW d \in base, d.id = e.id, d.table # "list" PROVE d \in s
        BY <1>5, <2>2
      <3>2. d \in PgRecords
        BY DEF Saving, PgTypeOK, SharedTypeOK
      <3>3. d.what \in PgRows /\ d = Row(d.what, e.id)
        BY <3>1, <3>2 DEF PgRecords, Row
      <3> QED  BY <1>2, <1>4, <3>3 DEF AllRows
    <2>5. \A j : DelWhole(base, y.l.pend.del, j)
      BY <2>3, <2>4 DEF DelWhole
    <2>6. EntryOK(base', "entry", y.l.pend, tainted')
      BY <1>7, <2>2, <2>5 DEF EntryOK
    <2>7. \A d \in y.l.pend.del : SettledIn(ids', pgPc', pgId', d.id)
      BY <1>5, <1>9, <2>3
    <2>8. LinkedOK(y.l, "entry", pgId'[u], ids')
      BY <1>7, <2>2 DEF LinkedOK
    <2>9. SaverOK(u, base', ids', pgPc', pgId', tainted', y.l, pgName[u], readRes'[u].rows)
      BY <1>9, <1>11, <2>6, <2>7, <2>8 DEF SaverOK, FoundOK, DropEntryOK, DropRowsOK, PendingOK, Pending
    <2>10. SaverWell(u)'
      BY <1>1, <2>9 DEF SaverWell, SavingSo
    <2> QED  BY <1>9, <2>10 DEF SavedOn
  <1> QED  BY <1>8, <1>10, <1>11

-----------------------------------------------------------------------------
(* The entry is written, with an id that nobody has.                       *)
LEMMA WritesTheEntry ==
  ASSUME NEW u, NEW x, NEW y, Saving(u, x, y), WritesEntry(u, x, y)
  PROVE  SavedOn(u)
  <1>1. SavingSo(u, x, y)
    BY SavingFacts
  <1>2. PICK k, e : k = ids + 1 /\ e = Entry(pgName[u], k)
    OBVIOUS
  <1>3. /\ y \in Write(x, {e}) /\ CallStep(u, "rows", "fail", x, y) /\ tainted' = tainted
        /\ ids' = k /\ pgId' = [pgId EXCEPT ![u] = k] /\ pgPc[u] = "entry"
    BY <1>2 DEF WritesEntry, PgAt
  <1>4. /\ u \in Users /\ ids \in Nat /\ k \in Nat /\ e.id = k /\ e \in PgRecords
        /\ pgId'[u] = k /\ \A v \in Users \ {u} : pgId'[v] = pgId[v]
    <2>1. u \in Users /\ ids \in Nat /\ k \in Nat /\ PgTypeOK /\ pgName[u] \in PgNames
      BY <1>1, <1>2 DEF SavingSo, Saving
    <2> QED  BY <1>2, <1>3, <2>1, RecordTypes DEF PgTypeOK
  <1>5. /\ Within(x) /\ x.l.pend.add = {} /\ \A d \in x.l.pend.del : Settled(d.id)
        /\ \A j \in (0 .. MaxIds) \ tainted : DelWhole(base, x.l.pend.del, j)
    BY <1>1, <1>3 DEF SavingSo, SaverOK, LinkedOK, EntryOK, InTransPlaces, Within, Settled
  <1>6. Written(x, {e}, y)
    <2>1. {e} \in SUBSET PgRecords
      BY <1>4
    <2> QED  BY <1>3, <1>5, <2>1, SaverWrites
  <1>7. y.base = x.base /\ base' = base /\ SaverLink(y.l)
    BY <1>1, <1>6 DEF Written, SavingSo
  <1>8. PICK p : WentTo(u, p) /\ ((p = "fail" /\ y.r # "ok") \/ (p = "rows" /\ y.r = "ok"))
    BY <1>3 DEF CallStep
  <1>9. pgPc'[u] = p /\ \A v \in Users \ {u} : pgPc'[v] = pgPc[v]
    BY <1>4, <1>8, Went DEF Saving
  <1>10. \A v \in Savers : v \in Users
    BY DEF Users
  <1>11. \A j : Settled(j) => SettledIn(ids', pgPc', pgId', j) /\ j <= ids /\ j # k
    BY <1>2, <1>3, <1>4, <1>9, <1>10 DEF Settled, SettledIn
  <1>12. \A d \in base : Settled(d.id)
    BY DEF Saving, BaseWell, BaseOK, Settled
  <1>13. BaseWell'
    <2>1. \A d \in base' : SettledIn(ids', pgPc', pgId', d.id)
      BY <1>7, <1>11, <1>12
    <2>2. \A d \in base' : d.table = "list" => OnlyEntry(base', d)
      BY <1>7 DEF Saving, BaseWell, BaseOK
    <2>3. \A j \in (0 .. MaxIds) \ tainted' : WholeIn(base', j)
      BY <1>3, <1>7 DEF Saving, BaseWell, BaseOK
    <2>4. \A v \in Savers : ~(pgPc'[v] = "saved" /\ pgId'[v] = ids')
      <3>1. SUFFICES ASSUME NEW v \in Savers, pgPc'[v] = "saved", pgId'[v] = ids' PROVE FALSE
        OBVIOUS
      <3>2. v # u /\ pgPc[v] = "saved" /\ pgId[v] = k
        BY <1>3, <1>4, <1>8, <1>9, <1>10, <3>1
      <3>3. pgId[v] <= ids
        BY <3>2 DEF Saving, SaverWell, SaverOK, LinkedOK
      <3> QED  BY <1>2, <1>4, <3>2, <3>3
    <2> QED  BY <2>1, <2>2, <2>3, <2>4 DEF BaseWell, BaseOK
  <1>14. Undisturbed(u)
    <2>1. SUFFICES ASSUME NEW v \in Savers \ {u} PROVE Around(v, base, base', ids, ids', pgPc, pgPc', pgId, pgId')
      BY DEF Undisturbed
    <2>2. ids' \in Nat /\ ids <= ids' /\ pgId'[u] > ids
      BY <1>2, <1>3, <1>4
    <2>3. \A w \in Savers \ {v} : pgPc'[w] \in Pending => (pgPc[w] \in Pending /\ pgId'[w] = pgId[w]) \/ pgId'[w] > ids
      BY <1>4, <1>9, <1>10, <2>2
    <2> QED  BY <1>4, <1>7, <1>9, <1>10, <1>11, <2>2, <2>3 DEF Around, Settled
  <1>15. CASE p = "fail" /\ y.r # "ok"
    <2>1. SaverWell(u)'
      BY <1>6, <1>7, <1>9, <1>11, <1>15, SaverFails DEF Written
    <2> QED  BY <1>13, <1>14, <2>1 DEF SavedOn
  <1>16. CASE p = "rows" /\ y.r = "ok"
    <2>1. y.l.trans = InTrans /\ y.l.block = "open" /\ y.l.pend.add = {e} /\ y.l.pend.del = x.l.pend.del
      BY <1>5, <1>6, <1>16 DEF Written
    <2>2. \A d \in base' : d.id # k
      BY <1>7, <1>11, <1>12
    <2>3. \A d \in y.l.pend.del : SettledIn(ids', pgPc', pgId', d.id) /\ d.id < k
      <3>1. \A j : Settled(j) => j \in Nat /\ j < k
        BY <1>2, <1>4 DEF Settled, SettledIn
      <3> QED  BY <1>5, <1>11, <2>1, <3>1
    <2>4. \A v \in Savers \ {u} : pgPc'[v] \in Pending => pgId'[v] # k
      <3>1. SUFFICES ASSUME NEW v \in Savers \ {u}, pgPc[v] \in Pending PROVE pgId[v] # k
        BY <1>4, <1>9, <1>10
      <3>2. Entry(pgName[v], pgId[v]).id \in 1 .. ids
        BY <3>1 DEF Saving, SaverWell, SaverOK, PendingOK
      <3>3. Entry(pgName[v], pgId[v]).id = pgId[v]
        BY DEF Entry
      <3> QED  BY <1>2, <1>4, <3>2, <3>3
    <2>5. k \in 1 .. ids'
      BY <1>2, <1>3, <1>4
    <2>6. PendingOK(base', ids', pgPc', pgId', "rows", y.l, e, u)
      BY <1>4, <2>1, <2>2, <2>3, <2>4, <2>5 DEF PendingOK
    <2>7. EntryOK(base', "rows", y.l.pend, tainted')
      BY <1>3, <1>5, <1>7, <2>1 DEF EntryOK
    <2>8. LinkedOK(y.l, "rows", pgId'[u], ids')
      BY <1>7, <2>1 DEF LinkedOK
    <2>9. SaverOK(u, base', ids', pgPc', pgId', tainted', y.l, pgName[u], readRes'[u].rows)
      BY <1>2, <1>4, <1>9, <1>16, <2>3, <2>6, <2>7, <2>8 DEF SaverOK, FoundOK, DropEntryOK, DropRowsOK
    <2>10. SaverWell(u)'
      BY <1>1, <2>9 DEF SaverWell, SavingSo
    <2> QED  BY <1>13, <1>14, <2>10 DEF SavedOn
  <1> QED  BY <1>8, <1>15, <1>16

(* A row of it is written.                                                 *)
LEMMA WritesOneRow ==
  ASSUME NEW u, NEW x, NEW y, Saving(u, x, y), WritesRow(u, x, y)
  PROVE  SavedOn(u)
  <1>1. SavingSo(u, x, y)
    BY SavingFacts
  <1>2. PICK r \in PgRows :
          /\ y \in Write(x, {Row(r, pgId[u])})
          /\ \/ /\ CallStep(u, "commit", "fail", x, y)
                /\ \A v \in PgRows : v = r \/ Row(v, pgId[u]) \in Seen(x)
             \/ CallStep(u, "rows", "fail", x, y)
    BY DEF WritesRow
  <1>3. PICK d0, e : d0 = Row(r, pgId[u]) /\ e = Entry(pgName[u], pgId[u])
    OBVIOUS
  <1>4. pgId' = pgId /\ tainted' = tainted /\ ids' = ids /\ pgPc[u] = "rows"
    BY DEF WritesRow, Kept, PgAt
  <1>5. d0 \in PgRecords /\ d0.id = pgId[u] /\ e.id = pgId[u] /\ {d0} \in SUBSET PgRecords
    BY <1>1, <1>3, RecordTypes DEF SavingSo
  <1>6. /\ Within(x) /\ PendingOK(base, ids, pgPc, pgId, "rows", x.l, e, u)
        /\ \A d \in x.l.pend.del : Settled(d.id)
        /\ \A j \in (0 .. MaxIds) \ tainted : DelWhole(base, x.l.pend.del, j)
    BY <1>1, <1>3, <1>4 DEF SavingSo, SaverOK, LinkedOK, EntryOK, InTransPlaces, Within, Settled
  <1>7. Written(x, {d0}, y)
    BY <1>2, <1>3, <1>5, <1>6, SaverWrites
  <1>8. y.base = x.base /\ base' = base /\ SaverLink(y.l)
    BY <1>1, <1>7 DEF Written, SavingSo
  <1>9. PICK p : WentTo(u, p) /\ \/ p = "fail" /\ y.r # "ok"
                                 \/ p = "rows" /\ y.r = "ok"
                                 \/ p = "commit" /\ y.r = "ok" /\ \A v \in PgRows : v = r \/ Row(v, pgId[u]) \in Seen(x)
    BY <1>2 DEF CallStep
  <1>10. /\ BaseWell' /\ Undisturbed(u) /\ pgPc'[u] = p
         /\ \A j : Settled(j) => SettledIn(ids', pgPc', pgId', j)
    <2>1. p # "saved" /\ pgPc[u] \in Pending
      BY <1>4, <1>9 DEF Pending
    <2> QED  BY <1>4, <1>8, <1>9, <2>1, SameBase
  <1>11. CASE p = "fail" /\ y.r # "ok"
    <2>1. SaverWell(u)'
      BY <1>7, <1>8, <1>10, <1>11, SaverFails DEF Written
    <2> QED  BY <1>10, <2>1 DEF SavedOn
  <1>12. CASE p # "fail" /\ y.r = "ok"
    <2>1. y.l.trans = InTrans /\ y.l.block = "open" /\ y.l.pend.add = x.l.pend.add \cup {d0} /\ y.l.pend.del = x.l.pend.del
      BY <1>7, <1>12 DEF Written
    <2>2. p = "commit" => \A v \in PgRows : Row(v, e.id) \in y.l.pend.add
      <3>1. SUFFICES ASSUME p = "commit", NEW v \in PgRows, v # r PROVE Row(v, e.id) \in x.l.pend.add
        BY <1>3, <1>5, <2>1
      <3>2. Row(v, e.id) \in Seen(x)
        BY <1>5, <1>9, <3>1
      <3>3. Row(v, e.id) \notin base
        <4>1. Row(v, e.id).id = e.id
          BY DEF Row
        <4> QED  BY <1>6, <4>1 DEF PendingOK, Pending
      <3>4. Seen(x) = (x.base \ x.l.pend.del) \cup x.l.pend.add
        BY <1>1, SeenType DEF SavingSo
      <3> QED  BY <1>1, <3>2, <3>3, <3>4 DEF SavingSo
    <2>3. \A d \in y.l.pend.add : d = e \/ \E v \in PgRows : d = Row(v, e.id)
      BY <1>3, <1>5, <1>6, <2>1 DEF PendingOK, Pending
    <2>4. \A v \in Savers \ {u} : pgPc'[v] \in Pending => pgId'[v] # e.id
      <3>1. \A v \in Savers \ {u} : pgPc[v] \in Pending => pgId[v] # e.id
        BY <1>6 DEF PendingOK, Pending
      <3>2. \A v \in Savers \ {u} : pgPc'[v] = pgPc[v]
        BY <1>10 DEF Undisturbed, Around
      <3> QED  BY <1>4, <3>1, <3>2
    <2>5. PendingOK(base', ids', pgPc', pgId', p, y.l, e, u)
      <3>1. e.id \in 1 .. ids' /\ e \in y.l.pend.add /\ (\A d \in base' : d.id # e.id) /\ \A d \in y.l.pend.del : d.id < e.id
        BY <1>4, <1>6, <1>8, <2>1 DEF PendingOK, Pending
      <3> QED  BY <2>1, <2>2, <2>3, <2>4, <3>1 DEF PendingOK
    <2>6. EntryOK(base', p, y.l.pend, tainted')
      BY <1>4, <1>6, <1>8, <1>9, <2>1 DEF EntryOK
    <2>7. LinkedOK(y.l, p, pgId'[u], ids')
      BY <1>8, <1>9, <2>1 DEF LinkedOK
    <2>8. \A d \in y.l.pend.del : SettledIn(ids', pgPc', pgId', d.id)
      BY <1>6, <1>10, <2>1
    <2>9. p \in {"rows", "commit"} /\ e = Entry(pgName[u], pgId'[u])
      BY <1>3, <1>4, <1>9, <1>12
    <2>10. SaverOK(u, base', ids', pgPc', pgId', tainted', y.l, pgName[u], readRes'[u].rows)
      BY <1>10, <2>5, <2>6, <2>7, <2>8, <2>9 DEF SaverOK, FoundOK, DropEntryOK, DropRowsOK
    <2>11. SaverWell(u)'
      BY <1>1, <2>10 DEF SaverWell, SavingSo
    <2> QED  BY <1>10, <2>11 DEF SavedOn
  <1> QED  BY <1>9, <1>11, <1>12

(* The end of the transaction: what it wrote is an entry with all its      *)
(* rows, and what it removed is all there was of an id.                    *)
LEMMA CommitsAll ==
  ASSUME NEW u, NEW x, NEW y, Saving(u, x, y), Commits(u, x, y)
  PROVE  SavedOn(u)
  <1>1. SavingSo(u, x, y)
    BY SavingFacts
  <1>2. PICK e, i, add, del : e = Entry(pgName[u], i) /\ i = pgId[u] /\ add = x.l.pend.add /\ del = x.l.pend.del
    OBVIOUS
  <1>3. /\ y \in TransactionEnd(x, "COMMIT") /\ pgId' = pgId /\ tainted' = tainted /\ ids' = ids /\ pgPc[u] = "commit"
    BY DEF Commits, Kept, PgAt
  <1>4. i \in Nat /\ ids \in Nat /\ e.id = i /\ e.table = "list" /\ u \in Users
    BY <1>1, <1>2, RecordTypes DEF SavingSo
  <1>5. /\ SaverLink(x.l) /\ PendingOK(base, ids, pgPc, pgId, "commit", x.l, e, u)
        /\ \A j \in (0 .. MaxIds) \ tainted : DelWhole(base, del, j)
    BY <1>1, <1>2, <1>3 DEF SavingSo, SaverOK, LinkedOK, EntryOK
  <1>6. /\ x.l.block = "open" /\ i \in 1 .. ids /\ e \in add
        /\ \A d \in add : d = e \/ \E r \in PgRows : d = Row(r, i)
        /\ \A d \in base : d.id # i
        /\ \A d \in del : d.id < i
        /\ \A v \in Savers \ {u} : pgPc[v] \in Pending => pgId[v] # i
        /\ \A r \in PgRows : Row(r, i) \in add
    BY <1>2, <1>4, <1>5 DEF PendingOK, Pending
  <1>7. Finished(x, "COMMIT", y)
    BY <1>1, <1>3, <1>5, SaverEnds DEF SavingSo
  <1>8. PICK p : WentTo(u, p) /\ ((p = "fail" /\ y.r # "ok") \/ (p = "saved" /\ y.r = "ok"))
    BY DEF Commits, CallStep
  <1>9. CASE y.base = x.base /\ p = "fail"
    <2>1. /\ BaseWell' /\ Undisturbed(u) /\ pgPc'[u] = p
          /\ \A j : Settled(j) => SettledIn(ids', pgPc', pgId', j)
      BY <1>3, <1>8, <1>9, SameBase DEF Pending
    <2>2. SaverWell(u)'
      BY <1>7, <1>9, <2>1, SaverFails DEF Finished
    <2> QED  BY <2>1, <2>2 DEF SavedOn
  <1>10. CASE y.base = Seen(x)
    <2>1. PICK c : c = (base \ del) \cup add
      OBVIOUS
    <2>2. base' = c
      <3>1. Seen(x) = (x.base \ x.l.pend.del) \cup x.l.pend.add
        BY <1>1, SeenType DEF SavingSo
      <3> QED  BY <1>1, <1>2, <1>10, <2>1, <3>1 DEF SavingSo
    <2>3. \A d \in add : d.id = i /\ (d.table = "list" => d = e)
      <3>1. \A r \in PgRows : Row(r, i).id = i /\ Row(r, i).table # "list"
        BY DEF Row
      <3> QED  BY <1>4, <1>6, <3>1
    <2>4. pgPc'[u] = p /\ \A v \in Users \ {u} : pgPc'[v] = pgPc[v]
      BY <1>4, <1>8, Went DEF Saving
    <2>5. (\A v \in Savers : v \in Users) /\ p \notin Pending /\ pgPc[u] \in Pending
      BY <1>3, <1>8 DEF Users, Pending
    <2>6. \A j : Settled(j) => SettledIn(ids', pgPc', pgId', j)
      BY <1>3, <2>4, <2>5 DEF Settled, SettledIn
    <2>7. SettledIn(ids', pgPc', pgId', i) /\ ~Settled(i)
      BY <1>2, <1>3, <1>6, <2>4, <2>5 DEF Settled, SettledIn, Saving
    <2>8. BaseWell'
      <3>1. \A d \in c : SettledIn(ids', pgPc', pgId', d.id)
        <4>1. \A d \in base : Settled(d.id)
          BY DEF Saving, BaseWell, BaseOK, Settled
        <4> QED  BY <2>1, <2>3, <2>6, <2>7, <4>1
      <3>2. \A d \in c : d.table = "list" => OnlyEntry(c, d)
        <4>1. SUFFICES ASSUME NEW d \in c, d.table = "list", NEW f \in c, f.table = "list", f.id = d.id PROVE f = d
          BY DEF OnlyEntry
        <4>2. CASE d.id = i
          BY <1>6, <2>1, <2>3, <4>1, <4>2
        <4>3. CASE d.id # i
          <5>1. d \in base /\ f \in base
            BY <2>1, <2>3, <4>1, <4>3
          <5> QED  BY <4>1, <5>1 DEF Saving, BaseWell, BaseOK, OnlyEntry
        <4> QED  BY <4>2, <4>3
      <3>3. \A j \in (0 .. MaxIds) \ tainted : WholeIn(c, j)
        <4>1. SUFFICES ASSUME NEW j \in (0 .. MaxIds) \ tainted PROVE WholeIn(c, j)
          OBVIOUS
        <4>2. CASE j = i
          <5>1. e \in c /\ e = Entry(pgName[u], i) /\ pgName[u] \in PgNames
            BY <1>1, <1>2, <1>6, <2>1 DEF SavingSo
          <5>2. \A r \in PgRows : Row(r, i) \in c
            BY <1>6, <2>1
          <5> QED  BY <4>2, <5>1, <5>2 DEF WholeIn
        <4>3. CASE j # i
          <5>1. WholeIn(base, j) /\ DelWhole(base, del, j)
            BY <1>5 DEF Saving, BaseWell, BaseOK
          <5>2. \A r : Row(r, j).id = j
            BY DEF Row
          <5>3. \A n : Entry(n, j).id = j
            BY DEF Entry
          <5>4. \A d : d.id = j => (d \in c <=> d \in base /\ d \notin del)
            BY <2>1, <2>3, <4>3
          <5>5. CASE \A d \in base : d.id = j => d \in del
            <6>1. \A d : d.id = j => d \notin c
              BY <5>4, <5>5
            <6> QED  BY <5>2, <5>3, <6>1 DEF WholeIn
          <5>6. CASE \A d \in base : d.id = j => d \notin del
            <6>1. \A d : d.id = j => (d \in c <=> d \in base)
              BY <5>4, <5>6
            <6>2. /\ \A r : Row(r, j) \in c <=> Row(r, j) \in base
                  /\ \A n : Entry(n, j) \in c <=> Entry(n, j) \in base
              BY <5>2, <5>3, <6>1
            <6> QED  BY <5>1, <6>2 DEF WholeIn
          <5> QED  BY <5>1, <5>5, <5>6 DEF DelWhole
        <4> QED  BY <4>2, <4>3
      <3>4. \A v \in Savers : pgPc'[v] = "saved" /\ pgId'[v] = ids' /\ pgId'[v] \notin tainted => ListedIn(c, pgId'[v])
        <4>1. SUFFICES ASSUME NEW v \in Savers, pgPc'[v] = "saved", pgId[v] = ids, pgId[v] \notin tainted
                       PROVE  ListedIn(c, pgId[v])
          BY <1>3
        <4>2. CASE v = u
          <5>1. e \in c /\ e = Entry(pgName[u], pgId[u]) /\ pgName[u] \in PgNames
            BY <1>1, <1>2, <1>6, <2>1 DEF SavingSo
          <5> QED  BY <4>2, <5>1 DEF ListedIn
        <4>3. CASE v # u
          <5>1. pgPc[v] = "saved"
            BY <2>4, <2>5, <4>1, <4>3
          <5>2. PICK n \in PgNames : Entry(n, ids) \in base
            BY <4>1, <5>1 DEF Saving, BaseWell, BaseOK, ListedIn
          <5>3. Entry(n, ids).id = ids
            BY DEF Entry
          <5>4. ~(ids < i)
            BY <1>4, <1>6
          <5>5. Entry(n, ids) \in c
            BY <1>6, <2>1, <5>2, <5>3, <5>4
          <5> QED  BY <4>1, <5>5 DEF ListedIn
        <4> QED  BY <4>2, <4>3
      <3> QED  BY <1>3, <2>2, <3>1, <3>2, <3>3, <3>4 DEF BaseWell, BaseOK
    <2>9. Undisturbed(u)
      <3>1. SUFFICES ASSUME NEW v \in Savers \ {u} PROVE Around(v, base, c, ids, ids', pgPc, pgPc', pgId, pgId')
        BY <2>2 DEF Undisturbed
      <3>2. \A d \in c : d \in base \/ (~Settled(d.id) /\ (pgPc[v] \notin Pending \/ d.id # pgId[v]))
        BY <1>6, <2>1, <2>3, <2>7
      <3>3. \A w \in Savers : pgPc'[w] \in Pending => pgPc[w] \in Pending /\ pgId'[w] = pgId[w]
        BY <1>3, <2>4, <2>5
      <3> QED  BY <1>3, <1>4, <2>4, <2>5, <2>6, <3>2, <3>3 DEF Around, Settled
    <2>10. SaverWell(u)'
      <3>1. CASE p = "fail"
        BY <1>7, <2>4, <2>6, <3>1, SaverFails DEF Finished
      <3>2. CASE p = "saved" /\ y.r = "ok"
        <4>1. SaverLink(y.l) /\ y.l.block = "none" /\ y.l.pend.del = {}
          BY <1>7, <3>2, NoChangesType DEF Finished, SaverLink, LinkWell
        <4>2. LinkedOK(y.l, "saved", pgId'[u], ids')
          <5>1. pgId'[u] <= ids'
            BY <1>2, <1>3, <1>4, <1>6
          <5> QED  BY <4>1, <5>1 DEF LinkedOK, InTransPlaces
        <4>3. SaverOK(u, base', ids', pgPc', pgId', tainted', y.l, pgName[u], readRes'[u].rows)
          BY <2>4, <3>2, <4>1, <4>2 DEF SaverOK, FoundOK, DropEntryOK, DropRowsOK, EntryOK, PendingOK, Pending
        <4> QED  BY <1>1, <4>3 DEF SaverWell, SavingSo
      <3> QED  BY <1>8, <3>1, <3>2
    <2> QED  BY <2>8, <2>9, <2>10 DEF SavedOn
  <1>11. y.base = x.base \/ y.base = Seen(x)
    BY <1>7 DEF Finished
  <1>12. p = "saved" => y.base = Seen(x)
    BY <1>6, <1>7, <1>8 DEF Finished
  <1> QED  BY <1>8, <1>9, <1>10, <1>11, <1>12

-----------------------------------------------------------------------------
SavesWell == PgTypeOK /\ BaseWell /\ (\A v \in Savers : SaverWell(v)) /\ MainWell

(* A saver keeps what it relies on while another thread moves.             *)
LEMMA KeepsWell ==
  ASSUME PgTypeOK, NEW v \in Savers, SaverWell(v), tainted \subseteq tainted',
         Around(v, base, base', ids, ids', pgPc, pgPc', pgId, pgId'),
         links'[v] = links[v], pgName'[v] = pgName[v], readRes'[v] = readRes[v]
  PROVE  SaverWell(v)'
  <1>1. pgId[v] \in Nat /\ pgName[v] \in PgNames /\ readRes[v].rows \in SUBSET PgRecords
    BY DEF PgTypeOK, Users, Results
  <1>2. SaverOK(v, base', ids', pgPc', pgId', tainted', links[v], pgName[v], readRes[v].rows)
    BY <1>1, Bystander DEF SaverWell
  <1> QED  BY <1>2 DEF SaverWell

-----------------------------------------------------------------------------
(* A step of a thread of the main connection, or of a saver that does      *)
(* nothing to the datastore.                                               *)
Aside(u) ==
  /\ u \in Users /\ ids' = ids /\ tainted \subseteq tainted' /\ base' \subseteq base
  /\ \A d \in base : d \notin base' => d.id \in tainted'
  /\ \A v \in Users \ {u} : pgPc'[v] = pgPc[v] /\ pgId'[v] = pgId[v] /\ readRes'[v] = readRes[v] /\ pgName'[v] = pgName[v]
  /\ \A v \in Savers : links'[v] = links[v]
  /\ u \in Savers => pgPc'[u] = "start"
  /\ u \in Others /\ pgPc'[u] = "drop entry" => pgId'[u] \in tainted'
  /\ links'[Main].pend.add = {} /\ \A d \in links'[Main].pend.del : d.id \in tainted'

LEMMA AsideKeeps ==
  ASSUME SavesWell, NEW u, Aside(u)
  PROVE  BaseWell' /\ MainWell' /\ (\A v \in Savers \ {u} : SaverWell(v)')
         /\ \A j : Settled(j) => SettledIn(ids', pgPc', pgId', j)
  <1>1. /\ PgTypeOK /\ ids' = ids /\ ids \in Nat /\ tainted \subseteq tainted' /\ base' \subseteq base
        /\ \A v \in Savers : v \in Users
        /\ \A v \in Users \ {u} : pgPc'[v] = pgPc[v] /\ pgId'[v] = pgId[v]
    <2>1. ids \in Nat
      BY PostgresAssumption DEF SavesWell, PgTypeOK
    <2>2. \A v \in Savers : v \in Users
      BY DEF Users
    <2> QED  BY <2>1, <2>2 DEF SavesWell, Aside
  <1>2. \A v \in Savers : pgPc'[v] \in Pending => pgPc[v] \in Pending /\ pgId'[v] = pgId[v]
    BY <1>1 DEF Aside, Pending
  <1>3. \A j : Settled(j) => SettledIn(ids', pgPc', pgId', j)
    BY <1>1, <1>2 DEF Settled, SettledIn
  <1>4. BaseWell'
    <2>1. \A d \in base' : SettledIn(ids', pgPc', pgId', d.id)
      BY <1>1, <1>3 DEF SavesWell, BaseWell, BaseOK, Settled
    <2>2. \A d \in base' : d.table = "list" => OnlyEntry(base', d)
      BY <1>1 DEF SavesWell, BaseWell, BaseOK, OnlyEntry
    <2>3. \A d : d.id \notin tainted' => (d \in base' <=> d \in base)
      BY <1>1 DEF Aside
    <2>4. ASSUME NEW j, j \notin tainted'
          PROVE  /\ \A r : Row(r, j) \in base' <=> Row(r, j) \in base
                 /\ \A n : Entry(n, j) \in base' <=> Entry(n, j) \in base
      <3>1. \A r : Row(r, j).id = j
        BY DEF Row
      <3>2. \A n : Entry(n, j).id = j
        BY DEF Entry
      <3> QED  BY <2>3, <2>4, <3>1, <3>2
    <2>5. \A j \in (0 .. MaxIds) \ tainted' : WholeIn(base', j)
      <3>1. SUFFICES ASSUME NEW j \in (0 .. MaxIds) \ tainted' PROVE WholeIn(base', j)
        OBVIOUS
      <3>2. WholeIn(base, j)
        BY <1>1 DEF SavesWell, BaseWell, BaseOK
      <3> QED  BY <2>4, <3>2 DEF WholeIn
    <2>6. \A v \in Savers : pgPc'[v] = "saved" /\ pgId'[v] = ids' /\ pgId'[v] \notin tainted' => ListedIn(base', pgId'[v])
      <3>1. SUFFICES ASSUME NEW v \in Savers, pgPc'[v] = "saved", pgId'[v] = ids', pgId'[v] \notin tainted'
                     PROVE  ListedIn(base', pgId'[v])
        OBVIOUS
      <3>2. v # u
        BY <3>1 DEF Aside
      <3>3. ListedIn(base, pgId[v]) /\ pgId'[v] = pgId[v] /\ pgId[v] \notin tainted'
        BY <1>1, <3>1, <3>2 DEF SavesWell, BaseWell, BaseOK
      <3> QED  BY <2>4, <3>3 DEF ListedIn
    <2> QED  BY <2>1, <2>2, <2>5, <2>6 DEF BaseWell, BaseOK
  <1>5. MainWell'
    <2>1. \A v \in Others : pgPc'[v] = "drop entry" => pgId'[v] \in tainted'
      <3>1. SUFFICES ASSUME NEW v \in Others, pgPc'[v] = "drop entry", v # u PROVE pgId'[v] \in tainted'
        BY DEF Aside
      <3>2. v \in Users
        BY DEF Others, Users
      <3> QED  BY <1>1, <3>1, <3>2 DEF SavesWell, MainWell, MainOK
    <2> QED  BY <2>1 DEF Aside, MainWell, MainOK
  <1>6. ASSUME NEW v \in Savers \ {u} PROVE SaverWell(v)'
    <2>1. Around(v, base, base', ids, ids', pgPc, pgPc', pgId, pgId')
      <3>1. pgPc'[v] = pgPc[v] /\ pgId'[v] = pgId[v] /\ ids <= ids'
        BY <1>1
      <3>2. \A i : SettledIn(ids, pgPc, pgId, i) => SettledIn(ids', pgPc', pgId', i)
        BY <1>3 DEF Settled
      <3> QED  BY <1>1, <1>2, <3>1, <3>2 DEF Around
    <2>2. links'[v] = links[v] /\ pgName'[v] = pgName[v] /\ readRes'[v] = readRes[v]
      BY <1>1 DEF Aside
    <2>3. SaverWell(v)
      BY DEF SavesWell
    <2> QED  BY <1>1, <2>1, <2>2, <2>3, KeepsWell
  <1> QED  BY <1>3, <1>4, <1>5, <1>6

LEMMA OthersUsers ==
  ASSUME NEW u \in Others
  PROVE  u \in Users /\ u \notin Savers /\ Link(u) = Main
  <1>1. u \in Users
    BY DEF Others, Users
  <1> QED  BY <1>1, LinkOf DEF Others

LEMMA QuitsAside ==
  ASSUME SavesWell, NEW u \in Others, Quits(u), pgName' = pgName, ids' = ids
  PROVE  Aside(u)
  <1>1. u \in Users /\ u \notin Savers /\ PgTypeOK
    BY OthersUsers DEF SavesWell
  <1>2. pgPc'[u] = "done" /\ \A v \in Users \ {u} : pgPc'[v] = pgPc[v]
    BY <1>1, Went DEF Quits
  <1>3. \A v \in Users \ {u} : readRes'[v] = readRes[v]
    BY <1>1 DEF Quits, PgTypeOK
  <1> QED  BY <1>1, <1>2, <1>3 DEF Aside, Quits, Silent, SavesWell, MainWell, MainOK

LEMMA AgainAside ==
  ASSUME SavesWell, NEW u \in Users, Again(u)
  PROVE  Aside(u)
  <1>1. PgTypeOK /\ WentTo(u, "start")
    BY DEF SavesWell, Again, PgGoto, WentTo
  <1>2. pgPc'[u] = "start" /\ \A v \in Users \ {u} : pgPc'[v] = pgPc[v]
    BY <1>1, Went
  <1>3. \A v \in Users \ {u} : pgId'[v] = pgId[v] /\ pgName'[v] = pgName[v]
    BY <1>1 DEF Again, PgTypeOK
  <1> QED  BY <1>2, <1>3 DEF Aside, Again, SavesWell, MainWell, MainOK

LEMMA AgainSaver ==
  ASSUME SavesWell, NEW u \in Savers, Again(u)
  PROVE  SaverWell(u)'
  <1>1. u \in Users
    BY DEF Users
  <1>2. pgPc'[u] = "start" /\ \A j : Settled(j) => SettledIn(ids', pgPc', pgId', j)
    <2>1. WentTo(u, "start") /\ PgTypeOK
      BY DEF Again, PgGoto, WentTo, SavesWell
    <2> QED  BY <1>1, <2>1, AgainAside, AsideKeeps, Went
  <1>3. SaverOK(u, base, ids, pgPc, pgId, tainted, links[u], pgName[u], readRes[u].rows)
    BY DEF SavesWell, SaverWell
  <1>4. SaverLink(links[u]) /\ links[u].block = "none"
    BY <1>3 DEF SaverOK, LinkedOK, Again, PgAt
  <1>5. SaverOK(u, base', ids', pgPc', pgId', tainted', links[u], pgName'[u], readRes'[u].rows)
    BY <1>2, <1>3, <1>4, Failing DEF Settled
  <1>6. links' = links
    BY DEF Again
  <1> QED  BY <1>5, <1>6 DEF SaverWell

-----------------------------------------------------------------------------
(* A call of the main connection removes records of T, and adds none.      *)
LEMMA MainCall ==
  ASSUME SavesWell, NEW u \in Others, NEW x, NEW y, Did(u, x, y), NEW T, tainted \subseteq T
  PROVE  Confined(base, {}, T, x) /\ x.r = "ok" /\ x.gone = FALSE
  <1>1. CallOf(u, x) /\ x.l = links[Main] /\ x.r = "ok" /\ x.gone = FALSE
    BY OthersUsers DEF Did, CallOf
  <1>2. x.l.pend.add \subseteq {} /\ \A d \in x.l.pend.del : d.id \in T
    BY <1>1 DEF SavesWell, MainWell, MainOK
  <1>3. PICK A : A = {}
    OBVIOUS
  <1>4. Confined(base, A, T, x)
    BY <1>1, <1>2, <1>3, CallAffects
  <1> QED  BY <1>1, <1>3, <1>4

LEMMA MainCalled ==
  ASSUME NEW u \in Others, NEW x, NEW y, Did(u, x, y), NEW T, Confined(base, {}, T, y)
  PROVE  /\ base' \subseteq base
         /\ \A d \in base : d \notin base' => d.id \in T
         /\ links'[Main].pend.add = {}
         /\ \A d \in links'[Main].pend.del : d.id \in T
         /\ \A v \in Savers : links'[v] = links[v]
  <1>1. Link(u) = Main /\ \A v \in Savers : v # Main
    BY OthersUsers, PostgresAssumption DEF Main
  <1>2. y.base = base' /\ y.l = links'[Main] /\ \A v \in Savers : links'[v] = links[v]
    BY <1>1 DEF Did
  <1> QED  BY <1>2 DEF Confined

LEMMA MainAside ==
  ASSUME SavesWell, NEW u \in Others, NEW x, NEW y, Did(u, x, y), tainted \subseteq tainted',
         Confined(base, {}, tainted', x) => Confined(base, {}, tainted', y),
         NEW p, WentTo(u, p), p = "drop entry" => pgId'[u] \in tainted',
         \A v \in Users \ {u} : pgId'[v] = pgId[v] /\ readRes'[v] = readRes[v],
         pgName' = pgName, ids' = ids
  PROVE  Aside(u)
  <1>1. u \in Users /\ u \notin Savers /\ PgTypeOK
    BY OthersUsers DEF SavesWell
  <1>2. PICK T : T = tainted'
    OBVIOUS
  <1>3. Confined(base, {}, T, x)
    BY <1>2, MainCall
  <1>4. Confined(base, {}, T, y)
    BY <1>2, <1>3
  <1>5. /\ base' \subseteq base
        /\ \A d \in base : d \notin base' => d.id \in T
        /\ links'[Main].pend.add = {}
        /\ \A d \in links'[Main].pend.del : d.id \in T
        /\ \A v \in Savers : links'[v] = links[v]
    BY <1>4, MainCalled
  <1>6. pgPc'[u] = p /\ \A v \in Users \ {u} : pgPc'[v] = pgPc[v]
    BY <1>1, Went
  <1> QED  BY <1>1, <1>2, <1>5, <1>6 DEF Aside

LEMMA ReadsQuietly ==
  ASSUME SavesWell, NEW u \in Others, NEW x, NEW y, Did(u, x, y), NEW T, Confined(base, {}, T, x), NEW t \in Tables
  PROVE  /\ \A w \in SUBSET PgRecords : y \in ReadStart(x, t, w) => Confined(base, {}, T, y)
         /\ y \in ReadEnd(x, t) => Confined(base, {}, T, y)
  <1>1. PICK A, b : A = {} /\ b = base
    OBVIOUS
  <1>2. Confined(b, A, T, x) /\ x.r = "ok" /\ x.gone = FALSE
    BY <1>1 DEF Did, CallOf
  <1>3. ASSUME NEW w \in SUBSET PgRecords, y \in ReadStart(x, t, w) PROVE Confined(b, A, T, y)
    BY <1>2, <1>3, MainReads DEF MainRead
  <1>4. ASSUME y \in ReadEnd(x, t) PROVE Confined(b, A, T, y)
    BY <1>2, <1>4, MainReadEnds
  <1> QED  BY <1>1, <1>3, <1>4

LEMMA MainStepAside ==
  ASSUME SavesWell, NEW u \in Others, NEW x, NEW y, MainStep(u, x, y), pgName' = pgName, ids' = ids
  PROVE  Aside(u)
  <1>0. /\ u \in Users /\ u \notin Savers /\ PgTypeOK /\ pgId[u] \in Nat /\ pgName[u] \in PgNames
        /\ "list" \in Tables /\ "config" \in Tables
    BY OthersUsers DEF SavesWell, PgTypeOK, Tables
  <1>1. CASE Finds(u, x, y)
    <2>1. PICK w, p, r : w = EntriesOf(pgName[u]) /\ p = pgPc'[u] /\ r = readRes'[u]
      OBVIOUS
    <2>2. w \in SUBSET PgRecords
      BY <1>0, <2>1, RowSets
    <2>3. /\ Did(u, x, y) /\ y \in ReadStart(x, "list", w) /\ tainted' = tainted /\ pgId' = pgId
          /\ WentTo(u, "fail") \/ WentTo(u, "found")
      BY <1>1, <2>1 DEF Finds, FoundStep
    <2>4. \A v \in Users \ {u} : pgId'[v] = pgId[v] /\ readRes'[v] = readRes[v]
      BY <1>0, <1>1, <2>3 DEF Finds, FoundStep, PgTypeOK
    <2>5. Confined(base, {}, tainted', x) => Confined(base, {}, tainted', y)
      <3>1. PICK T : T = tainted'
        OBVIOUS
      <3> QED  BY <1>0, <2>2, <2>3, <3>1, ReadsQuietly
    <2> QED  BY <2>3, <2>4, <2>5, MainAside
  <1>2. CASE Found(u, x, y)
    <2>1. PICK found \in {"fetch", "drop rows"}, none \in {"done", "fail"} : SingleStep(u, "found", found, none, x, y)
      BY <1>2 DEF Found
    <2>2. ~Unnoticed(u, y) /\ Did(u, x, y) /\ y \in ReadEnd(x, "list")
      BY <1>0, <2>1 DEF SingleStep, Unnoticed
    <2>3. tainted' = tainted
      BY <2>1, <2>2 DEF SingleStep
    <2>4. PICK p : WentTo(u, p) /\ p # "drop entry"
      BY <2>1 DEF SingleStep
    <2>5. \A v \in Users \ {u} : pgId'[v] = pgId[v] /\ readRes'[v] = readRes[v]
      BY <1>0, <2>1 DEF SingleStep, PgTypeOK
    <2>6. Confined(base, {}, tainted', x) => Confined(base, {}, tainted', y)
      <3>1. PICK T : T = tainted'
        OBVIOUS
      <3> QED  BY <1>0, <2>2, <3>1, ReadsQuietly
    <2> QED  BY <2>2, <2>3, <2>4, <2>5, <2>6, MainAside
  <1>3. CASE Fetches(u, x, y)
    <2>1. PICK w : w = AllRows(pgId[u])
      OBVIOUS
    <2>2. w \in SUBSET PgRecords
      BY <1>0, <2>1, RowSets
    <2>3. /\ Did(u, x, y) /\ y \in ReadStart(x, "config", w) /\ tainted' = tainted /\ pgId' = pgId
          /\ WentTo(u, "fail") \/ WentTo(u, "read")
      BY <1>3, <2>1 DEF Fetches
    <2>4. \A v \in Users \ {u} : pgId'[v] = pgId[v] /\ readRes'[v] = readRes[v]
      BY <1>0, <1>3, <2>3 DEF Fetches, PgTypeOK
    <2>5. Confined(base, {}, tainted', x) => Confined(base, {}, tainted', y)
      <3>1. PICK T : T = tainted'
        OBVIOUS
      <3> QED  BY <1>0, <2>2, <2>3, <3>1, ReadsQuietly
    <2> QED  BY <2>3, <2>4, <2>5, MainAside
  <1>4. CASE Reads(u, x, y)
    <2>1. Did(u, x, y) /\ y \in ReadEnd(x, "config") /\ tainted' = tainted /\ pgId' = pgId /\ WentTo(u, "done")
      BY <1>4 DEF Reads, CallStep
    <2>2. \A v \in Users \ {u} : pgId'[v] = pgId[v] /\ readRes'[v] = readRes[v]
      BY <1>0, <1>4, <2>1 DEF Reads, PgTypeOK
    <2>3. Confined(base, {}, tainted', x) => Confined(base, {}, tainted', y)
      <3>1. PICK T : T = tainted'
        OBVIOUS
      <3> QED  BY <1>0, <2>1, <3>1, ReadsQuietly
    <2> QED  BY <2>1, <2>2, <2>3, MainAside
  <1>5. ASSUME NEW s \in SUBSET PgRecords, \A d \in s : d.id \in tainted', y \in Delete(x, s),
               Did(u, x, y), NEW p, WentTo(u, p), p = "drop entry" => pgId[u] \in tainted',
               tainted \subseteq tainted', readRes' = readRes, pgId' = pgId
        PROVE  Aside(u)
    <2>1. Confined(base, {}, tainted', x) => Confined(base, {}, tainted', y)
      <3>1. PICK A, b, T : A = {} /\ b = base /\ T = tainted'
        OBVIOUS
      <3>2. ASSUME Confined(b, A, T, x) PROVE Confined(b, A, T, y)
        BY <1>5, <3>1, <3>2, MainDeletes
      <3> QED  BY <3>1, <3>2
    <2> QED  BY <1>5, <2>1, MainAside
  <1>6. CASE DeletesRows(u, x, y)
    <2>1. PICK s, p : s = AllRows(pgId[u]) /\ p = IF y.r = "ok" THEN "drop entry" ELSE "fail"
      OBVIOUS
    <2>2. s \in SUBSET PgRecords /\ \A d \in s : d.id = pgId[u]
      BY <1>0, <2>1, RowSets
    <2>3. /\ y \in Delete(x, s) /\ Did(u, x, y) /\ WentTo(u, p) /\ tainted' = tainted \cup {pgId[u]}
          /\ readRes' = readRes /\ pgId' = pgId
      BY <1>6, <2>1 DEF DeletesRows, CallStep
    <2> QED  BY <1>5, <2>2, <2>3
  <1>7. CASE DeletesEntry(u, x, y)
    <2>1. PICK e, s : e = Entry(pgName[u], pgId[u]) /\ s = {e}
      OBVIOUS
    <2>2. e \in PgRecords /\ e.id = pgId[u]
      BY <1>0, <2>1, RecordTypes
    <2>3. s \in SUBSET PgRecords /\ \A d \in s : d.id = pgId[u]
      BY <2>1, <2>2
    <2>4. /\ y \in Delete(x, s) /\ Did(u, x, y) /\ WentTo(u, "done") /\ tainted' = tainted /\ PgAt(u, "drop entry")
          /\ readRes' = readRes /\ pgId' = pgId
      BY <1>7, <2>1 DEF DeletesEntry, CallStep, Kept
    <2>5. pgId[u] \in tainted
      BY <2>4 DEF SavesWell, MainWell, MainOK, PgAt
    <2> QED  BY <1>5, <2>3, <2>4, <2>5
  <1> QED  BY <1>1, <1>2, <1>3, <1>4, <1>6, <1>7 DEF MainStep

-----------------------------------------------------------------------------
LEMMA SaverStepOn ==
  ASSUME NEW u, NEW x, NEW y, Saving(u, x, y), SaverStep(u, x, y), ~AllTainted'
  PROVE  SavedOn(u)
  BY Begins, FindsEntry, FoundEntry, DropsTheEntry, DropsItsRows, WritesTheEntry, WritesOneRow, CommitsAll, RollsBackAll
     DEF SaverStep

LEMMA SaverStepFrame ==
  ASSUME PgTypeOK, NEW u \in Savers, NEW x, NEW y, SaverStep(u, x, y)
  PROVE  /\ ~pgCrashed /\ Did(u, x, y) /\ tainted \subseteq tainted'
         /\ \A v \in Users \ {u} : pgPc'[v] = pgPc[v] /\ pgId'[v] = pgId[v] /\ readRes'[v] = readRes[v]
  <1>1. ASSUME NEW p, WentTo(u, p) PROVE \A v \in Users \ {u} : pgPc'[v] = pgPc[v]
    BY <1>1, Went DEF Users
  <1>2. ASSUME NEW good, NEW bad, CallStep(u, good, bad, x, y)
        PROVE  Did(u, x, y) /\ \A v \in Users \ {u} : pgPc'[v] = pgPc[v]
    BY <1>1, <1>2 DEF CallStep
  <1>3. CASE SaverFinds(u, x, y)
    <2>1. \A v \in Users \ {u} : readRes'[v] = readRes[v]
      BY <1>3 DEF SaverFinds, FoundStep, PgTypeOK
    <2>2. \A v \in Users \ {u} : pgPc'[v] = pgPc[v]
      BY <1>1, <1>3 DEF SaverFinds, FoundStep
    <2> QED  BY <1>3, <2>1, <2>2 DEF SaverFinds, FoundStep, PgAt
  <1>4. CASE SaverFound(u, x, y)
    <2>1. \A v \in Users \ {u} : readRes'[v] = readRes[v] /\ pgId'[v] = pgId[v]
      BY <1>4 DEF SaverFound, SingleStep, PgTypeOK
    <2>2. \A v \in Users \ {u} : pgPc'[v] = pgPc[v]
      BY <1>1, <1>4 DEF SaverFound, SingleStep
    <2>3. tainted \subseteq tainted'
      BY <1>4 DEF SaverFound, SingleStep
    <2> QED  BY <1>4, <2>1, <2>2, <2>3 DEF SaverFound, SingleStep, PgAt
  <1>5. CASE WritesEntry(u, x, y)
    <2>1. \A v \in Users \ {u} : readRes'[v] = readRes[v] /\ pgId'[v] = pgId[v]
      BY <1>5 DEF WritesEntry, PgTypeOK
    <2> QED  BY <1>2, <1>5, <2>1 DEF WritesEntry, PgAt
  <1>6. ASSUME ~pgCrashed, Kept, Did(u, x, y), \A v \in Users \ {u} : pgPc'[v] = pgPc[v]
        PROVE  /\ ~pgCrashed /\ Did(u, x, y) /\ tainted \subseteq tainted'
               /\ \A v \in Users \ {u} : pgPc'[v] = pgPc[v] /\ pgId'[v] = pgId[v] /\ readRes'[v] = readRes[v]
    BY <1>6 DEF Kept
  <1>7. CASE SaverStarts(u, x, y)
    BY <1>2, <1>6, <1>7 DEF SaverStarts, PgAt
  <1>8. CASE DropsEntry(u, x, y)
    BY <1>2, <1>6, <1>8 DEF DropsEntry, PgAt
  <1>9. CASE DropsRows(u, x, y)
    BY <1>2, <1>6, <1>9 DEF DropsRows, PgAt
  <1>10. CASE WritesRow(u, x, y)
    BY <1>2, <1>6, <1>10 DEF WritesRow, PgAt
  <1>11. CASE Commits(u, x, y)
    BY <1>2, <1>6, <1>11 DEF Commits, PgAt
  <1>12. CASE RollsBack(u, x, y)
    BY <1>2, <1>6, <1>12 DEF RollsBack, PgAt
  <1> QED  BY <1>3, <1>4, <1>5, <1>7, <1>8, <1>9, <1>10, <1>11, <1>12 DEF SaverStep

LEMMA SaverStepKeeps ==
  ASSUME SavesWell, NEW u \in Savers, NEW x, NEW y, SaverStep(u, x, y), pgName' = pgName, ~AllTainted'
  PROVE  BaseWell' /\ (pgCrashed' \/ ((\A v \in Savers : SaverWell(v)') /\ MainWell'))
  <1>1. /\ PgTypeOK /\ Did(u, x, y) /\ tainted \subseteq tainted'
        /\ \A v \in Users \ {u} : pgPc'[v] = pgPc[v] /\ pgId'[v] = pgId[v] /\ readRes'[v] = readRes[v]
    BY SaverStepFrame DEF SavesWell
  <1>2. BaseWell' /\ (pgCrashed' \/ (SaverWell(u)' /\ Undisturbed(u)))
    <2>1. Saving(u, x, y)
      BY <1>1 DEF Saving, SavesWell
    <2> QED  BY <2>1, SaverStepOn DEF SavedOn
  <1>3. ASSUME NEW k \in (Savers \cup {Main}) \ {u} PROVE links'[k] = links[k]
    BY <1>1, LinkOf DEF Did, Users
  <1>4. ASSUME ~pgCrashed', NEW v \in Savers PROVE SaverWell(v)'
    <2>1. CASE v = u
      BY <1>2, <1>4, <2>1
    <2>2. CASE v # u
      <3>1. Around(v, base, base', ids, ids', pgPc, pgPc', pgId, pgId')
        BY <1>2, <1>4, <2>2 DEF Undisturbed
      <3>2. links'[v] = links[v] /\ pgName'[v] = pgName[v] /\ readRes'[v] = readRes[v] /\ SaverWell(v)
        BY <1>1, <1>3, <2>2 DEF Users, SavesWell
      <3> QED  BY <1>1, <3>1, <3>2, KeepsWell
    <2> QED  BY <2>1, <2>2
  <1>5. MainWell'
    <2>1. links'[Main] = links[Main]
      BY <1>3, PostgresAssumption DEF Main
    <2>2. \A v \in Others : v \in Users \ {u}
      BY OthersUsers
    <2> QED  BY <1>1, <2>1, <2>2 DEF SavesWell, MainWell, MainOK
  <1> QED  BY <1>2, <1>4, <1>5

LEMMA TaintedGrows ==
  ASSUME PgTypeOK, PgStep
  PROVE  tainted \subseteq tainted' /\ ~pgCrashed
  <1>1. ASSUME NEW u \in Savers, NEW x, NEW y, SaverStep(u, x, y) PROVE tainted \subseteq tainted' /\ ~pgCrashed
    BY <1>1, SaverStepFrame
  <1>2. ASSUME NEW u \in Others, NEW x, NEW y, MainStep(u, x, y) PROVE tainted \subseteq tainted' /\ ~pgCrashed
    <2>1. CASE Finds(u, x, y)
      BY <2>1 DEF Finds, FoundStep, PgAt
    <2>2. CASE Found(u, x, y)
      BY <2>2 DEF Found, SingleStep, PgAt
    <2>3. CASE Fetches(u, x, y) \/ Reads(u, x, y) \/ DeletesRows(u, x, y) \/ DeletesEntry(u, x, y)
      BY <2>3 DEF Fetches, Reads, DeletesRows, DeletesEntry, Kept, PgAt
    <2> QED  BY <1>2, <2>1, <2>2, <2>3 DEF MainStep
  <1>3. ASSUME NEW u \in Others, Quits(u) PROVE tainted \subseteq tainted' /\ ~pgCrashed
    BY <1>3 DEF Quits
  <1>4. ASSUME NEW u \in Users, Again(u) PROVE tainted \subseteq tainted' /\ ~pgCrashed
    BY <1>4 DEF Again, PgAt
  <1> QED  BY <1>1, <1>2, <1>3, <1>4 DEF PgStep

LEMMA SavesStep ==
  ASSUME SavesInv, [PgNext]_pgVars
  PROVE  SavesInv'
  <1>1. PgTypeOK /\ PgTypeOK' /\ (PgStep \/ UNCHANGED pgVars)
    BY PgTypeStep DEF SavesInv
  <1>2. CASE UNCHANGED pgVars
    BY <1>1, <1>2 DEF pgVars, SavesInv, AllTainted, BaseWell, SaverWell, MainWell
  <1>3. CASE PgStep
    <2>1. tainted \subseteq tainted' /\ ~pgCrashed
      BY <1>1, <1>3, TaintedGrows
    <2>2. CASE AllTainted'
      BY <1>1, <2>2 DEF SavesInv
    <2>3. CASE ~AllTainted'
      <3>1. SavesWell
        BY <1>1, <2>1, <2>3 DEF SavesInv, SavesWell, AllTainted
      <3>2. ASSUME NEW u \in Savers, NEW x, NEW y, SaverStep(u, x, y), pgName' = pgName PROVE SavesInv'
        BY <1>1, <2>3, <3>1, <3>2, SaverStepKeeps DEF SavesInv
      <3>3. ASSUME NEW u, Aside(u), u \in Savers => SaverWell(u)' PROVE SavesInv'
        <4>1. BaseWell' /\ MainWell' /\ \A v \in Savers \ {u} : SaverWell(v)'
          BY <3>1, <3>3, AsideKeeps
        <4>2. \A v \in Savers : SaverWell(v)'
          BY <3>3, <4>1
        <4> QED  BY <1>1, <4>1, <4>2 DEF SavesInv
      <3>4. ASSUME NEW u \in Others, pgName' = pgName, ids' = ids, Quits(u) \/ \E x, y : MainStep(u, x, y) PROVE SavesInv'
        <4>1. Aside(u)
          BY <3>1, <3>4, QuitsAside, MainStepAside
        <4> QED  BY <3>3, <4>1, OthersUsers
      <3>5. ASSUME NEW u \in Users, Again(u) PROVE SavesInv'
        BY <3>1, <3>3, <3>5, AgainAside, AgainSaver
      <3> QED  BY <1>3, <3>2, <3>4, <3>5 DEF PgStep
    <2> QED  BY <2>2, <2>3
  <1> QED  BY <1>1, <1>2, <1>3

LEMMA SavesInit ==
  ASSUME PgInit
  PROVE  SavesInv
  <1>1. PgTypeOK
    BY PgTypeInit
  <1>2. BaseWell
    <2>1. \A u \in Savers : u \in Users
      BY DEF Users
    <2> QED  BY <2>1 DEF PgInit, BaseWell, BaseOK, WholeIn
  <1>3. NewLink.pend = NoChanges /\ NewLink.block = "none" /\ NewLink.trans = NotInTrans /\ LinkWell(NewLink)
    BY DEF NewLink, LinkWell
  <1>4. ASSUME NEW u \in Savers PROVE SaverWell(u)
    <2>1. links[u] = NewLink /\ pgPc[u] = "start"
      BY DEF PgInit, Users
    <2>2. LinkedOK(NewLink, "start", pgId[u], ids)
      BY <1>3 DEF LinkedOK, SaverLink, InTransPlaces, NotInTrans, InTrans
    <2>3. NewLink.pend.del = {}
      BY <1>3, NoChangesType
    <2> QED  BY <2>1, <2>2, <2>3 DEF SaverWell, SaverOK, FoundOK, DropEntryOK, DropRowsOK, EntryOK, PendingOK, Pending
  <1>5. MainWell
    <2>1. links[Main] = NewLink /\ NewLink.pend.add = {} /\ NewLink.pend.del = {}
      BY <1>3, NoChangesType DEF PgInit
    <2>2. \A u \in Others : pgPc[u] = "start"
      BY DEF PgInit, Others, Users
    <2> QED  BY <2>1, <2>2 DEF MainWell, MainOK
  <1> QED  BY <1>1, <1>2, <1>4, <1>5 DEF SavesInv

(* What registry_config_save stores is whole, and there when it says so,   *)
(* with any number of threads and of connections lost.                     *)
THEOREM PostgresSavesWhole == PgSpec => []SavesWhole
  <1>1. PgInit => SavesInv
    BY SavesInit
  <1>2. SavesInv /\ [PgNext]_pgVars => SavesInv'
    BY SavesStep
  <1>3. SavesInv => SavesWhole
    BY SavesMeans
  <1> QED  BY <1>1, <1>2, <1>3, PTL DEF PgSpec
=============================================================================
