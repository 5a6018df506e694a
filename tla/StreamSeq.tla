------------------------------ MODULE StreamSeq ------------------------------
(***************************************************************************)
(* The sequence numbers of a stream (stream.c): their arithmetic modulo    *)
(* Modulus, the tests of a packet against how far its direction has come,  *)
(* the cutting of bytes that were handed on already, and the place of a    *)
(* packet among those that are kept.                                       *)
(***************************************************************************)
EXTENDS Integers, Sequences, SequencesExt

CONSTANT Modulus     \* 2^32 in the code

ASSUME SequenceAssumption == Modulus \in Nat \ {0} /\ Modulus % 2 = 0

Dirs == {0, 1}
DirReverse(d) == 1 - d
Half == Modulus \div 2

Plus(a, n) == (a + n) % Modulus
Minus(a, b) == (a - b) % Modulus

(* a is before b, by the rule of the half range.                           *)
Before(a, b) == \/ a < b /\ b - a < Half
                \/ a > b /\ a - b > Half

EndSeq(p) == Plus(p.seq, p.plen)

-----------------------------------------------------------------------------
(* Tests and changes of a packet against the stream.                       *)

IsOldDupe(st, p, d) ==
  LET cur == st.cur[d]
      end == EndSeq(p)
  IN /\ st.running
     /\ \/ cur >= end /\ cur - end < Half
        \/ cur < end /\ end - cur > Half


RemoveDupeBytes(st, p, d) ==
  IF st.running /\ Before(p.seq, st.cur[d])
  THEN LET dupe == Minus(st.cur[d], p.seq)
       IN [p EXCEPT !.seq = Plus(@, dupe), !.plen = @ - dupe, !.from = @ + dupe]
  ELSE p

IsNextOneWay(st, p, d) == ~Before(st.cur[d], p.seq)

IsNext(st, p, d) ==
  /\ ~Before(st.cur[d], p.seq)
  /\ st.bidir => ~Before(st.cur[DirReverse(d)], p.ack)

AtTail(q, p) == Append(q, p)

(* A packet is put behind those that do not come after it, from the tail.  *)
SortedIn(q, p) ==
  LET behind == {i \in 1 .. Len(q) :
                   ~(\/ q[i].seq >= p.seq /\ q[i].seq - p.seq < Half
                     \/ q[i].seq <= p.seq /\ p.seq - q[i].seq > Half)}
      at == IF behind = {} THEN 1 ELSE 1 + CHOOSE i \in behind : \A j \in behind : j <= i
  IN InsertAt(q, at, p)
=============================================================================
