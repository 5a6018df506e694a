------------------------------- MODULE MCHttp -------------------------------
(* Conversations over HTTP: pipelined queries, bodies with a length, in    *)
(* chunks and to the end of the connection, interim replies.               *)
EXTENDS Http
Lf(n) == [t |-> "lf", n |-> n]
Cr == [t |-> "cr", n |-> 0]
Query(n) == <<[t |-> "query", n |-> n], Lf(0)>>
Reply(n, code) == <<[t |-> "http", n |-> n], [t |-> "reply", n |-> n, code |-> code], Cr, Lf(0)>>
Clen(v) == <<[t |-> "clen", n |-> 0, v |-> v], Lf(0)>>
Chunked == <<[t |-> "chunked", n |-> 0], Lf(0)>>
Junk == <<[t |-> "junk", n |-> 0], Lf(0)>>
Size(v) == <<[t |-> "size", n |-> 0, v |-> v], Cr, Lf(0)>>
Byte(n, i) == [t |-> "byte", n |-> n, i |-> i]
Eoh(n) == <<Lf(n)>>
Crlf == <<Cr, Lf(0)>>
Talks == {
 <<Query(1) \o Eoh(1) \o Query(2) \o Clen(2) \o Eoh(2) \o <<Byte(2,1), Byte(2,2)>>,
   Reply(1,200) \o Clen(1) \o Eoh(0) \o <<Byte(1,1)>> \o Reply(2,204) \o Eoh(0)>>,
 <<Query(1) \o Eoh(1) \o Query(2) \o Eoh(2),
   Reply(1,200) \o Chunked \o Clen(9) \o Eoh(0) \o Size(2) \o <<Byte(1,1), Byte(1,2)>> \o Crlf \o Size(1) \o <<Byte(1,3)>> \o Crlf \o Size(0) \o Crlf \o Reply(2, 200) \o Eoh(0) \o <<Byte(2,1)>> >>,
 <<Query(1) \o Clen(1) \o Eoh(1) \o <<Byte(1,1)>> \o Query(2) \o Eoh(2) \o Junk,
   Reply(0,100) \o Eoh(0) \o Reply(1,200) \o Clen(2) \o Eoh(0) \o Reply(2,304) \o Junk>>,
 <<Query(1) \o Eoh(1) \o Query(2) \o Eoh(2),
   Reply(1,200) \o Clen(2) \o Eoh(0) \o Reply(2,103) \o Eoh(0) \o Reply(2,200) \o Clen(0) \o Eoh(0)>>
}
=============================================================================
