-------------------------------- MODULE Http --------------------------------
(***************************************************************************)
(* A HTTP connection: proto_http.c finds queries and responses and their   *)
(* bodies in the two byte streams, analyzer_http.c pairs them into         *)
(* requests.  The streams are those Stream hands over, cut anywhere; the   *)
(* lock of the stream is held, so one packet is processed at a time.       *)
(*                                                                         *)
(* The loop of proto_http_process is a sequence of steps here, one for     *)
(* every turn.  client and server say which side is which; the code has to *)
(* find out.  odd tells that a case was met that the code does not handle. *)
(***************************************************************************)
EXTENDS StreamParser, FiniteSets, SequencesExt

CONSTANTS
  Conversations   \* what the two sides send: <<of the client, of the server>>

HttpDirs == {1, 2}
Other(d) == 3 - d
NoDir == 0
Client == 1

(* What the conversations are made of.                                     *)
HttpSymbols == UNION {Range(c[d]) : c \in Conversations, d \in HttpDirs}

(* Lengths, sizes and codes are read into unsigned variables.             *)
ASSUME HttpAssumption ==
  /\ \A c \in Conversations, d \in HttpDirs : c[d] \in Seq(HttpSymbols)
  /\ \A x \in HttpSymbols : x.t \in {"clen", "size"} => x.v \in Nat
  /\ \A x \in HttpSymbols : x.t = "reply" => x.code \in Nat

VARIABLES
  talk,        \* one of Conversations
  hTold,       \* how much of it was captured, of each direction
  hParser, hState, hInfo, hEvent, clientDir, isInvalid,  \* proto_http_conntrack_priv
  inHand,      \* the direction of the packet that is processed
  an,          \* analyzer_http_ce_priv, and the requests it has finished
  hClosed,
  httpOdd

httpVars == <<talk, hTold, hParser, hState, hInfo, hEvent, clientDir, isInvalid, inHand, an,
              hClosed, httpOdd>>

NoInfo == [clen |-> -1, pos |-> 0, chunked |-> FALSE, size |-> 0, cpos |-> 0, code |-> 0]
NoEvent == [n |-> 0, started |-> FALSE]
NewAnalysis == [list |-> <<>>, finished |-> <<>>, client |-> NoDir, error |-> FALSE]

HttpInit ==
  /\ talk \in Conversations
  /\ hTold = [d \in HttpDirs |-> 0]
  /\ hParser = [d \in HttpDirs |-> NewParser]
  /\ hState = [d \in HttpDirs |-> "first"]
  /\ hInfo = [d \in HttpDirs |-> NoInfo]
  /\ hEvent = [d \in HttpDirs |-> NoEvent]
  /\ clientDir = NoDir /\ isInvalid = FALSE /\ inHand = NoDir
  /\ an = NewAnalysis /\ hClosed = FALSE /\ httpOdd = FALSE

-----------------------------------------------------------------------------
(* The analyzer.  analyzer_http_event_process_begin: a query is a new      *)
(* request; a response belongs to the first request, or makes one.         *)
NewRequest(q) ==
  [q |-> q, r |-> 0, qDone |-> FALSE, rDone |-> FALSE, qBody |-> <<>>, rBody |-> <<>>]

QueryBegins(a, d, n) ==
  IF a.error THEN a
  ELSE [a EXCEPT !.list = Append(@, NewRequest(n)),
                 !.client = IF @ = NoDir THEN d ELSE @]

ResponseBegins(a, d, n) ==
  LET list == IF a.list = <<>> THEN <<NewRequest(0)>> ELSE a.list
  IN IF a.error THEN a
     ELSE IF list[1].r # 0 /\ Len(list) > 1 THEN [a EXCEPT !.error = TRUE]
     ELSE [a EXCEPT !.list = [list EXCEPT ![1].r = n, ![1].rDone = FALSE],
                    !.client = IF @ = NoDir THEN Other(d) ELSE @]

(* analyzer_http_event_finalize_process                                    *)
Finalize(a) == [a EXCEPT !.list = Tail(@), !.finished = Append(@, Head(a.list))]

(* analyzer_http_event_process_end: the event is marked as done behind it. *)
QueryDone(a, n) ==
  [a EXCEPT !.list = [i \in DOMAIN @ |-> IF @[i].q = n THEN [@[i] EXCEPT !.qDone = TRUE] ELSE @[i]]]

QueryEnds(a, n) ==
  IF a.list = <<>> THEN a
  ELSE IF a.list[1].r = 0 \/ ~a.list[1].rDone THEN QueryDone(a, n)
  ELSE Finalize(QueryDone(a, n))

NeverAwaits(req) == FALSE
AwaitsQuery(req) == req.q # 0 /\ ~req.qDone

ResponseEnds(a, n) ==
  IF a.list = <<>> \/ a.list[1].r # n THEN a
  ELSE IF AwaitsQuery(a.list[1]) THEN [a EXCEPT !.list[1].rDone = TRUE]
  ELSE Finalize([a EXCEPT !.list[1].rDone = TRUE])

(* analyzer_http_proto_packet_process: the body of a query belongs to the  *)
(* last request, that of a response to the first.                          *)
FirstRequest(a) == 1
LastRequest(a) == Len(a.list)

Payload(a, d, bytes) ==
  IF a.list = <<>> \/ bytes = <<>> THEN a
  ELSE IF d = a.client THEN [a EXCEPT !.list[LastRequest(a)].qBody = @ \o bytes]
  ELSE [a EXCEPT !.list[1].rBody = @ \o bytes]

Begins(a, d, n) == IF d = clientDir THEN QueryBegins(a, d, n) ELSE ResponseBegins(a, d, n)
Ends(a, d, n) == IF d = clientDir THEN QueryEnds(a, n) ELSE ResponseEnds(a, n)

-----------------------------------------------------------------------------
(* proto_http_process, one turn of its loop at a time.                     *)
Parse(d, sp) == hParser' = [hParser EXCEPT ![d] = sp]
Become(d, st) == hState' = [hState EXCEPT ![d] = st]
Known(d, i) == hInfo' = [hInfo EXCEPT ![d] = i]
NextTurn == UNCHANGED inHand
Leave == inHand' = NoDir
IsOdd(how) == httpOdd' = (httpOdd \/ how)

(* proto_http_conntrack_reset                                              *)
Reset(d) ==
  /\ Become(d, "first") /\ Known(d, NoInfo)
  /\ hEvent' = [hEvent EXCEPT ![d] = NoEvent]

(* The query that the other side answers was seen up to its empty line.    *)
Asked(n) == \E i \in 1 .. hTold[Client] : talk[Client][i] = [t |-> "lf", n |-> n]

(* A packet, as Stream hands it over.                                      *)
HttpPacket(d) ==
  /\ inHand = NoDir /\ ~hClosed
  /\ \E k \in 1 .. Len(talk[d]) - hTold[d] :
       LET bytes == SubSeq(talk[d], hTold[d] + 1, hTold[d] + k)
       IN /\ \A i \in DOMAIN bytes : bytes[i].t = "reply" => Asked(bytes[i].n)
          /\ hTold' = [hTold EXCEPT ![d] = @ + k]
          /\ IF isInvalid THEN UNCHANGED <<hParser, inHand>>
             ELSE Parse(d, AddPayload(hParser[d], bytes)) /\ inHand' = d
  /\ UNCHANGED <<talk, hState, hInfo, hEvent, clientDir, isInvalid, an, hClosed, httpOdd>>

NoLine(d) ==
  /\ inHand = d /\ ~HasLine(hParser[d])
  /\ hState[d] \in {"first", "headers"}
  /\ Parse(d, KeepRest(hParser[d])) /\ Leave
  /\ UNCHANGED <<talk, hTold, hState, hInfo, hEvent, clientDir, isInvalid, an, hClosed, httpOdd>>

(* The line in hand, and what the parser is after it.                      *)
TheLine(d, st) == inHand = d /\ hState[d] = st /\ HasLine(hParser[d])
FirstOf(d) == Last(LineOf(hParser[d]))
Invalidate == isInvalid' = TRUE /\ Leave

EmptyFirstLine(d) ==
  /\ TheLine(d, "first") /\ LineOf(hParser[d]) = <<>>
  /\ Parse(d, AfterLine(hParser[d])) /\ NextTurn
  /\ UNCHANGED <<talk, hTold, hState, hInfo, hEvent, clientDir, isInvalid, an, hClosed, httpOdd>>

(* proto_http_parse_query_response                                         *)
Side(d, t) == IF t = "query" THEN d ELSE Other(d)

FirstLine(d) ==
  /\ TheLine(d, "first") /\ LineOf(hParser[d]) # <<>>
  /\ Parse(d, AfterLine(hParser[d]))
  /\ LET line == FirstOf(d) IN
     IF line.t \notin {"query", "reply"} \/ clientDir \notin {NoDir, Side(d, line.t)}
     THEN /\ Invalidate
          /\ hEvent' = IF line.t # "query" THEN hEvent
                       ELSE [hEvent EXCEPT ![d] = [n |-> line.n, started |-> FALSE]]
          /\ UNCHANGED <<hState, hInfo, clientDir, httpOdd>>
     ELSE /\ clientDir' = Side(d, line.t)
          /\ NextTurn /\ UNCHANGED isInvalid
          /\ IF line.t = "reply" /\ line.code = 100
             THEN UNCHANGED <<hState, hInfo, hEvent, httpOdd>>
             ELSE /\ Become(d, "headers")
                  /\ hEvent' = [hEvent EXCEPT ![d] = [n |-> line.n, started |-> FALSE]]
                  /\ Known(d, [hInfo[d] EXCEPT !.code = IF line.t = "reply" THEN line.code ELSE 0])
                  /\ IsOdd(line.t = "reply" /\ line.code \in 101 .. 199)
  /\ UNCHANGED <<talk, hTold, an, hClosed>>

Header(d) ==
  /\ TheLine(d, "headers") /\ LineOf(hParser[d]) # <<>>
  /\ Parse(d, AfterLine(hParser[d]))
  /\ LET line == FirstOf(d) IN
     \/ /\ line.t = "junk" /\ Invalidate /\ UNCHANGED hInfo
     \/ /\ line.t = "clen" /\ NextTurn /\ UNCHANGED isInvalid
        /\ Known(d, [hInfo[d] EXCEPT !.clen = IF @ = -1 THEN line.v ELSE @])
     \/ /\ line.t = "chunked" /\ NextTurn /\ UNCHANGED isInvalid
        /\ Known(d, [hInfo[d] EXCEPT !.chunked = TRUE])
  /\ UNCHANGED <<talk, hTold, hState, hEvent, clientDir, an, hClosed, httpOdd>>

(* The empty line behind the headers: a message without a body is done.    *)
Counted(i) == IF i.chunked THEN [i EXCEPT !.clen = -1] ELSE i

HasNoBody(d, i) ==
  \/ i.clen = 0
  \/ d = Other(clientDir) /\ (i.code \in 100 .. 199 \/ i.code \in {204, 304})
  \/ d = clientDir /\ i.clen = -1

EndOfHeaders(d) ==
  LET i == Counted(hInfo[d]) IN
  /\ TheLine(d, "headers") /\ LineOf(hParser[d]) = <<>>
  /\ Parse(d, AfterLine(hParser[d])) /\ NextTurn
  /\ IF HasNoBody(d, i)
     THEN Reset(d) /\ an' = Ends(Begins(an, d, hEvent[d].n), d, hEvent[d].n)
     ELSE /\ Become(d, "body") /\ Known(d, i)
          /\ hEvent' = [hEvent EXCEPT ![d].started = TRUE]
          /\ an' = Begins(an, d, hEvent[d].n)
  /\ UNCHANGED <<talk, hTold, clientDir, isInvalid, hClosed, httpOdd>>

-----------------------------------------------------------------------------
(* The body.  A response that begins where a body should was preceded by   *)
(* one without a body, or by the last chunk of one.                        *)
InBody(d) == inHand = d /\ hState[d] = "body"
Left(d) == hParser[d].left
StartsResponse(d) ==
  /\ d = Other(clientDir) /\ hInfo[d].pos = 0
  /\ Len(Left(d)) > 1 /\ Left(d)[1].t = "http"

NextResponse(d) ==
  /\ InBody(d) /\ StartsResponse(d)
  /\ an' = Ends(an, d, hEvent[d].n) /\ Reset(d) /\ NextTurn
  /\ UNCHANGED <<talk, hTold, hParser, clientDir, isInvalid, hClosed, httpOdd>>

(* Chunks: a line with the size, the bytes, an empty line.                 *)
InChunks(d) == InBody(d) /\ ~StartsResponse(d) /\ hInfo[d].chunked
ChunkLine(d) == InChunks(d) /\ hInfo[d].size = 0

GivesSize(d) == LineOf(hParser[d]) # <<>> /\ FirstOf(d).t = "size"

NoChunkLine(d) ==
  /\ ChunkLine(d) /\ ~HasLine(hParser[d])
  /\ Parse(d, KeepRest(hParser[d])) /\ Leave
  /\ UNCHANGED <<talk, hTold, hState, hInfo, hEvent, clientDir, isInvalid, an, hClosed, httpOdd>>

(* Not a size: the end of a chunk or of the last one was cut, or a query   *)
(* follows the last chunk of a query, which the code never ends.           *)
BadChunkLine(d) ==
  /\ ChunkLine(d) /\ HasLine(hParser[d])
  /\ ~GivesSize(d)
  /\ Parse(d, AfterLine(hParser[d])) /\ Invalidate /\ IsOdd(TRUE)
  /\ UNCHANGED <<talk, hTold, hState, hInfo, hEvent, clientDir, an, hClosed>>

IsSize(d) == ChunkLine(d) /\ HasLine(hParser[d]) /\ GivesSize(d)

ChunkSize(d) ==
  /\ IsSize(d) /\ FirstOf(d).v > 0
  /\ Parse(d, AfterLine(hParser[d])) /\ NextTurn
  /\ Known(d, [hInfo[d] EXCEPT !.size = FirstOf(d).v])
  /\ UNCHANGED <<talk, hTold, hState, hEvent, clientDir, isInvalid, an, hClosed, httpOdd>>

(* The line behind the last chunk; the event goes on: the test for its end *)
(* in proto_http_post_process is never true.                               *)
LastChunk(d) ==
  /\ IsSize(d) /\ FirstOf(d).v = 0
  /\ LET sp == AfterLine(hParser[d])
         after == IF Len(sp.left) > 1 THEN SkipBytes(sp, 2) ELSE sp
     IN Parse(d, after) /\ IsOdd(WillRepeat(after))
  /\ NextTurn
  /\ UNCHANGED <<talk, hTold, hState, hInfo, hEvent, clientDir, isInvalid, an, hClosed>>

(* More than the chunk: with it goes the line behind it, if all is here.   *)
ChunkRest(d) == hInfo[d].size - hInfo[d].cpos
Behind(d) == IF Len(Left(d)) - ChunkRest(d) > 1 THEN 2 ELSE 0

EndOfChunk(d) ==
  /\ InChunks(d) /\ hInfo[d].size > 0 /\ Len(Left(d)) > ChunkRest(d)
  /\ LET after == SkipBytes(hParser[d], ChunkRest(d) + Behind(d))
     IN Parse(d, after) /\ IsOdd(WillRepeat(after))
  /\ an' = Payload(an, d, SubSeq(Left(d), 1, ChunkRest(d)))
  /\ Known(d, [hInfo[d] EXCEPT !.size = 0, !.cpos = 0]) /\ NextTurn
  /\ UNCHANGED <<talk, hTold, hState, hEvent, clientDir, isInvalid, hClosed>>

InsideChunk(d) ==
  /\ InChunks(d) /\ hInfo[d].size > 0 /\ Len(Left(d)) <= ChunkRest(d)
  /\ Parse(d, EmptyParser(hParser[d])) /\ Leave
  /\ an' = Payload(an, d, Left(d))
  /\ Known(d, [hInfo[d] EXCEPT !.cpos = @ + Len(Left(d))])
  /\ UNCHANGED <<talk, hTold, hState, hEvent, clientDir, isInvalid, hClosed, httpOdd>>

(* A body of a known length, or up to the end of the connection.  The      *)
(* payload is processed and then its end, in proto_http_post_process.      *)
InLength(d) == InBody(d) /\ ~StartsResponse(d) /\ ~hInfo[d].chunked
HasLength(d) == hInfo[d].clen # -1
LengthLeft(d) == hInfo[d].clen - hInfo[d].pos

MoreThanBody(d) ==
  /\ InLength(d) /\ HasLength(d) /\ LengthLeft(d) < Len(Left(d))
  /\ Parse(d, SkipBytes(hParser[d], LengthLeft(d)))
  /\ an' = Ends(Payload(an, d, SubSeq(Left(d), 1, LengthLeft(d))), d, hEvent[d].n)
  /\ Reset(d) /\ NextTurn
  /\ UNCHANGED <<talk, hTold, clientDir, isInvalid, hClosed, httpOdd>>

IsWhole(d) == HasLength(d) /\ hInfo[d].pos + Len(Left(d)) >= hInfo[d].clen

RestOfPacket(d) ==
  /\ InLength(d) /\ ~(HasLength(d) /\ LengthLeft(d) < Len(Left(d)))
  /\ Parse(d, EmptyParser(hParser[d])) /\ Leave
  /\ LET more == Payload(an, d, Left(d)) IN
     IF IsWhole(d) THEN Reset(d) /\ an' = Ends(more, d, hEvent[d].n)
     ELSE /\ an' = more
          /\ Known(d, [hInfo[d] EXCEPT !.pos = @ + Len(Left(d))])
          /\ UNCHANGED <<hState, hEvent>>
  /\ IsOdd(Left(d) # <<>> /\ Left(d)[1].t = "http")
  /\ UNCHANGED <<talk, hTold, clientDir, isInvalid, hClosed>>

-----------------------------------------------------------------------------
(* The connection is cleaned up: proto_http_conntrack_cleanup ends what    *)
(* has begun, the client's first, and the analyzer finishes what it has.   *)
EndStarted(a, d) == IF hEvent[d].started THEN Ends(a, d, hEvent[d].n) ELSE a
FinishAll(a) == [a EXCEPT !.list = <<>>, !.finished = @ \o a.list]

HttpClose ==
  /\ inHand = NoDir /\ ~hClosed
  /\ LET one == IF clientDir = NoDir THEN 1 ELSE clientDir
     IN an' = FinishAll(EndStarted(EndStarted(an, one), Other(one)))
  /\ hEvent' = [d \in HttpDirs |-> NoEvent]
  /\ hClosed' = TRUE
  /\ UNCHANGED <<talk, hTold, hParser, hState, hInfo, clientDir, isInvalid, inHand, httpOdd>>

HttpTurn(d) ==
  \/ NoLine(d) \/ EmptyFirstLine(d) \/ FirstLine(d) \/ Header(d) \/ EndOfHeaders(d)
  \/ NextResponse(d) \/ NoChunkLine(d) \/ BadChunkLine(d) \/ ChunkSize(d) \/ LastChunk(d)
  \/ EndOfChunk(d) \/ InsideChunk(d) \/ MoreThanBody(d) \/ RestOfPacket(d)

HttpNext ==
  \/ \E d \in HttpDirs : HttpPacket(d) \/ HttpTurn(d)
  \/ HttpClose

HttpSpec == HttpInit /\ [][HttpNext]_httpVars

-----------------------------------------------------------------------------
BodyOf(d, n) == SelectSeq(talk[d], LAMBDA x : x.t = "byte" /\ x.n = n)
Requests == an.finished \o an.list

(* Wherever the packets cut the two streams and however far the queries    *)
(* are ahead of the responses: the requests are in the order of the        *)
(* queries, each with the response to its own query, and nothing is in a   *)
(* body that does not belong there, or in the wrong order; a request that  *)
(* was finished before the connection ended has both bodies whole.         *)
RequestsPaired ==
  ~httpOdd => \A i \in DOMAIN Requests :
    LET req == Requests[i] IN
    /\ req.q = i /\ req.r \in {0, i}
    /\ IsPrefix(req.qBody, BodyOf(Client, i)) /\ IsPrefix(req.rBody, BodyOf(Other(Client), i))
    /\ i <= Len(an.finished) /\ ~hClosed =>
         /\ req.r = i
         /\ req.qBody = BodyOf(Client, i) /\ req.rBody = BodyOf(Other(Client), i)

(* When all of a connection was captured and it is closed, no query, no    *)
(* response and no byte is missing.                                        *)
NothingMissed ==
  hClosed /\ ~httpOdd /\ ~isInvalid /\ (\A d \in HttpDirs : hTold[d] = Len(talk[d])) =>
    \A d \in HttpDirs : \A j \in DOMAIN talk[d] :
      talk[d][j].t \in {"query", "reply"} /\ talk[d][j].n > 0 =>
        LET i == talk[d][j].n IN
        /\ i \in DOMAIN an.finished
        /\ IF d = Client THEN an.finished[i].qBody = BodyOf(d, i)
           ELSE an.finished[i].r = i /\ an.finished[i].rBody = BodyOf(d, i)
=============================================================================
