-------------------------------- MODULE Imap --------------------------------
(***************************************************************************)
(* An IMAP connection: proto_imap.c reads commands, responses and literals *)
(* from the two byte streams, analyzer_imap.c makes one event of every     *)
(* message that is fetched or appended and of every login.  The streams    *)
(* are those Stream hands over, cut anywhere, one packet at a time.        *)
(*                                                                         *)
(* A line is a symbol that tells what is said, followed by its line end;   *)
(* lit is the size of the literal that follows it.  What is compressed is  *)
(* one symbol, "z", that stands for others.  x numbers the exchanges: the  *)
(* server answers when it has all of one.  imapOdd tells that a case was   *)
(* met that the code does not handle.                                      *)
(***************************************************************************)
EXTENDS StreamParser, SequencesExt

CONSTANTS
  Sessions,     \* records: what the client and the server send, whether the
                \* client waits for the replies, the messages, the logins
  MaxCmdQueue   \* ANALYZER_IMAP_MAX_CMD_QUEUE

ImapDirs == {"client", "server"}
Opposite(d) == IF d = "client" THEN "server" ELSE "client"
NotKnown == "unknown"

VARIABLES
  session, seen,       \* one of Sessions, and how much of it was captured
  iParser, serverIs, iState, dataBytes, cmdEvt, rspEvt, ploadEvt, inflates,
                       \* proto_imap_conntrack_priv
  iInHand,             \* the direction of the packet that is processed
  ia,                  \* analyzer_imap_ce_priv, and the events it has ended
  iClosed, imapOdd

imapVars == <<session, seen, iParser, serverIs, iState, dataBytes, cmdEvt, rspEvt, ploadEvt,
              inflates, iInHand, ia, iClosed, imapOdd>>

NoEntry == [tag |-> 0]
NoPload == [len |-> 0]
NoResponse == [uid |-> 0, part |-> "none"]
NewImapAnalysis ==
  [mbx |-> 0, msgs |-> <<>>, queue |-> NoEntry, count |-> 0, pload |-> NoPload,
   msgsDone |-> <<>>, logins |-> {}, broken |-> FALSE]

ImapInit ==
  /\ session \in Sessions
  /\ seen = [d \in ImapDirs |-> 0]
  /\ iParser = [d \in ImapDirs |-> NewParser]
  /\ serverIs = NotKnown /\ iState = "normal"
  /\ dataBytes = [d \in ImapDirs |-> 0]
  /\ cmdEvt = FALSE /\ rspEvt = NoResponse
  /\ ploadEvt = [d \in ImapDirs |-> FALSE] /\ inflates = [d \in ImapDirs |-> FALSE]
  /\ iInHand = NotKnown /\ ia = NewImapAnalysis /\ iClosed = FALSE /\ imapOdd = FALSE

-----------------------------------------------------------------------------
(* The analyzer.  analyzer_imap_queue_cmd forgets to set the tail: the     *)
(* queue holds the last command, and the one that is one too many is       *)
(* looked for where there is none.  broken: the program has come to its    *)
(* end.                                                                    *)
QueueCmd(a, tag) ==
  [a EXCEPT !.queue = [tag |-> tag], !.count = @ + 1,
            !.broken = @ \/ a.count + 1 > MaxCmdQueue]

Forgets(a) == a.queue # NoEntry

(* analyzer_imap_event_process_begin for a command: a login, and a mailbox *)
(* whose messages are not those known so far.                              *)
SelectKeeps(a, mbx) == [a EXCEPT !.mbx = mbx]
Select(a, mbx) == [a EXCEPT !.mbx = mbx, !.msgs = <<>>]

OnCommand(a, cmd) ==
  CASE cmd.c = "LOGIN"  -> QueueCmd(a, cmd.tag)
    [] cmd.c = "SELECT" -> Select(a, cmd.v)
    [] OTHER            -> a

(* ... and for a response with the tag of the command.                     *)
OnResponse(a, rsp) ==
  IF a.queue = NoEntry \/ rsp.tag # a.queue.tag THEN a
  ELSE [a EXCEPT !.queue = NoEntry, !.logins = @ \cup {<<rsp.tag, rsp.s>>}]

(* analyzer_imap_pload_event_process_begin: an APPEND, or the answer to a  *)
(* FETCH.  A message without a UID is not merged with what is known, and   *)
(* is then used all the same.                                              *)
NewPload(mbx, uid, part, len, headers) ==
  [mbx |-> mbx, uid |-> uid, part |-> part, len |-> len, pos |-> 0, body |-> <<>>,
   headers |-> headers, cut |-> <<>>, stale |-> FALSE]

Appends(a, cmd) == [a EXCEPT !.pload = NewPload(cmd.v, 0, "full", cmd.lit, <<>>)]

NoHeaders == [headers |-> <<>>, complete |-> FALSE]
MsgOf(a, uid) == IF uid \in DOMAIN a.msgs THEN a.msgs[uid] ELSE NoHeaders
WithMsgOf(a, uid, msg) ==
  [a EXCEPT !.msgs = [u \in DOMAIN a.msgs \cup {uid} |-> IF u = uid THEN msg ELSE a.msgs[u]]]

IsHeader(part) == part \in {"header", "fields"}

Fetches(a, uid, part, lit) ==
  LET msg == MsgOf(a, uid)
      forgotten == IF IsHeader(part) /\ ~msg.complete THEN NoHeaders ELSE msg
      known == IF part = "text" THEN msg.headers ELSE <<>>
  IN IF uid = 0 THEN [a EXCEPT !.broken = TRUE]
     ELSE [WithMsgOf(a, uid, forgotten) EXCEPT !.pload = NewPload(a.mbx, uid, part, lit, known)]

(* analyzer_imap_pkt_process.  Of headers, every line is parsed, and what  *)
(* is left of the packet is kept for the next; a line end at the beginning *)
(* of a packet does not end the line that was kept.                        *)
LastLF(b) == IF \E i \in DOMAIN b : b[i].t = "lf"
             THEN CHOOSE i \in DOMAIN b : b[i].t = "lf" /\ \A j \in i + 1 .. Len(b) : b[j].t # "lf"
             ELSE 0

HeaderLines(cut, b) ==
  SelectSeq(cut \o SubSeq(b, 1, LastLF(b)), LAMBDA c : c.t \notin {"cr", "lf"})
CutLine(cut, b) ==
  (IF LastLF(b) = 0 THEN cut ELSE <<>>) \o SubSeq(b, LastLF(b) + 1, Len(b))

LineEndCut(p, b) == p.cut # <<>> /\ b[1].t \in {"cr", "lf"}

HeaderBytes(a, b) ==
  LET p == a.pload
      msg == MsgOf(a, p.uid)
      known == IF msg.complete THEN msg.headers ELSE msg.headers \o HeaderLines(p.cut, b)
      whole == p.pos + Len(b) >= p.len
  IN [WithMsgOf(a, p.uid, [headers |-> known, complete |-> msg.complete \/ (whole /\ p.part = "header")])
        EXCEPT !.pload.pos = @ + Len(b), !.pload.cut = CutLine(p.cut, b),
               !.pload.headers = IF whole THEN known ELSE @]

LiteralBytes(a, bytes) ==
  LET p == a.pload
      b == IF p = NoPload THEN <<>>
           ELSE IF Len(bytes) < p.len - p.pos THEN bytes ELSE SubSeq(bytes, 1, p.len - p.pos)
  IN IF b = <<>> THEN a
     ELSE IF p.stale THEN [a EXCEPT !.broken = TRUE]
     ELSE IF IsHeader(p.part) THEN HeaderBytes(a, b)
     ELSE [a EXCEPT !.pload.pos = @ + Len(b), !.pload.body = @ \o b]

(* analyzer_imap_pload_event_process_end                                   *)
MsgEvent(p) == [mbx |-> p.mbx, uid |-> p.uid, part |-> p.part, body |-> p.body, headers |-> p.headers]

EndPload(a) ==
  IF a.pload = NoPload THEN a
  ELSE [a EXCEPT !.pload = NoPload, !.msgsDone = Append(@, MsgEvent(a.pload))]

-----------------------------------------------------------------------------
(* proto_imap_process, one turn of its loop at a time.                     *)
IParse(sp) == iParser' = [iParser EXCEPT ![iInHand] = sp]
ILeft == iParser[iInHand].left
ILine == Last(LineOf(iParser[iInHand]))
ILeave == iInHand' = NotKnown
IIsOdd(how) == imapOdd' = (imapOdd \/ how \/ ia'.broken)
IFrom(d) == iInHand # NotKnown /\ serverIs # NotKnown /\ (d = "server") = (iInHand = serverIs)
Requested == iState \in {"compress_req", "starttls_req"}
Granted(st) == IF st = "compress_req" THEN "compress" ELSE "starttls"

HasSeen(d, x) == \A i \in DOMAIN session[d] : session[d][i].x <= x => i <= seen[d]
Ordered(d, x) ==
  IF d = "server" THEN HasSeen("client", x) ELSE session.waits => HasSeen("server", x - 1)

(* packet_stream_parser_add_payload_buffer, and the decoder in front of    *)
(* it, which what is not compressed makes fail.                            *)
AddBuffer(sp, bytes) ==
  IF sp.buff /\ sp.at THEN AddPayload(sp, bytes)
  ELSE [left |-> bytes, at |-> TRUE, buff |-> TRUE, kept |-> <<>>]

Inflated(bytes) == FlattenSeq([i \in DOMAIN bytes |-> bytes[i].of])
Inflates(bytes) == \A i \in DOMAIN bytes : bytes[i].t = "z"

ImapPacket(d) ==
  /\ iInHand = NotKnown /\ ~iClosed /\ ~ia.broken
  /\ \E k \in 1 .. Len(session[d]) - seen[d] :
       LET bytes == SubSeq(session[d], seen[d] + 1, seen[d] + k)
       IN /\ \A i \in DOMAIN bytes : Ordered(d, bytes[i].x)
          /\ seen' = [seen EXCEPT ![d] = @ + k]
          /\ IF iState \in {"invalid", "starttls"} THEN UNCHANGED <<iParser, iState, iInHand>>
             ELSE IF inflates[d] /\ ~Inflates(bytes)
             THEN iState' = "invalid" /\ UNCHANGED <<iParser, iInHand>>
             ELSE /\ iParser' = [iParser EXCEPT ![d] =
                       IF inflates[d] THEN AddBuffer(@, Inflated(bytes)) ELSE AddPayload(@, bytes)]
                  /\ iInHand' = d /\ UNCHANGED iState
  /\ UNCHANGED <<session, serverIs, dataBytes, cmdEvt, rspEvt, ploadEvt, inflates, ia, iClosed, imapOdd>>

(* proto_imap_decompress_init: what is left of the packet in hand is       *)
(* decoded, or cannot be.                                                  *)
InflateLeft(parsers) ==
  [d \in ImapDirs |->
     LET sp == parsers[d] IN IF sp.left = <<>> THEN sp ELSE AddBuffer(EmptyParser(sp), Inflated(sp.left))]

Enter(st, parsers) ==
  /\ inflates' = [d \in ImapDirs |-> inflates[d] \/ st = "compress"]
  /\ IF st = "compress" /\ \E d \in ImapDirs : ~Inflates(parsers[d].left)
     THEN iState' = "invalid" /\ iParser' = parsers /\ ILeave
     ELSE /\ iState' = st
          /\ iParser' = IF st = "compress" THEN InflateLeft(parsers) ELSE parsers
          /\ IF st = "starttls" THEN ILeave ELSE UNCHANGED iInHand

(* The client goes on before the server's reply was seen: what it says     *)
(* tells whether that was a yes.                                           *)
Readable(b) == b[1].t \notin {"z", "tls", "byte"}

Guess ==
  /\ IFrom("client") /\ Requested /\ ILeft # <<>>
  /\ Enter(IF Readable(ILeft) THEN "normal" ELSE Granted(iState), iParser)
  /\ UNCHANGED <<session, seen, serverIs, dataBytes, cmdEvt, rspEvt, ploadEvt, ia, iClosed, imapOdd>>

NoGuess == iInHand # NotKnown /\ ~(IFrom("client") /\ Requested /\ ILeft # <<>>)
InLiteral == NoGuess /\ dataBytes[iInHand] > 0

(* All there is belongs to the literal; nothing notices when it is the     *)
(* last of it.                                                             *)
LiteralGoesOn ==
  /\ InLiteral /\ Len(ILeft) <= dataBytes[iInHand]
  /\ dataBytes' = [dataBytes EXCEPT ![iInHand] = @ - Len(ILeft)]
  /\ ia' = LiteralBytes(ia, ILeft)
  /\ IParse(EmptyParser(iParser[iInHand])) /\ ILeave
  /\ IIsOdd(Len(ILeft) = dataBytes[iInHand] \/ (ILeft # <<>> /\ ia.pload # NoPload /\ LineEndCut(ia.pload, ILeft)))
  /\ UNCHANGED <<session, seen, serverIs, iState, cmdEvt, rspEvt, ploadEvt, inflates, iClosed>>

LiteralEnds ==
  LET n == dataBytes[iInHand] IN
  /\ InLiteral /\ Len(ILeft) > n
  /\ dataBytes' = [dataBytes EXCEPT ![iInHand] = 0]
  /\ ia' = EndPload(LiteralBytes(ia, SubSeq(ILeft, 1, n)))
  /\ IParse(SkipBytes(iParser[iInHand], n)) /\ UNCHANGED iInHand
  /\ ploadEvt' = [ploadEvt EXCEPT ![iInHand] = FALSE]
  /\ cmdEvt' = (cmdEvt /\ iInHand = serverIs)
  /\ IIsOdd(ia.pload # NoPload /\ LineEndCut(ia.pload, ILeft))
  /\ UNCHANGED <<session, seen, serverIs, iState, rspEvt, inflates, iClosed>>

AtLine == NoGuess /\ dataBytes[iInHand] = 0

NoImapLine ==
  /\ AtLine /\ ~HasLine(iParser[iInHand])
  /\ IParse(KeepRest(iParser[iInHand])) /\ ILeave
  /\ UNCHANGED <<session, seen, serverIs, iState, dataBytes, cmdEvt, rspEvt, ploadEvt, inflates, ia,
                 iClosed, imapOdd>>

IsLine == AtLine /\ HasLine(iParser[iInHand]) /\ LineOf(iParser[iInHand]) # <<>>

(* An empty line, as behind the literal of an APPEND: the rest of the      *)
(* packet is left.                                                         *)
EmptyImapLine ==
  /\ AtLine /\ HasLine(iParser[iInHand]) /\ LineOf(iParser[iInHand]) = <<>>
  /\ IParse(AfterLine(iParser[iInHand])) /\ ILeave
  /\ UNCHANGED ia /\ IIsOdd(AfterLine(iParser[iInHand]).left # <<>>)
  /\ UNCHANGED <<session, seen, serverIs, iState, dataBytes, cmdEvt, rspEvt, ploadEvt, inflates, iClosed>>

(* What follows the literal of a response: its end, or another literal.    *)
MoreOfResponse ==
  /\ IsLine /\ IFrom("server") /\ rspEvt # NoResponse
  /\ IParse(AfterLine(iParser[iInHand])) /\ UNCHANGED iInHand
  /\ dataBytes' = [dataBytes EXCEPT ![iInHand] = ILine.lit]
  /\ ploadEvt' = [ploadEvt EXCEPT ![iInHand] = @ \/ ILine.lit > 0]
  /\ IF ILine.lit > 0
     THEN ia' = Fetches(ia, rspEvt.uid, ILine.part, ILine.lit) /\ UNCHANGED rspEvt
     ELSE UNCHANGED ia /\ rspEvt' = NoResponse
  /\ IIsOdd(FALSE)
  /\ UNCHANGED <<session, seen, serverIs, iState, cmdEvt, inflates, iClosed>>

NewLine == IsLine /\ ~(IFrom("server") /\ rspEvt # NoResponse)
SpokenBy == IF serverIs # NotKnown THEN serverIs
            ELSE IF ILine.t = "rsp" THEN iInHand ELSE Opposite(iInHand)

(* A line without a space.                                                 *)
NotImap ==
  /\ NewLine /\ ILine.t \notin {"cmd", "rsp"}
  /\ iState' = "invalid" /\ IParse(AfterLine(iParser[iInHand])) /\ ILeave
  /\ UNCHANGED <<session, seen, serverIs, dataBytes, cmdEvt, rspEvt, ploadEvt, inflates, ia, iClosed, imapOdd>>

(* A command; of one that is still unanswered the queue knows no more.  A  *)
(* mailbox is left while a message of it is on its way.                    *)
TakeCommand(a, cmd) ==
  IF cmd.lit > 0 THEN Appends(OnCommand(a, cmd), cmd)
  ELSE IF cmd.c = "SELECT" /\ a.pload # NoPload
  THEN [OnCommand(a, cmd) EXCEPT !.pload.stale = TRUE]
  ELSE OnCommand(a, cmd)

ImapCommand ==
  /\ NewLine /\ ILine.t = "cmd" /\ iInHand # SpokenBy
  /\ serverIs' = SpokenBy
  /\ IParse(AfterLine(iParser[iInHand])) /\ UNCHANGED iInHand
  /\ iState' = IF iState # "normal" THEN iState
              ELSE CASE ILine.c = "COMPRESS" -> "compress_req"
                     [] ILine.c = "STARTTLS" -> "starttls_req"
                     [] OTHER                -> iState
  /\ dataBytes' = [dataBytes EXCEPT ![iInHand] = ILine.lit]
  /\ cmdEvt' = (cmdEvt \/ ILine.lit > 0)
  /\ ploadEvt' = [ploadEvt EXCEPT ![iInHand] = @ \/ ILine.lit > 0]
  /\ ia' = TakeCommand(ia, ILine)
  /\ IIsOdd((ILine.c = "LOGIN" /\ Forgets(ia)) \/ ~HasSeen("server", ILine.x - 1))
  /\ UNCHANGED <<session, seen, rspEvt, inflates, iClosed>>

(* A response.  Any but an OK is a no to what was requested.               *)
After(rsp) ==
  IF Requested THEN IF rsp.s = "OK" THEN Granted(iState) ELSE "normal"
  ELSE IF iState # "normal" \/ rsp.s # "OK" THEN iState
  ELSE CASE rsp.txt = "active" -> "compress" [] rsp.txt = "begin" -> "starttls" [] OTHER -> "normal"

ImapResponse ==
  /\ NewLine /\ ILine.t = "rsp" /\ iInHand = SpokenBy
  /\ serverIs' = SpokenBy
  /\ LET rest == [iParser EXCEPT ![iInHand] = AfterLine(@)]
     IN IF After(ILine) = iState THEN iParser' = rest /\ UNCHANGED <<iState, inflates, iInHand>>
        ELSE Enter(After(ILine), rest)
  /\ dataBytes' = [dataBytes EXCEPT ![iInHand] = ILine.lit]
  /\ ploadEvt' = [ploadEvt EXCEPT ![iInHand] = @ \/ ILine.lit > 0]
  /\ IF ILine.lit > 0
     THEN /\ rspEvt' = [uid |-> ILine.uid, part |-> ILine.part]
          /\ ia' = Fetches(OnResponse(ia, ILine), ILine.uid, ILine.part, ILine.lit)
     ELSE ia' = OnResponse(ia, ILine) /\ UNCHANGED rspEvt
  /\ IIsOdd(FALSE)
  /\ UNCHANGED <<session, seen, cmdEvt, iClosed>>

(* proto_imap_conntrack_cleanup asks the response when it means the        *)
(* command; analyzer_imap_ce_priv_cleanup ends what is left.               *)
ImapClose ==
  /\ iInHand = NotKnown /\ ~iClosed
  /\ iClosed' = TRUE /\ cmdEvt' = FALSE /\ rspEvt' = NoResponse
  /\ ploadEvt' = [d \in ImapDirs |-> FALSE]
  /\ ia' = IF cmdEvt THEN [ia EXCEPT !.broken = TRUE]
           ELSE [EndPload(ia) EXCEPT !.queue = NoEntry, !.msgs = <<>>]
  /\ IIsOdd(FALSE)
  /\ UNCHANGED <<session, seen, iParser, serverIs, iState, dataBytes, inflates, iInHand>>

ImapNext ==
  \/ \E d \in ImapDirs : ImapPacket(d)
  \/ Guess \/ LiteralGoesOn \/ LiteralEnds \/ NoImapLine \/ EmptyImapLine \/ MoreOfResponse
  \/ NotImap \/ ImapCommand \/ ImapResponse
  \/ ImapClose

ImapSpec == ImapInit /\ [][ImapNext]_imapVars

-----------------------------------------------------------------------------
(* However the packets cut the connection, every message that is fetched   *)
(* or appended has one event, in the order of the messages, with its own   *)
(* mailbox and number, with the bytes of its literal and none of a line,   *)
(* and with no headers but those that were fetched of the same message of  *)
(* the same mailbox; the outcome of a login is that of the reply to it.    *)
LiteralsWhole ==
  ~imapOdd =>
    /\ \A i \in DOMAIN ia.msgsDone :
         /\ i \in DOMAIN session.msgs
         /\ \/ ia.msgsDone[i] = session.msgs[i]
            \/ iClosed /\ i = Len(ia.msgsDone) /\ ia.msgsDone[i].uid = session.msgs[i].uid
               /\ IsPrefix(ia.msgsDone[i].body, session.msgs[i].body)
    /\ ia.logins \subseteq session.logins
    /\ iClosed /\ (\A d \in ImapDirs : seen[d] = Len(session[d])) =>
         Len(ia.msgsDone) = Len(session.msgs) /\ ia.logins = session.logins
=============================================================================
