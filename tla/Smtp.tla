-------------------------------- MODULE Smtp --------------------------------
(***************************************************************************)
(* A SMTP connection: proto_smtp.c reads commands, replies and messages    *)
(* from the two byte streams, analyzer_smtp.c makes one event of every     *)
(* message and of every authentication.  The streams are those Stream      *)
(* hands over, cut anywhere, one packet at a time.                         *)
(*                                                                         *)
(* A side sends symbols: lines of text, or the text, the dots and the line *)
(* ends of a message.  x is the number of the exchange a symbol belongs    *)
(* to: the server answers when it has all of an exchange.  smtpOdd tells   *)
(* that a case was met that the code does not handle.                      *)
(***************************************************************************)
EXTENDS StreamParser, SequencesExt, FiniteSetsExt

CONSTANTS
  Dialogues     \* records: what the client and the server send, whether the
                \* client waits for replies, and the mails that are sent

SmtpDirs == {"client", "server"}
SmtpOther(d) == IF d = "client" THEN "server" ELSE "client"
Unknown == "unknown"

VARIABLES
  dialogue, heard,     \* one of Dialogues, and how much of it was captured
  mParser, serverDir, mFlags, endPos, dataEvt, replyCode,  \* proto_smtp_conntrack_priv
  mInHand,             \* the direction of the packet that is processed
  ma,                  \* analyzer_smtp_ce_priv, and the events it has ended
  mClosed, smtpOdd

smtpVars == <<dialogue, heard, mParser, serverDir, mFlags, endPos, dataEvt, replyCode,
              mInHand, ma, mClosed, smtpOdd>>

NoMail == [from |-> 0, to |-> <<>>, body |-> <<>>, result |-> 0]
NewMailAnalysis ==
  [msg |-> "none", mail |-> NoMail, ended |-> <<>>, last |-> "other", dots |-> 0,
   auth |-> "none", logins |-> <<>>, broken |-> FALSE]

SmtpInit ==
  /\ dialogue \in Dialogues
  /\ heard = [d \in SmtpDirs |-> 0]
  /\ mParser = [d \in SmtpDirs |-> NewParser]
  /\ serverDir = Unknown /\ mFlags = {} /\ endPos = 0 /\ dataEvt = FALSE /\ replyCode = 0
  /\ mInHand = Unknown /\ ma = NewMailAnalysis /\ mClosed = FALSE /\ smtpOdd = FALSE

Kinds(b) == [i \in DOMAIN b |-> b[i].t]
DataEnd == <<"cr", "lf", "dot", "cr", "lf">>
DotDot == <<"cr", "lf", "dot", "dot">>
StartsAt(b, pat, i) == i + Len(pat) - 1 <= Len(b) /\ SubSeq(Kinds(b), i, i + Len(pat) - 1) = pat

-----------------------------------------------------------------------------
(* analyzer_smtp_event_process_begin for a command, and                    *)
(* analyzer_smtp_event_process_end behind it, which asks the event of the  *)
(* message whether it is started.  There is none (broken: the program has  *)
(* come to its end) when the command was RSET, or when it came while a     *)
(* message was under way, whose event it has ended.                        *)
Break(a) == [a EXCEPT !.broken = TRUE]

WithMsg(a) == IF a.msg = "none" THEN [a EXCEPT !.msg = "new", !.mail = NoMail] ELSE a

EndMsg(a) ==
  IF a.msg = "begun" THEN [a EXCEPT !.msg = "none", !.ended = Append(@, a.mail)] ELSE a

EndAuth(a, ok) ==
  IF a.auth = "none" THEN Break(a)
  ELSE [a EXCEPT !.auth = "none", !.logins = IF a.auth = "begun" THEN Append(@, ok) ELSE @]

DropAuth(a) == IF a.auth = "none" THEN a ELSE EndAuth(a, FALSE)

(* AUTH PLAIN with and without credentials, LOGIN, CRAM-MD5.               *)
AuthCommand(a, kind) ==
  LET b == DropAuth(a)
      begun == [b EXCEPT !.auth = "begun"]
  IN CASE kind = "plain"  -> [b EXCEPT !.last = "plain"]
       [] kind = "plain+" -> [begun EXCEPT !.last = "creds"]
       [] kind = "login"  -> [b EXCEPT !.auth = "new", !.last = "login"]
       [] kind = "cram"   -> [begun EXCEPT !.last = "cram"]

(* A line that is no command known is the answer to a question, if there   *)
(* was one.                                                                *)
OtherCommand(a) ==
  CASE a.last = "plain" -> [a EXCEPT !.auth = "begun", !.last = "creds"]
    [] a.last = "login" -> [a EXCEPT !.auth = "begun", !.last = "user"]
    [] a.last = "user"  -> [a EXCEPT !.last = "pass"]
    [] a.last = "cram"  -> [a EXCEPT !.last = "response"]
    [] OTHER            -> [a EXCEPT !.last = "other"]

Command(a0, cmd) ==
  LET a == EndMsg(WithMsg(a0))
  IN IF a.msg = "none" THEN Break(a)
     ELSE CASE cmd.c = "MAIL" -> [a EXCEPT !.mail.from = cmd.v, !.last = "mail"]
            [] cmd.c = "RCPT" -> [a EXCEPT !.mail.to = Append(@, cmd.v), !.last = "rcpt"]
            [] cmd.c = "DATA" -> [a EXCEPT !.msg = "begun", !.last = "data"]
            [] cmd.c = "RSET" -> Break([a EXCEPT !.msg = "none", !.last = "other"])
            [] cmd.c = "HELO" -> [a EXCEPT !.last = "other"]
            [] cmd.c = "AUTH" -> AuthCommand(a, cmd.v)
            [] OTHER          -> OtherCommand(a)

(* ... and for a reply, at its first line.                                 *)
FirstReply(a0, code) ==
  LET a == WithMsg(a0)
      other == [a EXCEPT !.last = "other"]
  IN CASE a.last = "mail" /\ code # 250 -> [other EXCEPT !.mail.from = 0]
       [] a.last = "data" /\ code = 354 -> a
       [] a.last = "data" /\ code # 354 /\ a.msg = "begun" -> EndMsg([other EXCEPT !.mail.result = code])
       [] a.last \in {"plain", "login", "user", "cram"} /\ code = 334 -> a
       [] a.last \in {"plain", "login", "user", "cram"} /\ code # 334 -> EndAuth(other, FALSE)
       [] a.last \in {"creds", "pass", "response"} -> EndAuth(other, code = 235)
       [] OTHER -> other

(* analyzer_smtp_pkt_process: of two dots that begin a line one is taken   *)
(* away.  dots counts what the last packet ended with; only a "cr" at its  *)
(* end is seen, and a mismatch does not always set it back.                *)
DotsMatch(a, b) ==
  LET n == Len(DotDot) - a.dots
  IN a.dots > 0 /\ n <= Len(b) /\ SubSeq(Kinds(b), 1, n) = SubSeq(DotDot, a.dots + 1, Len(DotDot))

Matched(a, b) ==
  CHOOSE n \in 0 .. Len(DotDot) - a.dots :
    /\ n <= Len(b)
    /\ SubSeq(Kinds(b), 1, n) = SubSeq(DotDot, a.dots + 1, a.dots + n)
    /\ \A m \in n + 1 .. Len(DotDot) - a.dots :
         m > Len(b) \/ SubSeq(Kinds(b), 1, m) # SubSeq(DotDot, a.dots + 1, a.dots + m)

StuffedDots(a, b) ==
  {i + Len(DotDot) - 1 : i \in {j \in DOMAIN b : StartsAt(b, DotDot, j)}}
    \cup (IF DotsMatch(a, b) THEN {Len(DotDot) - a.dots} ELSE {})

Without(b, drop) ==
  LET keep == SelectSeq([i \in DOMAIN b |-> i], LAMBDA i : i \notin drop)
  IN [i \in DOMAIN keep |-> b[keep[i]]]

DotsAfter(a, b) ==
  IF b # <<>> /\ b[Len(b)].t = "cr" THEN 1
  ELSE IF a.dots = 0 \/ DotsMatch(a, b) THEN 0
  ELSE a.dots + Matched(a, b)

MailPayload(a, b) ==
  IF b = <<>> \/ a.msg = "new" THEN a
  ELSE IF a.msg = "none" THEN Break(a)
  ELSE [a EXCEPT !.mail.body = @ \o Without(b, StuffedDots(a, b)), !.dots = DotsAfter(a, b)]

-----------------------------------------------------------------------------
(* proto_smtp_process, one turn of its loop at a time.                     *)
MParse(sp) == mParser' = [mParser EXCEPT ![mInHand] = sp]
MLeft == mParser[mInHand].left
MLeave == mInHand' = Unknown
MIsOdd(how) == smtpOdd' = (smtpOdd \/ how)
Text == Last(LineOf(mParser[mInHand]))

(* Of an exchange the client sends all, and then the server; a client that *)
(* waits sends nothing of the next exchange before it has the reply.       *)
Heard(d, x) ==
  \A i \in DOMAIN dialogue[d] : dialogue[d][i].x <= x => i <= heard[d]

InTurn(d, x) ==
  IF d = "server" THEN Heard("client", x) ELSE dialogue.waits => Heard("server", x - 1)

SmtpPacket(d) ==
  /\ mInHand = Unknown /\ ~mClosed /\ ~ma.broken
  /\ \E k \in 1 .. Len(dialogue[d]) - heard[d] :
       LET bytes == SubSeq(dialogue[d], heard[d] + 1, heard[d] + k)
       IN /\ \A i \in DOMAIN bytes : InTurn(d, bytes[i].x)
          /\ heard' = [heard EXCEPT ![d] = @ + k]
          /\ IF "invalid" \in mFlags THEN UNCHANGED <<mParser, mInHand>>
             ELSE /\ mParser' = [mParser EXCEPT ![d] = AddPayload(@, bytes)]
                  /\ mInHand' = d
  /\ UNCHANGED <<dialogue, serverDir, mFlags, endPos, dataEvt, replyCode, ma, mClosed, smtpOdd>>

FromClient == mInHand # Unknown /\ serverDir # Unknown /\ mInHand = SmtpOther(serverDir)

(* The client speaks before the reply to its STARTTLS.                     *)
TlsUnanswered ==
  /\ FromClient /\ "starttls" \in mFlags
  /\ mFlags' = mFlags \cup {"invalid"} /\ MLeave
  /\ UNCHANGED <<dialogue, heard, mParser, serverDir, endPos, dataEvt, replyCode, ma, mClosed, smtpOdd>>

InData == FromClient /\ "starttls" \notin mFlags /\ "data" \in mFlags

(* The message ends: its payload is handed on, then proto_smtp_post_process *)
(* ends the event of the DATA command; what is behind it is lost.          *)
EndOfData(n) ==
  /\ ma' = MailPayload(ma, SubSeq(MLeft, 1, n))
  /\ mFlags' = mFlags \ {"data"} /\ dataEvt' = FALSE /\ endPos' = 0 /\ MLeave

(* The last packet ended with the beginning of the end, at endPos.         *)
Missing == Len(DataEnd) - endPos
RestMatches(n) == SubSeq(Kinds(MLeft), 1, n) = SubSeq(DataEnd, endPos + 1, endPos + n)
EndGoesOn == Len(MLeft) >= Missing /\ RestMatches(Missing)
MayGoOn == Len(MLeft) < Missing /\ RestMatches(Len(MLeft))

NotThere(n) == n # Missing
TooMuch(n) == NotThere(n) \/ (endPos >= 2 /\ n < 3)

(* Dots at the beginning of a line that the packets cut, where the         *)
(* analyzer does not see it.                                               *)
DotsCut ==
  LET at == heard["client"] - Len(MLeft)
      stream == Kinds(SubSeq(dialogue["client"], 1, heard["client"]))
  IN \/ \E i \in 1 .. at : /\ i + 3 > at /\ i + 3 <= Len(stream) /\ i # at
                          /\ SubSeq(stream, i, i + 3) = DotDot
     \/ ma.dots > 0 /\ Len(MLeft) < Len(DotDot) - ma.dots
     \/ ma.dots > 1 /\ DotsMatch(ma, MLeft)

EndInTwo ==
  /\ InData /\ endPos > 0 /\ EndGoesOn /\ ~TooMuch(Len(MLeft))
  /\ EndOfData(Len(MLeft) - Len(DataEnd) + 2) /\ MIsOdd(DotsCut \/ ma'.broken)
  /\ UNCHANGED <<dialogue, heard, mParser, serverDir, replyCode, mClosed>>

(* Not where the code can handle it; or the code has read what is behind   *)
(* the packet, and found what it was looking for.                          *)
EndMisplaced ==
  /\ InData /\ endPos > 0
  /\ (EndGoesOn /\ TooMuch(Len(MLeft))) \/ MayGoOn
  /\ mFlags' = mFlags \cup {"invalid"} /\ dataEvt' = FALSE /\ MLeave /\ MIsOdd(TRUE)
  /\ UNCHANGED <<dialogue, heard, mParser, serverDir, endPos, replyCode, ma, mClosed>>

(* Otherwise the packet is looked at for itself.                           *)
Ending(b) == {i \in DOMAIN b : StartsAt(b, DataEnd, i)}
Afresh == InData /\ (endPos > 0 => ~EndGoesOn)
LostEnd == endPos > 0 /\ MayGoOn

EndInOne ==
  /\ Afresh /\ Ending(MLeft) # {}
  /\ LET i == CHOOSE i \in Ending(MLeft) : \A j \in Ending(MLeft) : i <= j
     IN /\ EndOfData(i + 1)
        /\ MParse(AddPayload(mParser[mInHand], SubSeq(MLeft, i + 2, Len(MLeft))))
        /\ MIsOdd(Len(MLeft) > i + 4 \/ LostEnd \/ DotsCut \/ ma'.broken)
  /\ UNCHANGED <<dialogue, heard, serverDir, replyCode, mClosed>>

PartialEnds(b) ==
  {i \in 1 .. Len(DataEnd) - 1 :
     i <= Len(b) /\ SubSeq(Kinds(b), Len(b) - i + 1, Len(b)) = SubSeq(DataEnd, 1, i)}

ShortestEnd(b) == IF PartialEnds(b) = {} THEN 0 ELSE Min(PartialEnds(b))
LongestEnd(b) == Max({0} \cup PartialEnds(b))

MoreData ==
  /\ Afresh /\ Ending(MLeft) = {}
  /\ endPos' = ShortestEnd(MLeft)
  /\ ma' = MailPayload(ma, MLeft) /\ MLeave
  /\ MIsOdd(ShortestEnd(MLeft) # LongestEnd(MLeft) \/ LostEnd \/ DotsCut \/ ma'.broken)
  /\ UNCHANGED <<dialogue, heard, mParser, serverDir, mFlags, dataEvt, replyCode, mClosed>>

-----------------------------------------------------------------------------
(* A line, of a command or of a reply.                                     *)
InLines == mInHand # Unknown /\ ~(FromClient /\ mFlags \cap {"starttls", "data"} # {})

NoMoreLine ==
  /\ InLines /\ ~HasLine(mParser[mInHand])
  /\ MParse(KeepRest(mParser[mInHand])) /\ MLeave
  /\ UNCHANGED <<dialogue, heard, serverDir, mFlags, endPos, dataEvt, replyCode, ma, mClosed, smtpOdd>>

LineInHand == InLines /\ HasLine(mParser[mInHand])
Speaker == IF serverDir # Unknown THEN serverDir
           ELSE IF Text.t = "code" THEN mInHand ELSE SmtpOther(mInHand)

(* An empty line: the code leaves the rest of the packet.                  *)
EmptyLine ==
  /\ LineInHand /\ LineOf(mParser[mInHand]) = <<>>
  /\ MParse(AfterLine(mParser[mInHand])) /\ MLeave /\ MIsOdd(TRUE)
  /\ UNCHANGED <<dialogue, heard, serverDir, mFlags, endPos, dataEvt, replyCode, ma, mClosed>>

ALine(from) ==
  /\ LineInHand /\ LineOf(mParser[mInHand]) # <<>>
  /\ serverDir' = Speaker
  /\ (from = "server") = (mInHand = Speaker)
  /\ MParse(AfterLine(mParser[mInHand]))

(* A line of a reply; the analyzer looks at the first.  A reply whose code *)
(* changes is a new one.                                                   *)
IsFirst == replyCode # Text.v

ReplyLine ==
  /\ ALine("server") /\ Text.t = "code"
  /\ ma' = IF IsFirst THEN FirstReply(ma, Text.v) ELSE ma
  /\ replyCode' = IF Text.more THEN Text.v ELSE 0
  /\ IF "starttls" \in mFlags /\ Text.v = 220
     THEN mFlags' = (mFlags \ {"starttls"}) \cup {"invalid"} /\ MLeave
     ELSE mFlags' = mFlags \ {"starttls"} /\ UNCHANGED mInHand
  /\ MIsOdd(ma'.broken)
  /\ UNCHANGED <<dialogue, heard, endPos, dataEvt, mClosed>>

(* A command.  The event of DATA lasts to the end of the message.  The     *)
(* code leaves the rest of the packet; of a client that does not wait for  *)
(* the reply to its last command, it forgets that.                         *)
CommandLine ==
  /\ ALine("client") /\ Text.t = "cmd"
  /\ ma' = Command(ma, Text)
  /\ mFlags' = CASE Text.c = "DATA"     -> mFlags \cup {"data"}
                 [] Text.c = "STARTTLS" -> mFlags \cup {"starttls"}
                 [] OTHER               -> mFlags
  /\ dataEvt' = (dataEvt \/ Text.c = "DATA")
  /\ MLeave
  /\ MIsOdd(AfterLine(mParser[mInHand]).left # <<>> \/ ma'.broken \/ ~Heard("server", Text.x - 1))
  /\ UNCHANGED <<dialogue, heard, endPos, replyCode, mClosed>>

NotSmtp ==
  /\ \/ ALine("server") /\ Text.t # "code"
     \/ ALine("client") /\ Text.t # "cmd"
  /\ mFlags' = mFlags \cup {"invalid"} /\ MLeave
  /\ UNCHANGED <<dialogue, heard, endPos, dataEvt, replyCode, ma, mClosed, smtpOdd>>

(* analyzer_smtp_ce_priv_cleanup                                           *)
SmtpClose ==
  /\ mInHand = Unknown /\ ~mClosed
  /\ mClosed' = TRUE /\ dataEvt' = FALSE /\ replyCode' = 0
  /\ ma' = DropAuth([EndMsg(ma) EXCEPT !.msg = "none"])
  /\ UNCHANGED <<dialogue, heard, mParser, serverDir, mFlags, endPos, mInHand, smtpOdd>>

SmtpNext ==
  \/ \E d \in SmtpDirs : SmtpPacket(d)
  \/ TlsUnanswered \/ EndInTwo \/ EndMisplaced \/ EndInOne \/ MoreData
  \/ NoMoreLine \/ EmptyLine \/ ReplyLine \/ CommandLine \/ NotSmtp
  \/ SmtpClose

SmtpSpec == SmtpInit /\ [][SmtpNext]_smtpVars

-----------------------------------------------------------------------------
(* However the packets cut the connection, every message has one event,    *)
(* with its own sender, recipients, text and result, and none has a part   *)
(* of another or of a command: the end of a message is where the client    *)
(* has put it, of the dots that begin a line one is taken away, and a      *)
(* sender that was refused does not show up in the next transaction; a     *)
(* login has succeeded if the server said so.  What may be the beginning   *)
(* of the end is in the text until more is known.                          *)
Settled(body) == SubSeq(body, 1, Len(body) - Max({0, endPos - 2}))

Agrees(mail, i) ==
  /\ i \in DOMAIN dialogue.mails
  /\ mail.from = dialogue.mails[i].from /\ mail.to = dialogue.mails[i].to
  /\ IF mail.result # 0 THEN mail = dialogue.mails[i]
     ELSE IsPrefix(Settled(mail.body), dialogue.mails[i].body)

MailsWhole ==
  ~smtpOdd =>
    /\ \A i \in DOMAIN ma.ended :
         Agrees(ma.ended[i], i) /\ (ma.ended[i].result = 0 => mClosed /\ i = Len(ma.ended))
    /\ ma.msg = "begun" => Agrees(ma.mail, Len(ma.ended) + 1)
    /\ IsPrefix(SelectSeq(ma.logins, LAMBDA ok : ok), SelectSeq(dialogue.logins, LAMBDA ok : ok))
    /\ mClosed /\ (\A d \in SmtpDirs : heard[d] = Len(dialogue[d])) =>
         ma.ended = dialogue.mails /\ ma.logins = dialogue.logins
=============================================================================
