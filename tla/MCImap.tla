------------------------------- MODULE MCImap -------------------------------
(* Sessions over IMAP: logins, messages fetched in parts and appended,     *)
(* mailboxes selected, compression.                                        *)
EXTENDS Imap
Sym(x, t) == <<[t |-> t, x |-> x]>>
Eol(x) == Sym(x, "cr") \o Sym(x, "lf")
Do(x, c, v, lit) == <<[t |-> "cmd", x |-> x, tag |-> x, c |-> c, v |-> v, lit |-> lit]>> \o Eol(x)
Rsp(x, tag, st, txt) ==
  <<[t |-> "rsp", x |-> x, tag |-> tag, s |-> st, txt |-> txt, lit |-> 0, uid |-> 0, part |-> "none"]>> \o Eol(x)
Fetched(x, uid, part, lit) ==
  <<[t |-> "rsp", x |-> x, tag |-> 0, s |-> "FETCH", txt |-> "", lit |-> lit, uid |-> uid, part |-> part]>> \o Eol(x)
Rest(x, part, lit) == <<[t |-> "rest", x |-> x, part |-> part, lit |-> lit]>> \o Eol(x)
Data(x, i) == <<[t |-> "byte", x |-> x, v |-> i]>>
Hdr(x, i) == Data(x, i) \o Sym(x, "lf")
Z(x, of) == <<[t |-> "z", x |-> x, of |-> of]>>
Msg(mbx, uid, part, body, headers) == [mbx |-> mbx, uid |-> uid, part |-> part, body |-> body, headers |-> headers]

TheSessions == {
 \* headers and text of a message in one response, then the same number in another mailbox
 [client |-> Do(1, "SELECT", 8, 0) \o Do(2, "FETCH", 0, 0) \o Do(3, "SELECT", 9, 0) \o Do(4, "FETCH", 0, 0),
  server |-> Rsp(0, 0, "OK", "") \o Rsp(1, 1, "OK", "")
     \o Fetched(2, 1, "header", 4) \o Hdr(2, 1) \o Hdr(2, 2) \o Rest(2, "text", 2) \o Hdr(2, 3) \o Rest(2, "", 0)
     \o Rsp(2, 2, "OK", "") \o Rsp(3, 3, "OK", "") \o Fetched(4, 1, "text", 1) \o Data(4, 4) \o Rest(4, "", 0),
  waits |-> TRUE, logins |-> {},
  msgs |-> <<Msg(8, 1, "header", <<>>, Data(2, 1) \o Data(2, 2)), Msg(8, 1, "text", Hdr(2, 3), Data(2, 1) \o Data(2, 2)),
             Msg(9, 1, "text", Data(4, 4), <<>>)>>],
 \* some headers, then all, then all once more
 [client |-> Do(1, "SELECT", 8, 0) \o Do(2, "FETCH", 0, 0),
  server |-> Rsp(1, 1, "OK", "") \o Fetched(2, 1, "fields", 2) \o Hdr(2, 1) \o Rest(2, "header", 4) \o Hdr(2, 1) \o Hdr(2, 2)
     \o Rest(2, "header", 4) \o Hdr(2, 1) \o Hdr(2, 2) \o Rest(2, "", 0),
  waits |-> TRUE, logins |-> {},
  msgs |-> <<Msg(8, 1, "fields", <<>>, Data(2, 1)), Msg(8, 1, "header", <<>>, Data(2, 1) \o Data(2, 2)),
             Msg(8, 1, "header", <<>>, Data(2, 1) \o Data(2, 2))>>],
 \* a login that fails, one that does not, and a message that is appended
 [client |-> Do(1, "LOGIN", 0, 0) \o Do(2, "LOGIN", 0, 0) \o Do(3, "APPEND", 7, 2) \o Data(4, 1) \o Sym(4, "lf") \o Eol(4),
  server |-> Rsp(1, 1, "NO", "") \o Rsp(2, 0, "OK", "") \o Rsp(2, 2, "OK", "") \o Rsp(3, -1, "", "") \o Rsp(4, 3, "OK", ""),
  waits |-> TRUE, logins |-> {<<1, "NO">>, <<2, "OK">>}, msgs |-> <<Msg(7, 0, "full", Hdr(4, 1), <<>>)>>],
 \* compression; and when the reply to the request was not captured
 [client |-> Do(1, "COMPRESS", 0, 0) \o Z(2, Do(2, "LOGIN", 0, 0)),
  server |-> Rsp(1, 1, "OK", "") \o Z(2, Rsp(2, 2, "OK", "")),
  waits |-> TRUE, logins |-> {<<2, "OK">>}, msgs |-> <<>>],
 [client |-> Do(1, "COMPRESS", 0, 0) \o Z(2, Do(2, "LOGIN", 0, 0)), server |-> Z(2, Rsp(2, 2, "OK", "")),
  waits |-> TRUE, logins |-> {<<2, "OK">>}, msgs |-> <<>>],
 \* a message whose number is not told
 [client |-> Do(1, "SELECT", 8, 0), server |-> Fetched(1, 0, "full", 1) \o Data(1, 1) \o Rest(1, "", 0),
  waits |-> TRUE, logins |-> {}, msgs |-> <<Msg(8, 0, "full", Data(1, 1), <<>>)>>],
 \* a client that does not wait, and has more commands unanswered than the queue takes; encryption that is refused and then granted
 [client |-> Do(1, "STARTTLS", 0, 0) \o Do(2, "LOGIN", 0, 0) \o Do(3, "SELECT", 8, 0) \o Do(4, "SELECT", 9, 0)
     \o Do(5, "LOGIN", 0, 0) \o Do(6, "LOGIN", 0, 0),
  server |-> Rsp(1, 1, "NO", "") \o Rsp(2, 2, "NO", "") \o Fetched(3, 1, "full", 2) \o Hdr(3, 1),
  waits |-> FALSE, logins |-> {<<2, "NO">>}, msgs |-> <<Msg(8, 1, "full", Hdr(3, 1), <<>>)>>],
 [client |-> Do(1, "STARTTLS", 0, 0) \o Sym(2, "tls"), server |-> Rsp(0, 0, "OK", "") \o Rsp(1, 1, "OK", "begin") \o Sym(1, "tls"),
  waits |-> TRUE, logins |-> {}, msgs |-> <<>>],
 [client |-> Do(1, "COMPRESS", 0, 0) \o Sym(2, "junk") \o Eol(2), server |-> Rsp(1, 1, "OK", "active") \o Z(1, Sym(1, "junk") \o Eol(1)),
  waits |-> TRUE, logins |-> {}, msgs |-> <<>>]
}
=============================================================================
