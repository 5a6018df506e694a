------------------------------- MODULE MCSmtp -------------------------------
(* Dialogues over SMTP: messages accepted and refused, dots at the         *)
(* beginning of lines, authentications.                                    *)
EXTENDS Smtp
Nl(x) == <<[t |-> "cr", x |-> x], [t |-> "lf", x |-> x]>>
Cmd(x, c, v) == <<[t |-> "cmd", x |-> x, c |-> c, v |-> v]>> \o Nl(x)
More(x, v) == <<[t |-> "code", x |-> x, v |-> v, more |-> TRUE]>> \o Nl(x)
Say(x, v) == <<[t |-> "code", x |-> x, v |-> v, more |-> FALSE]>> \o Nl(x)
Txt(x) == <<[t |-> "txt", x |-> x]>>
Dot(x) == <<[t |-> "dot", x |-> x]>>
Mail(from, to, body, result) == [from |-> from, to |-> to, body |-> body, result |-> result]

TheDialogues == {
 \* a sender is refused, then a text with a dot is accepted, and an empty one refused
 [client |-> Cmd(1, "MAIL", 1) \o Cmd(2, "MAIL", 2) \o Cmd(3, "RCPT", 5) \o Cmd(4, "DATA", 0)
     \o Txt(5) \o Nl(5) \o Dot(5) \o Dot(5) \o Nl(5) \o Dot(5) \o Nl(5)
     \o Cmd(6, "MAIL", 3) \o Cmd(7, "RCPT", 6) \o Cmd(8, "DATA", 0) \o Nl(9) \o Dot(9) \o Nl(9),
  server |-> Say(1, 550) \o More(2, 250) \o Say(2, 250) \o Say(3, 250) \o Say(4, 354)
     \o Say(5, 250) \o Say(6, 250) \o Say(7, 250) \o Say(8, 354) \o Say(9, 550),
  waits |-> TRUE, logins |-> <<>>,
  mails |-> <<Mail(2, <<5>>, Txt(5) \o Nl(5) \o Dot(5) \o Nl(5), 250), Mail(3, <<6>>, Nl(9), 550)>>],
 \* three ways to log in
 [client |-> Cmd(1, "AUTH", "plain") \o Cmd(2, "b64", 0) \o Cmd(3, "AUTH", "plain+")
     \o Cmd(4, "AUTH", "login") \o Cmd(5, "b64", 0) \o Cmd(6, "b64", 0)
     \o Cmd(7, "AUTH", "login") \o Cmd(8, "AUTH", "cram") \o Cmd(9, "b64", 0) \o Cmd(10, "AUTH", "plain"),
  server |-> Say(0, 220) \o Say(1, 334) \o Say(2, 535) \o Say(3, 235) \o Say(4, 334) \o Say(5, 334) \o Say(6, 235)
     \o Say(7, 504) \o Say(8, 334) \o Say(9, 535) \o Say(10, 504),
  waits |-> TRUE, logins |-> <<FALSE, TRUE, TRUE, FALSE>>, mails |-> <<>>],
 \* encryption, with and without waiting for the server
 [client |-> Cmd(1, "STARTTLS", 0) \o <<[t |-> "tls", x |-> 2]>>, server |-> Say(0, 220) \o Say(1, 220),
  waits |-> FALSE, logins |-> <<>>, mails |-> <<>>],
 \* a text that is refused; RSET; an empty line; lines that are not SMTP
 [client |-> Cmd(1, "MAIL", 1) \o Cmd(2, "DATA", 0) \o Txt(3), server |-> Say(1, 250) \o Say(2, 503),
  waits |-> TRUE, logins |-> <<>>, mails |-> <<Mail(1, <<>>, <<>>, 503)>>],
 [client |-> Cmd(1, "HELO", 0) \o Cmd(2, "RSET", 0) \o Cmd(3, "RCPT", 5), server |-> More(1, 250) \o Say(1, 251),
  waits |-> FALSE, logins |-> <<>>, mails |-> <<>>],
 [client |-> Nl(1) \o Txt(1) \o Nl(1), server |-> Txt(1) \o Nl(1),
  waits |-> TRUE, logins |-> <<>>, mails |-> <<>>]
}
=============================================================================
