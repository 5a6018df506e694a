---------------------------- MODULE StreamParser ----------------------------
(***************************************************************************)
(* packet_stream_parser (packet.c): what a protocol over TCP reads its     *)
(* lines and bytes from.  A parser looks at the payload of the packet in   *)
(* hand; a line that is not complete is copied to a buffer, which the next *)
(* packet is appended to.                                                  *)
(*                                                                         *)
(* A byte stream is a sequence of symbols, records with a field t: "cr"    *)
(* and "lf" are the two characters, any other symbol stands for a piece of *)
(* text that packets do not cut.                                           *)
(***************************************************************************)
EXTENDS Integers, Sequences

(* left: the bytes at sp->pload.  at: is sp->pload set?  buff: is there a  *)
(* buffer?  kept: what it holds, up to buff_pos.                           *)
NewParser == [left |-> <<>>, at |-> FALSE, buff |-> FALSE, kept |-> <<>>]

(* packet_stream_parser_add_payload: a buffer that was used up is freed.   *)
AddPayload(sp, bytes) ==
  IF sp.buff /\ sp.at
  THEN [left |-> sp.kept \o bytes, at |-> TRUE, buff |-> TRUE, kept |-> sp.kept \o bytes]
  ELSE [left |-> bytes, at |-> TRUE, buff |-> FALSE, kept |-> <<>>]

(* packet_stream_parser_get_line                                           *)
LineFeeds(sp) == {i \in DOMAIN sp.left : sp.left[i].t = "lf"}
HasLine(sp) == LineFeeds(sp) # {}
FirstLF(sp) == CHOOSE i \in LineFeeds(sp) : \A j \in LineFeeds(sp) : i <= j

LineOf(sp) ==
  LET n == FirstLF(sp)
      end == IF n > 1 /\ sp.left[n - 1].t = "cr" THEN n - 2 ELSE n - 1
  IN SubSeq(sp.left, 1, end)

AfterLine(sp) ==
  LET rest == SubSeq(sp.left, FirstLF(sp) + 1, Len(sp.left))
  IN [sp EXCEPT !.left = rest, !.at = rest # <<>>]

(* No line is left: the beginning of one is moved to the buffer.           *)
KeepBehind(sp) ==
  IF sp.left = <<>> THEN sp
  ELSE [sp EXCEPT !.buff = TRUE, !.kept = IF sp.buff THEN sp.kept ELSE sp.left]
KeepRest(sp) ==
  IF sp.left = <<>> THEN sp ELSE [sp EXCEPT !.buff = TRUE, !.kept = sp.left]

(* packet_stream_parser_skip_bytes and packet_stream_parser_empty.         *)
SkipBytes(sp, n) == [sp EXCEPT !.left = SubSeq(@, n + 1, Len(@))]
EmptyParser(sp) == [sp EXCEPT !.left = <<>>, !.at = FALSE]

(* Everything was read, but the next packet will be put behind it.         *)
WillRepeat(sp) == sp.left = <<>> /\ sp.at /\ sp.buff
=============================================================================
