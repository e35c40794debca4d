--------------------------- MODULE MCSmtpSession ---------------------------
(* SmtpSession for TLC: every command, with and without a usable argument,  *)
(* and body lines with no, one and two leading dots.                        *)
EXTENDS SmtpSession

L(d, v, a) == [dots |-> d, verb |-> v, arg |-> a]

MCInput ==
  {L(0, v, NoAddr) : v \in Verb}
    \cup {L(0, v, a) : v \in {"EHLO", "MAIL", "RCPT"}, a \in Addr}
    \cup {L(1, "", NoAddr), L(2, "", NoAddr)}
============================================================================
