----------------------------- MODULE MCSmtpWire -----------------------------
(* SmtpWire for TLC: messages whose lines are empty, a command or a lone   *)
(* dot, within the size limit and beyond it.                                *)
EXTENDS SmtpWire

CONSTANT a

L(d, v, x) == [dots |-> d, verb |-> v, arg |-> x]

MCInput ==
  {L(0, v, NoAddr) : v \in {"STARTTLS", "DATA", "QUIT"}}
    \cup {L(0, v, a) : v \in {"EHLO", "MAIL", "RCPT"}}
MCText == {L(0, "", NoAddr), L(0, "RSET", NoAddr), L(1, "", NoAddr)}
============================================================================
