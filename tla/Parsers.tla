------------------------------ MODULE Parsers ------------------------------
(***************************************************************************)
(* The parsers on the way from a RCPT TO line to a mailbox: extractAddress *)
(* of internal/smtp/handler.go and parseAddress of                         *)
(* internal/storage/message_store.go.                                      *)
(***************************************************************************)
EXTENDS Naturals, Sequences, FiniteSetsExt

\* A text is a sequence of characters.
Space == " "

\* strings.TrimSpace
TrimSpace(s) ==
  LET solid == {i \in 1..Len(s) : s[i] # Space}
  IN  IF solid = {} THEN <<>> ELSE SubSeq(s, Min(solid), Max(solid))

\* Mutant: spaces are not trimmed.
extractAddress_NoTrim(args) ==
  IF args # <<>> /\ args[1] = "<" /\ args[Len(args)] = ">"
  THEN SubSeq(args, 2, Len(args) - 1)
  ELSE args

\* What follows FROM: or TO:, without spaces and one pair of brackets; <<>> is refused.
extractAddress(args) ==
  LET rest == TrimSpace(args)
  IN  IF rest # <<>> /\ rest[1] = "<" /\ rest[Len(rest)] = ">"
      THEN SubSeq(rest, 2, Len(rest) - 1)
      ELSE rest

\* The two sides of the first "@"; <<>> if one of them is empty or missing.
parseAddress(addr) ==
  LET at == {i \in 1..Len(addr) : addr[i] = "@"}
  IN  IF at = {} \/ Min(at) \in {1, Len(addr)}
      THEN <<>>
      ELSE <<SubSeq(addr, 1, Min(at) - 1), SubSeq(addr, Min(at) + 1, Len(addr))>>

----------------------------------------------------------------------------
\* The ways to write the mailbox local@domain after TO:.
Spaces(n) == {[i \in 1..k |-> Space] : k \in 0..n}
Written(local, domain) == local \o <<"@">> \o domain
Spaced(form, n) == {before \o form \o after : before \in Spaces(n), after \in Spaces(n)}
Forms(local, domain, n) ==
  Spaced(Written(local, domain), n) \cup Spaced(<<"<">> \o Written(local, domain) \o <<">">>, n)

\* A mailbox that can be written in all these ways: neither side is empty, the first
\* "@" separates them, and nothing at the ends reads as layout.
Mailable(local, domain) ==
  /\ {local, domain} \subseteq Seq(STRING) \ {<<>>}
  /\ \A i \in 1..Len(local) : local[i] # "@"
  /\ local[1] \notin {Space, "<"}
  /\ domain[Len(domain)] # Space
============================================================================
