------------------------- MODULE SmtpSessionProofs --------------------------
(***************************************************************************)
(* Proofs about SmtpSession, for every set of addresses, every recipient   *)
(* and size limit and every sequence of lines.                             *)
(***************************************************************************)
EXTENDS SmtpSession, TLAPS

\* The obligations carry many definitions: more time for SMT, a second try, then Zenon.
USE SMTT(30), SMTT(60), ZenonT(60)

\* s ends with t.
EndsWith(s, t) ==
  /\ Len(t) <= Len(s)
  /\ \A i \in 1..Len(t) : t[i] = s[Len(s) - Len(t) + i]

\* handleDATA runs in state data only, and a session that has quit is closed.
PlaceInv ==
  /\ pc \in {"data", "deliver"} => fsm = "data"
  /\ fsm = "quit" => pc = "closed"

\* In a transaction the envelope has the acknowledged sender, and its recipients
\* end with the acknowledged ones; past RCPT there is at least one.
EnvelopeInv ==
  /\ fsm \in {"mail_from", "rcpt_to", "data"} =>
       /\ envelope.From # NoAddr /\ envelope.From = tx.from
       /\ EndsWith(envelope.To, tx.to)
  /\ fsm \in {"rcpt_to", "data"} => envelope.To # <<>>

\* The envelope holds nothing from before the present channel.
ChannelInv ==
  /\ envelope.From \in given \cup {NoAddr}
  /\ \A i \in 1..Len(envelope.To) : envelope.To[i] \in given

\* The event given to Deliver is the envelope's.
EventInv ==
  pc = "deliver" => event.From = envelope.From /\ event.To = envelope.To

\* The inductive invariant.
IInv == TypeOK /\ PlaceInv /\ EnvelopeInv /\ ChannelInv /\ EventInv /\ ReadyForNext

----------------------------------------------------------------------------
\* The rows of newSMTPFSM, as FsmAccepts reads them.
LEMMA FsmTable ==
  /\ FsmAccepts("ehlo") <=> fsm = "init"
  /\ FsmAccepts("mail_from") <=> fsm = "greeted"
  /\ FsmAccepts("rcpt_to") <=> fsm = "mail_from"
  /\ FsmAccepts("data") <=> fsm = "rcpt_to"
  /\ FsmAccepts("done") <=> fsm = "data"
  /\ FsmAccepts("rset") <=> fsm \in {"mail_from", "rcpt_to", "data"}
  /\ FsmAccepts("quit") <=> fsm \in {"init", "greeted", "mail_from", "rcpt_to", "data"}
  /\ newSMTPFSM["ehlo"].dst = "greeted" /\ newSMTPFSM["mail_from"].dst = "mail_from"
  /\ newSMTPFSM["rcpt_to"].dst = "rcpt_to" /\ newSMTPFSM["data"].dst = "data"
  /\ newSMTPFSM["done"].dst = "greeted" /\ newSMTPFSM["rset"].dst = "greeted"
  BY DEF FsmAccepts, newSMTPFSM

\* What Append adds, and where.
LEMMA AppendFacts ==
  ASSUME NEW S, NEW s \in Seq(S), NEW x \in S
  PROVE  /\ Append(s, x) \in Seq(S)
         /\ Append(s, x) # <<>>
         /\ Len(Append(s, x)) = Len(s) + 1
         /\ \A i \in 1..(Len(s) + 1) :
              Append(s, x)[i] = IF i = Len(s) + 1 THEN x ELSE s[i]
<1>1. Append(s, x) \in Seq(S) /\ Len(Append(s, x)) = Len(s) + 1 /\ Len(s) \in Nat
  OBVIOUS
<1>2. Append(s, x) # <<>>
  BY <1>1
<1>3. ASSUME NEW i \in 1..(Len(s) + 1)
      PROVE  Append(s, x)[i] = IF i = Len(s) + 1 THEN x ELSE s[i]
  BY <1>1
<1> QED  BY <1>1, <1>2, <1>3

\* Every sequence ends with the empty one: MAIL starts with no acknowledged recipient.
LEMMA EndsWithEmpty ==
  ASSUME NEW S, NEW s \in Seq(S)
  PROVE  EndsWith(s, <<>>)
  BY DEF EndsWith

\* RCPT appends the same address to both lists.
LEMMA EndsWithAppend ==
  ASSUME NEW S, NEW s \in Seq(S), NEW t \in Seq(S), NEW x \in S, EndsWith(s, t)
  PROVE  EndsWith(Append(s, x), Append(t, x))
<1>1. /\ Len(s) \in Nat /\ Len(t) \in Nat
      /\ Len(Append(s, x)) = Len(s) + 1 /\ Len(Append(t, x)) = Len(t) + 1
  OBVIOUS
<1>2. ASSUME NEW i \in 1..(Len(t) + 1)
      PROVE  Append(t, x)[i] = Append(s, x)[Len(s) - Len(t) + i]
  <2>1. CASE i = Len(t) + 1
    BY <1>1, <2>1 DEF EndsWith
  <2>2. CASE i \in 1..Len(t)
    BY <1>1, <2>2 DEF EndsWith
  <2>3. i = Len(t) + 1 \/ i \in 1..Len(t)
    BY <1>1
  <2> QED  BY <2>1, <2>2, <2>3, Zenon
<1>3. Len(t) + 1 <= Len(s) + 1
  BY <1>1 DEF EndsWith
<1>4. \A i \in 1..(Len(t) + 1) : (Len(s) + 1) - (Len(t) + 1) + i = Len(s) - Len(t) + i
  BY <1>1
<1>5. \A i \in 1..(Len(t) + 1) :
        Append(t, x)[i] = Append(s, x)[(Len(s) + 1) - (Len(t) + 1) + i]
  BY <1>2, <1>4, Zenon
<1> QED  BY <1>1, <1>3, <1>5, Zenon DEF EndsWith

----------------------------------------------------------------------------
\* A handler that only answers keeps the invariant, if its answer promises no more
\* than the FSM can do.
LEMMA RefuseInv ==
  ASSUME IInv, NEW cmd \in Verb, NEW c \in Code, Refuse(cmd, c),
         c \notin {"accepted", "552"},
         cmd = "RSET" => fsm = "init" \/ fsm = "greeted"
  PROVE  IInv'
<1> USE DEF Refuse, write
<1>1. TypeOK'
  BY DEF IInv, TypeOK, Envelope
<1>2. PlaceInv' /\ EnvelopeInv' /\ ChannelInv' /\ EventInv'
  BY Zenon DEF IInv, PlaceInv, EnvelopeInv, ChannelInv, EventInv, EndsWith
<1>3. ReadyForNext'
  BY FsmTable DEF IInv, ReadyForNext, FsmAccepts
<1> QED  BY <1>1, <1>2, <1>3 DEF IInv

\* What Reset leaves in the envelope.
LEMMA ResetType ==
  /\ Reset \in Envelope /\ Reset.From = NoAddr /\ Reset.To = <<>>
  /\ Len(Reset.To) <= MaxRcpt /\ DOMAIN Reset.To = {}
<1>1. <<>> \in Seq(Addr) /\ <<>> \in Seq(Line) /\ Len(<<>>) = 0
  OBVIOUS
<1> QED  BY <1>1, LimitAssumption DEF Reset, Envelope

\* EHLO empties the envelope and enters greeted.
LEMMA handleEHLOInv ==
  ASSUME IInv, pc = "loop", NEW arg, handleEHLO(arg)
  PROVE  IInv'
<1>1. CASE \E c \in {"501", "503"} : Refuse("EHLO", c)
  BY <1>1, RefuseInv, Zenon DEF Verb, Code
<1>2. CASE /\ transition("ehlo") /\ envelope' = Reset /\ write("EHLO", "250")
           /\ UNCHANGED <<tls, pc, body, event, tx, given>>
  <2>1. fsm' = "greeted"
    BY <1>2, FsmTable DEF transition
  <2>2. TypeOK'
    BY <1>2, <2>1, ResetType, Zenon DEF IInv, TypeOK, State, Verb, Code, write
  <2>3. PlaceInv' /\ EnvelopeInv' /\ ChannelInv' /\ EventInv' /\ ReadyForNext'
    BY <1>2, <2>1 DEF PlaceInv, EnvelopeInv, ChannelInv, EventInv, ReadyForNext, Reset, write
  <2> QED  BY <2>2, <2>3 DEF IInv
<1> QED  BY <1>1, <1>2 DEF handleEHLO, BadSequence

\* MAIL starts the acknowledged transaction and leaves older recipients in place.
LEMMA handleMAILInv ==
  ASSUME IInv, pc = "loop", NEW addr \in Addr \cup {NoAddr}, handleMAIL(addr)
  PROVE  IInv'
<1>1. CASE \E c \in {"501", "503"} : Refuse("MAIL", c)
  BY <1>1, RefuseInv, Zenon DEF Verb, Code
<1>2. CASE /\ addr # NoAddr /\ transition("mail_from")
           /\ envelope' = [envelope EXCEPT !.From = addr] /\ write("MAIL", "250")
           /\ tx' = [from |-> addr, to |-> <<>>] /\ given' = given \cup {addr}
           /\ UNCHANGED <<tls, pc, body, event>>
  <2>1. fsm' = "mail_from"
    BY <1>2, FsmTable DEF transition
  <2>2. /\ envelope' \in Envelope
        /\ envelope'.From = addr /\ envelope'.To = envelope.To /\ envelope.To \in Seq(Addr)
    BY <1>2, Zenon DEF IInv, TypeOK, Envelope
  <2>3. tx' \in [from: Addr \cup {NoAddr}, to: Seq(Addr)] /\ tx'.from = addr /\ tx'.to = <<>>
    BY <1>2
  <2>4. TypeOK'
    BY <1>2, <2>1, <2>2, <2>3, Zenon DEF IInv, TypeOK, State, Verb, Code, write
  <2>5. EnvelopeInv'
    BY <1>2, <2>1, <2>2, <2>3, EndsWithEmpty DEF EnvelopeInv
  <2>6. ChannelInv'
    BY <1>2, <2>2 DEF IInv, ChannelInv
  <2>7. PlaceInv' /\ EventInv' /\ ReadyForNext'
    BY <1>2, <2>1 DEF PlaceInv, EventInv, ReadyForNext, write
  <2> QED  BY <2>4, <2>5, <2>6, <2>7 DEF IInv
<1> QED  BY <1>1, <1>2 DEF handleMAIL, BadSequence

\* RCPT extends the envelope and the acknowledged list alike.
LEMMA handleRCPTInv ==
  ASSUME IInv, pc = "loop", NEW addr \in Addr \cup {NoAddr}, handleRCPT(addr)
  PROVE  IInv'
<1>1. CASE \E c \in {"501", "452", "503"} : Refuse("RCPT", c)
  BY <1>1, RefuseInv, Zenon DEF Verb, Code
<1>2. CASE /\ addr # NoAddr /\ ~TooManyRecipients /\ transitionRcptTo
           /\ envelope' = AddRecipient(addr) /\ write("RCPT", "250")
           /\ tx' = [tx EXCEPT !.to = Append(@, addr)] /\ given' = given \cup {addr}
           /\ UNCHANGED <<tls, pc, body, event>>
  <2>1. fsm \in {"mail_from", "rcpt_to"} /\ fsm' = "rcpt_to"
    BY <1>2, FsmTable DEF transition, transitionRcptTo
  <2>2. addr \in Addr /\ envelope.To \in Seq(Addr) /\ tx.to \in Seq(Addr)
    BY <1>2 DEF IInv, TypeOK, Envelope
  <2>3. /\ Append(envelope.To, addr) \in Seq(Addr) /\ Append(tx.to, addr) \in Seq(Addr)
        /\ Append(envelope.To, addr) # <<>>
        /\ Len(Append(envelope.To, addr)) = Len(envelope.To) + 1
        /\ \A i \in 1..(Len(envelope.To) + 1) :
             Append(envelope.To, addr)[i] = IF i = Len(envelope.To) + 1 THEN addr
                                            ELSE envelope.To[i]
    BY <2>2, AppendFacts
  <2>4. /\ envelope' \in Envelope
        /\ envelope'.From = envelope.From /\ envelope'.To = Append(envelope.To, addr)
    BY <1>2, <2>3, Zenon DEF IInv, TypeOK, Envelope, AddRecipient
  <2>5. /\ tx' \in [from: Addr \cup {NoAddr}, to: Seq(Addr)]
        /\ tx'.from = tx.from /\ tx'.to = Append(tx.to, addr)
    BY <1>2, <2>3, Zenon DEF IInv, TypeOK
  <2>6. Len(envelope'.To) <= MaxRcpt
    BY <1>2, <2>2, <2>3, <2>4, LimitAssumption DEF TooManyRecipients
  <2>7. TypeOK'
    BY <1>2, <2>1, <2>2, <2>4, <2>5, <2>6, Zenon DEF IInv, TypeOK, State, Verb, Code, write
  <2>8. EnvelopeInv'
    <3>1. EndsWith(envelope'.To, tx'.to)
      BY <2>1, <2>2, <2>4, <2>5, EndsWithAppend DEF IInv, EnvelopeInv
    <3> QED  BY <2>1, <2>3, <2>4, <2>5, <3>1 DEF IInv, EnvelopeInv
  <2>9. ChannelInv'
    <3>1. ASSUME NEW i \in 1..Len(envelope'.To) PROVE envelope'.To[i] \in given'
      <4>1. i = Len(envelope.To) + 1 \/ i \in 1..Len(envelope.To)
        BY <2>2, <2>3, <2>4
      <4>2. envelope'.To[i] = IF i = Len(envelope.To) + 1 THEN addr ELSE envelope.To[i]
        BY <2>3, <2>4
      <4> QED  BY <1>2, <4>1, <4>2 DEF IInv, ChannelInv
    <3> QED  BY <1>2, <2>4, <3>1 DEF IInv, ChannelInv
  <2>10. PlaceInv' /\ EventInv' /\ ReadyForNext'
    BY <1>2, <2>1 DEF PlaceInv, EventInv, ReadyForNext, write
  <2> QED  BY <2>7, <2>8, <2>9, <2>10 DEF IInv
<1> QED  BY <1>1, <1>2 DEF handleRCPT, BadSequence

\* RSET is refused in init and greeted only; elsewhere it returns to greeted.
LEMMA handleRSETInv ==
  ASSUME IInv, pc = "loop", handleRSET
  PROVE  IInv'
<1>1. CASE BadSequence("RSET", "rset")
  <2>1. fsm = "init" \/ fsm = "greeted"
    BY <1>1, FsmTable DEF BadSequence, IInv, TypeOK, State, PlaceInv
  <2> QED  BY <1>1, <2>1, RefuseInv, Zenon DEF BadSequence, Verb, Code
<1>2. CASE /\ transition("rset") /\ envelope' = Reset /\ write("RSET", "250")
           /\ UNCHANGED <<tls, pc, body, event, tx, given>>
  <2>1. fsm' = "greeted"
    BY <1>2, FsmTable DEF transition
  <2>2. TypeOK'
    BY <1>2, <2>1, ResetType, Zenon DEF IInv, TypeOK, State, Verb, Code, write
  <2>3. ReadyForNext'
    BY <2>1 DEF ReadyForNext, FsmAccepts, newSMTPFSM
  <2>4. PlaceInv' /\ EnvelopeInv' /\ ChannelInv' /\ EventInv'
    BY <1>2, <2>1 DEF PlaceInv, EnvelopeInv, ChannelInv, EventInv, Reset
  <2> QED  BY <2>2, <2>3, <2>4 DEF IInv
<1> QED  BY <1>1, <1>2 DEF handleRSET

\* QUIT closes the session.
LEMMA handleQUITInv ==
  ASSUME IInv, pc = "loop", handleQUIT
  PROVE  IInv'
<1>1. fsm' = "quit"
  BY FsmTable DEF handleQUIT, IInv, TypeOK, State, PlaceInv
<1>2. TypeOK'
  BY <1>1, Zenon DEF handleQUIT, IInv, TypeOK, State, Verb, Code, write
<1>3. PlaceInv' /\ EnvelopeInv' /\ ChannelInv' /\ EventInv' /\ ReadyForNext'
  BY <1>1 DEF handleQUIT, write, IInv, PlaceInv, EnvelopeInv, ChannelInv, EventInv, ReadyForNext
<1> QED  BY <1>2, <1>3 DEF IInv

\* STARTTLS only answers, or moves on to the handshake.
LEMMA handleSTARTTLSInv ==
  ASSUME IInv, pc = "loop", handleSTARTTLS
  PROVE  IInv'
<1>1. CASE \E c \in {"503", "454"} : Refuse("STARTTLS", c)
  BY <1>1, RefuseInv, Zenon DEF Verb, Code
<1>2. CASE /\ pc' = "starttls" /\ write("STARTTLS", "220")
           /\ UNCHANGED <<fsm, envelope, tls, body, event, tx, given>>
  <2>1. TypeOK'
    BY <1>2, Zenon DEF IInv, TypeOK, Verb, Code, write
  <2>2. PlaceInv' /\ EnvelopeInv' /\ ChannelInv' /\ EventInv' /\ ReadyForNext'
    BY <1>2, Zenon DEF write, IInv, PlaceInv, EnvelopeInv, ChannelInv, EventInv, ReadyForNext, EndsWith
  <2> QED  BY <2>1, <2>2 DEF IInv
<1> QED  BY <1>1, <1>2 DEF handleSTARTTLS

\* A completed handshake empties the envelope together with what was acknowledged.
LEMMA StartTLSDoneInv ==
  ASSUME IInv, StartTLSDone
  PROVE  IInv'
<1>1. TypeOK'
  BY ResetType, Zenon DEF StartTLSDone, IInv, TypeOK, State, Verb, Code, write
<1>2. ChannelInv'
  <2>1. envelope'.From = NoAddr /\ Len(envelope'.To) = 0
    BY Zenon DEF StartTLSDone, Reset
  <2> QED  BY <2>1 DEF ChannelInv
<1>3. PlaceInv' /\ EnvelopeInv' /\ EventInv' /\ ReadyForNext'
  BY Zenon DEF StartTLSDone, write, PlaceInv, EnvelopeInv, EventInv, ReadyForNext
<1> QED  BY <1>1, <1>2, <1>3 DEF IInv

\* A failed handshake, a failed read and a failed delivery return to the read loop,
\* and end of file closes the session, with FSM and envelope as they were.
LEMMA ReturnInv ==
  ASSUME IInv, StartTLSFailed \/ DataReadError \/ DeliverError \/ ReadError
  PROVE  IInv'
<1>1. /\ pc' \in {"loop", "closed"} /\ (pc' = "loop" => fsm # "quit")
      /\ body' \in Seq(Line) /\ Len(body') <= MaxSize
      /\ event' \in [From: Addr \cup {NoAddr}, To: Seq(Addr), Body: Seq(Line)]
      /\ reply' \in [cmd: Verb, code: Code]
      /\ reply'.code \notin {"accepted", "552"} /\ reply'.cmd # "RSET"
      /\ UNCHANGED <<fsm, envelope, tls, tx, given>>
  <2>1. <<>> \in Seq(Addr) /\ <<>> \in Seq(Line) /\ Len(<<>>) <= MaxSize
    BY LimitAssumption
  <2>2. NoEvent \in [From: Addr \cup {NoAddr}, To: Seq(Addr), Body: Seq(Line)]
    BY <2>1 DEF NoEvent
  <2>3. CASE StartTLSFailed
    BY <2>3, Zenon DEF StartTLSFailed, write, IInv, TypeOK, PlaceInv, Verb, Code
  <2>4. CASE DataReadError
    BY <2>1, <2>4, Zenon DEF DataReadError, write, IInv, TypeOK, PlaceInv, Verb, Code
  <2>5. CASE DeliverError
    BY <2>2, <2>5, Zenon DEF DeliverError, write, IInv, TypeOK, PlaceInv, Verb, Code
  <2>6. CASE ReadError
    BY <2>6, ZenonT(60) DEF ReadError, write, IInv, TypeOK, PlaceInv, Verb, Code
  <2> QED  BY <2>3, <2>4, <2>5, <2>6
<1>2. TypeOK'
  BY <1>1 DEF IInv, TypeOK
<1>3. PlaceInv' /\ EnvelopeInv' /\ ChannelInv' /\ EventInv' /\ ReadyForNext'
  BY <1>1, Zenon DEF IInv, PlaceInv, EnvelopeInv, ChannelInv, EventInv, ReadyForNext, EndsWith
<1> QED  BY <1>2, <1>3 DEF IInv

\* DATA is taken in rcpt_to only, where the envelope has a recipient.
LEMMA handleDATAInv ==
  ASSUME IInv, pc = "loop", handleDATA
  PROVE  IInv'
<1>1. CASE BadSequence("DATA", "data")
  BY <1>1, RefuseInv DEF BadSequence, Verb, Code
<1>2. CASE /\ transition("data") /\ pc' = "data" /\ body' = <<>> /\ write("DATA", "354")
           /\ UNCHANGED <<envelope, tls, event, tx, given>>
  <2>1. fsm = "rcpt_to" /\ fsm' = "data"
    BY <1>2, FsmTable DEF transition
  <2>2. body' \in Seq(Line) /\ Len(body') <= MaxSize
    BY <1>2, LimitAssumption
  <2>3. TypeOK'
    BY <1>2, <2>1, <2>2, Zenon DEF IInv, TypeOK, State, Verb, Code, write
  <2>4. EnvelopeInv'
    BY <1>2, <2>1, Zenon DEF IInv, EnvelopeInv, EndsWith
  <2>5. PlaceInv' /\ ChannelInv' /\ EventInv' /\ ReadyForNext'
    BY <1>2, <2>1 DEF write, IInv, PlaceInv, ChannelInv, EventInv, ReadyForNext
  <2> QED  BY <2>3, <2>4, <2>5 DEF IInv
<1> QED  BY <1>1, <1>2 DEF handleDATA

\* A body line grows the body within the limit.
LEMMA DataLineInv ==
  ASSUME IInv, NEW l \in Line, DataLine(l)
  PROVE  IInv'
<1>1. Unstuff(l) \in Line
  BY DEF Unstuff, Line
<1>2. body' \in Seq(Line) /\ Len(body') <= MaxSize
  BY <1>1, AppendFacts, Zenon DEF DataLine, IInv, TypeOK
<1>3. TypeOK'
  BY <1>2, Zenon DEF DataLine, IInv, TypeOK, Verb, Code, write
<1>4. PlaceInv' /\ EnvelopeInv' /\ ChannelInv' /\ EventInv' /\ ReadyForNext'
  BY Zenon DEF DataLine, write, IInv, PlaceInv, EnvelopeInv, ChannelInv, EventInv, ReadyForNext, EndsWith
<1> QED  BY <1>3, <1>4 DEF IInv

\* A body over the limit empties the envelope and leaves state data.
LEMMA DataTooBigInv ==
  ASSUME IInv, NEW l \in Line, DataTooBig(l)
  PROVE  IInv'
<1>1. fsm' = "greeted"
  BY FsmTable DEF DataTooBig, transition
<1>2. body' \in Seq(Line) /\ Len(body') <= MaxSize
  BY LimitAssumption DEF DataTooBig
<1>3. TypeOK'
  BY <1>1, <1>2, ResetType, Zenon DEF DataTooBig, IInv, TypeOK, State, Verb, Code, write
<1>4. ReadyForNext'
  BY <1>1 DEF ReadyForNext, FsmAccepts, newSMTPFSM
<1>5. ChannelInv'
  <2>1. envelope'.From = NoAddr /\ Len(envelope'.To) = 0
    BY DEF DataTooBig, Reset
  <2> QED  BY <2>1 DEF ChannelInv
<1>6. PlaceInv' /\ EnvelopeInv' /\ EventInv'
  BY <1>1 DEF DataTooBig, PlaceInv, EnvelopeInv, EventInv
<1> QED  BY <1>3, <1>4, <1>5, <1>6 DEF IInv

\* The end marker copies the envelope into the event.
LEMMA DataEndInv ==
  ASSUME IInv, NEW l \in Line, DataEnd(l)
  PROVE  IInv'
<1>1. /\ envelope' \in Envelope
      /\ envelope'.From = envelope.From /\ envelope'.To = envelope.To
  BY Zenon DEF DataEnd, IInv, TypeOK, Envelope
<1>2. /\ event' \in [From: Addr \cup {NoAddr}, To: Seq(Addr), Body: Seq(Line)]
      /\ event'.From = envelope.From /\ event'.To = envelope.To
  BY Zenon DEF DataEnd, IInv, TypeOK, Envelope
<1>3. body' \in Seq(Line) /\ Len(body') <= MaxSize
  <2>1. body' = <<>>
    BY Zenon DEF DataEnd
  <2> QED  BY <2>1, LimitAssumption
<1>4. TypeOK'
  BY <1>1, <1>2, <1>3, Zenon DEF DataEnd, IInv, TypeOK, Verb, Code, write
<1>5. EnvelopeInv' /\ ChannelInv'
  <2>1. UNCHANGED <<fsm, tx, given>>
    BY Zenon DEF DataEnd
  <2> QED  BY <1>1, <2>1, Zenon DEF IInv, EnvelopeInv, ChannelInv, EndsWith
<1>6. PlaceInv' /\ EventInv' /\ ReadyForNext'
  BY <1>1, <1>2, Zenon DEF DataEnd, write, IInv, PlaceInv, EventInv, ReadyForNext
<1> QED  BY <1>4, <1>5, <1>6 DEF IInv

\* A successful delivery keeps the envelope and returns to greeted.
LEMMA DeliverOKInv ==
  ASSUME IInv, DeliverOK
  PROVE  IInv'
<1>1. fsm' = "greeted"
  BY FsmTable DEF DeliverOK, transition
<1>2. event' \in [From: Addr \cup {NoAddr}, To: Seq(Addr), Body: Seq(Line)]
  <2>1. <<>> \in Seq(Addr) /\ <<>> \in Seq(Line)
    OBVIOUS
  <2> QED  BY <2>1 DEF DeliverOK, NoEvent
<1>3. TypeOK'
  BY <1>1, <1>2, Zenon DEF DeliverOK, IInv, TypeOK, State, Verb, Code, write
<1>4. ReadyForNext'
  BY <1>1 DEF ReadyForNext, FsmAccepts, newSMTPFSM
<1>5. PlaceInv' /\ EnvelopeInv' /\ ChannelInv' /\ EventInv'
  BY <1>1 DEF DeliverOK, IInv, PlaceInv, EnvelopeInv, ChannelInv, EventInv
<1> QED  BY <1>3, <1>4, <1>5 DEF IInv

----------------------------------------------------------------------------
\* NewSession establishes the invariant.
LEMMA InitInv == Init => IInv
<1> SUFFICES ASSUME Init PROVE IInv
  OBVIOUS
<1>1. <<>> \in Seq(Addr) /\ <<>> \in Seq(Line) /\ Len(<<>>) <= MaxSize
  BY LimitAssumption
<1>2. NoEvent \in [From: Addr \cup {NoAddr}, To: Seq(Addr), Body: Seq(Line)]
  BY <1>1 DEF NoEvent
<1>3. TypeOK
  BY <1>1, <1>2, ResetType, Zenon DEF Init, TypeOK, State, Verb, Code
<1>4. ChannelInv
  <2>1. envelope.From = NoAddr /\ Len(envelope.To) = 0
    BY Zenon DEF Init, Reset
  <2> QED  BY <2>1 DEF ChannelInv
<1>5. PlaceInv /\ EnvelopeInv /\ EventInv /\ ReadyForNext
  BY Zenon DEF Init, PlaceInv, EnvelopeInv, EventInv, ReadyForNext
<1> QED  BY <1>3, <1>4, <1>5 DEF IInv

\* One iteration of the read loop preserves it, whichever handler runs.
LEMMA HandleInv ==
  ASSUME IInv, NEW l \in Line, Handle(l)
  PROVE  IInv'
<1>1. pc = "loop" /\ l.arg \in Addr \cup {NoAddr}
  BY Zenon DEF Handle, Line
<1>2. CASE \E cmd \in {"NOOP", "other", ""}, c \in {"250", "500", ""} : Refuse(cmd, c)
  BY <1>2, RefuseInv, Zenon DEF Verb, Code
<1>3. CASE handleEHLO(l.arg)
  BY <1>1, <1>3, handleEHLOInv
<1>4. CASE handleSTARTTLS
  BY <1>1, <1>4, handleSTARTTLSInv
<1>5. CASE handleMAIL(l.arg)
  BY <1>1, <1>5, handleMAILInv
<1>6. CASE handleRCPT(l.arg)
  BY <1>1, <1>6, handleRCPTInv
<1>7. CASE handleDATA
  BY <1>1, <1>7, handleDATAInv
<1>8. CASE handleRSET
  BY <1>1, <1>8, handleRSETInv
<1>9. CASE handleQUIT
  BY <1>1, <1>9, handleQUITInv
<1> QED  BY <1>2, <1>3, <1>4, <1>5, <1>6, <1>7, <1>8, <1>9, Zenon DEF Handle

\* Every step preserves it.
LEMMA NextInv == IInv /\ [Next]_vars => IInv'
<1> SUFFICES ASSUME IInv, [Next]_vars PROVE IInv'
  OBVIOUS
<1>1. CASE \E l \in Input : Handle(l)
  BY <1>1, HandleInv, InputAssumption
<1>2. CASE \E l \in Input : DataStep(l)
  BY <1>2, DataLineInv, DataTooBigInv, DataEndInv, InputAssumption DEF DataStep
<1>3. CASE DataReadError \/ DeliverError \/ StartTLSFailed \/ ReadError
  BY <1>3, ReturnInv
<1>4. CASE DeliverOK
  BY <1>4, DeliverOKInv
<1>5. CASE StartTLSDone
  BY <1>5, StartTLSDoneInv
<1>6. CASE UNCHANGED vars
  <2>1. TypeOK' /\ PlaceInv' /\ EventInv'
    BY <1>6 DEF vars, IInv, TypeOK, PlaceInv, EventInv
  <2>2. EnvelopeInv' /\ ChannelInv'
    BY <1>6, Zenon DEF vars, IInv, EnvelopeInv, ChannelInv, EndsWith
  <2>3. ReadyForNext'
    BY <1>6 DEF vars, IInv, ReadyForNext, FsmAccepts
  <2> QED  BY <2>1, <2>2, <2>3 DEF IInv
<1> QED  BY <1>1, <1>2, <1>3, <1>4, <1>5, <1>6 DEF Next

\* What the invariant says of a session, alone or as part of a larger system.
LEMMA SessionPromises ==
  IInv => DeliverableEvent /\ AcknowledgedAreDelivered /\ NothingCrossesTLS /\ ReadyForNext
<1>1. IInv => DeliverableEvent
  BY DEF IInv, PlaceInv, EnvelopeInv, EventInv, DeliverableEvent
<1>2. IInv => AcknowledgedAreDelivered
  BY Zenon DEF IInv, PlaceInv, EnvelopeInv, EventInv, EndsWith, AcknowledgedAreDelivered
<1>3. IInv => NothingCrossesTLS
  BY DEF IInv, PlaceInv, EnvelopeInv, ChannelInv, EventInv, NothingCrossesTLS
<1> QED  BY <1>1, <1>2, <1>3, Zenon DEF IInv

\* The inductive invariant holds in every reachable state of a session.
THEOREM Invariance == Spec => []IInv
<1> QED  BY InitInv, NextInv, PTL DEF Spec

\* Type correctness, with the limits of handleRCPT (452) and handleDATA (552).
THEOREM TypeCorrect == Spec => []TypeOK
<1>1. IInv => TypeOK
  BY DEF IInv
<1> QED  BY <1>1, Invariance, PTL

\* handleDATA gives Deliver a sender and at least one recipient.
THEOREM EventsAreDeliverable == Spec => []DeliverableEvent
<1> QED  BY SessionPromises, Invariance, PTL

\* Every recipient acknowledged with 250 since MAIL is in the event of handleDATA.
THEOREM NoRecipientIsLost == Spec => []AcknowledgedAreDelivered
<1> QED  BY SessionPromises, Invariance, PTL

\* Nothing acknowledged in plain text is delivered after STARTTLS.
THEOREM ChannelsAreSeparate == Spec => []NothingCrossesTLS
<1> QED  BY SessionPromises, Invariance, PTL

\* After an accepted or oversized message, and after RSET, the FSM takes MAIL.
THEOREM SessionIsReady == Spec => []ReadyForNext
<1> QED  BY SessionPromises, Invariance, PTL
============================================================================
