---------------------------- MODULE SmtpSession ----------------------------
(***************************************************************************)
(* One SMTP session: internal/smtp/session.go, handler.go, envelope.go.    *)
(*                                                                         *)
(* The session's goroutine is the only writer of this state.  Each action  *)
(* is one iteration of the read loop of Handle, or one step of a handler   *)
(* that blocks on something else: a body line in handleDATA, the result of *)
(* the TLS handshake, the result of Deliver.  The client may send any line *)
(* at any time.                                                            *)
(***************************************************************************)
EXTENDS Naturals, Sequences

CONSTANTS
  Addr,           \* addresses that extractAddress accepts
  NoAddr,         \* a missing or malformed argument; the empty From
  MaxRcpt,        \* recipients per envelope (100 in handleRCPT)
  MaxSize,        \* cfg.SMTP.MaxSize, counted in body lines
  Input           \* the lines the client may send

ASSUME AddrAssumption == NoAddr \notin Addr
ASSUME LimitAssumption == MaxRcpt \in Nat \ {0} /\ MaxSize \in Nat

VARIABLES
  fsm,        \* s.fsm.Current()
  envelope,   \* *s.envelope
  tls,        \* s.tlsCfg and s.isTLS: "none" (no certificate), "offered", "active"
  pc,         \* where the goroutine blocks
  body,       \* the strings.Builder of handleDATA, as a sequence of lines
  event,      \* the ports.MessageReceived given to Deliver while it runs
  reply       \* what the last step wrote, and the command it answers

\* History: what the client has been told 250 for.
VARIABLES
  tx,         \* the sender and recipients acknowledged since the last MAIL
  given       \* the addresses acknowledged on the present (plain or TLS) channel

vars == <<fsm, envelope, tls, pc, body, event, reply, tx, given>>

----------------------------------------------------------------------------
\* A line as ReadString returns it: its leading dots, then the rest, read as a
\* command word and argument.  Verb "" is an empty rest, "other" any other text.
Verb == {"EHLO", "STARTTLS", "MAIL", "RCPT", "DATA", "RSET", "QUIT", "NOOP",
         "", "other"}
Line == [dots: Nat, verb: Verb, arg: Addr \cup {NoAddr}]
ASSUME InputAssumption == Input \subseteq Line

\* strings.Cut and ToUpper: a word with leading dots is no command.
Command(l) == IF l.dots > 0 THEN "other" ELSE l.verb
\* Mutant: the end marker is looked for after dot-unstuffing.
EndOfData_Unstuffed(l) == l.dots \in {1, 2} /\ l.verb = ""
EndOfData(l) == l.dots = 1 /\ l.verb = ""
\* Mutant: no dot-unstuffing.
Unstuff_None(l) == l
Unstuff(l) == IF l.dots >= 2 THEN [l EXCEPT !.dots = @ - 1] ELSE l

State == {"init", "greeted", "mail_from", "rcpt_to", "data", "quit"}

newSMTPFSM ==
  [ehlo      |-> [src |-> {"init", "greeted"}, dst |-> "greeted"],
   mail_from |-> [src |-> {"greeted"}, dst |-> "mail_from"],
   rcpt_to   |-> [src |-> {"mail_from"}, dst |-> "rcpt_to"],
   data      |-> [src |-> {"rcpt_to"}, dst |-> "data"],
   done      |-> [src |-> {"data"}, dst |-> "greeted"],
   rset      |-> [src |-> {"greeted", "mail_from", "rcpt_to", "data"}, dst |-> "greeted"],
   quit      |-> [src |-> {"init", "greeted", "mail_from", "rcpt_to", "data"}, dst |-> "quit"]]

\* External, github.com/looplab/fsm v1.0.3: Event returns an error when the
\* state is no source of the event, and also (NoTransitionError) when the event
\* would lead back to the current state.
FsmAccepts(ev) == fsm \in newSMTPFSM[ev].src /\ fsm # newSMTPFSM[ev].dst

Envelope == [From: Addr \cup {NoAddr}, To: Seq(Addr), Data: Seq(Line)]
Reset == [From |-> NoAddr, To |-> <<>>, Data |-> <<>>]
\* Mutant: the recipient replaces the list.
AddRecipient_Replaces(addr) == [envelope EXCEPT !.To = <<addr>>]
AddRecipient(addr) == [envelope EXCEPT !.To = Append(@, addr)]

NoEvent == [From |-> NoAddr, To |-> <<>>, Body |-> <<>>]

\* Replies; a multi-line reply counts once.  "" is no reply.
Code == {"", "220", "221", "250", "354", "451", "452", "454", "500", "501",
         "503", "552", "accepted"}
write(cmd, c) == reply' = [cmd |-> cmd, code |-> c]

\* The handler writes c and returns, having changed nothing else.
Refuse(cmd, c) ==
  /\ write(cmd, c)
  /\ UNCHANGED <<fsm, envelope, tls, pc, body, event, tx, given>>

\* transition(ev) as a guard: 503 unless the FSM takes the event.
BadSequence(cmd, ev) == ~FsmAccepts(ev) /\ Refuse(cmd, "503")
transition(ev) == FsmAccepts(ev) /\ fsm' = newSMTPFSM[ev].dst

----------------------------------------------------------------------------
\* NewSession and the greeting; a connection of the implicit TLS listener
\* starts in TLS.
Init ==
  /\ fsm = "init"
  /\ envelope = Reset
  /\ tls \in {"none", "offered", "active"}
  /\ pc = "loop"
  /\ body = <<>>
  /\ event = NoEvent
  /\ reply = [cmd |-> "", code |-> "220"]
  /\ tx = [from |-> NoAddr, to |-> <<>>]
  /\ given = {}

\* Mutant: the envelope is reset before the transition is known to be valid.
handleEHLO_ResetFirst(arg) ==
  \/ arg = NoAddr /\ Refuse("EHLO", "501")
  \/ /\ arg # NoAddr
     /\ fsm' = IF FsmAccepts("ehlo") THEN "greeted" ELSE fsm
     /\ envelope' = Reset
     /\ write("EHLO", IF FsmAccepts("ehlo") THEN "250" ELSE "503")
     /\ UNCHANGED <<tls, pc, body, event, tx, given>>

handleEHLO(arg) ==
  \/ arg = NoAddr /\ Refuse("EHLO", "501")
  \/ arg # NoAddr /\ BadSequence("EHLO", "ehlo")
  \/ /\ arg # NoAddr
     /\ transition("ehlo")
     /\ envelope' = Reset
     /\ write("EHLO", "250")
     /\ UNCHANGED <<tls, pc, body, event, tx, given>>

handleMAIL(addr) ==
  \/ addr = NoAddr /\ Refuse("MAIL", "501")
  \/ addr # NoAddr /\ BadSequence("MAIL", "mail_from")
  \/ /\ addr # NoAddr
     /\ transition("mail_from")
     /\ envelope' = [envelope EXCEPT !.From = addr]
     /\ write("MAIL", "250")
     /\ tx' = [from |-> addr, to |-> <<>>]
     /\ given' = given \cup {addr}
     /\ UNCHANGED <<tls, pc, body, event>>

\* RCPT in rcpt_to is taken without an FSM event.
transitionRcptTo == (fsm = "rcpt_to" /\ UNCHANGED fsm) \/ transition("rcpt_to")

\* Mutant: off by one.
TooManyRecipients_OffByOne == Len(envelope.To) > MaxRcpt
TooManyRecipients == Len(envelope.To) >= MaxRcpt

handleRCPT(addr) ==
  \/ addr = NoAddr /\ Refuse("RCPT", "501")
  \/ addr # NoAddr /\ TooManyRecipients /\ Refuse("RCPT", "452")
  \/ /\ addr # NoAddr /\ ~TooManyRecipients /\ fsm # "rcpt_to"
     /\ BadSequence("RCPT", "rcpt_to")
  \/ /\ addr # NoAddr /\ ~TooManyRecipients
     /\ transitionRcptTo
     /\ envelope' = AddRecipient(addr)
     /\ write("RCPT", "250")
     /\ tx' = [tx EXCEPT !.to = Append(@, addr)]
     /\ given' = given \cup {addr}
     /\ UNCHANGED <<tls, pc, body, event>>

handleRSET ==
  \/ BadSequence("RSET", "rset")
  \/ /\ transition("rset")
     /\ envelope' = Reset
     /\ write("RSET", "250")
     /\ UNCHANGED <<tls, pc, body, event, tx, given>>

\* handleQUIT ignores what transition returns; Handle then closes the connection.
handleQUIT ==
  /\ fsm' = IF FsmAccepts("quit") THEN "quit" ELSE fsm
  /\ pc' = "closed"
  /\ write("QUIT", "221")
  /\ UNCHANGED <<envelope, tls, body, event, tx, given>>

\* handleSTARTTLS up to the call of Handshake.
handleSTARTTLS ==
  \/ tls = "active" /\ Refuse("STARTTLS", "503")
  \/ tls = "none" /\ Refuse("STARTTLS", "454")
  \/ tls = "offered" /\ fsm \in {"mail_from", "rcpt_to"} /\ Refuse("STARTTLS", "503")
  \/ /\ tls = "offered" /\ fsm \notin {"mail_from", "rcpt_to"}
     /\ pc' = "starttls"
     /\ write("STARTTLS", "220")
     /\ UNCHANGED <<fsm, envelope, tls, body, event, tx, given>>

\* Mutant: only the connection is replaced.
StartTLSDone_KeepsSession ==
  /\ pc = "starttls"
  /\ tls' = "active"
  /\ pc' = "loop"
  /\ write("STARTTLS", "")
  /\ given' = {}
  /\ UNCHANGED <<fsm, envelope, body, event, tx>>

\* Handshake succeeds: new connection and reader, fresh FSM, empty envelope.
StartTLSDone ==
  /\ pc = "starttls"
  /\ tls' = "active"
  /\ fsm' = "init"
  /\ envelope' = Reset
  /\ pc' = "loop"
  /\ write("STARTTLS", "")
  /\ given' = {}
  /\ UNCHANGED <<body, event, tx>>

\* Handshake fails: back to the read loop, still in plain text.
StartTLSFailed ==
  /\ pc = "starttls"
  /\ pc' = "loop"
  /\ write("STARTTLS", "")
  /\ UNCHANGED <<fsm, envelope, tls, body, event, tx, given>>

\* handleDATA up to the first read of its loop.
handleDATA ==
  \/ BadSequence("DATA", "data")
  \/ /\ transition("data")
     /\ pc' = "data"
     /\ body' = <<>>
     /\ write("DATA", "354")
     /\ UNCHANGED <<envelope, tls, event, tx, given>>

\* A body line within the size limit.
DataLine(l) ==
  /\ pc = "data" /\ ~EndOfData(l)
  /\ Len(body) + 1 <= MaxSize
  /\ body' = Append(body, Unstuff(l))
  /\ write("DATA", "")
  /\ UNCHANGED <<fsm, envelope, tls, pc, event, tx, given>>

\* Mutant: the FSM is left in data.
DataTooBig_NoRset(l) ==
  /\ pc = "data" /\ ~EndOfData(l)
  /\ Len(body) + 1 > MaxSize
  /\ envelope' = Reset
  /\ pc' = "loop"
  /\ body' = <<>>
  /\ write("DATA", "552")
  /\ UNCHANGED <<fsm, tls, event, tx, given>>

\* The body line that exceeds the limit: handleDATA returns without reading on.
DataTooBig(l) ==
  /\ pc = "data" /\ ~EndOfData(l)
  /\ Len(body) + 1 > MaxSize
  /\ envelope' = Reset
  /\ transition("rset")
  /\ pc' = "loop"
  /\ body' = <<>>
  /\ write("DATA", "552")
  /\ UNCHANGED <<tls, event, tx, given>>

\* Mutant: sender and recipients are swapped in the event.
DataEnd_Swapped(l) ==
  /\ pc = "data" /\ EndOfData(l)
  /\ envelope' = [envelope EXCEPT !.Data = body]
  /\ event' = [From |-> envelope.To[1], To |-> <<envelope.From>>, Body |-> body]
  /\ body' = <<>>
  /\ pc' = "deliver"
  /\ write("DATA", "")
  /\ UNCHANGED <<fsm, tls, tx, given>>

\* The end marker: the event is built and Deliver is called.
DataEnd(l) ==
  /\ pc = "data" /\ EndOfData(l)
  /\ envelope' = [envelope EXCEPT !.Data = body]
  /\ event' = [From |-> envelope.From, To |-> envelope.To, Body |-> body]
  /\ body' = <<>>
  /\ pc' = "deliver"
  /\ write("DATA", "")
  /\ UNCHANGED <<fsm, tls, tx, given>>

\* A failed read in handleDATA: back to the read loop with the FSM in data.
DataReadError ==
  /\ pc = "data"
  /\ pc' = "loop"
  /\ body' = <<>>
  /\ write("DATA", "")
  /\ UNCHANGED <<fsm, envelope, tls, event, tx, given>>

\* Deliver returns nil: the envelope is left as it is.
DeliverOK ==
  /\ pc = "deliver"
  /\ transition("done")
  /\ pc' = "loop"
  /\ event' = NoEvent
  /\ write("DATA", "accepted")
  /\ UNCHANGED <<envelope, tls, body, tx, given>>

\* Mutant: the error is only logged.
DeliverError_Silent ==
  /\ pc = "deliver"
  /\ pc' = "loop"
  /\ event' = NoEvent
  /\ write("DATA", "")
  /\ UNCHANGED <<fsm, envelope, tls, body, tx, given>>

\* Deliver returns an error: no event is fired, the FSM stays in data.
DeliverError ==
  /\ pc = "deliver"
  /\ pc' = "loop"
  /\ event' = NoEvent
  /\ write("DATA", "451")
  /\ UNCHANGED <<fsm, envelope, tls, body, tx, given>>

\* One iteration of the read loop with the line it read.
Handle(l) ==
  /\ pc = "loop"
  /\ \/ Command(l) = "EHLO" /\ handleEHLO(l.arg)
     \/ Command(l) = "STARTTLS" /\ handleSTARTTLS
     \/ Command(l) = "MAIL" /\ handleMAIL(l.arg)
     \/ Command(l) = "RCPT" /\ handleRCPT(l.arg)
     \/ Command(l) = "DATA" /\ handleDATA
     \/ Command(l) = "RSET" /\ handleRSET
     \/ Command(l) = "QUIT" /\ handleQUIT
     \/ Command(l) = "NOOP" /\ Refuse("NOOP", "250")
     \/ Command(l) = "other" /\ Refuse("other", "500")
     \/ Command(l) = "" /\ Refuse("", "")

\* The read of the loop fails: end of file, reset, or five minutes of silence.
ReadError ==
  /\ pc = "loop"
  /\ pc' = "closed"
  /\ write("", "")
  /\ UNCHANGED <<fsm, envelope, tls, body, event, tx, given>>

DataStep(l) == DataLine(l) \/ DataTooBig(l) \/ DataEnd(l)

Next ==
  \/ \E l \in Input : Handle(l)
  \/ \E l \in Input : DataStep(l)
  \/ DataReadError \/ DeliverOK \/ DeliverError
  \/ StartTLSDone \/ StartTLSFailed
  \/ ReadError

Spec == Init /\ [][Next]_vars

----------------------------------------------------------------------------
\* Type correctness of the session's fields, with both limits the handlers
\* enforce: no envelope exceeds MaxRcpt recipients (452 in handleRCPT, whichever
\* transaction they came from) and no body exceeds MaxSize (552 in handleDATA).
TypeOK ==
  /\ fsm \in State
  /\ envelope \in Envelope
  /\ Len(envelope.To) <= MaxRcpt
  /\ tls \in {"none", "offered", "active"}
  /\ pc \in {"loop", "data", "deliver", "starttls", "closed"}
  /\ body \in Seq(Line)
  /\ Len(body) <= MaxSize
  /\ event \in [From: Addr \cup {NoAddr}, To: Seq(Addr), Body: Seq(Line)]
  /\ reply \in [cmd: Verb, code: Code]
  /\ tx \in [from: Addr \cup {NoAddr}, to: Seq(Addr)]
  /\ given \subseteq Addr

\* A message handed to Deliver has a sender and at least one recipient: however
\* commands, failed reads, failed deliveries, resets and TLS upgrades follow one
\* another, DATA is reached only through MAIL and RCPT (newSMTPFSM), and no path
\* empties the envelope without also leaving the transaction states.
DeliverableEvent ==
  pc = "deliver" => event.From # NoAddr /\ event.To # <<>>

\* No acknowledged recipient is lost: the event of handleDATA carries the sender
\* of the last acknowledged MAIL, and its recipients end with those acknowledged
\* by RCPT since then, in order.
AcknowledgedAreDelivered ==
  pc = "deliver" =>
    /\ event.From = tx.from
    /\ Len(tx.to) <= Len(event.To)
    /\ \A i \in 1..Len(tx.to) :
         tx.to[i] = event.To[Len(event.To) - Len(tx.to) + i]

\* handleSTARTTLS forgets the plain-text session: whatever Deliver is given was
\* acknowledged on the channel the session now uses, although an envelope may
\* still be filled when STARTTLS arrives.
NothingCrossesTLS ==
  pc = "deliver" =>
    /\ event.From \in given
    /\ \A i \in 1..Len(event.To) : event.To[i] \in given

\* "After a complete transaction, the session must be ready for a new one" and
\* "A new transaction must be possible after RSET" (session_test.go): once a
\* greeted client has its message accepted or refused for size, or sends RSET in
\* whatever state a failed body or a failed delivery left behind, the FSM takes
\* the next MAIL.
ReadyForNext ==
  (reply.code \in {"accepted", "552"} \/ reply.cmd = "RSET") =>
    fsm = "init" \/ FsmAccepts("mail_from")

----------------------------------------------------------------------------
\* What envelope.go says of the envelope: "A new envelope is created for each
\* transaction and reset on RSET."  An event then carries exactly the recipients
\* acknowledged in its own transaction.  handleDATA does not reset the envelope
\* when delivery succeeds.
FreshEnvelope == pc = "deliver" => event.To = tx.to
============================================================================
