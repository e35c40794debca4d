------------------------------ MODULE SmtpWire ------------------------------
(***************************************************************************)
(* An SMTP session and its client on one connection.                       *)
(*                                                                         *)
(* Handle reads commands through s.reader; handleDATA reads the body       *)
(* through a second bufio.Reader on the same connection, and drops it when *)
(* it returns; handleSTARTTLS replaces s.reader.  A reader takes from the  *)
(* connection as many lines as happen to be there, which need not all be   *)
(* meant for it.  The client is one that the server's EHLO asks for: no    *)
(* PIPELINING is announced, so it sends a command only when it has a reply *)
(* to the one before, and a body, dot-stuffed, only after 354.             *)
(***************************************************************************)
EXTENDS SmtpSession

CONSTANTS
  Text,        \* lines of the messages that the client sends
  MaxText      \* bound: lines of a message

ASSUME TextAssumption == Text \subseteq Line /\ MaxText \in Nat

VARIABLES
  client,    \* what the client is doing
  asked,     \* the command it has no reply to yet; "." is the end of a body
  text,      \* the message it is sending, before dot-stuffing
  conn,      \* lines sent, not read from the connection
  buf,       \* lines in s.reader
  dataBuf,   \* lines in the reader of handleDATA
  replies    \* replies the client has not read

\* History: handleDATA has returned with part of a body still to come.
VARIABLE gaveUp

peer == <<client, asked, text>>
wireVars == <<vars, peer, conn, buf, dataBuf, replies, gaveUp>>

----------------------------------------------------------------------------
\* The client (external).
Stuff(l) == IF l.dots >= 1 THEN [l EXCEPT !.dots = @ + 1] ELSE l
EndMarker == [dots |-> 1, verb |-> "", arg |-> NoAddr]

\* Bound: a client that was cut off in a body begins neither another one nor TLS.
ClientCommand(l) ==
  /\ client = "idle" /\ pc # "closed"
  /\ l.dots = 0 /\ l.verb # ""
  /\ gaveUp => l.verb \notin {"DATA", "STARTTLS"}
  /\ conn' = Append(conn, l)
  /\ client' = "waiting"
  /\ asked' = l.verb
  /\ UNCHANGED <<vars, text, buf, dataBuf, replies, gaveUp>>

ClientText(l) ==
  /\ client = "body" /\ Len(text) < MaxText
  /\ conn' = Append(conn, Stuff(l))
  /\ text' = Append(text, l)
  /\ UNCHANGED <<vars, client, asked, buf, dataBuf, replies, gaveUp>>

ClientEnd ==
  /\ client = "body"
  /\ conn' = Append(conn, EndMarker)
  /\ client' = "waiting"
  /\ asked' = "."
  /\ UNCHANGED <<vars, text, buf, dataBuf, replies, gaveUp>>

\* The client reads the next reply, taking it for the answer to what it asked.
ClientReads ==
  /\ client = "waiting" /\ replies # <<>>
  /\ replies' = Tail(replies)
  /\ client' = CASE Head(replies).code = "354" -> "body"
                 [] Head(replies).code = "220" -> "handshake"
                 [] OTHER -> "idle"
  /\ asked' = ""
  /\ text' = IF client' = "body" THEN <<>> ELSE text
  /\ UNCHANGED <<vars, conn, buf, dataBuf, gaveUp>>

----------------------------------------------------------------------------
\* The session.  Each step of it that writes a reply puts it on the connection.
Sent == IF reply'.code = "" THEN replies ELSE Append(replies, reply')

\* bufio.Reader: an empty reader takes what the connection has.
Fill(lines, rest) ==
  \E n \in 1..Len(conn) :
    /\ lines = SubSeq(conn, 1, n)
    /\ rest = SubSeq(conn, n + 1, Len(conn))

ReadConn ==
  /\ pc = "loop" /\ buf = <<>>
  /\ Fill(buf', conn')
  /\ UNCHANGED <<vars, peer, dataBuf, replies, gaveUp>>

LoopStep ==
  /\ buf # <<>>
  /\ Handle(Head(buf))
  /\ buf' = Tail(buf)
  /\ replies' = Sent
  /\ UNCHANGED <<peer, conn, dataBuf, gaveUp>>

ReadData ==
  /\ pc = "data" /\ dataBuf = <<>>
  /\ Fill(dataBuf', conn')
  /\ UNCHANGED <<vars, peer, buf, replies, gaveUp>>

\* Mutant: the reader is kept for the next body.
BodyStep_KeepsReader ==
  /\ dataBuf # <<>>
  /\ DataStep(Head(dataBuf))
  /\ dataBuf' = Tail(dataBuf)
  /\ replies' = Sent
  /\ gaveUp' = (gaveUp \/ reply'.code = "552")
  /\ UNCHANGED <<peer, conn, buf>>

\* What handleDATA's reader still holds is lost when handleDATA returns.
BodyStep ==
  /\ dataBuf # <<>>
  /\ DataStep(Head(dataBuf))
  /\ dataBuf' = IF pc' = "data" THEN Tail(dataBuf) ELSE <<>>
  /\ replies' = Sent
  /\ gaveUp' = (gaveUp \/ reply'.code = "552")
  /\ UNCHANGED <<peer, conn, buf>>

BodyReadFails ==
  /\ dataBuf = <<>>
  /\ DataReadError
  /\ gaveUp' = TRUE
  /\ UNCHANGED <<peer, conn, buf, dataBuf, replies>>

Delivered ==
  /\ DeliverOK \/ DeliverError
  /\ replies' = Sent
  /\ UNCHANGED <<peer, conn, buf, dataBuf, gaveUp>>

\* Mutant: after the handshake the client is greeted again.
Upgraded_Greets ==
  /\ client = "handshake" /\ conn = <<>>
  /\ StartTLSDone
  /\ buf' = <<>>
  /\ client' = "idle"
  /\ replies' = Append(replies, [cmd |-> "", code |-> "220"])
  /\ UNCHANGED <<asked, text, conn, dataBuf, gaveUp>>

\* The handshake is over: s.reader is replaced, or stays as it is.
Upgraded ==
  /\ client = "handshake" /\ conn = <<>>
  /\ StartTLSDone
  /\ buf' = <<>>
  /\ client' = "idle"
  /\ UNCHANGED <<asked, text, conn, dataBuf, replies, gaveUp>>

NotUpgraded ==
  /\ client = "handshake"
  /\ StartTLSFailed
  /\ client' = "idle"
  /\ UNCHANGED <<asked, text, conn, buf, dataBuf, replies, gaveUp>>

LoopReadFails ==
  /\ buf = <<>>
  /\ ReadError
  /\ UNCHANGED <<peer, conn, buf, dataBuf, replies, gaveUp>>

WireInit ==
  /\ Init
  /\ client = "idle" /\ asked = "" /\ text = <<>>
  /\ conn = <<>> /\ buf = <<>> /\ dataBuf = <<>>
  /\ replies = <<>>
  /\ gaveUp = FALSE

ClientNext ==
  \/ \E l \in Input : ClientCommand(l)
  \/ \E l \in Text : ClientText(l)
  \/ ClientEnd \/ ClientReads

ServerNext ==
  \/ ReadConn \/ LoopStep
  \/ ReadData \/ BodyStep \/ BodyReadFails
  \/ Delivered
  \/ Upgraded \/ NotUpgraded
  \/ LoopReadFails

WireNext == ClientNext \/ ServerNext

\* The session's goroutine runs, and what it waits for ends: Deliver returns, the
\* handshake succeeds or fails (the read deadline of Handle covers it).  The client
\* reads its replies and ends the bodies it begins.  No read is assumed to fail.
WireFairness ==
  /\ WF_wireVars(ReadConn \/ LoopStep \/ ReadData \/ BodyStep)
  /\ WF_wireVars(Delivered)
  /\ WF_wireVars(Upgraded \/ NotUpgraded)
  /\ WF_wireVars(ClientReads)
  /\ WF_wireVars(ClientEnd)

WireSpec == WireInit /\ [][WireNext]_wireVars /\ WireFairness

----------------------------------------------------------------------------
Reply == [cmd: Verb, code: Code]

\* Type correctness of the two ends and of what lies between them; the reader of
\* handleDATA does not outlive it.
WireTypeOK ==
  /\ client \in {"idle", "waiting", "body", "handshake"}
  /\ asked \in Verb \cup {"."}
  /\ text \in Seq(Text) /\ Len(text) <= MaxText
  /\ conn \in Seq(Line) /\ buf \in Seq(Line) /\ dataBuf \in Seq(Line)
  /\ dataBuf # <<>> => pc = "data"
  /\ replies \in Seq(Reply)
  /\ gaveUp \in BOOLEAN

\* The body handed to Deliver is the message the client composed: stuffing and
\* unstuffing cancel out, no line is left in s.reader when handleDATA opens its
\* own, and none is taken for the end marker.
BodyIntact == pc = "deliver" /\ ~gaveUp => event.Body = text

\* No line is dropped unread with a reader, neither with the one of handleDATA
\* nor with the one that handleSTARTTLS replaces.
NothingDropped ==
  [][~gaveUp' => /\ Len(buf') >= Len(buf) - 1
                 /\ Len(dataBuf') >= Len(dataBuf) - 1]_wireVars

\* Client and server stay in step: the reply that the client reads is the answer
\* to its last command, the only one on the way, and a verdict on a message comes
\* just when a body has been ended.  This holds until handleDATA returns in the
\* middle of a body; the rest of that body is then read as commands.
RepliesMatch ==
  replies # <<>> /\ ~gaveUp =>
    /\ client = "waiting" /\ Len(replies) = 1
    /\ IF Head(replies).code \in {"accepted", "451"}
       THEN asked = "."
       ELSE asked = Head(replies).cmd

\* No client waits for ever: on a connection that does not fail, each command and
\* each ended body gets a reply, also after handleDATA has returned in the middle
\* of one.
ClientAnswered == client = "waiting" ~> client # "waiting" \/ pc = "closed"
============================================================================
