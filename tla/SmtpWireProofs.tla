--------------------------- MODULE SmtpWireProofs ---------------------------
(***************************************************************************)
(* Proofs about SmtpWire, for every set of command lines and texts, every  *)
(* length of a message and every way the readers split what arrives.       *)
(***************************************************************************)
EXTENDS SmtpWire, SmtpSessionProofs, Integers

\* The obligations carry many definitions: more time for SMT, a second try, then Zenon.
USE SMTT(30), SMTT(60), ZenonT(60)

\* Until handleDATA gives up on a body, client and server are in one of six phases.
\* Nothing is on the way to the server in the first two and in the last one.
Quiet == conn = <<>> /\ buf = <<>> /\ dataBuf = <<>>

Idle == client = "idle" /\ Quiet /\ replies = <<>> /\ pc \in {"loop", "closed"}

Handshaking == client = "handshake" /\ Quiet /\ replies = <<>> /\ pc = "starttls"

\* The command is on the connection or in s.reader.
Asking ==
  /\ client = "waiting" /\ asked \notin {"", "."} /\ pc \in {"loop", "closed"}
  /\ Len(conn) + Len(buf) = 1 /\ dataBuf = <<>> /\ replies = <<>>
  /\ \A i \in 1..Len(conn) : conn[i].dots = 0 /\ conn[i].verb = asked
  /\ \A i \in 1..Len(buf) : buf[i].dots = 0 /\ buf[i].verb = asked

\* Its reply is on the way back, and the session waits for what the reply asks for.
Answered ==
  /\ client = "waiting" /\ Quiet /\ Len(replies) = 1
  /\ IF replies[1].code \in {"accepted", "451"} THEN asked = "." ELSE asked = replies[1].cmd
  /\ replies[1].code = "354" => pc = "data" /\ body = <<>>
  /\ replies[1].code = "220" => pc = "starttls"
  /\ replies[1].code \notin {"354", "220"} => pc \in {"loop", "closed"}

\* The k-th line that a client sends of the message t.
Wired(t, k) == IF k <= Len(t) THEN Stuff(t[k]) ELSE EndMarker

\* The body, the lines in handleDATA's reader and those on the connection make up
\* the message, and the end marker once the client has sent it.
Flow ==
  /\ Len(body) + Len(dataBuf) + Len(conn) = Len(text) + IF client = "body" THEN 0 ELSE 1
  /\ Len(body) <= Len(text)
  /\ \A i \in 1..Len(body) : body[i] = text[i]
  /\ \A i \in 1..Len(dataBuf) : dataBuf[i] = Wired(text, Len(body) + i)
  /\ \A i \in 1..Len(conn) : conn[i] = Wired(text, Len(body) + Len(dataBuf) + i)

Sending ==
  /\ client = "body" \/ (client = "waiting" /\ asked = ".")
  /\ pc = "data" /\ buf = <<>> /\ replies = <<>> /\ Flow

Delivering ==
  /\ client = "waiting" /\ asked = "." /\ pc = "deliver"
  /\ Quiet /\ replies = <<>> /\ event.Body = text

InStep == ~gaveUp => Idle \/ Handshaking \/ Asking \/ Answered \/ Sending \/ Delivering

\* The inductive invariant: the session's own, and the above.
WireInv == IInv /\ WireTypeOK /\ InStep

----------------------------------------------------------------------------
\* handleDATA undoes the client's dot-stuffing, and takes no line of a message for
\* the end marker.
LEMMA StuffingRoundTrip ==
  ASSUME NEW l \in Line
  PROVE  Stuff(l) \in Line /\ Unstuff(Stuff(l)) = l /\ ~EndOfData(Stuff(l))
<1>1. l.dots \in Nat /\ l = [dots |-> l.dots, verb |-> l.verb, arg |-> l.arg]
      /\ l.verb \in Verb /\ l.arg \in Addr \cup {NoAddr}
  BY DEF Line
<1>2. CASE l.dots = 0
  <2>1. Stuff(l) = l
    BY <1>1, <1>2 DEF Stuff
  <2>2. Unstuff(l) = l
    BY <1>1, <1>2 DEF Unstuff
  <2>3. l.dots # 1
    BY <1>2
  <2> QED  BY <2>1, <2>2, <2>3, Zenon DEF EndOfData
<1>3. CASE l.dots >= 1
  <2>1. Stuff(l) = [dots |-> l.dots + 1, verb |-> l.verb, arg |-> l.arg]
    BY <1>1, <1>3 DEF Stuff
  <2>2. Stuff(l) \in Line /\ Stuff(l).dots = l.dots + 1
    BY <1>1, <2>1 DEF Line
  <2>3. Unstuff(Stuff(l)) = [dots |-> (l.dots + 1) - 1, verb |-> l.verb, arg |-> l.arg]
    BY <1>1, <1>3, <2>1 DEF Unstuff
  <2>4. (l.dots + 1) - 1 = l.dots
    BY <1>1
  <2>5. Stuff(l).dots # 1
    BY <1>1, <1>3, <2>2
  <2>6. ~EndOfData(Stuff(l))
    BY <2>5, Zenon DEF EndOfData
  <2> QED  BY <1>1, <2>2, <2>3, <2>4, <2>6
<1> QED  BY <1>1, <1>2, <1>3

\* The end marker is a line, and is taken for what it is.
LEMMA EndMarkerLine == EndMarker \in Line /\ EndOfData(EndMarker)
  BY DEF EndMarker, Line, EndOfData, Verb

\* A reader's first line and the rest.
LEMMA HeadTailFacts ==
  ASSUME NEW S, NEW s \in Seq(S), s # <<>>
  PROVE  /\ Head(s) = s[1] /\ Head(s) \in S /\ Tail(s) \in Seq(S)
         /\ Len(s) \in Nat \ {0} /\ Len(Tail(s)) = Len(s) - 1
         /\ \A i \in 1..(Len(s) - 1) : Tail(s)[i] = s[i + 1]
<1>1. Head(s) = s[1] /\ Head(s) \in S
  OBVIOUS
<1>2. /\ Tail(s) \in Seq(S) /\ Len(Tail(s)) = Len(s) - 1
      /\ \A i \in 1..Len(Tail(s)) : Tail(s)[i] = s[i + 1]
  OBVIOUS
<1>3. Len(s) \in Nat \ {0}
  OBVIOUS
<1> QED  BY <1>1, <1>2, <1>3

\* Sequences of the same lines are the same.
LEMMA SameLines ==
  ASSUME NEW S, NEW s \in Seq(S), NEW t \in Seq(S), Len(s) = Len(t),
         \A i \in 1..Len(s) : s[i] = t[i]
  PROVE  s = t
  OBVIOUS

\* A reader takes a prefix of what the connection holds and leaves the rest.
LEMMA FillFacts ==
  ASSUME conn \in Seq(Line), NEW lines, NEW rest, Fill(lines, rest)
  PROVE  /\ lines \in Seq(Line) /\ rest \in Seq(Line)
         /\ Len(lines) \in Nat \ {0} /\ Len(rest) \in Nat /\ Len(conn) \in Nat
         /\ Len(lines) + Len(rest) = Len(conn)
         /\ \A i \in 1..Len(lines) : lines[i] = conn[i]
         /\ \A i \in 1..Len(rest) : rest[i] = conn[Len(lines) + i]
<1>1. PICK n \in 1..Len(conn) : /\ lines = SubSeq(conn, 1, n)
                                /\ rest = SubSeq(conn, n + 1, Len(conn))
  BY DEF Fill
<1>2. /\ Len(conn) \in Nat /\ n \in Nat /\ 1 <= n /\ n <= Len(conn)
      /\ \A i \in 1..Len(conn) : conn[i] \in Line
  BY <1>1
<1>3. /\ lines \in Seq(Line) /\ Len(lines) = n
      /\ \A i \in 1..n : lines[i] = conn[i]
  <2>1. /\ 1 \in Int /\ n \in Int /\ \A i \in 1..n : conn[i] \in Line
    BY <1>2
  <2>2. /\ SubSeq(conn, 1, n) \in Seq(Line)
        /\ Len(SubSeq(conn, 1, n)) = (IF 1 <= n THEN n - 1 + 1 ELSE 0)
        /\ \A i \in 1..(n - 1 + 1) : SubSeq(conn, 1, n)[i] = conn[1 + i - 1]
    BY <1>2, <2>1
  <2> QED  BY <1>1, <1>2, <2>2
<1>4. /\ rest \in Seq(Line) /\ Len(rest) = Len(conn) - n
      /\ \A i \in 1..(Len(conn) - n) : rest[i] = conn[n + i]
  <2>1. /\ n + 1 \in Int /\ Len(conn) \in Int /\ \A i \in (n + 1)..Len(conn) : conn[i] \in Line
    BY <1>2
  <2>2. /\ SubSeq(conn, n + 1, Len(conn)) \in Seq(Line)
        /\ Len(SubSeq(conn, n + 1, Len(conn)))
             = (IF n + 1 <= Len(conn) THEN Len(conn) - (n + 1) + 1 ELSE 0)
        /\ \A i \in 1..(Len(conn) - (n + 1) + 1) :
             SubSeq(conn, n + 1, Len(conn))[i] = conn[(n + 1) + i - 1]
    BY <1>2, <2>1
  <2> QED  BY <1>1, <1>2, <2>2
<1> QED  BY <1>2, <1>3, <1>4

\* A line without dots is the command it names.
LEMMA CommandWord == \A l \in Line : l.dots = 0 => Command(l) = l.verb
  BY DEF Line, Command

\* A command gets a reply of its own, and a reply that asks the client for more
\* finds the session waiting for it.
LEMMA HandleReply ==
  ASSUME IInv, NEW l \in Line, l.dots = 0, l.verb # "", Handle(l)
  PROVE  /\ reply'.cmd = l.verb
         /\ reply'.code \notin {"", "accepted", "451", "552"}
         /\ reply'.code = "354" => pc' = "data" /\ body' = <<>>
         /\ reply'.code = "220" => pc' = "starttls"
         /\ reply'.code \notin {"354", "220"} => pc' \in {"loop", "closed"}
<1> DEFINE Good(cmd) ==
             /\ reply'.cmd = cmd
             /\ reply'.code \notin {"", "accepted", "451", "552"}
             /\ reply'.code = "354" => pc' = "data" /\ body' = <<>>
             /\ reply'.code = "220" => pc' = "starttls"
             /\ reply'.code \notin {"354", "220"} => pc' \in {"loop", "closed"}
<1>1. pc = "loop"
  BY Zenon DEF Handle
<1>2. Command(l) = l.verb
  BY CommandWord, Zenon
<1>3. ASSUME NEW cmd, NEW c \in {"250", "452", "454", "500", "501", "503"}, Refuse(cmd, c)
      PROVE  Good(cmd)
  BY <1>1, <1>3, Zenon DEF Refuse, write
<1>4. ASSUME NEW cmd, NEW c \in {"221", "250"}, write(cmd, c), pc' \in {"loop", "closed"}
      PROVE  Good(cmd)
  BY <1>4, Zenon DEF write
<1>5. ASSUME handleEHLO(l.arg) PROVE Good("EHLO")
  <2>1. (\E c \in {"501", "503"} : Refuse("EHLO", c)) \/ (write("EHLO", "250") /\ pc' = "loop")
    BY <1>1, <1>5, Zenon DEF handleEHLO, BadSequence
  <2> HIDE DEF Good
  <2> QED  BY <1>3, <1>4, <2>1, Zenon
<1>6. ASSUME handleSTARTTLS PROVE Good("STARTTLS")
  <2>1. \/ \E c \in {"503", "454"} : Refuse("STARTTLS", c)
        \/ write("STARTTLS", "220") /\ pc' = "starttls"
    BY <1>1, <1>6, Zenon DEF handleSTARTTLS
  <2>2. CASE write("STARTTLS", "220") /\ pc' = "starttls"
    BY <2>2, Zenon DEF write
  <2> HIDE DEF Good
  <2> QED  BY <1>3, <2>1, <2>2, Zenon
<1>7. ASSUME handleMAIL(l.arg) PROVE Good("MAIL")
  <2>1. (\E c \in {"501", "503"} : Refuse("MAIL", c)) \/ (write("MAIL", "250") /\ pc' = "loop")
    BY <1>1, <1>7, Zenon DEF handleMAIL, BadSequence
  <2> HIDE DEF Good
  <2> QED  BY <1>3, <1>4, <2>1, Zenon
<1>8. ASSUME handleRCPT(l.arg) PROVE Good("RCPT")
  <2>1. \/ \E c \in {"501", "452", "503"} : Refuse("RCPT", c)
        \/ write("RCPT", "250") /\ pc' = "loop"
    BY <1>1, <1>8, Zenon DEF handleRCPT, BadSequence
  <2> HIDE DEF Good
  <2> QED  BY <1>3, <1>4, <2>1, Zenon
<1>9. ASSUME handleDATA PROVE Good("DATA")
  <2>1. Refuse("DATA", "503") \/ (write("DATA", "354") /\ pc' = "data" /\ body' = <<>>)
    BY <1>9, Zenon DEF handleDATA, BadSequence
  <2>2. CASE write("DATA", "354") /\ pc' = "data" /\ body' = <<>>
    BY <2>2, Zenon DEF write
  <2> HIDE DEF Good
  <2> QED  BY <1>3, <2>1, <2>2, Zenon
<1>10. ASSUME handleRSET PROVE Good("RSET")
  <2>1. Refuse("RSET", "503") \/ (write("RSET", "250") /\ pc' = "loop")
    BY <1>1, <1>10, Zenon DEF handleRSET, BadSequence
  <2> HIDE DEF Good
  <2> QED  BY <1>3, <1>4, <2>1, Zenon
<1>11. ASSUME handleQUIT PROVE Good("QUIT")
  <2> HIDE DEF Good
  <2> QED  BY <1>4, <1>11, Zenon DEF handleQUIT
<1>12. Good(l.verb)
  <2> HIDE DEF Good
  <2>1. (Refuse("NOOP", "250") => Good("NOOP")) /\ (Refuse("other", "500") => Good("other"))
    BY <1>3, Zenon
  <2> QED  BY <1>2, <1>5, <1>6, <1>7, <1>8, <1>9, <1>10, <1>11, <2>1, Zenon DEF Handle
<1> QED  BY <1>12, Zenon

----------------------------------------------------------------------------
\* On the wire the session takes the steps of SmtpSession, with lines that need not
\* be commands; its invariant holds there too.
LEMMA WireSessionInv ==
  ASSUME IInv, WireTypeOK, [WireNext]_wireVars
  PROVE  IInv'
<1>1. CASE UNCHANGED vars
  BY <1>1, NextInv
<1>2. CASE LoopStep
  <2>1. Head(buf) \in Line
    BY <1>2, HeadTailFacts DEF LoopStep, WireTypeOK
  <2> QED  BY <1>2, <2>1, HandleInv DEF LoopStep
<1>3. CASE BodyStep
  <2>1. Head(dataBuf) \in Line
    BY <1>3, HeadTailFacts DEF BodyStep, WireTypeOK
  <2> QED
    BY <1>3, <2>1, DataLineInv, DataTooBigInv, DataEndInv DEF BodyStep, DataStep
<1>4. CASE BodyReadFails \/ NotUpgraded \/ LoopReadFails
  BY <1>4, ReturnInv DEF BodyReadFails, NotUpgraded, LoopReadFails
<1>5. CASE Delivered
  BY <1>5, DeliverOKInv, ReturnInv DEF Delivered
<1>6. CASE Upgraded
  BY <1>6, StartTLSDoneInv DEF Upgraded
<1>7. CASE ClientNext \/ ReadConn \/ ReadData
  <2>1. UNCHANGED vars
    BY <1>7, Zenon DEF ClientNext, ClientCommand, ClientText, ClientEnd, ClientReads, ReadConn, ReadData
  <2> QED  BY <2>1, NextInv
<1>8. CASE UNCHANGED wireVars
  BY <1>8, <1>1 DEF wireVars
<1> QED
  BY <1>2, <1>3, <1>4, <1>5, <1>6, <1>7, <1>8 DEF WireNext, ServerNext

\* What the session sends is a reply.
LEMMA SentType ==
  ASSUME WireTypeOK, IInv'
  PROVE  Sent \in Seq(Reply)
<1>1. reply' \in Reply /\ replies \in Seq(Reply)
  BY DEF IInv, TypeOK, Reply, WireTypeOK
<1> QED  BY <1>1, AppendFacts, Zenon DEF Sent

\* Type correctness is preserved.
LEMMA WireTypeInv ==
  ASSUME IInv, IInv', WireTypeOK, [WireNext]_wireVars
  PROVE  WireTypeOK'
<1>1. /\ client \in {"idle", "waiting", "body", "handshake"} /\ asked \in Verb \cup {"."}
      /\ text \in Seq(Text) /\ Len(text) <= MaxText
      /\ conn \in Seq(Line) /\ buf \in Seq(Line) /\ dataBuf \in Seq(Line)
      /\ (dataBuf # <<>> => pc = "data")
      /\ replies \in Seq(Reply) /\ gaveUp \in BOOLEAN
  BY DEF WireTypeOK
<1>2. CASE \E l \in Input : ClientCommand(l)
  <2>1. PICK l \in Input : ClientCommand(l)
    BY <1>2
  <2>2. l \in Line /\ l.verb \in Verb
    BY InputAssumption DEF Line
  <2>3. conn' \in Seq(Line)
    BY <1>1, <2>1, <2>2, AppendFacts, Zenon DEF ClientCommand
  <2> QED  BY <1>1, <2>1, <2>2, <2>3, Zenon DEF ClientCommand, WireTypeOK, vars
<1>3. CASE \E l \in Text : ClientText(l)
  <2>1. PICK l \in Text : ClientText(l)
    BY <1>3
  <2>2. Stuff(l) \in Line
    BY TextAssumption, StuffingRoundTrip
  <2>3. conn' \in Seq(Line)
    BY <1>1, <2>1, <2>2, AppendFacts DEF ClientText
  <2>4. text' \in Seq(Text) /\ Len(text') <= MaxText
    BY <1>1, <2>1, AppendFacts, TextAssumption DEF ClientText
  <2> QED  BY <1>1, <2>1, <2>3, <2>4 DEF ClientText, WireTypeOK, vars
<1>4. CASE ClientEnd
  <2>1. conn' \in Seq(Line)
    BY <1>1, <1>4, EndMarkerLine, AppendFacts DEF ClientEnd
  <2> QED  BY <1>1, <1>4, <2>1 DEF ClientEnd, WireTypeOK, vars
<1>5. CASE ClientReads
  <2>1. replies' \in Seq(Reply)
    BY <1>1, <1>5, HeadTailFacts, Zenon DEF ClientReads
  <2>2. text' \in Seq(Text) /\ Len(text') <= MaxText
    <3>1. <<>> \in Seq(Text) /\ Len(<<>>) <= MaxText
      BY TextAssumption
    <3> QED  BY <1>1, <1>5, <3>1, Zenon DEF ClientReads
  <2>3. client' \in {"idle", "waiting", "body", "handshake"} /\ asked' \in Verb
    BY <1>5, Zenon DEF ClientReads, Verb
  <2> QED  BY <1>1, <1>5, <2>1, <2>2, <2>3, Zenon DEF ClientReads, WireTypeOK, vars
<1>6. CASE ReadConn
  <2>1. buf' \in Seq(Line) /\ conn' \in Seq(Line)
    BY <1>1, <1>6, FillFacts DEF ReadConn
  <2> QED  BY <1>1, <1>6, <2>1 DEF ReadConn, WireTypeOK, vars, peer
<1>7. CASE ReadData
  <2>1. dataBuf' \in Seq(Line) /\ conn' \in Seq(Line)
    BY <1>1, <1>7, FillFacts DEF ReadData
  <2> QED  BY <1>1, <1>7, <2>1 DEF ReadData, WireTypeOK, vars, peer
<1>8. CASE LoopStep
  <2>1. buf' \in Seq(Line) /\ pc = "loop"
    BY <1>1, <1>8, HeadTailFacts, Zenon DEF LoopStep, Handle
  <2>2. replies' \in Seq(Reply)
    BY <1>8, SentType DEF LoopStep
  <2> QED  BY <1>1, <1>8, <2>1, <2>2 DEF LoopStep, WireTypeOK, peer
<1>9. CASE BodyStep
  <2>1. dataBuf' \in Seq(Line) /\ (dataBuf' # <<>> => pc' = "data")
    BY <1>1, <1>9, HeadTailFacts DEF BodyStep
  <2>2. replies' \in Seq(Reply)
    BY <1>9, SentType DEF BodyStep
  <2> QED  BY <1>1, <1>9, <2>1, <2>2 DEF BodyStep, WireTypeOK, peer
<1>10. CASE Delivered
  <2>1. replies' \in Seq(Reply)
    BY <1>10, SentType DEF Delivered
  <2>2. pc = "deliver"
    BY <1>10 DEF Delivered, DeliverOK, DeliverError
  <2> QED  BY <1>1, <1>10, <2>1, <2>2 DEF Delivered, WireTypeOK, peer
<1>11. CASE Upgraded \/ NotUpgraded
  <2>1. pc = "starttls" /\ buf' \in Seq(Line) /\ client' = "idle"
        /\ UNCHANGED <<asked, text, conn, dataBuf, replies, gaveUp>>
    BY <1>1, <1>11, Zenon DEF Upgraded, NotUpgraded, StartTLSDone, StartTLSFailed
  <2> QED  BY <1>1, <2>1 DEF WireTypeOK
<1>12. CASE BodyReadFails \/ LoopReadFails
  <2>1. /\ gaveUp' \in BOOLEAN /\ (pc = "loop" \/ dataBuf = <<>>)
        /\ UNCHANGED <<peer, conn, buf, dataBuf, replies>>
    BY <1>1, <1>12, Zenon DEF BodyReadFails, LoopReadFails, ReadError
  <2> QED  BY <1>1, <2>1 DEF WireTypeOK, peer
<1>13. CASE UNCHANGED wireVars
  BY <1>1, <1>13 DEF wireVars, WireTypeOK, vars, peer
<1> QED
  BY <1>2, <1>3, <1>4, <1>5, <1>6, <1>7, <1>8, <1>9, <1>10, <1>11, <1>12, <1>13
     DEF WireNext, ClientNext, ServerNext

----------------------------------------------------------------------------
\* A client without a request sends a command.
LEMMA ClientCommandStep ==
  ASSUME WireInv, NEW l \in Input, ClientCommand(l), ~gaveUp
  PROVE  Asking'
<1>1. Idle
  BY Zenon DEF WireInv, InStep, ClientCommand, Handshaking, Asking, Answered, Sending, Delivering
<1>2. l \in Line /\ l.dots = 0 /\ l.verb # "" /\ l.verb # "."
  BY InputAssumption, Zenon DEF ClientCommand, Line, Verb
<1>3. /\ conn' = Append(conn, l) /\ client' = "waiting" /\ asked' = l.verb
      /\ pc' = pc /\ buf' = buf /\ dataBuf' = dataBuf /\ replies' = replies
  BY Zenon DEF ClientCommand, vars
<1>4. Len(conn') = 1 /\ conn'[1] = l /\ Len(buf') = 0
  <2>1. conn = <<>> /\ buf = <<>>
    BY <1>1 DEF Idle, Quiet
  <2>2. \A m \in Line : Len(Append(<<>>, m)) = 1 /\ Append(<<>>, m)[1] = m
    OBVIOUS
  <2> QED  BY <1>2, <1>3, <2>1, <2>2, Zenon
<1>5. /\ \A i \in 1..Len(conn') : conn'[i].dots = 0 /\ conn'[i].verb = asked'
      /\ \A i \in 1..Len(buf') : buf'[i].dots = 0 /\ buf'[i].verb = asked'
  <2>1. \A i \in 1..Len(conn') : i = 1
    BY <1>4
  <2>2. \A i : i \notin 1..Len(buf')
    BY <1>4
  <2> QED  BY <1>2, <1>3, <1>4, <2>1, <2>2, Zenon
<1>6. Len(conn') + Len(buf') = 1
  BY <1>4
<1>7. asked' \notin {"", "."} /\ pc' \in {"loop", "closed"} /\ dataBuf' = <<>> /\ replies' = <<>>
  BY <1>1, <1>2, <1>3, Zenon DEF Idle, Quiet
<1> QED  BY <1>3, <1>5, <1>6, <1>7, Zenon DEF Asking

\* The client sends a line of its message, stuffed.
LEMMA ClientTextStep ==
  ASSUME WireInv, NEW l \in Text, ClientText(l), ~gaveUp
  PROVE  Sending'
<1>1. Sending /\ client = "body"
  BY DEF WireInv, InStep, ClientText, Idle, Handshaking, Asking, Answered, Delivering
<1>2. /\ text \in Seq(Text) /\ conn \in Seq(Line) /\ Stuff(l) \in Line
      /\ Len(text) \in Nat /\ Len(conn) \in Nat
      /\ Len(body) \in Nat /\ Len(dataBuf) \in Nat
  BY TextAssumption, StuffingRoundTrip DEF WireInv, WireTypeOK, IInv, TypeOK
<1>3. /\ conn' = Append(conn, Stuff(l)) /\ text' = Append(text, l)
      /\ client' = client /\ asked' = asked /\ pc' = pc /\ body' = body
      /\ buf' = buf /\ dataBuf' = dataBuf /\ replies' = replies
  BY DEF ClientText, vars
<1>4. /\ Len(text') = Len(text) + 1
      /\ \A i \in 1..(Len(text) + 1) : text'[i] = IF i = Len(text) + 1 THEN l ELSE text[i]
  BY <1>2, <1>3, AppendFacts
<1>5. /\ Len(conn') = Len(conn) + 1
      /\ \A i \in 1..(Len(conn) + 1) :
           conn'[i] = IF i = Len(conn) + 1 THEN Stuff(l) ELSE conn[i]
  BY <1>2, <1>3, AppendFacts
<1>6. Len(body) + Len(dataBuf) + Len(conn) = Len(text)
  BY <1>1, <1>2 DEF Sending, Flow
<1>7. \A k \in 1..Len(text) : Wired(text', k) = Wired(text, k)
  BY <1>2, <1>4 DEF Wired
<1>8. Wired(text', Len(text) + 1) = Stuff(l)
  BY <1>2, <1>4 DEF Wired
<1>9. ASSUME NEW i \in 1..Len(dataBuf) PROVE dataBuf[i] = Wired(text', Len(body) + i)
  <2>1. Len(body) + i \in 1..Len(text)
    BY <1>2, <1>6
  <2> QED  BY <1>1, <1>7, <2>1 DEF Sending, Flow
<1>10. ASSUME NEW i \in 1..Len(conn')
       PROVE  conn'[i] = Wired(text', Len(body) + Len(dataBuf) + i)
  <2>1. CASE i = Len(conn) + 1
    <3>1. Len(body) + Len(dataBuf) + i = Len(text) + 1
      BY <1>2, <1>6, <2>1
    <3> QED  BY <1>2, <1>5, <1>8, <2>1, <3>1
  <2>2. CASE i \in 1..Len(conn)
    <3>1. Len(body) + Len(dataBuf) + i \in 1..Len(text)
      BY <1>2, <1>6, <2>2
    <3>2. conn'[i] = conn[i]
      BY <1>2, <1>5, <2>2
    <3> QED  BY <1>1, <1>7, <2>2, <3>1, <3>2 DEF Sending, Flow
  <2> QED  BY <1>2, <1>5, <2>1, <2>2
<1>11. \A i \in 1..Len(body') : body'[i] = text'[i]
  BY <1>1, <1>2, <1>3, <1>4 DEF Sending, Flow
<1>12. /\ Len(body') + Len(dataBuf') + Len(conn') = Len(text') + IF client' = "body" THEN 0 ELSE 1
       /\ Len(body') <= Len(text')
  BY <1>1, <1>2, <1>3, <1>4, <1>5, <1>6
<1>13. Flow'
  BY <1>3, <1>9, <1>10, <1>11, <1>12, Zenon DEF Flow
<1> QED  BY <1>1, <1>3, <1>13 DEF Sending

\* The client ends its message.
LEMMA ClientEndStep ==
  ASSUME WireInv, ClientEnd, ~gaveUp
  PROVE  Sending'
<1>1. Sending /\ client = "body"
  BY DEF WireInv, InStep, ClientEnd, Idle, Handshaking, Asking, Answered, Delivering
<1>2. /\ conn \in Seq(Line) /\ EndMarker \in Line
      /\ Len(text) \in Nat /\ Len(conn) \in Nat
      /\ Len(body) \in Nat /\ Len(dataBuf) \in Nat
  BY EndMarkerLine DEF WireInv, WireTypeOK, IInv, TypeOK
<1>3. /\ conn' = Append(conn, EndMarker) /\ text' = text
      /\ client' = "waiting" /\ asked' = "." /\ pc' = pc /\ body' = body
      /\ buf' = buf /\ dataBuf' = dataBuf /\ replies' = replies
  BY DEF ClientEnd, vars
<1>4. /\ Len(conn') = Len(conn) + 1
      /\ \A i \in 1..(Len(conn) + 1) :
           conn'[i] = IF i = Len(conn) + 1 THEN EndMarker ELSE conn[i]
  BY <1>2, <1>3, AppendFacts
<1>5. Len(body) + Len(dataBuf) + Len(conn) = Len(text)
  BY <1>1, <1>2 DEF Sending, Flow
<1>6. Wired(text, Len(text) + 1) = EndMarker
  BY <1>2 DEF Wired
<1>7. ASSUME NEW i \in 1..Len(conn')
      PROVE  conn'[i] = Wired(text, Len(body) + Len(dataBuf) + i)
  <2>1. CASE i = Len(conn) + 1
    <3>1. Len(body) + Len(dataBuf) + i = Len(text) + 1
      BY <1>2, <1>5, <2>1
    <3> QED  BY <1>2, <1>4, <1>6, <2>1, <3>1
  <2>2. CASE i \in 1..Len(conn)
    <3>1. conn[i] = Wired(text, Len(body) + Len(dataBuf) + i)
      BY <1>1, <2>2, Zenon DEF Sending, Flow
    <3>2. conn'[i] = conn[i]
      BY <1>2, <1>4, <2>2
    <3> QED  BY <3>1, <3>2, Zenon
  <2> QED  BY <1>2, <1>4, <2>1, <2>2
<1>8. /\ Len(body') + Len(dataBuf') + Len(conn') = Len(text') + IF client' = "body" THEN 0 ELSE 1
      /\ Len(body') <= Len(text')
  BY <1>2, <1>3, <1>4, <1>5
<1>9. /\ \A i \in 1..Len(body') : body'[i] = text'[i]
      /\ \A i \in 1..Len(dataBuf') : dataBuf'[i] = Wired(text', Len(body') + i)
  BY <1>1, <1>3 DEF Sending, Flow
<1>10. Flow'
  BY <1>3, <1>7, <1>8, <1>9 DEF Flow
<1> QED  BY <1>1, <1>3, <1>10 DEF Sending

\* Types that the steps need.
LEMMA WireTypes ==
  ASSUME WireInv
  PROVE  /\ text \in Seq(Text) /\ text \in Seq(Line)
         /\ conn \in Seq(Line) /\ buf \in Seq(Line) /\ dataBuf \in Seq(Line)
         /\ body \in Seq(Line) /\ replies \in Seq(Reply)
         /\ Len(text) \in Nat /\ Len(conn) \in Nat /\ Len(buf) \in Nat
         /\ Len(dataBuf) \in Nat /\ Len(body) \in Nat
<1>1. text \in Seq(Text)
  BY DEF WireInv, WireTypeOK
<1>2. text \in Seq(Line)
  BY <1>1, TextAssumption
<1> QED  BY <1>1, <1>2 DEF WireInv, WireTypeOK, IInv, TypeOK

\* An empty sequence has length 0, and only it.
LEMMA EmptyIffLen == ASSUME NEW S, NEW s \in Seq(S) PROVE s = <<>> <=> Len(s) = 0
  OBVIOUS

\* The client reads the reply to what it asked: it goes on as the session expects.
LEMMA ClientReadsStep ==
  ASSUME WireInv, ClientReads, ~gaveUp
  PROVE  Idle' \/ Handshaking' \/ Sending'
<1>1. replies # <<>> /\ client = "waiting"
  BY Zenon DEF ClientReads
<1>2. Answered
  BY <1>1, Zenon DEF WireInv, InStep, Idle, Handshaking, Asking, Sending, Delivering
<1>3. /\ replies \in Seq(Reply) /\ Head(replies) = replies[1] /\ Len(replies) = 1
      /\ Tail(replies) \in Seq(Reply) /\ Len(Tail(replies)) = 0
  BY <1>1, <1>2, WireTypes, HeadTailFacts DEF Answered
<1>4. Tail(replies) = <<>>
  BY <1>3, EmptyIffLen, Zenon
<1>5. /\ replies' = <<>> /\ asked' = ""
      /\ pc' = pc /\ body' = body /\ conn' = conn /\ buf' = buf /\ dataBuf' = dataBuf
  BY <1>4, Zenon DEF ClientReads, vars
<1>6. Quiet /\ Quiet'
  BY <1>2, <1>5, Zenon DEF Answered, Quiet
<1>7. CASE replies[1].code = "354"
  <2>1. client' = "body" /\ text' = <<>> /\ pc = "data" /\ body = <<>>
    BY <1>2, <1>3, <1>7, Zenon DEF ClientReads, Answered
  <2>2. Len(<<>>) = 0 /\ \A i : i \notin 1..0
    OBVIOUS
  <2>3. /\ Len(body') = 0 /\ Len(dataBuf') = 0 /\ Len(conn') = 0 /\ Len(text') = 0
    BY <1>5, <1>6, <2>1, <2>2, Zenon DEF Quiet
  <2>4. Len(body') + Len(dataBuf') + Len(conn') = Len(text') + IF client' = "body" THEN 0 ELSE 1
    BY <2>1, <2>3
  <2>5. Flow'
    BY <2>2, <2>3, <2>4 DEF Flow
  <2> QED  BY <1>5, <1>6, <2>1, <2>5, Zenon DEF Sending, Quiet
<1>8. CASE replies[1].code = "220"
  <2>1. client' = "handshake" /\ pc = "starttls"
    BY <1>2, <1>3, <1>8, Zenon DEF ClientReads, Answered
  <2> QED  BY <1>5, <1>6, <2>1, Zenon DEF Handshaking
<1>9. CASE replies[1].code \notin {"354", "220"}
  <2>1. client' = "idle" /\ pc \in {"loop", "closed"}
    BY <1>2, <1>3, <1>9, Zenon DEF ClientReads, Answered
  <2> QED  BY <1>5, <1>6, <2>1, Zenon DEF Idle
<1> QED  BY <1>7, <1>8, <1>9

\* s.reader takes the command.
LEMMA ReadConnStep ==
  ASSUME WireInv, ReadConn, ~gaveUp
  PROVE  Asking'
<1>1. /\ pc = "loop" /\ buf = <<>> /\ Fill(buf', conn')
      /\ pc' = pc /\ client' = client /\ asked' = asked
      /\ dataBuf' = dataBuf /\ replies' = replies
  BY DEF ReadConn, vars, peer
<1>2. /\ Len(buf') \in Nat \ {0} /\ Len(conn') \in Nat /\ Len(conn) \in Nat
      /\ Len(buf') + Len(conn') = Len(conn)
      /\ \A i \in 1..Len(buf') : buf'[i] = conn[i]
      /\ \A i \in 1..Len(conn') : conn'[i] = conn[Len(buf') + i]
  BY <1>1, WireTypes, FillFacts
<1>3. Len(conn) # 0
  BY <1>2
<1>4. conn # <<>>
  BY <1>3, WireTypes, EmptyIffLen
<1>5. Asking
  BY <1>1, <1>4 DEF WireInv, InStep, Idle, Handshaking, Answered, Sending, Delivering, Quiet
<1>6. Len(buf) = 0
  BY <1>1
<1>7. Len(conn) = 1
  <2>1. Len(conn) + Len(buf) = 1 /\ Len(conn) \in Nat
    BY <1>5, WireTypes, Zenon DEF Asking
  <2> QED  BY <1>6, <2>1
<1>8. Len(buf') = 1 /\ Len(conn') = 0
  <2>1. Len(buf') \in Nat \ {0} /\ Len(conn') \in Nat /\ Len(buf') + Len(conn') = Len(conn)
    BY <1>2
  <2> QED  BY <1>7, <2>1
<1>9. conn[1].dots = 0 /\ conn[1].verb = asked
  <2>1. 1 \in 1..Len(conn)
    BY <1>7
  <2> QED  BY <1>5, <2>1, Zenon DEF Asking
<1>10. buf'[1] = conn[1]
  BY <1>2, <1>8
<1>11. (\A i \in 1..Len(buf') : i = 1) /\ (\A i : i \notin 1..Len(conn'))
  BY <1>8
<1>12. Len(conn') + Len(buf') = 1
  BY <1>8
<1> QED  BY <1>1, <1>5, <1>9, <1>10, <1>11, <1>12, Zenon DEF Asking

\* Handle answers the command.
LEMMA LoopStepStep ==
  ASSUME WireInv, LoopStep, ~gaveUp
  PROVE  Answered'
<1>1. /\ buf # <<>> /\ Handle(Head(buf)) /\ buf' = Tail(buf) /\ replies' = Sent
      /\ client' = client /\ asked' = asked /\ conn' = conn /\ dataBuf' = dataBuf
      /\ pc = "loop"
  BY Zenon DEF LoopStep, peer, Handle
<1>2. Asking
  BY <1>1 DEF WireInv, InStep, Idle, Handshaking, Answered, Sending, Delivering, Quiet
<1>3. /\ Head(buf) = buf[1] /\ Head(buf) \in Line /\ Tail(buf) \in Seq(Line)
      /\ Len(buf) \in Nat \ {0} /\ Len(Tail(buf)) = Len(buf) - 1
  BY <1>1, WireTypes, HeadTailFacts
<1>4. Len(buf) = 1 /\ Len(conn) = 0
  <2>1. Len(conn) + Len(buf) = 1 /\ Len(conn) \in Nat
    BY <1>2, WireTypes, Zenon DEF Asking
  <2>2. Len(buf) \in Nat \ {0}
    BY <1>3
  <2> QED  BY <2>1, <2>2
<1>5. conn = <<>> /\ Tail(buf) = <<>>
  <2>1. conn \in Seq(Line) /\ Len(conn) = 0 /\ Len(Tail(buf)) = 0
    BY <1>3, <1>4, WireTypes
  <2> QED  BY <1>3, <2>1, EmptyIffLen, Zenon
<1>6. Quiet'
  BY <1>1, <1>2, <1>5, Zenon DEF Quiet, Asking
<1>7. Head(buf).dots = 0 /\ Head(buf).verb = asked /\ asked # ""
  <2>1. 1 \in 1..Len(buf)
    BY <1>4
  <2> QED  BY <1>2, <1>3, <2>1, Zenon DEF Asking
<1>8. /\ reply'.cmd = asked
      /\ reply'.code \notin {"", "accepted", "451", "552"}
      /\ reply'.code = "354" => pc' = "data" /\ body' = <<>>
      /\ reply'.code = "220" => pc' = "starttls"
      /\ reply'.code \notin {"354", "220"} => pc' \in {"loop", "closed"}
  BY <1>1, <1>3, <1>7, HandleReply, Zenon DEF WireInv
<1>9. replies' = Append(<<>>, reply')
  BY <1>1, <1>2, <1>8, Zenon DEF Sent, Asking
<1>10. Len(replies') = 1 /\ replies'[1] = reply'
  BY <1>9
<1> QED  BY <1>1, <1>2, <1>6, <1>8, <1>10, Zenon DEF Answered, Asking

\* handleDATA's reader takes lines of the message.
LEMMA ReadDataStep ==
  ASSUME WireInv, ReadData, ~gaveUp
  PROVE  Sending'
<1>1. /\ pc = "data" /\ dataBuf = <<>> /\ Fill(dataBuf', conn')
      /\ pc' = pc /\ body' = body /\ client' = client /\ asked' = asked /\ text' = text
      /\ buf' = buf /\ replies' = replies
  BY DEF ReadData, vars, peer
<1>2. /\ Len(dataBuf') \in Nat \ {0} /\ Len(conn') \in Nat /\ Len(conn) \in Nat
      /\ Len(dataBuf') + Len(conn') = Len(conn)
      /\ \A i \in 1..Len(dataBuf') : dataBuf'[i] = conn[i]
      /\ \A i \in 1..Len(conn') : conn'[i] = conn[Len(dataBuf') + i]
  BY <1>1, WireTypes, FillFacts
<1>3. Len(conn) # 0
  BY <1>2
<1>4. conn # <<>>
  BY <1>3, WireTypes, EmptyIffLen
<1>5. Sending
  BY <1>1, <1>4 DEF WireInv, InStep, Idle, Handshaking, Asking, Answered, Delivering, Quiet
<1>6. Len(dataBuf) = 0 /\ Len(body) \in Nat /\ Len(text) \in Nat
  BY <1>1, WireTypes
<1>7. ASSUME NEW i \in 1..Len(conn) PROVE conn[i] = Wired(text, Len(body) + i)
  <2>1. Len(body) + Len(dataBuf) + i = Len(body) + i
    BY <1>6
  <2>2. conn[i] = Wired(text, Len(body) + Len(dataBuf) + i)
    BY <1>5 DEF Sending, Flow
  <2> QED  BY <2>1, <2>2
<1>8. ASSUME NEW i \in 1..Len(dataBuf') PROVE dataBuf'[i] = Wired(text, Len(body) + i)
  <2>1. i \in 1..Len(conn)
    BY <1>2
  <2> QED  BY <1>2, <1>7, <2>1
<1>9. ASSUME NEW i \in 1..Len(conn')
      PROVE  conn'[i] = Wired(text, Len(body) + Len(dataBuf') + i)
  <2>1. Len(dataBuf') + i \in 1..Len(conn)
    BY <1>2
  <2>2. Len(body) + (Len(dataBuf') + i) = Len(body) + Len(dataBuf') + i
    BY <1>2, <1>6
  <2>3. conn[Len(dataBuf') + i] = Wired(text, Len(body) + (Len(dataBuf') + i))
    BY <1>7, <2>1
  <2> QED  BY <1>2, <2>2, <2>3
<1>10. Len(body') + Len(dataBuf') + Len(conn') = Len(text') + IF client' = "body" THEN 0 ELSE 1
  <2>1. Len(body) + Len(dataBuf) + Len(conn) = Len(text) + IF client = "body" THEN 0 ELSE 1
    BY <1>5 DEF Sending, Flow
  <2>2. Len(body) + Len(dataBuf') + Len(conn') = Len(body) + Len(dataBuf) + Len(conn)
    <3>1. Len(dataBuf') \in Nat /\ Len(conn') \in Nat /\ Len(dataBuf') + Len(conn') = Len(conn)
      BY <1>2
    <3> QED  BY <1>6, <3>1
  <2> QED  BY <1>1, <2>1, <2>2
<1>11. Len(body') <= Len(text') /\ \A i \in 1..Len(body') : body'[i] = text'[i]
  BY <1>1, <1>5 DEF Sending, Flow
<1>12. Flow'
  BY <1>1, <1>8, <1>9, <1>10, <1>11 DEF Flow
<1> QED  BY <1>1, <1>5, <1>12 DEF Sending

\* What handleDATA reads next is the next line of the message or, when it has them
\* all, the end marker, with nothing behind it.
LEMMA NextBodyLine ==
  ASSUME WireInv, ~gaveUp, dataBuf # <<>>
  PROVE  /\ Sending /\ Head(dataBuf) \in Line
         /\ ~EndOfData(Head(dataBuf)) =>
              /\ Len(body) + 1 <= Len(text)
              /\ Unstuff(Head(dataBuf)) = text[Len(body) + 1]
         /\ EndOfData(Head(dataBuf)) =>
              /\ client # "body" /\ body = text /\ Len(dataBuf) = 1 /\ conn = <<>>
<1>1. Sending
  BY Zenon DEF WireInv, InStep, Idle, Handshaking, Asking, Answered, Delivering, Quiet
<1>2. /\ Head(dataBuf) = dataBuf[1] /\ Head(dataBuf) \in Line /\ Len(dataBuf) \in Nat \ {0}
  BY WireTypes, HeadTailFacts
<1>3. /\ Len(body) \in Nat /\ Len(text) \in Nat /\ Len(conn) \in Nat /\ Len(body) <= Len(text)
      /\ Len(body) + Len(dataBuf) + Len(conn) = Len(text) + IF client = "body" THEN 0 ELSE 1
  BY <1>1, WireTypes DEF Sending, Flow
<1>4. Head(dataBuf) = Wired(text, Len(body) + 1)
  <2>1. 1 \in 1..Len(dataBuf)
    BY <1>2
  <2> QED  BY <1>1, <1>2, <2>1 DEF Sending, Flow
<1>5. CASE Len(body) + 1 <= Len(text)
  <2>1. text[Len(body) + 1] \in Line
    BY <1>3, <1>5, WireTypes
  <2>2. Head(dataBuf) = Stuff(text[Len(body) + 1])
    BY <1>4, <1>5 DEF Wired
  <2> QED  BY <1>1, <1>2, <1>5, <2>1, <2>2, StuffingRoundTrip
<1>6. CASE ~(Len(body) + 1 <= Len(text))
  <2>1. Head(dataBuf) = EndMarker
    BY <1>4, <1>6 DEF Wired
  <2>2. Len(body) = Len(text)
    BY <1>3, <1>6
  <2>3. client # "body" /\ Len(dataBuf) = 1 /\ Len(conn) = 0
    <3>1. CASE client = "body"
      <4>1. Len(body) + Len(dataBuf) + Len(conn) = Len(body)
        BY <1>3, <2>2, <3>1
      <4> QED  BY <1>2, <1>3, <4>1
    <3>2. CASE client # "body"
      <4>1. Len(body) + Len(dataBuf) + Len(conn) = Len(body) + 1
        BY <1>3, <2>2, <3>2
      <4>2. \A b, d, c \in Nat : b + d + c = b + 1 /\ d # 0 => d = 1 /\ c = 0
        OBVIOUS
      <4> QED  BY <1>2, <1>3, <3>2, <4>1, <4>2, Zenon
    <3> QED  BY <3>1, <3>2
  <2>4. body = text
    <3>1. \A i \in 1..Len(body) : body[i] = text[i]
      BY <1>1 DEF Sending, Flow
    <3> QED  BY <2>2, <3>1, WireTypes, SameLines, Zenon
  <2>5. conn = <<>>
    BY <2>3, WireTypes, EmptyIffLen
  <2> QED  BY <1>1, <1>2, <2>1, <2>3, <2>4, <2>5, EndMarkerLine
<1> QED  BY <1>5, <1>6

\* Unless it gives up with 552, handleDATA takes a line or comes to the end marker.
LEMMA BodyStepCases ==
  ASSUME BodyStep, ~gaveUp'
  PROVE  DataLine(Head(dataBuf)) \/ DataEnd(Head(dataBuf))
<1>1. reply'.code # "552"
  <2>1. gaveUp' <=> gaveUp \/ reply'.code = "552"
    BY Zenon DEF BodyStep
  <2> QED  BY <2>1
<1>2. ASSUME DataTooBig(Head(dataBuf)) PROVE FALSE
  BY <1>1, <1>2 DEF DataTooBig, write
<1> QED  BY <1>2 DEF BodyStep, DataStep

\* A line moves from handleDATA's reader into the body.
LEMMA BodyLineStep ==
  ASSUME WireInv, ~gaveUp, BodyStep, DataLine(Head(dataBuf))
  PROVE  Sending'
<1>1. /\ dataBuf # <<>> /\ pc = "data" /\ pc' = pc /\ ~EndOfData(Head(dataBuf))
      /\ body' = Append(body, Unstuff(Head(dataBuf))) /\ reply'.code = ""
      /\ dataBuf' = Tail(dataBuf) /\ replies' = replies
      /\ client' = client /\ asked' = asked /\ text' = text /\ conn' = conn /\ buf' = buf
  BY Zenon DEF BodyStep, DataLine, write, Sent, peer
<1>2. /\ Sending /\ Len(body) + 1 <= Len(text)
      /\ Unstuff(Head(dataBuf)) = text[Len(body) + 1]
  BY <1>1, NextBodyLine, Zenon
<1>3. /\ Len(body) \in Nat /\ Len(text) \in Nat /\ Len(conn) \in Nat
      /\ Len(body) + Len(dataBuf) + Len(conn) = Len(text) + IF client = "body" THEN 0 ELSE 1
  BY <1>2, WireTypes DEF Sending, Flow
<1>4. text[Len(body) + 1] \in Line
  BY <1>2, <1>3, WireTypes
<1>5. /\ Len(body') = Len(body) + 1
      /\ \A i \in 1..(Len(body) + 1) :
           body'[i] = IF i = Len(body) + 1 THEN text[Len(body) + 1] ELSE body[i]
  <2> DEFINE x == text[Len(body) + 1]
  <2>1. x \in Line /\ body' = Append(body, x) /\ body \in Seq(Line)
    BY <1>1, <1>2, <1>4, WireTypes, Zenon
  <2> HIDE DEF x
  <2>2. /\ Len(body') = Len(body) + 1
        /\ \A i \in 1..(Len(body) + 1) : body'[i] = IF i = Len(body) + 1 THEN x ELSE body[i]
    BY <2>1, AppendFacts
  <2> QED  BY <2>2 DEF x
<1>6. /\ Len(dataBuf) \in Nat \ {0} /\ Len(dataBuf') = Len(dataBuf) - 1
      /\ \A i \in 1..(Len(dataBuf) - 1) : dataBuf'[i] = dataBuf[i + 1]
  BY <1>1, WireTypes, HeadTailFacts, Zenon
<1>7. ASSUME NEW i \in 1..Len(body') PROVE body'[i] = text[i]
  <2>1. CASE i = Len(body) + 1
    BY <1>3, <1>5, <2>1
  <2>2. CASE i \in 1..Len(body)
    <3>1. body'[i] = body[i]
      BY <1>3, <1>5, <2>2
    <3> QED  BY <1>2, <2>2, <3>1 DEF Sending, Flow
  <2> QED  BY <1>3, <1>5, <2>1, <2>2
<1>8. ASSUME NEW i \in 1..Len(dataBuf') PROVE dataBuf'[i] = Wired(text, Len(body') + i)
  <2>1. i + 1 \in 1..Len(dataBuf) /\ i \in 1..(Len(dataBuf) - 1)
    BY <1>6
  <2>2. Len(body') + i = Len(body) + (i + 1)
    BY <1>3, <1>5, <1>6
  <2>3. dataBuf[i + 1] = Wired(text, Len(body) + (i + 1))
    BY <1>2, <2>1 DEF Sending, Flow
  <2> QED  BY <1>6, <2>1, <2>2, <2>3
<1>9. Len(body') + Len(dataBuf') = Len(body) + Len(dataBuf)
  <2>1. Len(body') = Len(body) + 1 /\ Len(dataBuf') = Len(dataBuf) - 1 /\ Len(dataBuf) \in Nat \ {0}
    BY <1>5, <1>6
  <2> QED  BY <1>3, <2>1
<1>10. \A i \in 1..Len(conn') : conn'[i] = Wired(text', Len(body') + Len(dataBuf') + i)
  BY <1>1, <1>2, <1>9, Zenon DEF Sending, Flow
<1>11. /\ Len(body') + Len(dataBuf') + Len(conn') = Len(text') + IF client' = "body" THEN 0 ELSE 1
       /\ Len(body') <= Len(text')
  BY <1>1, <1>2, <1>3, <1>5, <1>9, Zenon
<1>12. Flow'
  BY <1>1, <1>7, <1>8, <1>10, <1>11, Zenon DEF Flow
<1> QED  BY <1>1, <1>2, <1>12, Zenon DEF Sending

\* The end marker: Deliver is called with the message.
LEMMA BodyEndStep ==
  ASSUME WireInv, ~gaveUp, BodyStep, DataEnd(Head(dataBuf))
  PROVE  Delivering' /\ Len(dataBuf) = 1
<1>1. /\ dataBuf # <<>> /\ EndOfData(Head(dataBuf)) /\ pc' = "deliver"
      /\ event'.Body = body /\ dataBuf' = <<>> /\ replies' = replies
      /\ client' = client /\ asked' = asked /\ text' = text /\ conn' = conn /\ buf' = buf
  BY Zenon DEF BodyStep, DataEnd, write, Sent, peer
<1>2. Sending /\ client # "body" /\ body = text /\ Len(dataBuf) = 1 /\ conn = <<>>
  BY <1>1, NextBodyLine
<1> QED  BY <1>1, <1>2 DEF Sending, Delivering, Quiet

\* The verdict on the message.
LEMMA DeliveredStep ==
  ASSUME WireInv, ~gaveUp, Delivered
  PROVE  Answered'
<1>1. /\ pc = "deliver" /\ pc' = "loop" /\ reply'.code \in {"accepted", "451"} /\ replies' = Sent
      /\ client' = client /\ asked' = asked /\ conn' = conn /\ buf' = buf /\ dataBuf' = dataBuf
  BY DEF Delivered, DeliverOK, DeliverError, write, peer
<1>2. Delivering
  BY <1>1 DEF WireInv, InStep, Idle, Handshaking, Asking, Answered, Sending
<1>3. replies' = Append(<<>>, reply')
  BY <1>1, <1>2, Zenon DEF Sent, Delivering
<1>4. Len(replies') = 1 /\ replies'[1] = reply'
  BY <1>3
<1> QED  BY <1>1, <1>2, <1>4 DEF Delivering, Answered, Quiet

\* The handshake is over.
LEMMA UpgradeStep ==
  ASSUME WireInv, ~gaveUp, Upgraded \/ NotUpgraded
  PROVE  Idle' /\ buf = <<>>
<1>1. /\ client = "handshake" /\ client' = "idle" /\ pc' = "loop" /\ buf' \in {<<>>, buf}
      /\ conn' = conn /\ dataBuf' = dataBuf /\ replies' = replies
  BY Zenon DEF Upgraded, NotUpgraded, StartTLSDone, StartTLSFailed
<1>2. Handshaking
  BY <1>1 DEF WireInv, InStep, Idle, Asking, Answered, Sending, Delivering
<1> QED  BY <1>1, <1>2 DEF Handshaking, Idle, Quiet

\* The read of the loop fails: nothing else changes.
LEMMA LoopReadFailsStep ==
  ASSUME WireInv, ~gaveUp, LoopReadFails
  PROVE  Idle' \/ Asking' \/ Answered'
<1>1. /\ pc = "loop" /\ pc' = "closed" /\ body' = body
      /\ UNCHANGED <<client, asked, text, conn, buf, dataBuf, replies>>
  BY Zenon DEF LoopReadFails, ReadError, peer
<1>2. Idle \/ Asking \/ Answered
  BY <1>1 DEF WireInv, InStep, Handshaking, Sending, Delivering
<1>3. CASE Idle
  BY <1>1, <1>3 DEF Idle, Quiet
<1>4. CASE Asking
  BY <1>1, <1>4, ZenonT(60) DEF Asking
<1>5. CASE Answered
  BY <1>1, <1>5 DEF Answered, Quiet
<1> QED  BY <1>2, <1>3, <1>4, <1>5

\* Nothing happens.
LEMMA StutterStep ==
  ASSUME InStep, UNCHANGED wireVars
  PROVE  InStep'
<1>1. UNCHANGED <<pc, body, event, client, asked, text, conn, buf, dataBuf, replies, gaveUp>>
  BY ZenonT(60) DEF wireVars, vars, peer
<1>2. /\ Idle' = Idle /\ Handshaking' = Handshaking /\ Asking' = Asking /\ Answered' = Answered
      /\ Sending' = Sending /\ Delivering' = Delivering
  BY <1>1 DEF Idle, Handshaking, Asking, Answered, Sending, Delivering, Quiet, Flow
<1> QED  BY <1>1, <1>2 DEF InStep

\* Client and server stay in step.
LEMMA InStepInv ==
  ASSUME WireInv, [WireNext]_wireVars
  PROVE  InStep'
<1>1. CASE gaveUp'
  BY <1>1 DEF InStep
<1>2. CASE ~gaveUp'
  <2>1. CASE UNCHANGED wireVars
    BY <2>1, StutterStep DEF WireInv
  <2>2. CASE WireNext
    <3>1. ~gaveUp
      BY <1>2, <2>2, ZenonT(60) DEF WireNext, ClientNext, ServerNext, ClientCommand, ClientText, ClientEnd,
         ClientReads, ReadConn, LoopStep, ReadData, BodyStep, BodyReadFails, Delivered, Upgraded,
         NotUpgraded, LoopReadFails
    <3>2. CASE ClientNext
      BY <2>2, <3>1, <3>2, ClientCommandStep, ClientTextStep, ClientEndStep, ClientReadsStep
         DEF ClientNext, InStep
    <3>3. CASE ReadConn \/ LoopStep \/ ReadData \/ Delivered
      BY <3>1, <3>3, ReadConnStep, LoopStepStep, ReadDataStep, DeliveredStep DEF InStep
    <3>4. CASE BodyStep
      <4>1. DataLine(Head(dataBuf)) \/ DataEnd(Head(dataBuf))
        BY <1>2, <3>4, BodyStepCases
      <4> QED  BY <3>1, <3>4, <4>1, BodyLineStep, BodyEndStep DEF InStep
    <3>5. CASE BodyReadFails
      BY <1>2, <3>5 DEF BodyReadFails
    <3>6. CASE Upgraded \/ NotUpgraded \/ LoopReadFails
      BY <3>1, <3>6, UpgradeStep, LoopReadFailsStep DEF InStep
    <3> QED  BY <2>2, <3>2, <3>3, <3>4, <3>5, <3>6 DEF WireNext, ServerNext
  <2> QED  BY <2>1, <2>2
<1> QED  BY <1>1, <1>2

\* A connection that has just been accepted.
LEMMA WireInitInv == WireInit => WireInv
<1> SUFFICES ASSUME WireInit PROVE WireInv
  OBVIOUS
<1>1. IInv
  BY InitInv, Zenon DEF WireInit
<1>2. WireTypeOK
  <2>1. <<>> \in Seq(Text) /\ <<>> \in Seq(Line) /\ <<>> \in Seq(Reply) /\ Len(<<>>) <= MaxText
    BY TextAssumption
  <2> QED  BY <2>1, Zenon DEF WireInit, WireTypeOK, Verb
<1>3. InStep
  BY Zenon DEF WireInit, Init, InStep, Idle, Quiet
<1> QED  BY <1>1, <1>2, <1>3 DEF WireInv

\* Every step preserves the invariant.
LEMMA WireNextInv == WireInv /\ [WireNext]_wireVars => WireInv'
<1> SUFFICES ASSUME WireInv, [WireNext]_wireVars PROVE WireInv'
  OBVIOUS
<1>1. IInv'
  BY WireSessionInv DEF WireInv
<1>2. WireTypeOK'
  BY <1>1, WireTypeInv DEF WireInv
<1>3. InStep'
  BY InStepInv
<1> QED  BY <1>1, <1>2, <1>3 DEF WireInv

----------------------------------------------------------------------------
\* The inductive invariant holds in every reachable state of a connection.
THEOREM WireInvariance == WireSpec => []WireInv
<1> QED  BY WireInitInv, WireNextInv, PTL DEF WireSpec

\* Type correctness of the two ends and of what lies between them.
THEOREM WireTypeCorrect == WireSpec => []WireTypeOK
<1>1. WireInv => WireTypeOK
  BY DEF WireInv
<1> QED  BY <1>1, WireInvariance, PTL

\* Deliver is given the message that the client composed.
THEOREM BodiesAreIntact == WireSpec => []BodyIntact
<1>1. WireInv => BodyIntact
  BY DEF WireInv, InStep, Idle, Handshaking, Asking, Answered, Sending, Delivering, BodyIntact
<1> QED  BY <1>1, WireInvariance, PTL

\* The reply that the client reads answers its last command.
THEOREM RepliesAnswerCommands == WireSpec => []RepliesMatch
<1>1. ASSUME WireInv PROVE RepliesMatch
  <2> SUFFICES ASSUME replies # <<>>, ~gaveUp
               PROVE  /\ client = "waiting" /\ Len(replies) = 1
                      /\ IF Head(replies).code \in {"accepted", "451"}
                         THEN asked = "."
                         ELSE asked = Head(replies).cmd
    BY DEF RepliesMatch
  <2>1. Answered
    BY <1>1, Zenon DEF WireInv, InStep, Idle, Handshaking, Asking, Sending, Delivering
  <2>2. Head(replies) = replies[1]
    BY <1>1, WireTypes, HeadTailFacts
  <2> QED  BY <2>1, <2>2 DEF Answered
<1> QED  BY <1>1, WireInvariance, PTL

\* What Deliver is given over a connection has a sender and a recipient, whatever the
\* client sends as lines of a message that the session reads as commands.
THEOREM WireEventsAreDeliverable == WireSpec => []DeliverableEvent
<1>1. WireInv => DeliverableEvent
  BY SessionPromises, Zenon DEF WireInv
<1> QED  BY <1>1, WireInvariance, PTL

\* The session's other promises hold over a connection too: every recipient acknowledged
\* since MAIL is in the event, nothing that came before the handshake of
\* STARTTLS is delivered after it, and the next MAIL is taken, in whatever portions the
\* two readers take the lines from the connection.
THEOREM WireKeepsSession ==
  WireSpec => [](AcknowledgedAreDelivered /\ NothingCrossesTLS /\ ReadyForNext)
<1>1. WireInv => AcknowledgedAreDelivered /\ NothingCrossesTLS /\ ReadyForNext
  BY SessionPromises, Zenon DEF WireInv
<1> QED  BY <1>1, WireInvariance, PTL

\* No reader is dropped with a line in it.
THEOREM NoLineIsDropped == WireSpec => NothingDropped
<1> DEFINE A == ~gaveUp' => Len(buf') >= Len(buf) - 1 /\ Len(dataBuf') >= Len(dataBuf) - 1
<1>1. ASSUME WireInv, [WireNext]_wireVars PROVE [A]_wireVars
  <2> SUFFICES ASSUME ~gaveUp' , WireNext
               PROVE  Len(buf') >= Len(buf) - 1 /\ Len(dataBuf') >= Len(dataBuf) - 1
    BY <1>1
  <2>1. ~gaveUp
    BY Zenon DEF WireNext, ClientNext, ServerNext, ClientCommand, ClientText, ClientEnd,
       ClientReads, ReadConn, LoopStep, ReadData, BodyStep, BodyReadFails, Delivered, Upgraded,
       NotUpgraded, LoopReadFails
  <2>2. Len(buf) \in Nat /\ Len(dataBuf) \in Nat
    BY <1>1, WireTypes
  <2>3. Len(buf') >= Len(buf) - 1
    <3>1. CASE buf' = buf
      BY <2>2, <3>1
    <3>2. CASE ReadConn
      <4>1. Len(buf) = 0 /\ Len(buf') \in Nat
        BY <1>1, <3>2, WireTypes, FillFacts DEF ReadConn
      <4> QED  BY <4>1
    <3>3. CASE LoopStep
      <4>1. Len(buf') = Len(buf) - 1
        BY <1>1, <3>3, WireTypes, HeadTailFacts DEF LoopStep
      <4> QED  BY <2>2, <4>1
    <3>4. CASE Upgraded
      BY <1>1, <2>1, <3>1, <3>4, UpgradeStep DEF Upgraded
    <3> QED
      BY <3>1, <3>2, <3>3, <3>4, Zenon DEF WireNext, ClientNext, ServerNext, ClientCommand, ClientText,
         ClientEnd, ClientReads, ReadData, BodyStep, BodyReadFails, Delivered, NotUpgraded,
         LoopReadFails
  <2>4. Len(dataBuf') >= Len(dataBuf) - 1
    <3>1. CASE dataBuf' = dataBuf
      BY <2>2, <3>1
    <3>2. CASE ReadData
      <4>1. Len(dataBuf) = 0 /\ Len(dataBuf') \in Nat
        BY <1>1, <3>2, WireTypes, FillFacts DEF ReadData
      <4> QED  BY <4>1
    <3>3. CASE BodyStep
      <4>1. DataLine(Head(dataBuf)) \/ DataEnd(Head(dataBuf))
        BY <3>3, BodyStepCases
      <4>2. CASE DataLine(Head(dataBuf))
        <5>1. dataBuf # <<>> /\ dataBuf' = Tail(dataBuf)
          BY <3>3, <4>2, Zenon DEF BodyStep, DataLine
        <5>2. Len(dataBuf') = Len(dataBuf) - 1
          BY <1>1, <5>1, WireTypes, HeadTailFacts
        <5> QED  BY <2>2, <5>2
      <4>3. CASE DataEnd(Head(dataBuf))
        <5>1. Len(dataBuf) = 1 /\ dataBuf' = <<>>
          BY <1>1, <2>1, <3>3, <4>3, BodyEndStep, Zenon DEF BodyStep, DataEnd
        <5> QED  BY <5>1
      <4> QED  BY <4>1, <4>2, <4>3
    <3> QED
      BY <3>1, <3>2, <3>3, Zenon DEF WireNext, ClientNext, ServerNext, ClientCommand, ClientText,
         ClientEnd, ClientReads, ReadConn, LoopStep, BodyReadFails, Delivered, Upgraded,
         NotUpgraded, LoopReadFails
  <2> QED  BY <2>3, <2>4
<1> QED  BY <1>1, WireInvariance, PTL DEF WireSpec, NothingDropped

----------------------------------------------------------------------------
\* A session that may be sent any line.
Any == INSTANCE SmtpSession WITH Input <- Line

\* The steps of a session do not depend on which lines it may be sent.
LEMMA SameSession ==
  /\ Init => Any!Init
  /\ \A l : Handle(l) => Any!Handle(l)
  /\ \A l : DataStep(l) => Any!DataStep(l)
  /\ DataReadError \/ DeliverOK \/ DeliverError \/ StartTLSDone \/ StartTLSFailed \/ ReadError
       => Any!Next
<1> USE DEF FsmAccepts, Any!FsmAccepts, newSMTPFSM, Any!newSMTPFSM, Reset, Any!Reset, write,
            Any!write, transition, Any!transition, NoEvent, Any!NoEvent
<1>1. Init => Any!Init
  BY Zenon DEF Init, Any!Init
<1>2. \A l : Handle(l) => Any!Handle(l)
  BY ZenonT(60)
  DEF Handle, Any!Handle, Command, Any!Command, handleEHLO, Any!handleEHLO, handleMAIL,
      Any!handleMAIL, handleRCPT, Any!handleRCPT, handleRSET, Any!handleRSET, handleQUIT,
      Any!handleQUIT, handleSTARTTLS, Any!handleSTARTTLS, handleDATA, Any!handleDATA, Refuse,
      Any!Refuse, BadSequence, Any!BadSequence, transitionRcptTo, Any!transitionRcptTo,
      TooManyRecipients, Any!TooManyRecipients, AddRecipient, Any!AddRecipient
<1>3. \A l : DataStep(l) => Any!DataStep(l)
  BY ZenonT(60)
  DEF DataStep, Any!DataStep, DataLine, Any!DataLine, DataTooBig, Any!DataTooBig, DataEnd,
      Any!DataEnd, EndOfData, Any!EndOfData, Unstuff, Any!Unstuff
<1>4. DataReadError \/ DeliverOK \/ DeliverError \/ StartTLSDone \/ StartTLSFailed \/ ReadError
        => Any!Next
  BY ZenonT(60)
  DEF Any!Next, DataReadError, Any!DataReadError, DeliverOK, Any!DeliverOK, DeliverError,
      Any!DeliverError, StartTLSDone, Any!StartTLSDone, StartTLSFailed, Any!StartTLSFailed,
      ReadError, Any!ReadError
<1> QED  BY <1>1, <1>2, <1>3, <1>4, Zenon

\* Over the connection, with its two readers and its client, the session does nothing that
\* SmtpSession does not allow it for some input.
THEOREM WireImplementsSession == WireSpec => Any!Spec
<1>1. WireInit => Any!Init
  BY SameSession, Zenon DEF WireInit
<1>2. ASSUME WireInv, [WireNext]_wireVars PROVE [Any!Next]_(Any!vars)
  <2> SUFFICES Any!Next \/ UNCHANGED vars
    BY Zenon DEF vars, Any!vars
  <2>1. CASE LoopStep
    <3>1. Head(buf) \in Line /\ Handle(Head(buf))
      BY <1>2, <2>1, WireTypes, HeadTailFacts DEF LoopStep
    <3> QED  BY <3>1, SameSession, Zenon DEF Any!Next
  <2>2. CASE BodyStep
    <3>1. Head(dataBuf) \in Line /\ DataStep(Head(dataBuf))
      BY <1>2, <2>2, WireTypes, HeadTailFacts DEF BodyStep
    <3> QED  BY <3>1, SameSession, Zenon DEF Any!Next
  <2>3. CASE BodyReadFails \/ Delivered \/ Upgraded \/ NotUpgraded \/ LoopReadFails
    BY <2>3, SameSession, Zenon DEF BodyReadFails, Delivered, Upgraded, NotUpgraded, LoopReadFails
  <2>4. CASE ClientNext \/ ReadConn \/ ReadData \/ UNCHANGED wireVars
    BY <2>4, Zenon DEF ClientNext, ClientCommand, ClientText, ClientEnd, ClientReads, ReadConn,
                       ReadData, wireVars
  <2> QED  BY <1>2, <2>1, <2>2, <2>3, <2>4, Zenon DEF WireNext, ServerNext
<1> QED  BY <1>1, <1>2, WireInvariance, PTL DEF WireSpec, Any!Spec
============================================================================
