----------------------------- MODULE MailSystem -----------------------------
(***************************************************************************)
(* The SMTP server process with one session and the store: SmtpSession,    *)
(* MessageStore and Lifecycle composed, with the parsers between them.     *)
(*                                                                         *)
(* The session runs on a connection that acceptLoop has accepted; the end  *)
(* of handleDATA calls Deliver; deliveries of other sessions compete for   *)
(* the connection pool and the mailbox rows.  A statement may fail by      *)
(* itself, and on a signal main closes Redis and MySQL under the sessions  *)
(* and exits; Deliver returns nil all the same.                            *)
(***************************************************************************)
EXTENDS Parsers, FiniteSets

CONSTANTS
  Addr, NoAddr, MaxRcpt, MaxSize, Input,           \* of SmtpSession
  Delivery, Mailbox, NoMailbox, NoDelivery,        \* of MessageStore
  MaxConns, MaxUID,
  Conn,      \* of Lifecycle: the connection of the session
  Text,      \* lines of a message: content is not told apart here
  Mine,      \* the calls of Deliver that the session makes
  OtherTo,   \* recipients of the calls that other sessions make
  Names,     \* the <<local part, domain>> of the recipients that the client names
  Users      \* the INBOX of each known <<local part, domain>>

VARIABLES
  fsm, envelope, tls, spc, body, sevent, reply, tx, given,
  uidNext, rowLock, rows, nextID, conns, cache, dpc, devent, nth, inbox, uid, msgID,
  proto, cert, ctx, main, lst, loop, closer, work,
  cur        \* the call of Deliver that the session made last

\* History: the recipients, as the client means them, that the session has
\* acknowledged since the last MAIL, and altogether; the calls and mailboxes for
\* which a statement failed although MySQL was open.
VARIABLES meant, acked, failed

session == <<fsm, envelope, tls, spc, body, sevent, reply, tx, given>>
store == <<uidNext, rowLock, rows, nextID, conns, cache,
           dpc, devent, nth, inbox, uid, msgID>>
process == <<proto, cert, ctx, main, lst, loop, closer, work>>
history == <<meant, acked, failed>>
mail == <<session, store, process, cur, history>>

----------------------------------------------------------------------------
\* deliverTo up to the mailbox: parseAddress, FindDomain and FindUser, FindInboxByUserID.
InboxOf == [a \in Addr |->
  IF parseAddress(a) \in DOMAIN Users THEN Users[parseAddress(a)] ELSE NoMailbox]

Recipients == UNION {[1..n -> Addr] : n \in 1..MaxRcpt}

S == INSTANCE SmtpSession WITH pc <- spc, event <- sevent
M == INSTANCE MessageStore WITH pc <- dpc, event <- devent
L == INSTANCE Lifecycle

ASSUME SessionAssumption ==
  /\ NoAddr \notin Addr /\ MaxRcpt \in Nat \ {0} /\ MaxSize \in Nat
  /\ Input \subseteq S!Line /\ Text \subseteq S!Line
ASSUME StoreAssumption ==
  /\ NoMailbox \notin Mailbox /\ NoDelivery \notin Delivery /\ Mine \subseteq Delivery
  /\ MaxConns \in Nat \ {0} /\ MaxUID \in Nat \ {0}
ASSUME UsersAssumption == \A who \in DOMAIN Users : Users[who] \in Mailbox
ASSUME NamesAssumption ==
  \A who \in Names :
    /\ who \in Seq(STRING) \X Seq(STRING)
    /\ Mailable(who[1], who[2]) /\ Written(who[1], who[2]) \in Addr

MailInit ==
  /\ S!Init /\ tls = "none"
  /\ M!Init
  /\ L!LifeInit /\ proto = "tcp"
  /\ cur = NoDelivery
  /\ meant = {} /\ acked = {} /\ failed = {}

\* The goroutine of the session runs.
Serving == L!Alive /\ \A c \in Conn : work[c] = "running"

SessionReads ==
  /\ Serving
  /\ \/ \E l \in Input : l.verb # "RCPT" /\ S!Handle(l)
     \/ \E l \in Text : S!DataLine(l) \/ S!DataTooBig(l)
     \/ S!DataReadError
     \/ S!ReadError
  /\ meant' = IF reply' = [cmd |-> "MAIL", code |-> "250"] THEN {} ELSE meant
  /\ UNCHANGED <<store, process, cur, acked, failed>>

\* The client writes a recipient, in any way it can be written, after RCPT TO:.
ReadsRecipient ==
  /\ Serving
  /\ \E who \in Names : \E to \in Forms(who[1], who[2], 1) :
       /\ S!Handle([dots |-> 0, verb |-> "RCPT", arg |-> extractAddress(to)])
       /\ LET new == IF reply'.code = "250" THEN {who} ELSE {}
          IN  meant' = meant \cup new /\ acked' = acked \cup new
  /\ UNCHANGED <<store, process, cur, failed>>

\* Calls of Deliver differ in nothing but their name: the next one is any unused.
Unused == {d \in Mine : dpc[d] = "idle"}
CallDeliver ==
  /\ Serving /\ Unused # {}
  /\ \E l \in Input : S!DataEnd(l)
  /\ cur' = CHOOSE d \in Unused : TRUE
  /\ M!Deliver(cur') /\ devent'[cur'] = sevent'.To
  /\ UNCHANGED <<process, history>>

\* Mutant: handleDATA answers without waiting for Deliver.
Answered_AtOnce ==
  /\ Serving
  /\ S!DeliverOK
  /\ UNCHANGED <<store, process, cur, history>>

\* Deliver has returned nil, as it always does.
Answered ==
  /\ Serving /\ spc = "deliver" /\ dpc[cur] = "returned"
  /\ S!DeliverOK
  /\ UNCHANGED <<store, process, cur, history>>

\* Handle has returned and the connection is closed.
SessionEnds ==
  /\ spc = "closed"
  /\ \E c \in Conn : L!Finish(c)
  /\ UNCHANGED <<session, store, cur, history>>

OtherCalls ==
  /\ main = "serve"
  /\ \E d \in Delivery \ Mine : M!Deliver(d) /\ devent'[d] \in OtherTo
  /\ UNCHANGED <<session, process, cur, history>>

\* External, database/sql and go-redis: after Close a call that needs a connection
\* fails; a transaction that has one may go on with it.
RedisOpen == main \notin {"close_mysql", "sync_log", "exited"}
MySQLOpen == main \notin {"sync_log", "exited"}

\* A statement of deliverTo does what it was sent for, or finds that it cannot.
Works(d) ==
  /\ L!Alive
  /\ \/ MySQLOpen /\ (M!ResolveInbox(d) \/ M!BeginTx(d) \/ M!InsertMessage(d))
     \/ M!SelectForUpdate(d) \/ M!UpdateUIDNext(d) \/ M!CommitTx(d)
     \/ RedisOpen /\ M!SetMessageBody(d)
     \/ M!Return(d) \/ M!Refused(d)
  /\ UNCHANGED <<session, process, cur, history>>

\* It fails because main has closed what it needs.
FailsClosed(d) ==
  /\ L!Alive
  /\ \/ /\ ~MySQLOpen
        /\ M!ResolveFails(d) \/ M!BeginTxFails(d) \/ M!TxFails(d) \/ M!CommitUnknown(d)
             \/ M!InsertFails(d)
     \/ ~RedisOpen /\ M!SetMessageBodyFails(d)
  /\ UNCHANGED <<session, process, cur, history>>

\* It fails by itself; without the body in Redis the recipient still has the message.
Fails(d) ==
  /\ L!Alive
  /\ \/ /\ MySQLOpen
        /\ M!ResolveFails(d) \/ M!BeginTxFails(d) \/ M!TxFails(d) \/ M!CommitUnknown(d)
             \/ M!InsertFails(d) \/ M!InsertUnknown(d)
        /\ failed' = failed \cup {<<d, InboxOf[devent[d][nth[d]]]>>}
     \/ RedisOpen /\ M!SetMessageBodyFails(d) /\ UNCHANGED failed
  /\ UNCHANGED <<session, process, cur, meant, acked>>

Statement(d) == Works(d) \/ FailsClosed(d) \/ Fails(d)

ProcessStep ==
  /\ \/ L!Signal
     \/ L!OpenStores \/ (L!LoadTLS /\ ~cert') \/ L!ListenPlain
     \/ L!AcceptFails("plain") \/ L!AfterAcceptError("plain")
     \/ L!CloseListeners \/ L!CloseStores
     \/ \E c \in Conn : L!Accept("plain", c)
  /\ UNCHANGED <<session, store, cur, history>>

\* The process exits under whatever still runs.
ProcessExits ==
  /\ L!Exit
  /\ \/ M!Crash
     \/ (\A d \in Delivery : dpc[d] \notin M!Running) /\ UNCHANGED store
  /\ UNCHANGED <<session, cur, history>>

MailNext ==
  \/ SessionReads \/ ReadsRecipient \/ CallDeliver \/ Answered \/ SessionEnds
  \/ OtherCalls
  \/ \E d \in Delivery : Statement(d)
  \/ ProcessStep \/ ProcessExits

\* Goroutines that can run do, and MySQL and Redis answer, or fail once closed.  That
\* a statement fails by itself is never assumed.
MailFairness ==
  /\ \A d \in Delivery : WF_mail(Works(d) \/ FailsClosed(d))
  /\ WF_mail(Answered)

MailSpec == MailInit /\ [][MailNext]_mail /\ MailFairness

----------------------------------------------------------------------------
Inboxes(names) == {Users[who] : who \in names \cap DOMAIN Users}

Stored(m) == \E r \in rows : r.body = cur /\ r.mailbox = m

\* From RCPT TO to the table: while MySQL is open, "250 message accepted" means that
\* every recipient acknowledged since MAIL FROM who has a mailbox has the message in
\* it, in whatever way the client wrote the address (spaces, brackets), however other
\* deliveries compete for pool and rows, and whatever fails for other recipients and
\* other calls.  A mailbox goes without only if a statement of this call failed for
\* this very mailbox, an error that Deliver does not return, or its UIDs are used up.
AcceptedIsStored ==
  reply.code = "accepted" /\ MySQLOpen =>
    \A m \in Inboxes(meant) : Stored(m) \/ uidNext[m] >= MaxUID \/ <<cur, m>> \in failed

\* From the table to RCPT TO: a message of this session lies only in mailboxes of
\* recipients that the session acknowledged, and in the one of the entry of
\* event.To that it was stored for; the sender's is not one of them.
StoredWasAcknowledged ==
  \A r \in rows : r.body \in Mine =>
    /\ r.mailbox \in Inboxes(acked)
    /\ r.mailbox = InboxOf[devent[r.body][r.nth]]

\* A client that has ended its message gets an answer, even with one connection in
\* the pool and others in front of it, unless the process exits first.
DataAnswered == spc = "deliver" ~> spc # "deliver" \/ ~L!Alive

----------------------------------------------------------------------------
\* What message_store.go says of Deliver: "It persists the message for each
\* recipient in the event."  It is read as a promise for recipients for whom no
\* statement failed while MySQL was open; but after a signal main closes the stores
\* under running sessions, and Deliver returns nil.
AcceptedIsPersisted ==
  reply.code = "accepted" => \A m \in Inboxes(meant) : Stored(m) \/ <<cur, m>> \in failed
============================================================================
