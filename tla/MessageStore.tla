---------------------------- MODULE MessageStore ----------------------------
(***************************************************************************)
(* Delivery into the message store: Deliver and deliverTo of               *)
(* internal/storage/message_store.go over internal/storage/mysql and       *)
(* internal/storage/redis.                                                 *)
(*                                                                         *)
(* Every SMTP session calls Deliver from its own goroutine.  A call visits *)
(* its recipients in order; for each it resolves the INBOX, allocates a    *)
(* UID in a transaction of its own, inserts the row and caches the body.   *)
(* Each action is one statement sent to MySQL or Redis, which is where     *)
(* calls interleave.  A statement may fail before or after it takes effect,*)
(* and the process may die between any two.                                *)
(***************************************************************************)
EXTENDS Naturals, Sequences, FiniteSets

CONSTANTS
  Delivery,   \* calls of Deliver; each carries a body of its own
  Addr,       \* recipient addresses
  Mailbox,    \* INBOX rows of the mailboxes table
  NoMailbox,  \* an address that does not resolve
  InboxOf,    \* Addr -> mailbox found by parseAddress, FindDomain, FindUser, FindInboxByUserID
  Recipients, \* the recipient lists (event.To) that sessions hand over
  NoDelivery, \* a free row lock
  MaxConns,   \* db.SetMaxOpenConns
  MaxUID      \* largest value of the column uid_next INT UNSIGNED

ASSUME NoMailboxAssumption == NoMailbox \notin Mailbox
ASSUME NoDeliveryAssumption == NoDelivery \notin Delivery
ASSUME InboxAssumption == InboxOf \in [Addr -> Mailbox \cup {NoMailbox}]
ASSUME RecipientsAssumption == Recipients \subseteq Seq(Addr)
ASSUME BoundAssumption == MaxConns \in Nat \ {0} /\ MaxUID \in Nat \ {0}

VARIABLES
  \* MySQL
  uidNext,   \* mailboxes.uid_next, committed
  rowLock,   \* the delivery whose transaction locks the mailbox row
  rows,      \* the messages table
  nextID,    \* AUTO_INCREMENT of messages
  conns,     \* deliveries whose transaction holds a pooled connection
  \* Redis
  cache,     \* unexpired message bodies
  \* the calls of Deliver
  pc,        \* the next statement of each call
  event,     \* event.To
  nth,       \* index of the recipient being served
  inbox,     \* the mailbox found for that recipient
  uid,       \* uid returned by AllocateUID
  msgID      \* id returned by InsertMessage

mysql == <<uidNext, rowLock, rows, nextID, conns>>
locals == <<event, nth, inbox, uid, msgID>>
vars == <<uidNext, rowLock, rows, nextID, conns, cache, pc, event, nth, inbox, uid, msgID>>

----------------------------------------------------------------------------
InTx == {"select", "update", "commit"}
Running == {"next", "begin", "insert", "cache"} \cup InTx

ConnFree == Cardinality(conns) < MaxConns

goto(d, label) == pc' = [pc EXCEPT ![d] = label]

\* Deliver logs what deliverTo returned, error or nil, and turns to the next recipient.
NextRecipient(d) ==
  /\ nth' = [nth EXCEPT ![d] = @ + 1]
  /\ goto(d, "next")

\* The end of a transaction, committed or rolled back (deferred tx.Rollback):
\* the row lock and the connection are given back.
EndTx(d) ==
  /\ rowLock' = [m \in Mailbox |-> IF rowLock[m] = d THEN NoDelivery ELSE rowLock[m]]
  /\ conns' = conns \ {d}

Init ==
  /\ uidNext = [m \in Mailbox |-> 1]
  /\ rowLock = [m \in Mailbox |-> NoDelivery]
  /\ rows = {}
  /\ nextID = 1
  /\ conns = {}
  /\ cache = {}
  /\ pc = [d \in Delivery |-> "idle"]
  /\ event = [d \in Delivery |-> <<>>]
  /\ nth = [d \in Delivery |-> 1]
  /\ inbox = [d \in Delivery |-> NoMailbox]
  /\ uid = [d \in Delivery |-> 0]
  /\ msgID = [d \in Delivery |-> 0]

\* A session calls Deliver.
Deliver(d) ==
  /\ pc[d] = "idle"
  /\ \E to \in Recipients : event' = [event EXCEPT ![d] = to]
  /\ goto(d, "next")
  /\ UNCHANGED <<mysql, cache, nth, inbox, uid, msgID>>

\* All recipients visited: Deliver returns nil and the session answers 250.
Return(d) ==
  /\ pc[d] = "next" /\ nth[d] > Len(event[d])
  /\ goto(d, "returned")
  /\ UNCHANGED <<mysql, cache, locals>>

\* parseAddress and the three lookups that find the INBOX, each on a pooled
\* connection given back at once.
ResolveInbox(d) ==
  /\ pc[d] = "next" /\ nth[d] <= Len(event[d])
  /\ ConnFree
  /\ InboxOf[event[d][nth[d]]] # NoMailbox
  /\ inbox' = [inbox EXCEPT ![d] = InboxOf[event[d][nth[d]]]]
  /\ goto(d, "begin")
  /\ UNCHANGED <<mysql, cache, event, nth, uid, msgID>>

\* The address does not parse or resolve, or a lookup fails.
ResolveFails(d) ==
  /\ pc[d] = "next" /\ nth[d] <= Len(event[d])
  /\ NextRecipient(d)
  /\ UNCHANGED <<mysql, cache, event, inbox, uid, msgID>>

\* AllocateUID: BeginTxx takes a connection from the pool and keeps it.
BeginTx(d) ==
  /\ pc[d] = "begin"
  /\ ConnFree
  /\ conns' = conns \cup {d}
  /\ goto(d, "select")
  /\ UNCHANGED <<uidNext, rowLock, rows, nextID, cache, locals>>

BeginTxFails(d) ==
  /\ pc[d] = "begin"
  /\ NextRecipient(d)
  /\ UNCHANGED <<mysql, cache, event, inbox, uid, msgID>>

\* Mutant: SELECT without FOR UPDATE.
SelectForUpdate_NoLock(d) ==
  /\ pc[d] = "select"
  /\ uid' = [uid EXCEPT ![d] = uidNext[inbox[d]]]
  /\ goto(d, "update")
  /\ UNCHANGED <<mysql, cache, event, nth, inbox, msgID>>

\* SELECT uid_next ... FOR UPDATE waits for the row lock and reads under it.
SelectForUpdate(d) ==
  /\ pc[d] = "select"
  /\ rowLock[inbox[d]] = NoDelivery
  /\ rowLock' = [rowLock EXCEPT ![inbox[d]] = d]
  /\ uid' = [uid EXCEPT ![d] = uidNext[inbox[d]]]
  /\ goto(d, "update")
  /\ UNCHANGED <<uidNext, rows, nextID, conns, cache, event, nth, inbox, msgID>>

\* Mutant: the UPDATE is sent on a second pooled connection.
UpdateUIDNext_OnPool(d) ==
  /\ pc[d] = "update"
  /\ ConnFree
  /\ uidNext[inbox[d]] < MaxUID
  /\ goto(d, "commit")
  /\ UNCHANGED <<mysql, cache, locals>>

\* Mutant: the range of the column is not enforced.
UpdateUIDNext_NoRange(d) ==
  /\ pc[d] = "update"
  /\ goto(d, "commit")
  /\ UNCHANGED <<mysql, cache, locals>>

\* Mutant: AllocateUID returns before Commit, and the deferred Rollback undoes
\* the update.
UpdateUIDNext_SkipsCommit(d) ==
  /\ pc[d] = "update"
  /\ uidNext[inbox[d]] < MaxUID
  /\ EndTx(d)
  /\ goto(d, "insert")
  /\ UNCHANGED <<uidNext, rows, nextID, cache, locals>>

\* UPDATE ... SET uid_next = uid_next + 1, visible to others once committed;
\* MySQL refuses a value above the column's range.
UpdateUIDNext(d) ==
  /\ pc[d] = "update"
  /\ uidNext[inbox[d]] < MaxUID
  /\ goto(d, "commit")
  /\ UNCHANGED <<mysql, cache, locals>>

CommitTx(d) ==
  /\ pc[d] = "commit"
  /\ uidNext' = [uidNext EXCEPT ![inbox[d]] = @ + 1]
  /\ EndTx(d)
  /\ goto(d, "insert")
  /\ UNCHANGED <<rows, nextID, cache, locals>>

\* Mutant: a failed statement leaves the transaction open.
TxFails_NoRollback(d) ==
  /\ pc[d] \in InTx
  /\ NextRecipient(d)
  /\ UNCHANGED <<mysql, cache, event, inbox, uid, msgID>>

\* Mutant: Deliver returns at the first recipient for whom the transaction fails.
TxFails_Returns(d) ==
  /\ pc[d] \in InTx
  /\ EndTx(d)
  /\ nth' = [nth EXCEPT ![d] = Len(event[d]) + 1]
  /\ goto(d, "next")
  /\ UNCHANGED <<uidNext, rows, nextID, cache, event, inbox, uid, msgID>>

\* A statement of the transaction fails (lock wait timeout, value out of range,
\* lost connection, refused commit): the deferred Rollback undoes it.
TxFails(d) ==
  /\ pc[d] \in InTx
  /\ EndTx(d)
  /\ NextRecipient(d)
  /\ UNCHANGED <<uidNext, rows, nextID, cache, event, inbox, uid, msgID>>

\* Commit took effect but its answer was lost: AllocateUID returns an error.
CommitUnknown(d) ==
  /\ pc[d] = "commit"
  /\ uidNext' = [uidNext EXCEPT ![inbox[d]] = @ + 1]
  /\ EndTx(d)
  /\ NextRecipient(d)
  /\ UNCHANGED <<rows, nextID, cache, event, inbox, uid, msgID>>

\* The row that InsertMessage writes; deliverTo never sets RawKey.
Row(d) == [id |-> nextID, mailbox |-> inbox[d], uid |-> uid[d], raw_key |-> "",
           body |-> d, nth |-> nth[d]]

InsertMessage(d) ==
  /\ pc[d] = "insert"
  /\ ConnFree
  /\ rows' = rows \cup {Row(d)}
  /\ nextID' = nextID + 1
  /\ msgID' = [msgID EXCEPT ![d] = nextID]
  /\ goto(d, "cache")
  /\ UNCHANGED <<uidNext, rowLock, conns, cache, event, nth, inbox, uid>>

InsertFails(d) ==
  /\ pc[d] = "insert"
  /\ NextRecipient(d)
  /\ UNCHANGED <<mysql, cache, event, inbox, uid, msgID>>

\* Mutant: the recipient is tried again when the answer to the INSERT is lost.
InsertUnknown_Retries(d) ==
  /\ pc[d] = "insert"
  /\ ConnFree
  /\ rows' = rows \cup {Row(d)}
  /\ nextID' = nextID + 1
  /\ goto(d, "next")
  /\ UNCHANGED <<uidNext, rowLock, conns, cache, locals>>

\* The row is stored but the answer is lost: deliverTo returns an error.
InsertUnknown(d) ==
  /\ pc[d] = "insert"
  /\ ConnFree
  /\ rows' = rows \cup {Row(d)}
  /\ nextID' = nextID + 1
  /\ NextRecipient(d)
  /\ UNCHANGED <<uidNext, rowLock, conns, cache, event, inbox, uid, msgID>>

\* Mutant: bodies are filed under the UID.
messageBodyKey_UID(d) == uid[d]

\* The key of a cached body.
messageBodyKey(d) == msgID[d]

SetMessageBody(d) ==
  /\ pc[d] = "cache"
  /\ cache' = {c \in cache : c.key # messageBodyKey(d)}
                \cup {[key |-> messageBodyKey(d), body |-> d]}
  /\ NextRecipient(d)
  /\ UNCHANGED <<mysql, event, inbox, uid, msgID>>

\* Logged and otherwise ignored.
SetMessageBodyFails(d) ==
  /\ pc[d] = "cache"
  /\ NextRecipient(d)
  /\ UNCHANGED <<mysql, cache, event, inbox, uid, msgID>>

\* A body reaches bodyTTL, or Redis evicts it.
Expire ==
  /\ \E c \in cache : cache' = cache \ {c}
  /\ UNCHANGED <<mysql, pc, locals>>

\* The SMTP process dies: MySQL rolls back what was open.
Crash ==
  /\ \E d \in Delivery : pc[d] \in Running
  /\ pc' = [d \in Delivery |-> IF pc[d] \in Running THEN "dead" ELSE pc[d]]
  /\ rowLock' = [m \in Mailbox |-> NoDelivery]
  /\ conns' = {}
  /\ UNCHANGED <<uidNext, rows, nextID, cache, locals>>

\* Statements that do what they were sent for.
Step(d) ==
  \/ ResolveInbox(d) \/ BeginTx(d) \/ SelectForUpdate(d) \/ UpdateUIDNext(d)
  \/ CommitTx(d) \/ InsertMessage(d) \/ SetMessageBody(d) \/ Return(d)

\* Statements that fail, with or without effect.
Fault(d) ==
  \/ ResolveFails(d) \/ BeginTxFails(d) \/ TxFails(d) \/ CommitUnknown(d)
  \/ InsertFails(d) \/ InsertUnknown(d) \/ SetMessageBodyFails(d)

Next ==
  \/ \E d \in Delivery : Deliver(d) \/ Step(d) \/ Fault(d)
  \/ Expire
  \/ Crash

Spec == Init /\ [][Next]_vars

\* The refusal of an address or UID that cannot be served, which is no fault.
Refused(d) ==
  \/ pc[d] = "next" /\ nth[d] <= Len(event[d]) /\ InboxOf[event[d][nth[d]]] = NoMailbox /\ ResolveFails(d)
  \/ pc[d] = "update" /\ uidNext[inbox[d]] >= MaxUID /\ TxFails(d)

\* Goroutines are scheduled and the databases answer: a statement that waits for
\* neither lock nor connection is done.  No fault is assumed to happen, so a lock
\* wait timeout never rescues a call.
FairSpec == Spec /\ \A d \in Delivery : WF_vars(Step(d) \/ Refused(d))

----------------------------------------------------------------------------
RowType == [id: Nat, mailbox: Mailbox, uid: 1..MaxUID, raw_key: {""},
            body: Delivery, nth: Nat]

\* Type correctness, with the range of the UID columns: no UID is zero or above
\* MaxUID, however far uid_next has been driven.
TypeOK ==
  /\ uidNext \in [Mailbox -> 1..MaxUID]
  /\ rowLock \in [Mailbox -> Delivery \cup {NoDelivery}]
  /\ rows \subseteq RowType
  /\ nextID \in Nat
  /\ conns \subseteq Delivery
  /\ cache \subseteq [key: Nat, body: Delivery]
  /\ pc \in [Delivery -> Running \cup {"idle", "returned", "dead"}]
  /\ event \in [Delivery -> Seq(Addr)]
  /\ nth \in [Delivery -> Nat \ {0}]
  /\ inbox \in [Delivery -> Mailbox \cup {NoMailbox}]
  /\ uid \in [Delivery -> 0..MaxUID]
  /\ msgID \in [Delivery -> Nat]

\* No two messages of a mailbox share a UID.  The table has no unique index on
\* (mailbox_id, uid): this rests on the row lock of AllocateUID alone, and must
\* survive concurrent calls, lost answers and crashes between the allocation and
\* the insert.
UIDUnique ==
  \A r, s \in rows : r.mailbox = s.mailbox /\ r.uid = s.uid => r = s

\* The UIDNEXT that SELECT announces is above every UID of the mailbox, and above
\* every UID still on its way to the table.
UIDBelowNext ==
  /\ \A r \in rows : r.uid < uidNext[r.mailbox]
  /\ \A d \in Delivery : pc[d] = "insert" => uid[d] < uidNext[inbox[d]]

\* A call stores at most one row for each entry of event.To, whatever fails.
AtMostOncePerRecipient ==
  \A r, s \in rows : r.body = s.body /\ r.nth = s.nth => r = s

\* A cached body is the body of the row it is filed under, so FETCH never shows
\* the text of another message.
CacheMatchesRow ==
  \A c \in cache : \E r \in rows : r.id = c.key /\ r.body = c.body

\* Transactions end on every path: a connection is held exactly by the calls
\* inside AllocateUID, a row lock only by a call past its SELECT, and the pool is
\* never overdrawn.
TxReleased ==
  /\ \A d \in Delivery : d \in conns <=> pc[d] \in InTx
  /\ \A m \in Mailbox : rowLock[m] # NoDelivery =>
       pc[rowLock[m]] \in {"update", "commit"} /\ inbox[rowLock[m]] = m
  /\ Cardinality(conns) <= MaxConns

\* Every call of Deliver returns unless the process dies, although calls wait for
\* each other's row lock while they hold the connections others wait for.
DeliverReturns ==
  \A d \in Delivery : pc[d] = "next" ~> pc[d] \in {"returned", "dead"}

\* The UIDs that calls hold between AllocateUID and InsertMessage, and those in
\* the table, as the ledger sees them.
ReservedUIDs == [m \in Mailbox |->
  {uid[d] : d \in {e \in Delivery : pc[e] = "insert" /\ inbox[e] = m}}]
FiledUIDs == [m \in Mailbox |-> {r.uid : r \in {s \in rows : s.mailbox = m}}]

Ledger == INSTANCE UidLedger
  WITH next <- uidNext, reserved <- ReservedUIDs, filed <- FiledUIDs

\* Delivery implements the ledger: every UID is reserved once, for one message,
\* and no interleaving, failure or crash files it twice or returns it to the pool.
ImplementsLedger == Ledger!LedgerSpec

----------------------------------------------------------------------------
\* What mailbox.go says of AllocateUID: each message in a mailbox gets a
\* "monotonically increasing UID": a message that appears in a mailbox has a
\* higher UID than those already there.
UIDAscending ==
  [][\A r \in rows' \ rows : \A s \in rows : s.mailbox = r.mailbox => s.uid < r.uid]_vars

\* What README.md says of a cache miss: "the server falls back to the raw_key
\* stored in MySQL".  A body is cached, or being cached, or its row has a raw_key.
BodyRetrievable ==
  \A r \in rows :
    \/ \E c \in cache : c.key = r.id
    \/ pc[r.body] = "cache" /\ msgID[r.body] = r.id
    \/ r.raw_key # ""
=============================================================================
