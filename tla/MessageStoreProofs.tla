------------------------- MODULE MessageStoreProofs -------------------------
(***************************************************************************)
(* Proofs about MessageStore, for any number of concurrent calls, mailboxes*)
(* and recipients, any pool size and any range of UIDs.                    *)
(***************************************************************************)
EXTENDS MessageStore, TLAPS

\* The obligations carry many definitions: more time for SMT, a second try, then Zenon.
USE SMTT(30), SMTT(60), ZenonT(60)

\* A call that is serving a recipient has found an INBOX for it.
ServingInv ==
  \A d \in Delivery : pc[d] \in Running \ {"next"} => inbox[d] \in Mailbox

\* A connection is held exactly inside AllocateUID.
ConnInv == \A d \in Delivery : d \in conns <=> pc[d] \in InTx

\* A row lock is held by a call past its SELECT, and by every such call.
LockInv ==
  /\ \A m \in Mailbox : rowLock[m] # NoDelivery =>
       pc[rowLock[m]] \in {"update", "commit"} /\ inbox[rowLock[m]] = m
  /\ \A d \in Delivery : pc[d] \in {"update", "commit"} => rowLock[inbox[d]] = d

\* Under the lock, the UID read is still the mailbox's uid_next.
ReadInv ==
  \A d \in Delivery :
    /\ pc[d] \in {"update", "commit"} => uid[d] = uidNext[inbox[d]]
    /\ pc[d] = "commit" => uidNext[inbox[d]] < MaxUID

\* A UID on its way to the table is positive, below uid_next, in no row ...
HeldInv ==
  \A d \in Delivery : pc[d] = "insert" =>
    /\ uid[d] \in 1..MaxUID /\ uid[d] < uidNext[inbox[d]]
    /\ \A r \in rows : r.mailbox = inbox[d] => r.uid # uid[d]

\* ... and held by one call.
HeldOnce ==
  \A d, e \in Delivery :
    pc[d] = "insert" /\ pc[e] = "insert" /\ inbox[d] = inbox[e] /\ uid[d] = uid[e] => d = e

RowsBelowNext == \A r \in rows : r.uid < uidNext[r.mailbox]

\* Row ids are fresh, and a call's rows are those of recipients it has passed.
IdInv ==
  /\ \A r \in rows : r.id < nextID
  /\ \A r, s \in rows : r.id = s.id => r = s
PassedInv ==
  \A r \in rows :
    r.nth < nth[r.body] \/ (r.nth = nth[r.body] /\ pc[r.body] \in {"cache", "dead"})

\* The id a call caches under is that of a row with its body.
CachingInv ==
  \A d \in Delivery : pc[d] = "cache" => \E r \in rows : r.id = msgID[d] /\ r.body = d

\* The inductive invariant.
IInv ==
  /\ TypeOK /\ ServingInv /\ ConnInv /\ LockInv /\ ReadInv
  /\ HeldInv /\ HeldOnce /\ RowsBelowNext /\ UIDUnique
  /\ IdInv /\ PassedInv /\ AtMostOncePerRecipient
  /\ CachingInv /\ CacheMatchesRow

----------------------------------------------------------------------------
\* The fields of a stored row.
LEMMA RowFields ==
  ASSUME TypeOK
  PROVE  \A r \in rows : /\ r.id \in Nat /\ r.mailbox \in Mailbox /\ r.uid \in 1..MaxUID
                         /\ r.body \in Delivery /\ r.nth \in Nat
  BY Zenon DEF TypeOK, RowType

\* Ending a transaction does nothing for a call that has none open.
LEMMA EndTxIdle ==
  ASSUME IInv, NEW d \in Delivery, pc[d] \notin InTx, UNCHANGED <<rowLock, conns>>
  PROVE  EndTx(d)
<1>1. \A m \in Mailbox : rowLock[m] # d
  BY NoDeliveryAssumption DEF IInv, TypeOK, LockInv, InTx
<1>2. d \notin conns
  BY DEF IInv, ConnInv
<1> QED  BY <1>1, <1>2 DEF EndTx, IInv, TypeOK

\* The end of a transaction frees the call's row and leaves the other locks alone.
LEMMA EndTxLock ==
  ASSUME IInv, NEW d \in Delivery, EndTx(d), pc'[d] \notin {"update", "commit"},
         \A e \in Delivery : e # d => pc'[e] = pc[e], UNCHANGED inbox
  PROVE  LockInv'
<1>1. ASSUME NEW m \in Mailbox, rowLock'[m] # NoDelivery
      PROVE  pc'[rowLock'[m]] \in {"update", "commit"} /\ inbox'[rowLock'[m]] = m
  <2>1. rowLock'[m] = rowLock[m] /\ rowLock[m] # d
    BY <1>1 DEF EndTx
  <2>2. rowLock[m] \in Delivery
    BY <1>1, <2>1 DEF IInv, TypeOK
  <2>3. pc[rowLock[m]] \in {"update", "commit"} /\ inbox[rowLock[m]] = m
    BY <1>1, <2>1 DEF IInv, LockInv
  <2> QED  BY <2>1, <2>2, <2>3
<1>2. ASSUME NEW e \in Delivery, pc'[e] \in {"update", "commit"}
      PROVE  rowLock'[inbox'[e]] = e
  <2>1. e # d /\ pc[e] \in {"update", "commit"}
    BY <1>2
  <2>2. rowLock[inbox[e]] = e /\ inbox[e] \in Mailbox
    BY <2>1 DEF IInv, LockInv, ServingInv, Running, InTx
  <2> QED  BY <2>1, <2>2 DEF EndTx
<1> QED  BY <1>1, <1>2 DEF LockInv

\* A call that turns to the next recipient has passed the rows it stored.
LEMMA NextRecipientPassed ==
  ASSUME IInv, NEW d \in Delivery, NextRecipient(d), UNCHANGED rows
  PROVE  PassedInv'
<1> SUFFICES ASSUME NEW r \in rows
             PROVE  r.nth < nth'[r.body]
                      \/ (r.nth = nth'[r.body] /\ pc'[r.body] \in {"cache", "dead"})
  BY DEF PassedInv
<1>1. r.body \in Delivery /\ r.nth \in Nat
  BY RowFields DEF IInv
<1>2. r.nth < nth[r.body] \/ (r.nth = nth[r.body] /\ pc[r.body] \in {"cache", "dead"})
  BY DEF IInv, PassedInv
<1>3. nth[d] \in Nat /\ nth'[d] = nth[d] + 1
  BY DEF IInv, TypeOK, NextRecipient
<1>4. \A e \in Delivery : e # d => nth'[e] = nth[e] /\ pc'[e] = pc[e]
  BY DEF IInv, TypeOK, NextRecipient, goto
<1>5. CASE r.body = d
  BY <1>1, <1>2, <1>3, <1>5
<1>6. CASE r.body # d
  BY <1>1, <1>2, <1>4, <1>6
<1> QED  BY <1>5, <1>6

\* A call that gives up a recipient, or is done with it, gives back lock and
\* connection, touches no table, and keeps the invariant: every statement that
\* fails without effect takes such a step.
LEMMA LeaveInv ==
  ASSUME IInv, NEW d \in Delivery, pc[d] \in Running, EndTx(d), NextRecipient(d),
         UNCHANGED <<uidNext, rows, nextID, cache, event, inbox, uid, msgID>>
  PROVE  IInv'
<1> USE NoMailboxAssumption, NoDeliveryAssumption DEF Running, InTx, EndTx, NextRecipient, goto
<1>1. TypeOK'
  <2>1. nth' \in [Delivery -> Nat \ {0}]
    BY DEF IInv, TypeOK
  <2>2. /\ pc' \in [Delivery -> Running \cup {"idle", "returned", "dead"}]
        /\ rowLock' \in [Mailbox -> Delivery \cup {NoDelivery}]
        /\ conns' \subseteq Delivery
    BY DEF IInv, TypeOK
  <2> QED  BY <2>1, <2>2, Zenon DEF IInv, TypeOK, RowType
<1>2. ServingInv' /\ ConnInv' /\ ReadInv'
  BY DEF IInv, TypeOK, ServingInv, ConnInv, ReadInv
<1>3. LockInv'
  <2>1. pc'[d] = "next" /\ \A e \in Delivery : e # d => pc'[e] = pc[e]
    BY DEF IInv, TypeOK
  <2> QED  BY <2>1, EndTxLock
<1>4. HeldInv' /\ HeldOnce' /\ RowsBelowNext'
  BY DEF IInv, TypeOK, HeldInv, HeldOnce, RowsBelowNext
<1>5. UIDUnique' /\ IdInv' /\ AtMostOncePerRecipient' /\ CacheMatchesRow'
  BY DEF IInv, UIDUnique, IdInv, AtMostOncePerRecipient, CacheMatchesRow
<1>6. PassedInv'
  BY NextRecipientPassed, Zenon
<1>7. CachingInv'
  BY DEF IInv, TypeOK, CachingInv
<1> QED  BY <1>1, <1>2, <1>3, <1>4, <1>5, <1>6, <1>7 DEF IInv

\* Storing the row of a call that holds a UID.
LEMMA StoreRow ==
  ASSUME IInv, NEW d \in Delivery, pc[d] = "insert",
         rows' = rows \cup {Row(d)}, nextID' = nextID + 1, uidNext' = uidNext
  PROVE  /\ rows' \subseteq RowType /\ nextID' \in Nat
         /\ RowsBelowNext' /\ UIDUnique' /\ IdInv' /\ AtMostOncePerRecipient'
<1> DEFINE new == Row(d)
<1>1. /\ new.id = nextID /\ new.mailbox = inbox[d] /\ new.uid = uid[d]
      /\ new.body = d /\ new.nth = nth[d]
  BY Zenon DEF Row
<1>2. /\ nextID \in Nat /\ nth[d] \in Nat /\ inbox[d] \in Mailbox
      /\ uid[d] \in 1..MaxUID /\ uid[d] < uidNext[inbox[d]]
      /\ \A r \in rows : r.mailbox = inbox[d] => r.uid # uid[d]
  BY DEF IInv, TypeOK, ServingInv, HeldInv, Running
<1>3. new \in RowType
  BY <1>2, Zenon DEF Row, RowType
<1>4. \A r \in rows : /\ r.id \in Nat /\ r.id < nextID
                      /\ r.body = d => r.nth \in Nat /\ r.nth < nth[d]
  BY RowFields DEF IInv, IdInv, PassedInv
<1> HIDE DEF new
<1>5. rows' = rows \cup {new}
  BY DEF new
<1>6. rows' \subseteq RowType /\ nextID' \in Nat
  BY <1>2, <1>3, <1>5 DEF IInv, TypeOK
<1>7. RowsBelowNext'
  BY <1>1, <1>2, <1>5 DEF IInv, RowsBelowNext
<1>8. UIDUnique'
  BY <1>1, <1>2, <1>5 DEF IInv, UIDUnique
<1>9. IdInv'
  BY <1>1, <1>2, <1>4, <1>5 DEF IInv, IdInv
<1>10. AtMostOncePerRecipient'
  BY <1>1, <1>2, <1>4, <1>5 DEF IInv, AtMostOncePerRecipient
<1> QED  BY <1>6, <1>7, <1>8, <1>9, <1>10

\* Committing the increment of uid_next keeps it in range and above all UIDs.
LEMMA BumpUIDNext ==
  ASSUME IInv, NEW d \in Delivery, pc[d] = "commit",
         uidNext' = [uidNext EXCEPT ![inbox[d]] = @ + 1]
  PROVE  /\ inbox[d] \in Mailbox /\ uidNext' \in [Mailbox -> 1..MaxUID]
         /\ uidNext'[inbox[d]] = uid[d] + 1 /\ uid[d] \in 1..MaxUID
         /\ \A m \in Mailbox : uidNext[m] <= uidNext'[m] /\ uidNext[m] \in 1..MaxUID
         /\ \A m \in Mailbox : m # inbox[d] => uidNext'[m] = uidNext[m]
<1>1. inbox[d] \in Mailbox
  BY DEF IInv, ServingInv, Running, InTx
<1>2. uidNext[inbox[d]] < MaxUID /\ uid[d] = uidNext[inbox[d]]
  BY DEF IInv, ReadInv
<1>3. uidNext \in [Mailbox -> 1..MaxUID]
  BY DEF IInv, TypeOK
<1> QED  BY <1>1, <1>2, <1>3, BoundAssumption

\* The lock leaves nobody else past its SELECT on the same mailbox.
LEMMA LockExcludes ==
  ASSUME IInv, NEW d \in Delivery, NEW e \in Delivery, d # e, inbox[d] = inbox[e],
         pc[d] \in {"update", "commit"}, pc[e] \in {"update", "commit"}
  PROVE  FALSE
  BY DEF IInv, LockInv

----------------------------------------------------------------------------
\* Statements that fail without effect, and a body that is not cached.
LEMMA FailureInv ==
  ASSUME IInv, NEW d \in Delivery,
         ResolveFails(d) \/ BeginTxFails(d) \/ TxFails(d) \/ InsertFails(d)
           \/ SetMessageBodyFails(d)
  PROVE  IInv'
<1>1. /\ pc[d] \in Running /\ NextRecipient(d)
      /\ UNCHANGED <<uidNext, rows, nextID, cache, event, inbox, uid, msgID>>
  BY DEF ResolveFails, BeginTxFails, TxFails, InsertFails, SetMessageBodyFails,
         Running, InTx, mysql
<1>2. EndTx(d)
  <2>1. CASE TxFails(d)
    BY <2>1 DEF TxFails
  <2>2. CASE ~TxFails(d)
    <3>1. pc[d] \notin InTx /\ UNCHANGED <<rowLock, conns>>
      BY <2>2, Zenon DEF ResolveFails, BeginTxFails, InsertFails, SetMessageBodyFails, InTx, mysql
    <3> QED  BY <3>1, EndTxIdle
  <2> QED  BY <2>1, <2>2
<1> QED  BY <1>1, <1>2, LeaveInv

\* A recipient whose INBOX Deliver resolves is an address of its event.
LEMMA ServedIsAddress ==
  ASSUME IInv, NEW d \in Delivery, ResolveInbox(d)
  PROVE  event[d][nth[d]] \in Addr
<1>1. event[d] \in Seq(Addr) /\ nth[d] \in 1..Len(event[d])
  BY DEF IInv, TypeOK, ResolveInbox
<1> QED  BY <1>1

\* Steps before the transaction, and the return of Deliver: no table changes.
LEMMA ControlInv ==
  ASSUME IInv, NEW d \in Delivery, Deliver(d) \/ Return(d) \/ ResolveInbox(d) \/ BeginTx(d)
  PROVE  IInv'
<1> USE NoMailboxAssumption, NoDeliveryAssumption
    DEF Running, InTx, goto, mysql, locals, Deliver, Return, ResolveInbox, BeginTx
<1>1. TypeOK'
  <2>1. CASE Deliver(d)
    BY <2>1, RecipientsAssumption, ZenonT(60) DEF IInv, TypeOK, RowType
  <2>2. CASE Return(d)
    BY <2>2, Zenon DEF IInv, TypeOK, RowType
  <2>3. CASE ResolveInbox(d)
    <3>1. event[d][nth[d]] \in Addr
      BY <2>3, ServedIsAddress, Zenon
    <3>2. inbox' \in [Delivery -> Mailbox \cup {NoMailbox}]
      BY <2>3, <3>1, InboxAssumption DEF IInv, TypeOK
    <3> QED  BY <2>3, <3>2, Zenon DEF IInv, TypeOK, RowType
  <2>4. CASE BeginTx(d)
    BY <2>4, Zenon DEF IInv, TypeOK, RowType
  <2> QED  BY <2>1, <2>2, <2>3, <2>4
<1>2. ServingInv'
  <2>1. CASE ResolveInbox(d)
    <3>1. event[d][nth[d]] \in Addr
      BY <2>1, ServedIsAddress, Zenon
    <3> QED  BY <2>1, <3>1, InboxAssumption DEF IInv, TypeOK, ServingInv
  <2>2. CASE ~ResolveInbox(d)
    BY <2>2, ZenonT(60) DEF IInv, TypeOK, ServingInv
  <2> QED  BY <2>1, <2>2, Zenon
<1>3. ConnInv'
  <2>1. CASE BeginTx(d)
    BY <2>1, Zenon DEF IInv, TypeOK, ConnInv
  <2>2. CASE Deliver(d) \/ Return(d) \/ ResolveInbox(d)
    <3>1. /\ conns' = conns /\ pc[d] \notin InTx /\ pc'[d] \notin InTx
          /\ \A e \in Delivery : e # d => pc'[e] = pc[e]
      BY <2>2, ZenonT(60) DEF IInv, TypeOK
    <3> QED  BY <3>1, Zenon DEF IInv, ConnInv
  <2> QED  BY <2>1, <2>2, Zenon
<1>4. /\ pc[d] \in {"idle", "next", "begin"}
      /\ pc'[d] \in {"next", "returned", "begin", "select"}
      /\ \A e \in Delivery : e # d => pc'[e] = pc[e] /\ inbox'[e] = inbox[e]
      /\ UNCHANGED <<uidNext, rowLock, rows, uid>>
  BY ZenonT(60) DEF IInv, TypeOK
<1>5. LockInv' /\ ReadInv' /\ HeldInv' /\ HeldOnce' /\ RowsBelowNext'
  <2> USE <1>4 DEF IInv, TypeOK
  <2> HIDE DEF Deliver, Return, ResolveInbox, BeginTx
  <2>1. LockInv'
    <3>1. \A m \in Mailbox : rowLock'[m] # NoDelivery =>
            /\ rowLock'[m] \in Delivery /\ rowLock'[m] # d
            /\ pc[rowLock'[m]] \in {"update", "commit"} /\ inbox[rowLock'[m]] = m
      BY DEF LockInv
    <3>2. \A e \in Delivery : pc'[e] \in {"update", "commit"} => rowLock'[inbox'[e]] = e
      BY Zenon DEF LockInv
    <3> QED  BY <3>1, <3>2 DEF LockInv
  <2>2. ReadInv'
    BY ZenonT(60) DEF ReadInv
  <2>3. HeldOnce'
    <3> SUFFICES ASSUME NEW e \in Delivery, NEW f \in Delivery,
                        pc'[e] = "insert", pc'[f] = "insert",
                        inbox'[e] = inbox'[f], uid'[e] = uid'[f]
                 PROVE  e = f
      BY DEF HeldOnce
    <3>1. e # d /\ f # d
      OBVIOUS
    <3> QED  BY <3>1 DEF HeldOnce
  <2>4. RowsBelowNext'
    BY DEF RowsBelowNext
  <2>5. HeldInv'
    BY DEF HeldInv
  <2> QED  BY <2>1, <2>2, <2>3, <2>4, <2>5, Zenon
<1>6. UIDUnique' /\ IdInv' /\ AtMostOncePerRecipient' /\ CacheMatchesRow'
  BY DEF IInv, UIDUnique, IdInv, AtMostOncePerRecipient, CacheMatchesRow
<1>7. PassedInv' /\ CachingInv'
  <2>1. UNCHANGED <<rows, nth, msgID>>
    OBVIOUS
  <2> HIDE DEF Deliver, Return, ResolveInbox, BeginTx
  <2>2. \A e \in Delivery : pc[e] \in {"cache", "dead"} => pc'[e] = pc[e]
    BY <1>4
  <2>3. \A e \in Delivery : pc'[e] = "cache" => pc[e] = "cache"
    BY <1>4
  <2>4. \A r \in rows : r.body \in Delivery
    BY RowFields DEF IInv
  <2>5. PassedInv'
    BY <2>1, <2>2, <2>4 DEF IInv, PassedInv
  <2>6. CachingInv'
    BY <2>1, <2>3 DEF IInv, CachingInv
  <2> QED  BY <2>5, <2>6, ZenonT(60)
<1> QED  BY <1>1, <1>2, <1>3, <1>4, <1>5, <1>6, <1>7, ZenonT(60) DEF IInv

\* SELECT ... FOR UPDATE takes a free lock and reads under it.
LEMMA SelectForUpdateInv ==
  ASSUME IInv, NEW d \in Delivery, SelectForUpdate(d)
  PROVE  IInv'
<1> USE NoDeliveryAssumption DEF Running, InTx, goto, SelectForUpdate
<1>1. inbox[d] \in Mailbox /\ uidNext[inbox[d]] \in 1..MaxUID
  BY DEF IInv, TypeOK, ServingInv
<1>2. TypeOK'
  <2>1. uid' \in [Delivery -> 0..MaxUID]
    BY <1>1 DEF IInv, TypeOK
  <2> QED  BY <1>1, <2>1, Zenon DEF IInv, TypeOK, RowType
<1>3. ServingInv' /\ ConnInv'
  BY DEF IInv, TypeOK, ServingInv, ConnInv
<1>4. LockInv'
  <2>1. /\ rowLock[inbox[d]] = NoDelivery /\ rowLock'[inbox[d]] = d
        /\ \A m \in Mailbox : m # inbox[d] => rowLock'[m] = rowLock[m]
        /\ pc[d] = "select" /\ pc'[d] = "update" /\ UNCHANGED inbox
        /\ \A e \in Delivery : e # d => pc'[e] = pc[e]
    BY <1>1 DEF IInv, TypeOK
  <2> HIDE DEF SelectForUpdate, goto
  <2>2. ASSUME NEW m \in Mailbox, m # inbox[d], rowLock'[m] # NoDelivery
        PROVE  pc'[rowLock'[m]] \in {"update", "commit"} /\ inbox'[rowLock'[m]] = m
    <3>1. rowLock'[m] = rowLock[m] /\ rowLock[m] \in Delivery
      BY <2>1, <2>2 DEF IInv, TypeOK
    <3>2. pc[rowLock[m]] \in {"update", "commit"} /\ inbox[rowLock[m]] = m
      BY <2>2, <3>1, Zenon DEF IInv, LockInv
    <3> QED  BY <2>1, <3>1, <3>2
  <2>3. ASSUME NEW e \in Delivery, e # d, pc'[e] \in {"update", "commit"}
        PROVE  rowLock'[inbox'[e]] = e
    <3>1. rowLock[inbox[e]] = e /\ inbox[e] \in Mailbox
      BY <2>1, <2>3, ZenonT(60) DEF IInv, LockInv, ServingInv
    <3> QED  BY <2>1, <3>1
  <2> QED  BY <2>1, <2>2, <2>3 DEF LockInv
<1>5. ReadInv'
  BY <1>1, Zenon DEF IInv, TypeOK, ReadInv
<1>6. HeldInv' /\ HeldOnce' /\ RowsBelowNext'
  BY DEF IInv, TypeOK, HeldInv, HeldOnce, RowsBelowNext
<1>7. UIDUnique' /\ IdInv' /\ AtMostOncePerRecipient' /\ CacheMatchesRow'
  BY Zenon DEF IInv, UIDUnique, IdInv, AtMostOncePerRecipient, CacheMatchesRow
<1>8. PassedInv' /\ CachingInv'
  BY RowFields, ZenonT(60) DEF IInv, TypeOK, PassedInv, CachingInv
<1> QED  BY <1>2, <1>3, <1>4, <1>5, <1>6, <1>7, <1>8, Zenon DEF IInv

\* The UPDATE changes nothing that others see before the commit.
LEMMA UpdateUIDNextInv ==
  ASSUME IInv, NEW d \in Delivery, UpdateUIDNext(d)
  PROVE  IInv'
<1> USE NoDeliveryAssumption DEF Running, InTx, goto, mysql, locals, UpdateUIDNext
<1>1. TypeOK' /\ ServingInv' /\ ConnInv'
  BY ZenonT(60) DEF IInv, TypeOK, RowType, ServingInv, ConnInv
<1>2. LockInv' /\ ReadInv'
  BY DEF IInv, TypeOK, ServingInv, LockInv, ReadInv
<1>3. HeldInv' /\ HeldOnce' /\ RowsBelowNext'
  BY ZenonT(60) DEF IInv, TypeOK, HeldInv, HeldOnce, RowsBelowNext
<1>4. UIDUnique' /\ IdInv' /\ AtMostOncePerRecipient' /\ CacheMatchesRow'
  BY Zenon DEF IInv, UIDUnique, IdInv, AtMostOncePerRecipient, CacheMatchesRow
<1>5. PassedInv' /\ CachingInv'
  BY RowFields, Zenon DEF IInv, TypeOK, PassedInv, CachingInv
<1> QED  BY <1>1, <1>2, <1>3, <1>4, <1>5 DEF IInv

\* The call takes the UID it read under the lock; nobody else holds that UID.
LEMMA CommitTxInv ==
  ASSUME IInv, NEW d \in Delivery, CommitTx(d)
  PROVE  IInv'
<1> USE NoDeliveryAssumption DEF Running, InTx, goto, locals, CommitTx
<1>1. /\ inbox[d] \in Mailbox /\ uidNext' \in [Mailbox -> 1..MaxUID]
      /\ uidNext'[inbox[d]] = uid[d] + 1 /\ uid[d] \in 1..MaxUID
      /\ \A m \in Mailbox : uidNext[m] <= uidNext'[m] /\ uidNext[m] \in 1..MaxUID
      /\ \A m \in Mailbox : m # inbox[d] => uidNext'[m] = uidNext[m]
  BY BumpUIDNext, ZenonT(60)
<1>2. uid[d] = uidNext[inbox[d]]
  BY DEF IInv, ReadInv
<1>3. TypeOK'
  BY <1>1, Zenon DEF IInv, TypeOK, RowType, EndTx
<1>4. ServingInv' /\ ConnInv'
  BY Zenon DEF IInv, TypeOK, ServingInv, ConnInv, EndTx
<1>5. LockInv'
  <2>1. pc'[d] = "insert" /\ \A e \in Delivery : e # d => pc'[e] = pc[e]
    BY DEF IInv, TypeOK
  <2> QED  BY <2>1, EndTxLock
<1>6. ReadInv'
  <2> SUFFICES ASSUME NEW e \in Delivery, pc'[e] \in {"update", "commit"}
               PROVE  /\ uid'[e] = uidNext'[inbox'[e]]
                      /\ pc'[e] = "commit" => uidNext'[inbox'[e]] < MaxUID
    BY DEF ReadInv
  <2>1. e # d /\ pc[e] = pc'[e] /\ inbox[e] \in Mailbox
    BY DEF IInv, TypeOK, ServingInv
  <2>2. inbox[e] # inbox[d]
    BY <2>1, LockExcludes, Zenon
  <2> QED  BY <1>1, <2>1, <2>2, Zenon DEF IInv, ReadInv
<1>7. HeldInv'
  <2> SUFFICES ASSUME NEW e \in Delivery, pc'[e] = "insert"
               PROVE  /\ uid[e] \in 1..MaxUID /\ uid[e] < uidNext'[inbox[e]]
                      /\ \A r \in rows : r.mailbox = inbox[e] => r.uid # uid[e]
    BY Zenon DEF HeldInv
  <2>1. CASE e = d
    BY <1>1, <1>2, <2>1, RowFields DEF IInv, RowsBelowNext
  <2>2. CASE e # d
    <3>1. pc[e] = "insert" /\ inbox[e] \in Mailbox
      BY <2>2 DEF IInv, TypeOK, ServingInv
    <3> QED  BY <1>1, <3>1 DEF IInv, HeldInv
  <2> QED  BY <2>1, <2>2
<1>8. HeldOnce'
  <2> SUFFICES ASSUME NEW e \in Delivery, NEW f \in Delivery, e # f,
                      pc'[e] = "insert", pc'[f] = "insert",
                      inbox[e] = inbox[f], uid[e] = uid[f]
               PROVE  FALSE
    BY DEF HeldOnce
  <2>1. \A g \in Delivery : g # d /\ pc'[g] = "insert" =>
          pc[g] = "insert" /\ uid[g] < uidNext[inbox[g]] /\ uid[g] \in Nat
    BY DEF IInv, TypeOK, HeldInv
  <2>2. CASE e # d /\ f # d
    BY <2>1, <2>2, Zenon DEF IInv, HeldOnce
  <2>3. CASE e = d \/ f = d
    BY <1>1, <1>2, <2>1, <2>3
  <2> QED  BY <2>2, <2>3
<1>9. RowsBelowNext'
  BY <1>1, RowFields DEF IInv, RowsBelowNext
<1>10. UIDUnique' /\ IdInv' /\ AtMostOncePerRecipient' /\ CacheMatchesRow'
  BY DEF IInv, UIDUnique, IdInv, AtMostOncePerRecipient, CacheMatchesRow
<1>11. PassedInv' /\ CachingInv'
  BY RowFields, ZenonT(60) DEF IInv, TypeOK, PassedInv, CachingInv
<1> QED  BY <1>3, <1>4, <1>5, <1>6, <1>7, <1>8, <1>9, <1>10, <1>11 DEF IInv

\* The UID is lost: nobody holds it, and uid_next has passed it.
LEMMA CommitUnknownInv ==
  ASSUME IInv, NEW d \in Delivery, CommitUnknown(d)
  PROVE  IInv'
<1> USE NoDeliveryAssumption DEF Running, InTx, goto, CommitUnknown, NextRecipient
<1>1. /\ inbox[d] \in Mailbox /\ uidNext' \in [Mailbox -> 1..MaxUID]
      /\ \A m \in Mailbox : uidNext[m] <= uidNext'[m] /\ uidNext[m] \in 1..MaxUID
      /\ \A m \in Mailbox : m # inbox[d] => uidNext'[m] = uidNext[m]
  BY BumpUIDNext, Zenon
<1>2. TypeOK'
  <2>1. nth' \in [Delivery -> Nat \ {0}]
    BY DEF IInv, TypeOK
  <2> QED  BY <1>1, <2>1, ZenonT(60) DEF IInv, TypeOK, RowType, EndTx
<1>3. ServingInv' /\ ConnInv'
  BY Zenon DEF IInv, TypeOK, ServingInv, ConnInv, EndTx
<1>4. LockInv'
  <2>1. pc'[d] = "next" /\ \A e \in Delivery : e # d => pc'[e] = pc[e]
    BY ZenonT(60) DEF IInv, TypeOK
  <2> QED  BY <2>1, EndTxLock
<1>5. ReadInv'
  <2> SUFFICES ASSUME NEW e \in Delivery, pc'[e] \in {"update", "commit"}
               PROVE  /\ uid'[e] = uidNext'[inbox'[e]]
                      /\ pc'[e] = "commit" => uidNext'[inbox'[e]] < MaxUID
    BY DEF ReadInv
  <2>1. e # d /\ pc[e] = pc'[e] /\ inbox[e] \in Mailbox
    BY DEF IInv, TypeOK, ServingInv
  <2>2. inbox[e] # inbox[d]
    BY <2>1, LockExcludes, Zenon
  <2> QED  BY <1>1, <2>1, <2>2 DEF IInv, ReadInv
<1>6. HeldInv'
  <2> SUFFICES ASSUME NEW e \in Delivery, pc'[e] = "insert"
               PROVE  /\ uid[e] \in 1..MaxUID /\ uid[e] < uidNext'[inbox[e]]
                      /\ \A r \in rows : r.mailbox = inbox[e] => r.uid # uid[e]
    BY DEF HeldInv
  <2>1. pc[e] = "insert" /\ inbox[e] \in Mailbox
    BY DEF IInv, TypeOK, ServingInv
  <2> QED  BY <1>1, <2>1 DEF IInv, HeldInv
<1>7. HeldOnce'
  BY DEF IInv, TypeOK, HeldOnce
<1>8. RowsBelowNext'
  BY <1>1, RowFields DEF IInv, RowsBelowNext
<1>9. UIDUnique' /\ IdInv' /\ AtMostOncePerRecipient' /\ CacheMatchesRow'
  BY DEF IInv, UIDUnique, IdInv, AtMostOncePerRecipient, CacheMatchesRow
<1>10. PassedInv' /\ CachingInv'
  <2>1. PassedInv'
    BY NextRecipientPassed, ZenonT(60)
  <2>2. CachingInv'
    BY DEF IInv, TypeOK, CachingInv
  <2> QED  BY <2>1, <2>2
<1> QED  BY <1>2, <1>3, <1>4, <1>5, <1>6, <1>7, <1>8, <1>9, <1>10, Zenon DEF IInv

\* The row is stored: its UID moves from the call to the table.
LEMMA InsertInv ==
  ASSUME IInv, NEW d \in Delivery, InsertMessage(d) \/ InsertUnknown(d)
  PROVE  IInv'
<1> USE NoDeliveryAssumption
    DEF Running, InTx, goto, InsertMessage, InsertUnknown, NextRecipient
<1>1. /\ rows' \subseteq RowType /\ nextID' \in Nat
      /\ RowsBelowNext' /\ UIDUnique' /\ IdInv' /\ AtMostOncePerRecipient'
  BY StoreRow
<1>2. /\ Row(d).id = nextID /\ Row(d).mailbox = inbox[d] /\ Row(d).uid = uid[d]
      /\ Row(d).body = d /\ Row(d).nth = nth[d]
  BY Zenon DEF Row
<1>3. /\ pc[d] = "insert" /\ rows' = rows \cup {Row(d)}
      /\ pc'[d] \in {"cache", "next"}
      /\ \A e \in Delivery : e # d => /\ pc'[e] = pc[e] /\ nth'[e] = nth[e]
                                     /\ msgID'[e] = msgID[e]
      /\ \/ pc'[d] = "cache" /\ nth'[d] = nth[d] /\ msgID'[d] = nextID
         \/ pc'[d] = "next" /\ nth'[d] = nth[d] + 1
      /\ UNCHANGED <<uidNext, rowLock, conns, cache, event, inbox, uid>>
  BY ZenonT(60) DEF IInv, TypeOK
<1>4. TypeOK'
  <2>1. nth' \in [Delivery -> Nat \ {0}]
    <3>1. CASE InsertMessage(d)
      BY <3>1 DEF IInv, TypeOK
    <3>2. CASE InsertUnknown(d)
      BY <3>2 DEF IInv, TypeOK
    <3> QED  BY <3>1, <3>2, Zenon
  <2>2. msgID' \in [Delivery -> Nat]
    BY DEF IInv, TypeOK
  <2>3. pc' \in [Delivery -> Running \cup {"idle", "returned", "dead"}]
    BY ZenonT(60) DEF IInv, TypeOK
  <2> QED  BY <1>1, <1>3, <2>1, <2>2, <2>3, Zenon DEF IInv, TypeOK
<1> HIDE DEF InsertMessage, InsertUnknown, NextRecipient, goto
<1>5. ServingInv' /\ ConnInv'
  BY <1>3, Zenon DEF IInv, TypeOK, ServingInv, ConnInv
<1>6. LockInv'
  BY <1>3, EndTxIdle, EndTxLock, Zenon
<1>7. ReadInv'
  BY <1>3, Zenon DEF IInv, ReadInv
<1>8. HeldInv'
  <2> SUFFICES ASSUME NEW e \in Delivery, pc'[e] = "insert"
               PROVE  /\ uid[e] \in 1..MaxUID /\ uid[e] < uidNext[inbox[e]]
                      /\ \A r \in rows' : r.mailbox = inbox[e] => r.uid # uid[e]
    BY <1>3 DEF HeldInv
  <2>1. e # d /\ pc[e] = "insert"
    BY <1>3, ZenonT(60)
  <2>2. inbox[e] = inbox[d] => uid[e] # uid[d]
    BY <1>3, <2>1 DEF IInv, HeldOnce
  <2> QED  BY <1>2, <1>3, <2>1, <2>2, ZenonT(60) DEF IInv, HeldInv
<1>9. HeldOnce'
  <2> SUFFICES ASSUME NEW e \in Delivery, NEW f \in Delivery,
                      pc'[e] = "insert", pc'[f] = "insert",
                      inbox[e] = inbox[f], uid[e] = uid[f]
               PROVE  e = f
    BY <1>3 DEF HeldOnce
  <2>1. pc[e] = "insert" /\ pc[f] = "insert"
    BY <1>3
  <2> QED  BY <2>1, ZenonT(60) DEF IInv, HeldOnce
<1>10. PassedInv'
  <2> SUFFICES ASSUME NEW r \in rows'
               PROVE  r.nth < nth'[r.body]
                        \/ (r.nth = nth'[r.body] /\ pc'[r.body] \in {"cache", "dead"})
    BY DEF PassedInv
  <2>1. nth[d] \in Nat
    BY ZenonT(60) DEF IInv, TypeOK
  <2>2. CASE r = Row(d)
    BY <1>2, <1>3, <2>1, <2>2
  <2>3. CASE r \in rows
    <3>1. r.body \in Delivery /\ r.nth \in Nat
      BY <2>3, RowFields DEF IInv
    <3>2. r.nth < nth[r.body] \/ (r.nth = nth[r.body] /\ pc[r.body] \in {"cache", "dead"})
      BY <2>3, ZenonT(60) DEF IInv, PassedInv
    <3>3. CASE r.body = d
      BY <1>3, <2>1, <3>1, <3>2, <3>3
    <3>4. CASE r.body # d
      <4>1. nth'[r.body] = nth[r.body] /\ pc'[r.body] = pc[r.body]
        BY <1>3, <3>1, <3>4
      <4> QED  BY <3>2, <4>1, ZenonT(60)
    <3> QED  BY <3>3, <3>4
  <2> QED  BY <1>3, <2>2, <2>3
<1>11. CachingInv' /\ CacheMatchesRow'
  <2>1. rows \subseteq rows' /\ Row(d) \in rows'
    BY <1>3
  <2>2. ASSUME NEW e \in Delivery, pc'[e] = "cache"
        PROVE  \E r \in rows' : r.id = msgID'[e] /\ r.body = e
    <3>1. CASE e = d
      BY <1>2, <1>3, <2>1, <2>2, <3>1, ZenonT(60)
    <3>2. CASE e # d
      BY <1>3, <2>1, <2>2, <3>2 DEF IInv, CachingInv
    <3> QED  BY <3>1, <3>2
  <2>3. CacheMatchesRow'
    BY <1>3, <2>1, Zenon DEF IInv, CacheMatchesRow
  <2> QED  BY <2>2, <2>3 DEF CachingInv
<1> QED  BY <1>1, <1>4, <1>5, <1>6, <1>7, <1>8, <1>9, <1>10, <1>11, ZenonT(60) DEF IInv

\* Caching the body: as leaving the recipient, but for the cache.
LEMMA SetMessageBodyInv ==
  ASSUME IInv, NEW d \in Delivery, SetMessageBody(d)
  PROVE  IInv'
<1> USE NoDeliveryAssumption DEF Running, InTx, goto, mysql, SetMessageBody, NextRecipient
<1>1. TypeOK'
  <2>1. nth' \in [Delivery -> Nat \ {0}]
    BY DEF IInv, TypeOK
  <2>2. cache' \subseteq [key: Nat, body: Delivery]
    BY DEF IInv, TypeOK, messageBodyKey
  <2>3. pc' \in [Delivery -> Running \cup {"idle", "returned", "dead"}]
    BY ZenonT(60) DEF IInv, TypeOK
  <2> QED  BY <2>1, <2>2, <2>3, ZenonT(60) DEF IInv, TypeOK, RowType
<1>2. ServingInv' /\ ConnInv' /\ ReadInv'
  BY DEF IInv, TypeOK, ServingInv, ConnInv, ReadInv
<1>3. LockInv'
  <2>1. pc'[d] = "next" /\ \A e \in Delivery : e # d => pc'[e] = pc[e]
    BY Zenon DEF IInv, TypeOK
  <2> QED  BY <2>1, EndTxIdle, EndTxLock, Zenon
<1>4. HeldInv' /\ HeldOnce' /\ RowsBelowNext'
  BY DEF IInv, TypeOK, HeldInv, HeldOnce, RowsBelowNext
<1>5. UIDUnique' /\ IdInv' /\ AtMostOncePerRecipient'
  BY DEF IInv, UIDUnique, IdInv, AtMostOncePerRecipient
<1>6. PassedInv'
  BY NextRecipientPassed, Zenon
<1>7. CachingInv'
  BY DEF IInv, TypeOK, CachingInv
<1>8. CacheMatchesRow'
  <2> SUFFICES ASSUME NEW c \in cache'
               PROVE  \E r \in rows : r.id = c.key /\ r.body = c.body
    BY Zenon DEF CacheMatchesRow
  <2>1. CASE c \in cache
    BY <2>1, Zenon DEF IInv, CacheMatchesRow
  <2>2. CASE c = [key |-> messageBodyKey(d), body |-> d]
    BY <2>2 DEF IInv, CachingInv, messageBodyKey
  <2> QED  BY <2>1, <2>2, Zenon
<1> QED  BY <1>1, <1>2, <1>3, <1>4, <1>5, <1>6, <1>7, <1>8, Zenon DEF IInv

\* Losing a cached body leaves the others faithful.
LEMMA ExpireInv ==
  ASSUME IInv, Expire
  PROVE  IInv'
<1> USE DEF Expire, mysql, locals
<1>1. TypeOK' /\ ServingInv' /\ ConnInv' /\ LockInv' /\ ReadInv'
  BY Zenon DEF IInv, TypeOK, RowType, ServingInv, ConnInv, LockInv, ReadInv
<1>2. HeldInv' /\ HeldOnce' /\ RowsBelowNext' /\ UIDUnique' /\ IdInv' /\ PassedInv'
  BY Zenon DEF IInv, HeldInv, HeldOnce, RowsBelowNext, UIDUnique, IdInv, PassedInv
<1>3. AtMostOncePerRecipient' /\ CachingInv' /\ CacheMatchesRow'
  BY DEF IInv, AtMostOncePerRecipient, CachingInv, CacheMatchesRow
<1> QED  BY <1>1, <1>2, <1>3 DEF IInv

\* A crash leaves rows and uid_next as committed, and no lock or connection held.
LEMMA CrashInv ==
  ASSUME IInv, Crash
  PROVE  IInv'
<1> USE DEF Crash, locals, Running, InTx
<1>1. /\ \A d \in Delivery : pc'[d] \notin Running
      /\ \A d \in Delivery : pc'[d] = pc[d] \/ pc'[d] = "dead"
  BY DEF IInv, TypeOK
<1>2. TypeOK'
  BY Zenon DEF IInv, TypeOK, RowType
<1>3. ServingInv' /\ ConnInv' /\ LockInv' /\ ReadInv' /\ HeldInv' /\ HeldOnce' /\ CachingInv'
  BY <1>1, Zenon DEF ServingInv, ConnInv, LockInv, ReadInv, HeldInv, HeldOnce, CachingInv
<1>4. RowsBelowNext' /\ UIDUnique' /\ IdInv' /\ AtMostOncePerRecipient' /\ CacheMatchesRow'
  BY Zenon DEF IInv, RowsBelowNext, UIDUnique, IdInv, AtMostOncePerRecipient, CacheMatchesRow
<1>5. PassedInv'
  BY RowFields, ZenonT(60) DEF IInv, TypeOK, PassedInv
<1> QED  BY <1>2, <1>3, <1>4, <1>5, Zenon DEF IInv

----------------------------------------------------------------------------
\* The empty store satisfies the invariant.
LEMMA InitInv == Init => IInv
<1> SUFFICES ASSUME Init PROVE IInv
  OBVIOUS
<1>1. TypeOK
  BY BoundAssumption DEF Init, TypeOK, RowType, Running
<1> QED
  BY <1>1, NoDeliveryAssumption
  DEF Init, IInv, ServingInv, ConnInv, LockInv, ReadInv, HeldInv, HeldOnce, RowsBelowNext,
      UIDUnique, IdInv, PassedInv, AtMostOncePerRecipient, CachingInv, CacheMatchesRow,
      Running, InTx

\* Every step preserves it.
LEMMA NextInv == IInv /\ [Next]_vars => IInv'
<1> SUFFICES ASSUME IInv, [Next]_vars PROVE IInv'
  OBVIOUS
<1>1. ASSUME NEW d \in Delivery, Deliver(d) \/ Step(d) PROVE IInv'
  BY <1>1, ControlInv, SelectForUpdateInv, UpdateUIDNextInv, CommitTxInv, InsertInv,
     SetMessageBodyInv, Zenon DEF Step
<1>2. ASSUME NEW d \in Delivery, Fault(d) PROVE IInv'
  BY <1>2, FailureInv, CommitUnknownInv, InsertInv DEF Fault
<1>3. CASE Expire
  BY <1>3, ExpireInv
<1>4. CASE Crash
  BY <1>4, CrashInv, Zenon
<1>5. CASE UNCHANGED vars
  <2> USE <1>5 DEF vars, IInv
  <2>1. TypeOK' /\ ServingInv' /\ ConnInv' /\ LockInv' /\ ReadInv'
    BY Zenon DEF TypeOK, RowType, ServingInv, ConnInv, LockInv, ReadInv
  <2>2. HeldInv' /\ HeldOnce' /\ RowsBelowNext' /\ UIDUnique' /\ IdInv' /\ PassedInv'
    BY ZenonT(60) DEF HeldInv, HeldOnce, RowsBelowNext, UIDUnique, IdInv, PassedInv
  <2>3. AtMostOncePerRecipient' /\ CachingInv' /\ CacheMatchesRow'
    BY DEF AtMostOncePerRecipient, CachingInv, CacheMatchesRow
  <2> QED  BY <2>1, <2>2, <2>3
<1> QED  BY <1>1, <1>2, <1>3, <1>4, <1>5 DEF Next

\* The inductive invariant holds throughout.
THEOREM Invariance == Spec => []IInv
  BY InitInv, NextInv, PTL DEF Spec

\* MySQL rows, Redis entries and the locals of Deliver keep their types; no UID
\* leaves 1..MaxUID (AllocateUID fails instead of wrapping around).
THEOREM TypeCorrect == Spec => []TypeOK
<1>1. IInv => TypeOK
  BY DEF IInv
<1> QED  BY <1>1, Invariance, PTL

\* AllocateUID and InsertMessage never give two messages of a mailbox one UID,
\* for any number of concurrent calls, failures and crashes.
THEOREM UIDsAreUnique == Spec => []UIDUnique
<1>1. IInv => UIDUnique
  BY DEF IInv
<1> QED  BY <1>1, Invariance, PTL

\* uid_next is above every UID stored or about to be stored.
THEOREM UIDsBelowNext == Spec => []UIDBelowNext
<1>1. IInv => UIDBelowNext
  BY DEF IInv, UIDBelowNext, RowsBelowNext, HeldInv
<1> QED  BY <1>1, Invariance, PTL

\* Deliver stores at most one row per entry of event.To.
THEOREM AtMostOnce == Spec => []AtMostOncePerRecipient
<1>1. IInv => AtMostOncePerRecipient
  BY DEF IInv
<1> QED  BY <1>1, Invariance, PTL

\* A body in Redis belongs to the row whose id is its key.
THEOREM CacheIsFaithful == Spec => []CacheMatchesRow
<1>1. IInv => CacheMatchesRow
  BY DEF IInv
<1> QED  BY <1>1, Invariance, PTL

----------------------------------------------------------------------------
(* The refinement of UidLedger. *)

\* Steps on which every call that holds a UID keeps it, and no call gains one.
LEMMA SameReserved ==
  ASSUME \A e \in Delivery : pc'[e] = "insert" <=> pc[e] = "insert",
         \A e \in Delivery : pc[e] = "insert" => inbox'[e] = inbox[e] /\ uid'[e] = uid[e]
  PROVE  ReservedUIDs' = ReservedUIDs
  BY DEF ReservedUIDs

\* The same rows are the same filed UIDs.
LEMMA SameFiled ==
  ASSUME rows' = rows
  PROVE  FiledUIDs' = FiledUIDs
  BY DEF FiledUIDs

\* AllocateUID's commit reserves the UID that was uid_next.
LEMMA CommitReserves ==
  ASSUME IInv, NEW d \in Delivery, CommitTx(d)
  PROVE  Ledger!Reserve(inbox[d])
<1> USE DEF CommitTx, goto, locals
<1> DEFINE m == inbox[d]
           Held(n) == {uid[e] : e \in {f \in Delivery : pc[f] = "insert" /\ inbox[f] = n}}
           HeldNow(n) == {uid[e] : e \in {f \in Delivery : pc'[f] = "insert" /\ inbox[f] = n}}
<1>1. m \in Mailbox /\ uid[d] = uidNext[m] /\ uidNext[m] < MaxUID
  BY Zenon DEF IInv, ServingInv, ReadInv, Running, InTx
<1>2. \A e \in Delivery : pc'[e] = "insert" <=> (pc[e] = "insert" \/ e = d)
  BY DEF IInv, TypeOK
<1>3. ReservedUIDs' = [ReservedUIDs EXCEPT ![m] = @ \cup {uidNext[m]}]
  <2>1. \A n \in Mailbox : HeldNow(n) = IF n = m THEN Held(n) \cup {uidNext[m]} ELSE Held(n)
    <3>1. ASSUME NEW n \in Mailbox, n # m
          PROVE  HeldNow(n) = Held(n)
      BY <1>2, <3>1, Zenon
    <3>2. HeldNow(m) = Held(m) \cup {uidNext[m]}
      BY <1>1, <1>2
    <3> HIDE DEF Held, HeldNow
    <3> QED  BY <3>1, <3>2, Zenon
  <2>2. /\ ReservedUIDs = [n \in Mailbox |-> Held(n)]
        /\ ReservedUIDs' = [n \in Mailbox |-> HeldNow(n)]
    BY DEF ReservedUIDs
  <2> HIDE DEF Held, HeldNow
  <2> QED  BY <1>1, <2>1, <2>2, Zenon
<1>4. FiledUIDs' = FiledUIDs
  BY SameFiled
<1> QED  BY <1>1, <1>3, <1>4, Zenon DEF Ledger!Reserve

\* InsertMessage files the UID that the call held, which no row has.
LEMMA InsertFiles ==
  ASSUME IInv, NEW d \in Delivery, InsertMessage(d) \/ InsertUnknown(d)
  PROVE  inbox[d] \in Mailbox /\ uid[d] \in ReservedUIDs[inbox[d]]
           /\ Ledger!File(inbox[d], uid[d])
<1> USE DEF InsertMessage, InsertUnknown, NextRecipient, goto
<1> DEFINE m == inbox[d]
           Held(n) == {uid[e] : e \in {f \in Delivery : pc[f] = "insert" /\ inbox[f] = n}}
           HeldNow(n) == {uid[e] : e \in {f \in Delivery : pc'[f] = "insert" /\ inbox[f] = n}}
           Filed(n) == {r.uid : r \in {s \in rows : s.mailbox = n}}
           FiledNow(n) == {r.uid : r \in {s \in rows' : s.mailbox = n}}
<1>1. /\ m \in Mailbox /\ pc[d] = "insert"
      /\ \A r \in rows : r.mailbox = m => r.uid # uid[d]
  BY DEF IInv, ServingInv, HeldInv, Running
<1>2. \A e \in Delivery : pc'[e] = "insert" <=> (pc[e] = "insert" /\ e # d)
  BY Zenon DEF IInv, TypeOK
<1>3. /\ rows' = rows \cup {Row(d)} /\ Row(d).mailbox = m /\ Row(d).uid = uid[d]
      /\ UNCHANGED <<uidNext, inbox, uid>>
  BY Zenon DEF Row
<1> HIDE DEF InsertMessage, InsertUnknown, NextRecipient, goto
<1>4. \A e \in Delivery : pc[e] = "insert" /\ inbox[e] = m /\ e # d => uid[e] # uid[d]
  BY <1>1, Zenon DEF IInv, HeldOnce
<1>5. \A n \in Mailbox : HeldNow(n) = IF n = m THEN Held(n) \ {uid[d]} ELSE Held(n)
  BY <1>1, <1>2, <1>4, Zenon
<1>6. \A n \in Mailbox : FiledNow(n) = IF n = m THEN Filed(n) \cup {uid[d]} ELSE Filed(n)
  BY <1>1, <1>3
<1>7. ReservedUIDs' = [ReservedUIDs EXCEPT ![m] = @ \ {uid[d]}]
  <2>1. /\ ReservedUIDs = [n \in Mailbox |-> Held(n)]
        /\ ReservedUIDs' = [n \in Mailbox |-> HeldNow(n)]
    BY <1>3, Zenon DEF ReservedUIDs
  <2> HIDE DEF Held, HeldNow
  <2> QED  BY <1>1, <1>5, <2>1, Zenon
<1>8. FiledUIDs' = [FiledUIDs EXCEPT ![m] = @ \cup {uid[d]}]
  BY <1>1, <1>6, ZenonT(60) DEF FiledUIDs
<1>9. uid[d] \in ReservedUIDs[m] \ FiledUIDs[m]
  BY <1>1 DEF ReservedUIDs, FiledUIDs
<1> QED  BY <1>1, <1>3, <1>7, <1>8, <1>9, Zenon DEF Ledger!File

\* Every other step leaves the ledger alone, or abandons UIDs.
LEMMA OtherSteps ==
  ASSUME IInv, NEW d \in Delivery,
         Deliver(d) \/ Return(d) \/ ResolveInbox(d) \/ BeginTx(d) \/ SelectForUpdate(d)
           \/ UpdateUIDNext(d) \/ SetMessageBody(d) \/ ResolveFails(d) \/ BeginTxFails(d)
           \/ TxFails(d) \/ SetMessageBodyFails(d)
  PROVE  UNCHANGED <<uidNext, ReservedUIDs, FiledUIDs>>
<1> USE DEF Deliver, Return, ResolveInbox, BeginTx, SelectForUpdate, UpdateUIDNext,
            SetMessageBody, ResolveFails, BeginTxFails, TxFails, SetMessageBodyFails,
            NextRecipient, goto, mysql, locals, InTx
<1>1. uidNext' = uidNext /\ rows' = rows
  BY Zenon
<1>2. \A e \in Delivery : pc'[e] = "insert" <=> pc[e] = "insert"
  BY Zenon DEF IInv, TypeOK
<1>3. \A e \in Delivery : pc[e] = "insert" => inbox'[e] = inbox[e] /\ uid'[e] = uid[e]
  BY Zenon DEF IInv, TypeOK
<1> QED  BY <1>1, <1>2, <1>3, SameReserved, SameFiled, Zenon

\* Steps that lose reserved UIDs: a failed insert, a crash.
LEMMA LosingSteps ==
  ASSUME IInv, Crash \/ \E d \in Delivery : InsertFails(d)
  PROVE  Ledger!Abandon
<1> USE DEF Crash, InsertFails, NextRecipient, goto, mysql, locals
<1>1. UNCHANGED <<uidNext, rows, inbox, uid>>
  BY Zenon
<1>2. \A e \in Delivery : pc'[e] = "insert" => pc[e] = "insert"
  BY DEF IInv, TypeOK, Running
<1> HIDE DEF Crash, InsertFails, NextRecipient
<1>3. ReservedUIDs' \in [Mailbox -> SUBSET (1..MaxUID)]
  <2>1. \A e \in Delivery : pc'[e] = "insert" => uid'[e] \in 1..MaxUID
    BY <1>1, <1>2, Zenon DEF IInv, HeldInv
  <2> QED  BY <2>1, Zenon DEF ReservedUIDs
<1>4. \A m \in Mailbox : ReservedUIDs'[m] \subseteq ReservedUIDs[m]
  BY <1>1, <1>2, ZenonT(60) DEF ReservedUIDs
<1> QED  BY <1>1, <1>3, <1>4, SameFiled, Zenon DEF Ledger!Abandon

\* Every step of delivery is a step of the ledger, or leaves it alone.
LEMMA NextRefines ==
  IInv /\ [Next]_vars => [Ledger!LedgerNext]_(Ledger!ledger)
<1> SUFFICES ASSUME IInv, [Next]_vars
             PROVE  [Ledger!LedgerNext]_(Ledger!ledger)
  BY Zenon
<1> USE DEF Ledger!LedgerNext, Ledger!ledger
<1>1. ASSUME NEW d \in Delivery, Deliver(d) \/ Step(d)
      PROVE  [Ledger!LedgerNext]_(Ledger!ledger)
  <2>1. CASE CommitTx(d)
    <3>1. inbox[d] \in Mailbox
      BY <2>1, Zenon DEF IInv, ServingInv, CommitTx, Running, InTx
    <3> QED  BY <2>1, <3>1, CommitReserves, Zenon
  <2>2. CASE InsertMessage(d)
    BY <2>2, InsertFiles, ZenonT(60)
  <2>3. CASE ~CommitTx(d) /\ ~InsertMessage(d)
    BY <1>1, <2>3, OtherSteps, ZenonT(60) DEF Step
  <2> QED  BY <2>1, <2>2, <2>3, Zenon
<1>2. ASSUME NEW d \in Delivery, Fault(d)
      PROVE  [Ledger!LedgerNext]_(Ledger!ledger)
  <2>1. CASE CommitUnknown(d)
    <3>1. inbox[d] \in Mailbox /\ uidNext[inbox[d]] < MaxUID
      BY <2>1, Zenon DEF IInv, ServingInv, ReadInv, CommitUnknown, Running, InTx
    <3>2. \A e \in Delivery : pc'[e] = "insert" <=> pc[e] = "insert"
      BY <2>1, Zenon DEF IInv, TypeOK, CommitUnknown, NextRecipient, goto
    <3>3. UNCHANGED <<rows, inbox, uid>>
      BY <2>1 DEF CommitUnknown
    <3>4. UNCHANGED <<ReservedUIDs, FiledUIDs>>
      BY <3>2, <3>3, SameReserved, SameFiled, Zenon
    <3>5. Ledger!Waste(inbox[d])
      BY <2>1, <3>1, <3>4, Zenon DEF Ledger!Waste, CommitUnknown
    <3> QED  BY <3>1, <3>5, Zenon
  <2>2. CASE InsertUnknown(d)
    BY <2>2, InsertFiles, Zenon
  <2>3. CASE InsertFails(d)
    BY <2>3, LosingSteps
  <2>4. CASE ~CommitUnknown(d) /\ ~InsertUnknown(d) /\ ~InsertFails(d)
    BY <1>2, <2>4, OtherSteps, Zenon DEF Fault
  <2> QED  BY <2>1, <2>2, <2>3, <2>4, Zenon
<1>3. CASE Expire
  BY <1>3, SameReserved, SameFiled, Zenon DEF Expire, mysql, locals
<1>4. CASE Crash
  BY <1>4, LosingSteps
<1>5. CASE UNCHANGED vars
  BY <1>5, SameReserved, SameFiled, Zenon DEF vars
<1> QED  BY <1>1, <1>2, <1>3, <1>4, <1>5, Zenon DEF Next

\* The statements of Deliver, interleaved, failing and cut short by crashes,
\* implement the UID ledger.
THEOREM StoreImplementsLedger == Spec => ImplementsLedger
<1>1. Init => Ledger!LedgerInit
  <2> SUFFICES ASSUME Init PROVE Ledger!LedgerInit
    OBVIOUS
  <2>1. ReservedUIDs = [m \in Mailbox |-> {}]
    <3>1. \A m \in Mailbox : {e \in Delivery : pc[e] = "insert" /\ inbox[e] = m} = {}
      BY Zenon DEF Init
    <3> QED  BY <3>1 DEF ReservedUIDs
  <2>2. FiledUIDs = [m \in Mailbox |-> {}]
    <3>1. \A m \in Mailbox : {s \in rows : s.mailbox = m} = {}
      BY DEF Init
    <3> QED  BY <3>1 DEF FiledUIDs
  <2> QED  BY <2>1, <2>2, Zenon DEF Init, Ledger!LedgerInit
<1> QED  BY <1>1, NextRefines, Invariance, PTL DEF Spec, ImplementsLedger, Ledger!LedgerSpec

----------------------------------------------------------------------------
(* The connection pool. *)

INSTANCE FiniteSetTheorems

\* The transactions of AllocateUID never hold more connections than the pool has.
PoolInv == IsFiniteSet(conns) /\ Cardinality(conns) <= MaxConns

\* Connections and row locks are held inside AllocateUID only, on every path, and
\* within the pool's limit.
THEOREM TransactionsEnd == Spec => []TxReleased
<1>1. Init => PoolInv
  BY FS_EmptySet, BoundAssumption DEF Init, PoolInv
<1>2. PoolInv /\ [Next]_vars => PoolInv'
  <2> SUFFICES ASSUME PoolInv, [Next]_vars PROVE PoolInv'
    OBVIOUS
  <2>1. ASSUME NEW d \in Delivery, BeginTx(d) PROVE PoolInv'
    <3>1. conns' = conns \cup {d} /\ Cardinality(conns) < MaxConns
      BY <2>1 DEF BeginTx, ConnFree
    <3>2. IsFiniteSet(conns') /\ (Cardinality(conns') = Cardinality(conns)
                                    \/ Cardinality(conns') = Cardinality(conns) + 1)
      BY <3>1, FS_AddElement DEF PoolInv
    <3>3. Cardinality(conns) \in Nat
      BY FS_CardinalityType DEF PoolInv
    <3> QED  BY <3>1, <3>2, <3>3, BoundAssumption DEF PoolInv
  <2>2. CASE conns' \subseteq conns
    <3>1. IsFiniteSet(conns') /\ Cardinality(conns') <= Cardinality(conns)
      BY <2>2, FS_Subset DEF PoolInv
    <3>2. Cardinality(conns) \in Nat /\ Cardinality(conns') \in Nat
      BY <3>1, FS_CardinalityType DEF PoolInv
    <3> QED  BY <3>1, <3>2, BoundAssumption DEF PoolInv
  <2>3. (\E d \in Delivery : BeginTx(d)) \/ conns' \subseteq conns
    BY ZenonT(60) DEF Next, Step, Fault, Deliver, Return, ResolveInbox, ResolveFails, BeginTxFails,
           SelectForUpdate, UpdateUIDNext, CommitTx, TxFails, CommitUnknown, InsertMessage,
           InsertFails, InsertUnknown, SetMessageBody, SetMessageBodyFails, Expire, Crash,
           EndTx, vars, mysql
  <2> QED  BY <2>1, <2>2, <2>3
<1>3. IInv /\ PoolInv => TxReleased
  BY DEF IInv, PoolInv, TxReleased, ConnInv, LockInv
<1> QED  BY <1>1, <1>2, <1>3, Invariance, PTL DEF Spec
=============================================================================
