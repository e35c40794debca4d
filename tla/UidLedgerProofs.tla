-------------------------- MODULE UidLedgerProofs ---------------------------
(***************************************************************************)
(* Proofs about UidLedger, for every set of mailboxes and every range of   *)
(* UIDs: what the readers of a mailbox, IMAP and JMAP, may rely on while   *)
(* deliveries go on.                                                       *)
(***************************************************************************)
EXTENDS UidLedger, TLAPS

\* UIDs that have been given out are below the next one, and one that is in the
\* mailbox is not given to another message.
LedgerInv ==
  /\ next \in [Mailbox -> Nat]
  /\ reserved \in [Mailbox -> SUBSET Nat]
  /\ filed \in [Mailbox -> SUBSET Nat]
  /\ \A m \in Mailbox :
       /\ \A u \in reserved[m] \cup filed[m] : u < next[m]
       /\ reserved[m] \cap filed[m] = {}

\* Mailboxes only grow, and what enters one was reserved for it.
LedgerGrows ==
  \A m \in Mailbox :
    /\ next[m] <= next'[m]
    /\ filed[m] \subseteq filed'[m]
    /\ filed'[m] \subseteq filed[m] \cup reserved[m]

----------------------------------------------------------------------------
\* The mailboxes are empty at first.
LEMMA LedgerInitInv == LedgerInit => LedgerInv
  BY DEF LedgerInit, LedgerInv

\* Every step keeps the UIDs apart and below the next one, and lets mailboxes grow.
LEMMA LedgerNextInv ==
  ASSUME LedgerInv, [LedgerNext]_ledger
  PROVE  LedgerInv' /\ LedgerGrows
<1> USE DEF LedgerInv, LedgerGrows
<1>1. ASSUME NEW m \in Mailbox, Reserve(m) PROVE LedgerInv' /\ LedgerGrows
  BY <1>1 DEF Reserve
<1>2. ASSUME NEW m \in Mailbox, Waste(m) PROVE LedgerInv' /\ LedgerGrows
  BY <1>2 DEF Waste
<1>3. ASSUME NEW m \in Mailbox, NEW u \in reserved[m], File(m, u)
      PROVE  LedgerInv' /\ LedgerGrows
  BY <1>3 DEF File
<1>4. CASE Abandon
  <2>1. reserved' \in [Mailbox -> SUBSET Nat]
    BY <1>4 DEF Abandon
  <2> QED  BY <1>4, <2>1 DEF Abandon
<1>5. CASE UNCHANGED ledger
  BY <1>5 DEF ledger
<1> QED  BY <1>1, <1>2, <1>3, <1>4, <1>5 DEF LedgerNext

\* The ledger keeps its promise: UIDs in a mailbox are below UIDNEXT and are not
\* given out again.
THEOREM LedgerInvariance == LedgerSpec => []LedgerInv
<1> QED  BY LedgerInitInv, LedgerNextInv, PTL DEF LedgerSpec

\* No message leaves a mailbox and UIDNEXT does not decrease.
THEOREM LedgerIsMonotonic == LedgerSpec => [][LedgerGrows]_ledger
<1>1. LedgerInv /\ [LedgerNext]_ledger => [LedgerGrows]_ledger
  BY LedgerNextInv
<1> QED  BY <1>1, LedgerInvariance, PTL DEF LedgerSpec

\* UID u of mailbox m has been given out and lost: the transaction of AllocateUID was
\* committed, and the INSERT was never done.
Lost(m, u) == u < next[m] /\ u \notin reserved[m] \cup filed[m]

\* A lost UID stays a gap: AllocateUID gives it to no other message, so nothing
\* ever appears in the mailbox under it.
THEOREM LostUIDsStayGaps ==
  ASSUME NEW m \in Mailbox, NEW u \in Nat
  PROVE  LedgerSpec => [](Lost(m, u) => []Lost(m, u))
<1>1. LedgerInv /\ Lost(m, u) /\ [LedgerNext]_ledger => Lost(m, u)'
  <2> SUFFICES ASSUME LedgerInv, Lost(m, u), [LedgerNext]_ledger PROVE Lost(m, u)'
    OBVIOUS
  <2>1. ASSUME NEW k \in Mailbox, Reserve(k) \/ Waste(k) PROVE Lost(m, u)'
    BY <2>1 DEF LedgerInv, Lost, Reserve, Waste
  <2>2. ASSUME NEW k \in Mailbox, NEW v \in reserved[k], File(k, v) PROVE Lost(m, u)'
    BY <2>2 DEF LedgerInv, Lost, File
  <2>3. CASE Abandon \/ UNCHANGED ledger
    BY <2>3 DEF LedgerInv, Lost, Abandon, ledger
  <2> QED  BY <2>1, <2>2, <2>3 DEF LedgerNext
<1> QED  BY <1>1, LedgerInvariance, PTL DEF LedgerSpec
============================================================================
