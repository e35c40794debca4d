----------------------------- MODULE UidLedger -----------------------------
(***************************************************************************)
(* What mysql.AllocateUID and InsertMessage together promise of the UIDs   *)
(* of a mailbox: a UID is reserved for one message, and then filed with it *)
(* or abandoned; it is never given out again.  Gaps are allowed, and so is *)
(* filing in another order than reserving.                                 *)
(***************************************************************************)
EXTENDS Naturals

CONSTANTS Mailbox, MaxUID

VARIABLES
  next,      \* the next UID of each mailbox
  reserved,  \* UIDs given to a message that is not in the mailbox yet
  filed      \* UIDs of the messages in the mailbox

ledger == <<next, reserved, filed>>

LedgerInit ==
  /\ next = [m \in Mailbox |-> 1]
  /\ reserved = [m \in Mailbox |-> {}]
  /\ filed = [m \in Mailbox |-> {}]

\* Take the next UID.
Reserve(m) ==
  /\ next[m] < MaxUID
  /\ reserved' = [reserved EXCEPT ![m] = @ \cup {next[m]}]
  /\ next' = [next EXCEPT ![m] = @ + 1]
  /\ UNCHANGED filed

\* Take the next UID for nobody: the caller never learns of it.
Waste(m) ==
  /\ next[m] < MaxUID
  /\ next' = [next EXCEPT ![m] = @ + 1]
  /\ UNCHANGED <<reserved, filed>>

\* The message with UID u enters the mailbox, which has no message with that UID.
File(m, u) ==
  /\ u \in reserved[m] \ filed[m]
  /\ reserved' = [reserved EXCEPT ![m] = @ \ {u}]
  /\ filed' = [filed EXCEPT ![m] = @ \cup {u}]
  /\ UNCHANGED next

\* Some reserved UIDs will never be used.
Abandon ==
  /\ reserved' \in [Mailbox -> SUBSET (1..MaxUID)]
  /\ \A m \in Mailbox : reserved'[m] \subseteq reserved[m]
  /\ UNCHANGED <<next, filed>>

LedgerNext ==
  \/ \E m \in Mailbox : Reserve(m) \/ Waste(m) \/ \E u \in reserved[m] : File(m, u)
  \/ Abandon

LedgerSpec == LedgerInit /\ [][LedgerNext]_ledger
============================================================================
