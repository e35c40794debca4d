--------------------------- MODULE MCImapSession ----------------------------
(* ImapSession for TLC: interchangeable users, each with the same folders,  *)
(* and a name that no mailbox has.                                          *)
EXTENDS ImapSession, TLC

CONSTANT Trash

MCBoxes == User \X (Folder \ {Trash})
MCMailbox == User \X {INBOX}

\* The mailboxes no longer matter once the session is closed; a second message
\* arrives in one of them only.
Bound ==
  /\ pc # "closed"
  /\ \E u \in User : \A m \in Mailbox : m[1] # u => next[m] <= 2
UserSymmetry == Permutations(User)
============================================================================
