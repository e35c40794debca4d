---------------------------- MODULE ImapSession ----------------------------
(***************************************************************************)
(* One IMAP session, internal/imap/session.go and handler.go, reading the  *)
(* mailboxes that SMTP delivers into meanwhile.                            *)
(*                                                                         *)
(* The store is the ledger that MessageStore implements: mailboxes.uid_next*)
(* is next, the UIDs in the messages table are filed.  IMAP writes neither,*)
(* so sessions do not affect one another and one is enough.  Each action is*)
(* one command, except that handleSelect makes two reads between which a   *)
(* delivery may step, and handleSTARTTLS waits for the handshake.  A       *)
(* listing is the set of its UIDs: ListMessages orders by UID, so the set  *)
(* determines the sequence numbers.  Flags, sizes and bodies are left out. *)
(***************************************************************************)
EXTENDS UidLedger

CONSTANTS
  User,       \* users rows
  NoUser,     \* userID before LOGIN; credentials of nobody
  Folder,     \* mailbox names
  INBOX,      \* the folder that SMTP delivers into
  NoBox,      \* no mailbox
  Boxes       \* mailboxes rows, as <<user, name>>

ASSUME UserAssumption == NoUser \notin User
ASSUME BoxAssumption ==
  /\ INBOX \in Folder /\ Boxes \subseteq User \X Folder /\ NoBox \notin Boxes
  /\ Mailbox = Boxes \cap (User \X {INBOX})

VARIABLES
  fsm,        \* s.fsm.Current()
  userID,     \* s.userID
  selected,   \* *s.selected, or NotSelected
  tls,        \* s.tlsCfg and s.isTLS: "none" (no certificate), "offered", "active"
  pc,         \* where the goroutine blocks
  mb,         \* the row that handleSelect has read, with its argument readOnly
  reply       \* the tagged reply of the last command and what came with it

\* History: what the client has been told.
VARIABLES
  shown,      \* the UIDs of each mailbox
  opened      \* the command that opened the present mailbox, or ""

session == <<fsm, userID, selected, tls, pc, mb, reply, shown, opened>>
vars == <<next, reserved, filed, session>>

----------------------------------------------------------------------------
State == {"not_authenticated", "authenticated", "selected", "logout"}

newSession ==
  [login  |-> [src |-> {"not_authenticated"}, dst |-> "authenticated"],
   select |-> [src |-> {"authenticated"}, dst |-> "selected"],
   close  |-> [src |-> {"selected"}, dst |-> "authenticated"],
   logout |-> [src |-> {"not_authenticated", "authenticated", "selected"}, dst |-> "logout"]]

transition(ev) == fsm \in newSession[ev].src /\ fsm' = newSession[ev].dst

\* SELECT in state selected is taken without an FSM event.
transitionSelect == (fsm = "selected" /\ UNCHANGED fsm) \/ transition("select")

\* The commands that dispatch routes to a handler in each state.
Everywhere == {"CAPABILITY", "LOGOUT"}
LoggedIn == Everywhere \cup {"SELECT", "EXAMINE", "LIST", "NOOP"}
Verb == LoggedIn \cup {"LOGIN", "STARTTLS", "LSUB", "FETCH", "STORE", "SEARCH",
                       "EXPUNGE", "CLOSE", "other"}
\* Mutant: STARTTLS is taken after LOGIN.
dispatch_LateSTARTTLS ==
  [not_authenticated |-> Everywhere \cup {"LOGIN", "STARTTLS"},
   authenticated |-> LoggedIn \cup {"LSUB", "STARTTLS"},
   selected |-> LoggedIn \cup {"FETCH", "STORE", "SEARCH", "EXPUNGE", "CLOSE"}]
dispatch ==
  [not_authenticated |-> Everywhere \cup {"LOGIN", "STARTTLS"},
   authenticated |-> LoggedIn \cup {"LSUB"},
   selected |-> LoggedIn \cup {"FETCH", "STORE", "SEARCH", "EXPUNGE", "CLOSE"}]

\* The read loop has read this command, and dispatch routes it.
Routed(cmd) == pc = "loop" /\ cmd \in dispatch[fsm]

NotSelected == [box |-> NoBox, uidNext |-> 0, readOnly |-> FALSE]

\* A tagged reply alone, and one preceded by the messages of a mailbox.
writeTagged(cmd, status) ==
  /\ reply' = [cmd |-> cmd, status |-> status, box |-> NoBox, uids |-> {},
               uidNext |-> 0]
  /\ UNCHANGED shown

writeListing(cmd, box, uids, uidnext) ==
  /\ reply' = [cmd |-> cmd, status |-> "OK", box |-> box, uids |-> uids,
               uidNext |-> uidnext]
  /\ shown' = [shown EXCEPT ![box] = @ \cup uids]

\* The handler answers and changes nothing.
Answer(cmd, status) ==
  writeTagged(cmd, status) /\ UNCHANGED <<fsm, userID, selected, tls, pc, mb, opened>>

\* ListMessages and the uid_next column.  Only INBOX rows ever receive messages.
ListMessages(box) == IF box \in Mailbox THEN filed[box] ELSE {}
UIDNext(box) == IF box \in Mailbox THEN next[box] ELSE 1

----------------------------------------------------------------------------
Init ==
  /\ LedgerInit
  /\ fsm = "not_authenticated"
  /\ userID = NoUser
  /\ selected = NotSelected
  /\ tls \in {"none", "offered", "active"}
  /\ pc = "loop"
  /\ mb = NotSelected
  /\ reply = [cmd |-> "", status |-> "OK", box |-> NoBox, uids |-> {},
              uidNext |-> 0]
  /\ shown = [b \in Boxes |-> {}]
  /\ opened = ""

\* A command the state does not allow.
Reject(cmd) ==
  /\ pc = "loop" /\ cmd \notin dispatch[fsm]
  /\ Answer(cmd, IF fsm = "selected" THEN "BAD" ELSE "NO")

\* Arguments missing: every handler that splits its arguments checks them first.
BadSyntax(cmd) ==
  /\ Routed(cmd)
  /\ cmd \in {"LOGIN", "SELECT", "EXAMINE", "LIST", "LSUB", "FETCH"}
  /\ Answer(cmd, "BAD")

\* A line with no second word; an empty line is skipped.
BadLine == pc = "loop" /\ Answer("", "BAD")

\* A lookup fails or finds nothing.
StoreError(cmd) ==
  /\ Routed(cmd)
  /\ cmd \in {"LOGIN", "SELECT", "EXAMINE", "LIST", "LSUB", "FETCH", "SEARCH"}
  /\ Answer(cmd, "NO")

handleCapability == Routed("CAPABILITY") /\ Answer("CAPABILITY", "OK")
NOOP == Routed("NOOP") /\ Answer("NOOP", "OK")
handleList(cmd) == cmd \in {"LIST", "LSUB"} /\ Routed(cmd) /\ Answer(cmd, "OK")

\* LOGIN as u with the right password or a wrong one.
handleLogin(u, passwordOK) ==
  /\ Routed("LOGIN")
  /\ \/ ~passwordOK /\ Answer("LOGIN", "NO")
     \/ /\ passwordOK
        /\ transition("login")
        /\ userID' = u
        /\ writeTagged("LOGIN", "OK")
        /\ UNCHANGED <<selected, tls, pc, mb, opened>>

\* Mutant: a mailbox that is selected already is not looked up again.
handleSelect_ReusesSelected(cmd, name) ==
  /\ cmd \in {"SELECT", "EXAMINE"} /\ Routed(cmd)
  /\ <<userID, name>> \in Boxes
  /\ mb' = IF selected.box = <<userID, name>>
           THEN [selected EXCEPT !.readOnly = (cmd = "EXAMINE")]
           ELSE [box |-> <<userID, name>>, uidNext |-> UIDNext(<<userID, name>>),
                 readOnly |-> (cmd = "EXAMINE")]
  /\ pc' = "select"
  /\ UNCHANGED <<fsm, userID, selected, tls, reply, shown, opened>>

\* Mutant: the error of FindMailbox is not looked at.
handleSelect_NoRow(cmd, name) ==
  /\ cmd \in {"SELECT", "EXAMINE"} /\ Routed(cmd)
  /\ mb' = [box |-> <<userID, name>>, uidNext |-> UIDNext(<<userID, name>>),
            readOnly |-> (cmd = "EXAMINE")]
  /\ pc' = "select"
  /\ UNCHANGED <<fsm, userID, selected, tls, reply, shown, opened>>

\* Mutant: FindMailbox looks for the name alone.
handleSelect_ByName(cmd, name) ==
  /\ cmd \in {"SELECT", "EXAMINE"} /\ Routed(cmd)
  /\ \E b \in Boxes :
       /\ b[2] = name
       /\ mb' = [box |-> b, uidNext |-> UIDNext(b), readOnly |-> (cmd = "EXAMINE")]
  /\ pc' = "select"
  /\ UNCHANGED <<fsm, userID, selected, tls, reply, shown, opened>>

\* handleSelect up to its second read: FindMailbox has returned the row.
handleSelect(cmd, name) ==
  /\ cmd \in {"SELECT", "EXAMINE"} /\ Routed(cmd)
  /\ <<userID, name>> \in Boxes
  /\ mb' = [box |-> <<userID, name>>, uidNext |-> UIDNext(<<userID, name>>),
            readOnly |-> (cmd = "EXAMINE")]
  /\ pc' = "select"
  /\ UNCHANGED <<fsm, userID, selected, tls, reply, shown, opened>>

SelectCommand == IF mb.readOnly THEN "EXAMINE" ELSE "SELECT"

\* Mutant: a mailbox opened over another one keeps the mode of that one.
SelectDone_KeepsMode ==
  /\ pc = "select"
  /\ transitionSelect
  /\ selected' = IF fsm = "selected" THEN [mb EXCEPT !.readOnly = selected.readOnly] ELSE mb
  /\ writeListing(SelectCommand, mb.box, ListMessages(mb.box), mb.uidNext)
  /\ opened' = SelectCommand
  /\ mb' = NotSelected
  /\ pc' = "loop"
  /\ UNCHANGED <<userID, tls>>

\* ListMessages returns: the mailbox is selected and described to the client.
SelectDone ==
  /\ pc = "select"
  /\ transitionSelect
  /\ selected' = mb
  /\ writeListing(SelectCommand, mb.box, ListMessages(mb.box), mb.uidNext)
  /\ opened' = SelectCommand
  /\ mb' = NotSelected
  /\ pc' = "loop"
  /\ UNCHANGED <<userID, tls>>

\* ListMessages fails: whatever was selected before stays selected.
SelectFails ==
  /\ pc = "select"
  /\ writeTagged(SelectCommand, "NO")
  /\ mb' = NotSelected
  /\ pc' = "loop"
  /\ UNCHANGED <<fsm, userID, selected, tls, opened>>

\* Mutant: only the messages that SELECT counted on are shown.
handleFetch_BelowUIDNext ==
  /\ Routed("FETCH")
  /\ writeListing("FETCH", selected.box,
                  {u \in ListMessages(selected.box) : u < selected.uidNext}, 0)
  /\ UNCHANGED <<fsm, userID, selected, tls, pc, mb, opened>>

\* FETCH lists the mailbox and shows every message of it; the sequence set is not read.
handleFetch ==
  /\ Routed("FETCH")
  /\ writeListing("FETCH", selected.box, ListMessages(selected.box), 0)
  /\ UNCHANGED <<fsm, userID, selected, tls, pc, mb, opened>>

\* SEARCH does the same, whatever its criteria.
handleSearch ==
  /\ Routed("SEARCH")
  /\ writeListing("SEARCH", selected.box, ListMessages(selected.box), 0)
  /\ UNCHANGED <<fsm, userID, selected, tls, pc, mb, opened>>

\* Neither STORE nor EXPUNGE changes a message yet; both look at ReadOnly.
handleStore == Routed("STORE") /\ Answer("STORE", IF selected.readOnly THEN "NO" ELSE "OK")
handleExpunge == Routed("EXPUNGE") /\ Answer("EXPUNGE", IF selected.readOnly THEN "NO" ELSE "OK")

\* Mutant: the mailbox stays selected.
handleClose_KeepsMailbox ==
  /\ Routed("CLOSE")
  /\ transition("close")
  /\ writeTagged("CLOSE", "OK")
  /\ opened' = ""
  /\ UNCHANGED <<userID, selected, tls, pc, mb>>

handleClose ==
  /\ Routed("CLOSE")
  /\ selected' = NotSelected
  /\ transition("close")
  /\ writeTagged("CLOSE", "OK")
  /\ opened' = ""
  /\ UNCHANGED <<userID, tls, pc, mb>>

\* Handle returns when dispatch leaves the FSM in logout.
handleLogout ==
  /\ Routed("LOGOUT")
  /\ transition("logout")
  /\ writeTagged("LOGOUT", "OK")
  /\ pc' = "closed"
  /\ UNCHANGED <<userID, selected, tls, mb, opened>>

\* handleSTARTTLS up to the call of Handshake, and after it.
handleSTARTTLS ==
  /\ Routed("STARTTLS")
  /\ \/ tls # "offered" /\ Answer("STARTTLS", "NO")
     \/ /\ tls = "offered"
        /\ writeTagged("STARTTLS", "OK")
        /\ pc' = "starttls"
        /\ UNCHANGED <<fsm, userID, selected, tls, mb, opened>>

StartTLSDone ==
  /\ pc = "starttls"
  /\ tls' = "active"
  /\ pc' = "loop"
  /\ UNCHANGED <<fsm, userID, selected, mb, reply, shown, opened>>

StartTLSFailed ==
  /\ pc = "starttls"
  /\ pc' = "loop"
  /\ UNCHANGED <<fsm, userID, selected, tls, mb, reply, shown, opened>>

\* End of file, reset, or thirty minutes of silence.
ReadError ==
  /\ pc = "loop"
  /\ pc' = "closed"
  /\ UNCHANGED <<fsm, userID, selected, tls, mb, reply, shown, opened>>

SessionNext ==
  \/ \E cmd \in Verb :
       \/ Reject(cmd) \/ BadSyntax(cmd) \/ StoreError(cmd) \/ handleList(cmd)
       \/ \E name \in Folder : handleSelect(cmd, name)
  \/ BadLine \/ handleCapability \/ NOOP
  \/ \E u \in User, ok \in BOOLEAN : handleLogin(u, ok)
  \/ SelectDone \/ SelectFails
  \/ handleFetch \/ handleSearch \/ handleStore \/ handleExpunge \/ handleClose \/ handleLogout
  \/ handleSTARTTLS \/ StartTLSDone \/ StartTLSFailed
  \/ ReadError

\* A step of the session, or of a delivery somewhere.
Next ==
  \/ SessionNext /\ UNCHANGED ledger
  \/ LedgerNext /\ UNCHANGED session

Spec == Init /\ [][Next]_vars

----------------------------------------------------------------------------
Selection == [box: Boxes \cup {NoBox}, uidNext: Nat, readOnly: BOOLEAN]

\* Type correctness of the session's fields.
TypeOK ==
  /\ fsm \in State
  /\ userID \in User \cup {NoUser}
  /\ selected \in Selection
  /\ tls \in {"none", "offered", "active"}
  /\ pc \in {"loop", "select", "starttls", "closed"}
  /\ mb \in Selection
  /\ reply \in [cmd: Verb \cup {""}, status: {"OK", "NO", "BAD"}, box: Boxes \cup {NoBox},
                uids: SUBSET Nat, uidNext: Nat]
  /\ shown \in [Boxes -> SUBSET Nat]
  /\ opened \in {"", "SELECT", "EXAMINE"}

\* A mailbox is selected exactly in state selected (so the checks for a nil
\* s.selected in the handlers never fire), through failed and repeated SELECTs,
\* CLOSE and LOGOUT.
SelectedMatchesState ==
  pc # "closed" => (fsm = "selected" <=> selected # NotSelected)

\* A client is only ever shown messages of the user it logged in as: userID never
\* changes once a mailbox may have been read under it.
OnlyOwnMessages ==
  \A b \in Boxes : shown[b] # {} => b[1] = userID

\* Nothing the client has been told of vanishes: each listing of a mailbox (FETCH,
\* SEARCH, or the EXISTS of SELECT) has every message of any earlier listing of
\* it, also one that arrived between the two reads of handleSelect.
NothingVanishes ==
  reply.box # NoBox => reply.uids = shown[reply.box]

\* handleSelect announces a UIDNEXT above every UID the client had seen in that
\* mailbox, although uid_next is read before the messages, and moves on.
UIDNextIsFresh ==
  [][pc = "select" /\ pc' = "loop" /\ reply'.status = "OK" =>
       \A u \in shown[mb.box] : u < reply'.uidNext]_vars

\* STORE and EXPUNGE are granted only in a mailbox that the client was last told
\* it had opened with SELECT: no sequence of SELECT, EXAMINE, failed re-selects
\* and CLOSE lets an EXAMINE grant them.
ReadOnlyIsKept ==
  (reply.cmd \in {"STORE", "EXPUNGE"} /\ reply.status = "OK") => opened = "SELECT"

\* The channel changes only before LOGIN: no credentials or mailbox cross into TLS.
UpgradeBeforeLogin ==
  [][tls' # tls => userID = NoUser /\ selected = NotSelected]_vars
============================================================================
