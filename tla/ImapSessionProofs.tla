------------------------- MODULE ImapSessionProofs --------------------------
(***************************************************************************)
(* Proofs about ImapSession, for every set of users, folders and mailboxes *)
(* and every sequence of commands and deliveries.                          *)
(***************************************************************************)
EXTENDS ImapSession, UidLedgerProofs

\* The obligations carry many definitions: more time for SMT, a second try, then Zenon.
USE SMTT(30), SMTT(60), ZenonT(60)

\* Where the goroutine is, as the FSM sees it: the handshake comes before LOGIN,
\* handleSelect after it, and a session that has logged out is closed.
PlaceInv ==
  /\ pc = "select" => fsm \in {"authenticated", "selected"}
  /\ pc = "starttls" => fsm = "not_authenticated"
  /\ fsm = "logout" => pc = "closed"

\* Before LOGIN there is no user, no mailbox and nothing shown.
FreshInv ==
  fsm = "not_authenticated" =>
    userID = NoUser /\ selected = NotSelected /\ \A b \in Boxes : shown[b] = {}

\* A selected mailbox is a mailbox of the user, and the client was told in which
\* mode it was opened; none is selected outside of state selected.
SelectionInv ==
  /\ fsm = "selected" =>
       /\ selected.box \in Boxes /\ selected.box[1] = userID
       /\ opened = IF selected.readOnly THEN "EXAMINE" ELSE "SELECT"
  /\ fsm \in {"not_authenticated", "authenticated"} => selected = NotSelected

\* The row that handleSelect has read is the user's, and its uid_next is above
\* every UID the client has seen in that mailbox.
RowInv ==
  pc = "select" =>
    /\ mb.box \in Boxes /\ mb.box[1] = userID
    /\ \A u \in shown[mb.box] : u < mb.uidNext

\* What the client has been shown is in the mailboxes, and those are the user's.
ShownInv ==
  \A b \in Boxes : shown[b] \subseteq ListMessages(b) /\ (shown[b] # {} => b[1] = userID)

\* The inductive invariant.
IInv ==
  /\ LedgerInv /\ TypeOK
  /\ PlaceInv /\ FreshInv /\ SelectionInv /\ RowInv /\ ShownInv
  /\ NothingVanishes /\ ReadOnlyIsKept

----------------------------------------------------------------------------
\* The commands that the proofs need to place in a state.
LEMMA DispatchTable ==
  /\ \A cmd \in {"LOGIN", "STARTTLS"} :
       cmd \in dispatch["not_authenticated"]
         /\ cmd \notin dispatch["authenticated"] /\ cmd \notin dispatch["selected"]
  /\ \A cmd \in {"SELECT", "EXAMINE"} : cmd \notin dispatch["not_authenticated"]
  /\ \A cmd \in {"FETCH", "STORE", "SEARCH", "EXPUNGE", "CLOSE"} :
       cmd \notin dispatch["not_authenticated"] /\ cmd \notin dispatch["authenticated"]
  BY DEF dispatch, Everywhere, LoggedIn

\* A command is routed in a state that the session is in.
LEMMA RoutedState ==
  ASSUME IInv, NEW cmd, Routed(cmd)
  PROVE  /\ pc = "loop" /\ fsm \in {"not_authenticated", "authenticated", "selected"}
         /\ cmd \in {"LOGIN", "STARTTLS"} => fsm = "not_authenticated"
         /\ cmd \in {"SELECT", "EXAMINE"} => fsm \in {"authenticated", "selected"}
         /\ cmd \in {"FETCH", "STORE", "SEARCH", "EXPUNGE", "CLOSE"} => fsm = "selected"
<1>1. pc = "loop" /\ fsm \in {"not_authenticated", "authenticated", "selected"}
  BY Zenon DEF Routed, IInv, TypeOK, State, PlaceInv
<1> QED  BY <1>1, DispatchTable DEF Routed

\* What a mailbox lists are UIDs below its UIDNEXT.
LEMMA ListingType ==
  ASSUME LedgerInv, NEW b
  PROVE  /\ ListMessages(b) \subseteq Nat
         /\ UIDNext(b) \in Nat
         /\ \A u \in ListMessages(b) : u < UIDNext(b)
  BY DEF LedgerInv, ListMessages, UIDNext

\* A selection of nothing.
LEMMA NotSelectedType == NotSelected \in Selection /\ NotSelected.box \notin Boxes
  BY BoxAssumption DEF NotSelected, Selection

\* A tagged reply alone.
LEMMA TaggedReply ==
  ASSUME NEW cmd \in Verb \cup {""}, NEW status \in {"OK", "NO", "BAD"},
         writeTagged(cmd, status)
  PROVE  /\ reply' \in [cmd: Verb \cup {""}, status: {"OK", "NO", "BAD"},
                        box: Boxes \cup {NoBox}, uids: SUBSET Nat, uidNext: Nat]
         /\ reply'.cmd = cmd /\ reply'.status = status /\ reply'.box = NoBox
         /\ shown' = shown
  BY Zenon DEF writeTagged

\* A listing shows everything that was ever shown of the mailbox, because messages
\* never leave it.
LEMMA ListingReply ==
  ASSUME IInv, NEW cmd \in Verb, NEW b \in Boxes, NEW n \in Nat,
         writeListing(cmd, b, ListMessages(b), n)
  PROVE  /\ reply' \in [cmd: Verb \cup {""}, status: {"OK", "NO", "BAD"},
                        box: Boxes \cup {NoBox}, uids: SUBSET Nat, uidNext: Nat]
         /\ reply'.cmd = cmd /\ reply'.status = "OK" /\ reply'.uidNext = n
         /\ shown' \in [Boxes -> SUBSET Nat]
         /\ shown' = [shown EXCEPT ![b] = ListMessages(b)]
         /\ NothingVanishes'
<1>1. ListMessages(b) \subseteq Nat
  BY ListingType DEF IInv
<1>2. shown \in [Boxes -> SUBSET Nat] /\ shown[b] \subseteq ListMessages(b)
  BY Zenon DEF IInv, TypeOK, ShownInv
<1>3. shown' = [shown EXCEPT ![b] = ListMessages(b)] /\ shown' \in [Boxes -> SUBSET Nat]
  BY <1>1, <1>2, Zenon DEF writeListing
<1>4. reply' = [cmd |-> cmd, status |-> "OK", box |-> b, uids |-> ListMessages(b),
                uidNext |-> n]
  BY DEF writeListing
<1>5. NothingVanishes'
  BY <1>2, <1>3, <1>4 DEF NothingVanishes
<1> QED  BY <1>1, <1>3, <1>4, <1>5, Zenon

----------------------------------------------------------------------------
\* A handler that only answers keeps the invariant, if it grants a change only in a
\* mailbox opened with SELECT.
LEMMA AnswerInv ==
  ASSUME IInv, UNCHANGED ledger, NEW cmd \in Verb \cup {""}, NEW status \in {"OK", "NO", "BAD"},
         Answer(cmd, status),
         cmd \in {"STORE", "EXPUNGE"} /\ status = "OK" => opened = "SELECT"
  PROVE  IInv'
<1>1. /\ writeTagged(cmd, status) /\ shown' = shown
      /\ UNCHANGED <<next, reserved, filed, fsm, userID, selected, tls, pc, mb, opened>>
  BY Zenon DEF Answer, ledger, writeTagged
<1>2. TypeOK'
  BY <1>1, TaggedReply, Zenon DEF IInv, TypeOK
<1>3. LedgerInv' /\ PlaceInv' /\ FreshInv' /\ SelectionInv' /\ RowInv' /\ ShownInv'
  BY <1>1, Zenon DEF IInv, LedgerInv, PlaceInv, FreshInv, SelectionInv, RowInv, ShownInv, ListMessages
<1>4. NothingVanishes' /\ ReadOnlyIsKept'
  BY <1>1, TaggedReply, Zenon DEF NothingVanishes, ReadOnlyIsKept
<1> QED  BY <1>2, <1>3, <1>4, Zenon DEF IInv

\* LOGIN names the user of a session that has shown nothing yet.
LEMMA handleLoginInv ==
  ASSUME IInv, UNCHANGED ledger, NEW u \in User, NEW ok \in BOOLEAN, handleLogin(u, ok)
  PROVE  IInv'
<1>1. CASE Answer("LOGIN", "NO")
  BY <1>1, AnswerInv DEF Verb, LoggedIn, Everywhere
<1>2. CASE /\ transition("login") /\ userID' = u /\ writeTagged("LOGIN", "OK")
           /\ UNCHANGED <<selected, tls, pc, mb, opened>>
  <2>1. pc = "loop" /\ fsm = "not_authenticated" /\ fsm' = "authenticated"
    BY <1>2, RoutedState DEF handleLogin, transition, newSession
  <2>2. UNCHANGED <<next, reserved, filed>> /\ shown' = shown
    BY <1>2 DEF ledger, writeTagged
  <2>3. /\ reply' \in [cmd: Verb \cup {""}, status: {"OK", "NO", "BAD"},
                       box: Boxes \cup {NoBox}, uids: SUBSET Nat, uidNext: Nat]
        /\ reply'.cmd = "LOGIN" /\ reply'.box = NoBox
    BY <1>2, TaggedReply, Zenon DEF Verb
  <2>4. TypeOK'
    BY <1>2, <2>1, <2>2, <2>3, Zenon DEF IInv, TypeOK, State
  <2>5. LedgerInv' /\ PlaceInv' /\ FreshInv' /\ SelectionInv' /\ RowInv' /\ ShownInv'
    BY <1>2, <2>1, <2>2 DEF IInv, LedgerInv, PlaceInv, FreshInv, SelectionInv, RowInv, ShownInv,
                            ListMessages, NotSelected
  <2>6. NothingVanishes' /\ ReadOnlyIsKept'
    BY <2>3, Zenon DEF NothingVanishes, ReadOnlyIsKept
  <2> QED  BY <2>4, <2>5, <2>6 DEF IInv
<1> QED  BY <1>1, <1>2 DEF handleLogin

\* handleSelect reads uid_next of a mailbox of which nothing newer has been shown.
LEMMA handleSelectInv ==
  ASSUME IInv, UNCHANGED ledger, NEW cmd, NEW name \in Folder, handleSelect(cmd, name)
  PROVE  IInv'
<1> DEFINE b == <<userID, name>>
<1>1. pc = "loop" /\ fsm \in {"authenticated", "selected"}
  BY RoutedState DEF handleSelect
<1>2. /\ b \in Boxes /\ b[1] = userID
      /\ mb' = [box |-> b, uidNext |-> UIDNext(b), readOnly |-> (cmd = "EXAMINE")]
      /\ pc' = "select"
      /\ UNCHANGED <<next, reserved, filed, fsm, userID, selected, tls, reply, shown, opened>>
  BY DEF handleSelect, ledger
<1>3. /\ UIDNext(b) \in Nat /\ \A u \in ListMessages(b) : u < UIDNext(b)
  BY ListingType DEF IInv
<1>4. mb' \in Selection /\ mb'.box = b /\ mb'.uidNext = UIDNext(b)
  BY <1>2, <1>3 DEF Selection
<1>5. TypeOK'
  BY <1>2, <1>4, ZenonT(60) DEF IInv, TypeOK
<1>6. RowInv'
  BY <1>2, <1>3, <1>4 DEF IInv, RowInv, ShownInv
<1>7. LedgerInv' /\ PlaceInv' /\ FreshInv' /\ SelectionInv' /\ ShownInv'
  BY <1>1, <1>2 DEF IInv, LedgerInv, PlaceInv, FreshInv, SelectionInv, ShownInv, ListMessages
<1>8. NothingVanishes' /\ ReadOnlyIsKept'
  BY <1>2 DEF IInv, NothingVanishes, ReadOnlyIsKept
<1> QED  BY <1>5, <1>6, <1>7, <1>8 DEF IInv

\* The listing of a mailbox of the user, in state selected from then on.
LEMMA SelectDoneInv ==
  ASSUME IInv, UNCHANGED ledger, SelectDone
  PROVE  IInv'
<1>1. /\ fsm \in {"authenticated", "selected"} /\ fsm' = "selected"
      /\ mb.box \in Boxes /\ mb.box[1] = userID /\ mb \in Selection
  BY Zenon DEF SelectDone, transitionSelect, transition, newSession, IInv, TypeOK, PlaceInv, RowInv
<1>2. /\ selected' = mb /\ opened' = SelectCommand /\ mb' = NotSelected /\ pc' = "loop"
      /\ UNCHANGED <<next, reserved, filed, userID, tls>>
      /\ SelectCommand \in {"SELECT", "EXAMINE"}
      /\ writeListing(SelectCommand, mb.box, ListMessages(mb.box), mb.uidNext)
  BY DEF SelectDone, ledger, SelectCommand
<1>3. mb.uidNext \in Nat /\ SelectCommand \in Verb
  BY <1>1, <1>2 DEF Selection, Verb, LoggedIn, Everywhere
<1>4. /\ reply' \in [cmd: Verb \cup {""}, status: {"OK", "NO", "BAD"},
                     box: Boxes \cup {NoBox}, uids: SUBSET Nat, uidNext: Nat]
      /\ reply'.cmd = SelectCommand
      /\ shown' \in [Boxes -> SUBSET Nat]
      /\ shown' = [shown EXCEPT ![mb.box] = ListMessages(mb.box)]
      /\ NothingVanishes'
  BY <1>1, <1>2, <1>3, ListingReply, ZenonT(60)
<1>5. TypeOK'
  BY <1>1, <1>2, <1>4, NotSelectedType, Zenon DEF IInv, TypeOK, State
<1>6. ShownInv'
  BY <1>1, <1>2, <1>4, Zenon DEF IInv, TypeOK, ShownInv, ListMessages
<1>7. SelectionInv'
  BY <1>1, <1>2 DEF SelectionInv, SelectCommand
<1>8. LedgerInv' /\ PlaceInv' /\ FreshInv' /\ RowInv' /\ ReadOnlyIsKept'
  BY <1>1, <1>2, <1>4, Zenon DEF IInv, LedgerInv, PlaceInv, FreshInv, RowInv, ReadOnlyIsKept
<1> QED  BY <1>4, <1>5, <1>6, <1>7, <1>8, Zenon DEF IInv

\* A SELECT that fails leaves the selection as it was.
LEMMA SelectFailsInv ==
  ASSUME IInv, UNCHANGED ledger, SelectFails
  PROVE  IInv'
<1>1. /\ mb' = NotSelected /\ pc = "select" /\ pc' = "loop" /\ shown' = shown
      /\ UNCHANGED <<next, reserved, filed, fsm, userID, selected, tls, opened>>
      /\ SelectCommand \in {"SELECT", "EXAMINE"} /\ writeTagged(SelectCommand, "NO")
  BY DEF SelectFails, ledger, SelectCommand, writeTagged
<1>2. /\ reply' \in [cmd: Verb \cup {""}, status: {"OK", "NO", "BAD"},
                     box: Boxes \cup {NoBox}, uids: SUBSET Nat, uidNext: Nat]
      /\ reply'.cmd \in {"SELECT", "EXAMINE"} /\ reply'.box = NoBox
  BY <1>1, TaggedReply, Zenon DEF Verb, LoggedIn, Everywhere
<1>3. TypeOK'
  BY <1>1, <1>2, NotSelectedType, Zenon DEF IInv, TypeOK
<1>4. LedgerInv' /\ PlaceInv' /\ FreshInv' /\ SelectionInv' /\ RowInv' /\ ShownInv'
  BY <1>1 DEF IInv, LedgerInv, PlaceInv, FreshInv, SelectionInv, RowInv, ShownInv, ListMessages
<1>5. NothingVanishes' /\ ReadOnlyIsKept'
  BY <1>2, Zenon DEF NothingVanishes, ReadOnlyIsKept
<1> QED  BY <1>3, <1>4, <1>5 DEF IInv

\* FETCH and SEARCH list the selected mailbox.
LEMMA ListSelectedInv ==
  ASSUME IInv, UNCHANGED ledger, handleFetch \/ handleSearch
  PROVE  IInv'
<1>1. PICK cmd \in {"FETCH", "SEARCH"} :
        Routed(cmd) /\ writeListing(cmd, selected.box, ListMessages(selected.box), 0)
  BY DEF handleFetch, handleSearch
<1>2. pc = "loop" /\ fsm = "selected" /\ selected.box \in Boxes /\ selected.box[1] = userID
  BY <1>1, RoutedState DEF IInv, SelectionInv
<1>3. UNCHANGED <<next, reserved, filed, fsm, userID, selected, tls, pc, mb, opened>>
  BY DEF handleFetch, handleSearch, ledger
<1>4. cmd \in Verb
  BY DEF Verb
<1>5. /\ reply' \in [cmd: Verb \cup {""}, status: {"OK", "NO", "BAD"},
                     box: Boxes \cup {NoBox}, uids: SUBSET Nat, uidNext: Nat]
      /\ reply'.cmd = cmd
      /\ shown' \in [Boxes -> SUBSET Nat]
      /\ shown' = [shown EXCEPT ![selected.box] = ListMessages(selected.box)]
      /\ NothingVanishes'
  BY <1>1, <1>2, <1>4, ListingReply, Zenon
<1>6. TypeOK'
  BY <1>3, <1>5, Zenon DEF IInv, TypeOK
<1>7. ShownInv'
  BY <1>2, <1>3, <1>5, Zenon DEF IInv, TypeOK, ShownInv, ListMessages
<1>8. LedgerInv' /\ PlaceInv' /\ FreshInv' /\ SelectionInv' /\ RowInv' /\ ReadOnlyIsKept'
  BY <1>2, <1>3, <1>5, Zenon DEF IInv, LedgerInv, PlaceInv, FreshInv, SelectionInv, RowInv, ReadOnlyIsKept
<1> QED  BY <1>5, <1>6, <1>7, <1>8, Zenon DEF IInv

\* CLOSE forgets the mailbox and returns to authenticated.
LEMMA handleCloseInv ==
  ASSUME IInv, UNCHANGED ledger, handleClose
  PROVE  IInv'
<1>1. pc = "loop" /\ fsm = "selected" /\ fsm' = "authenticated"
  BY RoutedState, Zenon DEF handleClose, transition, newSession
<1>2. /\ selected' = NotSelected /\ opened' = "" /\ shown' = shown
      /\ UNCHANGED <<next, reserved, filed, userID, tls, pc, mb>>
      /\ writeTagged("CLOSE", "OK")
  BY Zenon DEF handleClose, ledger, writeTagged
<1>3. /\ reply' \in [cmd: Verb \cup {""}, status: {"OK", "NO", "BAD"},
                     box: Boxes \cup {NoBox}, uids: SUBSET Nat, uidNext: Nat]
      /\ reply'.cmd = "CLOSE" /\ reply'.box = NoBox
  BY <1>2, TaggedReply, Zenon DEF Verb
<1>4. TypeOK'
  BY <1>1, <1>2, <1>3, NotSelectedType, Zenon DEF IInv, TypeOK, State
<1>5. LedgerInv' /\ PlaceInv' /\ FreshInv' /\ SelectionInv' /\ RowInv' /\ ShownInv'
  BY <1>1, <1>2, Zenon DEF IInv, LedgerInv, PlaceInv, FreshInv, SelectionInv, RowInv, ShownInv,
                    ListMessages, NotSelected
<1>6. NothingVanishes' /\ ReadOnlyIsKept'
  BY <1>3, Zenon DEF NothingVanishes, ReadOnlyIsKept
<1> QED  BY <1>4, <1>5, <1>6 DEF IInv

\* LOGOUT and a failed read close the session, the handshake returns to the loop.
LEMMA LeaveInv ==
  ASSUME IInv, UNCHANGED ledger,
         handleLogout \/ handleSTARTTLS \/ StartTLSDone \/ StartTLSFailed \/ ReadError
  PROVE  IInv'
<1>1. CASE handleLogout
  <2>1. fsm' = "logout" /\ pc' = "closed"
    BY <1>1 DEF handleLogout, transition, newSession
  <2>2. /\ UNCHANGED <<next, reserved, filed, userID, selected, tls, mb, opened>> /\ shown' = shown
        /\ writeTagged("LOGOUT", "OK")
    BY <1>1 DEF handleLogout, ledger, writeTagged
  <2>3. /\ reply' \in [cmd: Verb \cup {""}, status: {"OK", "NO", "BAD"},
                       box: Boxes \cup {NoBox}, uids: SUBSET Nat, uidNext: Nat]
        /\ reply'.cmd = "LOGOUT" /\ reply'.box = NoBox
    BY <2>2, TaggedReply, Zenon DEF Verb, LoggedIn, Everywhere
  <2>4. TypeOK'
    BY <2>1, <2>2, <2>3, Zenon DEF IInv, TypeOK, State
  <2>5. LedgerInv' /\ PlaceInv' /\ FreshInv' /\ SelectionInv' /\ RowInv' /\ ShownInv'
    BY <2>1, <2>2 DEF IInv, LedgerInv, PlaceInv, FreshInv, SelectionInv, RowInv, ShownInv, ListMessages
  <2>6. NothingVanishes' /\ ReadOnlyIsKept'
    BY <2>3, Zenon DEF NothingVanishes, ReadOnlyIsKept
  <2> QED  BY <2>4, <2>5, <2>6 DEF IInv
<1>2. CASE handleSTARTTLS
  <2>1. CASE Answer("STARTTLS", "NO")
    BY <2>1, AnswerInv, Zenon DEF Verb
  <2>2. CASE /\ writeTagged("STARTTLS", "OK") /\ pc' = "starttls"
             /\ UNCHANGED <<fsm, userID, selected, tls, mb, opened>>
    <3>1. fsm = "not_authenticated" /\ UNCHANGED <<next, reserved, filed, shown>>
      BY <1>2, <2>2, RoutedState DEF handleSTARTTLS, ledger, writeTagged
    <3>2. /\ reply' \in [cmd: Verb \cup {""}, status: {"OK", "NO", "BAD"},
                         box: Boxes \cup {NoBox}, uids: SUBSET Nat, uidNext: Nat]
          /\ reply'.cmd = "STARTTLS" /\ reply'.box = NoBox
      BY <2>2, TaggedReply, Zenon DEF Verb
    <3>3. TypeOK'
      BY <2>2, <3>1, <3>2, Zenon DEF IInv, TypeOK
    <3>4. LedgerInv' /\ PlaceInv' /\ FreshInv' /\ SelectionInv' /\ RowInv' /\ ShownInv'
      BY <2>2, <3>1 DEF IInv, LedgerInv, PlaceInv, FreshInv, SelectionInv, RowInv, ShownInv, ListMessages
    <3>5. NothingVanishes' /\ ReadOnlyIsKept'
      BY <3>2, Zenon DEF NothingVanishes, ReadOnlyIsKept
    <3> QED  BY <3>3, <3>4, <3>5 DEF IInv
  <2> QED  BY <1>2, <2>1, <2>2 DEF handleSTARTTLS
<1>3. CASE StartTLSDone \/ StartTLSFailed \/ ReadError
  <2>1. /\ pc' \in {"loop", "closed"} /\ (pc' = "loop" => fsm = "not_authenticated")
        /\ tls' \in {"none", "offered", "active"}
        /\ UNCHANGED <<next, reserved, filed, fsm, userID, selected, mb, reply, shown, opened>>
    BY <1>3, Zenon DEF StartTLSDone, StartTLSFailed, ReadError, ledger, IInv, TypeOK, PlaceInv
  <2>2. TypeOK'
    BY <2>1, Zenon DEF IInv, TypeOK
  <2>3. LedgerInv' /\ PlaceInv' /\ FreshInv' /\ SelectionInv' /\ RowInv' /\ ShownInv'
    BY <2>1 DEF IInv, LedgerInv, PlaceInv, FreshInv, SelectionInv, RowInv, ShownInv, ListMessages
  <2>4. NothingVanishes' /\ ReadOnlyIsKept'
    BY <2>1 DEF IInv, NothingVanishes, ReadOnlyIsKept
  <2> QED  BY <2>2, <2>3, <2>4 DEF IInv
<1> QED  BY <1>1, <1>2, <1>3

\* Handlers that answer and change nothing; STORE and EXPUNGE look at the mode.
LEMMA AnsweringInv ==
  ASSUME IInv, UNCHANGED ledger,
         \/ \E cmd \in Verb : Reject(cmd) \/ BadSyntax(cmd) \/ StoreError(cmd) \/ handleList(cmd)
         \/ BadLine \/ handleCapability \/ NOOP \/ handleStore \/ handleExpunge
  PROVE  IInv'
<1>1. CASE \E cmd \in Verb : Reject(cmd) \/ BadSyntax(cmd) \/ StoreError(cmd) \/ handleList(cmd)
  <2>1. PICK cmd \in Verb, status \in {"OK", "NO", "BAD"} :
          Answer(cmd, status) /\ (status = "OK" => cmd \in {"LIST", "LSUB"})
    BY <1>1 DEF Reject, BadSyntax, StoreError, handleList
  <2> QED  BY <2>1, AnswerInv, Zenon
<1>2. CASE BadLine \/ handleCapability \/ NOOP
  BY <1>2, AnswerInv, Zenon DEF BadLine, handleCapability, NOOP, Verb, LoggedIn, Everywhere
<1>3. CASE handleStore \/ handleExpunge
  <2>1. PICK cmd \in {"STORE", "EXPUNGE"} :
          Routed(cmd) /\ Answer(cmd, IF selected.readOnly THEN "NO" ELSE "OK")
    BY <1>3 DEF handleStore, handleExpunge
  <2>2. fsm = "selected"
    BY <2>1, RoutedState
  <2>3. opened = IF selected.readOnly THEN "EXAMINE" ELSE "SELECT"
    BY <2>2 DEF IInv, SelectionInv
  <2>4. CASE selected.readOnly
    BY <2>1, <2>4, AnswerInv, Zenon DEF Verb
  <2>5. CASE ~selected.readOnly
    BY <2>1, <2>3, <2>5, AnswerInv, Zenon DEF Verb
  <2> QED  BY <2>4, <2>5
<1> QED  BY <1>1, <1>2, <1>3

\* A delivery somewhere: mailboxes grow, the session is as it was.
LEMMA DeliveryInv ==
  ASSUME IInv, [LedgerNext]_ledger, UNCHANGED session
  PROVE  IInv'
<1>1. LedgerInv' /\ LedgerGrows
  BY LedgerNextInv DEF IInv
<1>2. \A b \in Boxes : ListMessages(b) \subseteq ListMessages(b)'
  BY <1>1 DEF LedgerGrows, ListMessages
<1>3. UNCHANGED <<fsm, userID, selected, tls, pc, mb, reply, shown, opened>>
  BY DEF session
<1>4. TypeOK'
  BY <1>3, ZenonT(60) DEF IInv, TypeOK
<1>5. ShownInv'
  BY <1>2, <1>3 DEF IInv, ShownInv
<1>6. PlaceInv' /\ FreshInv' /\ SelectionInv' /\ RowInv' /\ NothingVanishes' /\ ReadOnlyIsKept'
  BY <1>3 DEF IInv, PlaceInv, FreshInv, SelectionInv, RowInv, NothingVanishes, ReadOnlyIsKept
<1> QED  BY <1>1, <1>4, <1>5, <1>6 DEF IInv

\* A session before its first command.
LEMMA InitInv == Init => IInv
<1> SUFFICES ASSUME Init PROVE IInv
  OBVIOUS
<1>1. LedgerInv
  BY LedgerInitInv, Zenon DEF Init
<1>2. TypeOK
  BY NotSelectedType, Zenon DEF Init, TypeOK, State
<1>3. PlaceInv /\ FreshInv /\ SelectionInv /\ RowInv /\ ShownInv /\ NothingVanishes /\ ReadOnlyIsKept
  BY Zenon DEF Init, PlaceInv, FreshInv, SelectionInv, RowInv, ShownInv, NothingVanishes, ReadOnlyIsKept
<1> QED  BY <1>1, <1>2, <1>3 DEF IInv

\* Every step preserves the invariant.
LEMMA NextInv == IInv /\ [Next]_vars => IInv'
<1> SUFFICES ASSUME IInv, [Next]_vars PROVE IInv'
  OBVIOUS
<1>1. CASE SessionNext /\ UNCHANGED ledger
  <2>1. CASE \E cmd \in Verb, name \in Folder : handleSelect(cmd, name)
    BY <1>1, <2>1, handleSelectInv
  <2>2. CASE \E u \in User, ok \in BOOLEAN : handleLogin(u, ok)
    BY <1>1, <2>2, handleLoginInv
  <2>3. CASE SelectDone
    BY <1>1, <2>3, SelectDoneInv
  <2>4. CASE SelectFails
    BY <1>1, <2>4, SelectFailsInv
  <2>5. CASE handleFetch \/ handleSearch
    BY <1>1, <2>5, ListSelectedInv
  <2>6. CASE handleClose
    BY <1>1, <2>6, handleCloseInv
  <2>7. CASE handleLogout \/ handleSTARTTLS \/ StartTLSDone \/ StartTLSFailed \/ ReadError
    BY <1>1, <2>7, LeaveInv
  <2>8. CASE \/ \E cmd \in Verb : Reject(cmd) \/ BadSyntax(cmd) \/ StoreError(cmd) \/ handleList(cmd)
             \/ BadLine \/ handleCapability \/ NOOP \/ handleStore \/ handleExpunge
    BY <1>1, <2>8, AnsweringInv
  <2> QED  BY <1>1, <2>1, <2>2, <2>3, <2>4, <2>5, <2>6, <2>7, <2>8 DEF SessionNext
<1>2. CASE LedgerNext /\ UNCHANGED session
  BY <1>2, DeliveryInv
<1>3. CASE UNCHANGED vars
  BY <1>3, DeliveryInv DEF vars, ledger
<1> QED  BY <1>1, <1>2, <1>3 DEF Next

----------------------------------------------------------------------------
\* The inductive invariant holds in every reachable state.
THEOREM Invariance == Spec => []IInv
<1> QED  BY InitInv, NextInv, PTL DEF Spec

\* Type correctness.
THEOREM TypeCorrect == Spec => []TypeOK
<1>1. IInv => TypeOK
  BY DEF IInv
<1> QED  BY <1>1, Invariance, PTL

\* A mailbox is selected exactly in state selected.
THEOREM SelectionFollowsState == Spec => []SelectedMatchesState
<1>1. IInv => SelectedMatchesState
  BY NotSelectedType, Zenon DEF IInv, TypeOK, State, PlaceInv, SelectionInv, SelectedMatchesState
<1> QED  BY <1>1, Invariance, PTL

\* A client is shown messages of the user it logged in as, and of nobody else.
THEOREM MessagesAreOwn == Spec => []OnlyOwnMessages
<1>1. IInv => OnlyOwnMessages
  BY DEF IInv, ShownInv, OnlyOwnMessages
<1> QED  BY <1>1, Invariance, PTL

\* Each listing has every message of the earlier listings of its mailbox.
THEOREM ListingsNeverShrink == Spec => []NothingVanishes
<1>1. IInv => NothingVanishes
  BY DEF IInv
<1> QED  BY <1>1, Invariance, PTL

\* STORE and EXPUNGE are granted only in a mailbox opened with SELECT.
THEOREM ReadOnlyIsRespected == Spec => []ReadOnlyIsKept
<1>1. IInv => ReadOnlyIsKept
  BY DEF IInv
<1> QED  BY <1>1, Invariance, PTL

\* The UIDNEXT that SELECT announces is above every UID shown before: only the end
\* of handleSelect leaves pc = "select", and RowInv bounds the row it has read.
THEOREM AnnouncedUIDNextIsFresh == Spec => UIDNextIsFresh
<1> DEFINE A == pc = "select" /\ pc' = "loop" /\ reply'.status = "OK" =>
                  \A u \in shown[mb.box] : u < reply'.uidNext
<1>1. ASSUME IInv, [Next]_vars PROVE [A]_vars
  <2>1. SUFFICES ASSUME pc = "select", pc' = "loop", reply'.status = "OK"
                 PROVE  \A u \in shown[mb.box] : u < reply'.uidNext
    OBVIOUS
  <2>2. SelectDone \/ SelectFails
    <3>1. SessionNext
      BY <1>1, <2>1 DEF Next, vars, session
    <3> QED
      BY <2>1, <3>1 DEF SessionNext, Reject, BadSyntax, BadLine, StoreError, Routed, handleList,
         handleSelect, handleCapability, NOOP, handleLogin, handleFetch, handleSearch, handleStore,
         handleExpunge, handleClose, handleLogout, handleSTARTTLS, StartTLSDone, StartTLSFailed,
         ReadError
  <2>3. reply'.uidNext = mb.uidNext
    BY <2>1, <2>2 DEF SelectDone, SelectFails, writeListing, writeTagged
  <2> QED  BY <1>1, <2>1, <2>3 DEF IInv, RowInv
<1> QED  BY <1>1, Invariance, PTL DEF Spec, UIDNextIsFresh

\* The connection is upgraded only before LOGIN: StartTLSDone alone changes it, and
\* the handshake begins and ends in state not_authenticated.
THEOREM UpgradeIsBeforeLogin == Spec => UpgradeBeforeLogin
<1> DEFINE A == tls' # tls => userID = NoUser /\ selected = NotSelected
<1>1. ASSUME IInv, [Next]_vars PROVE [A]_vars
  <2>1. SUFFICES ASSUME tls' # tls PROVE userID = NoUser /\ selected = NotSelected
    OBVIOUS
  <2>2. StartTLSDone
    <3>1. SessionNext
      BY <1>1, <2>1 DEF Next, vars, session
    <3> QED
      BY <2>1, <3>1, Zenon DEF SessionNext, Answer, Reject, BadSyntax, BadLine, StoreError, handleList,
         handleSelect, handleCapability, NOOP, handleLogin, SelectDone, SelectFails, handleFetch,
         handleSearch, handleStore, handleExpunge, handleClose, handleLogout, handleSTARTTLS,
         StartTLSFailed, ReadError
  <2> QED  BY <1>1, <2>2 DEF StartTLSDone, IInv, PlaceInv, FreshInv
<1> QED  BY <1>1, Invariance, PTL DEF Spec, UpgradeBeforeLogin
============================================================================
