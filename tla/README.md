# Verification of gomail-core

TLA+ models of the mail server in `src/`, model-checked with TLC on small
instances, and proofs with TLAPS for every instance. `PROJECT.json` lists
components, runs, mutants, the map from definitions to source lines, findings,
hazards and theorems.

## The system

Three processes share one MySQL database and one Redis.

| Part | Source | State | What drives it |
|---|---|---|---|
| SMTP session | `internal/smtp/session.go`, `handler.go`, `envelope.go` | FSM, envelope, connection | one goroutine per client: lines, timeouts, TLS handshake, result of `Deliver` |
| Delivery | `internal/storage/message_store.go`, `storage/mysql`, `storage/redis` | tables `mailboxes` and `messages`, cached bodies | calls of `Deliver` from all SMTP sessions at once |
| IMAP session | `internal/imap/session.go`, `handler.go` | FSM, user, selected mailbox | one goroutine per client; reads the tables |
| JMAP | `internal/jmap` | none between requests, except the token the client holds | HTTP requests; reads the tables |
| Listeners, entry points | `smtp/server.go`, `imap/server.go`, `cmd/` | listeners | connections, signals |
| Parsers | `extractAddress`, `parseAddress`, `extractSubject` | none | |
| Configuration, TLS files, logging | `config`, `security`, `telemetry` | read at start-up | |

An SMTP session collects an envelope, reads the body and calls `Deliver` with a
`MessageReceived` event. `Deliver` visits the recipients: look up the INBOX,
allocate a UID in a transaction, insert the row, cache the body. IMAP and JMAP
only read, so messages flow one way: session, store, reader.

## Modules

| Module | Models | Checked by | Proved in |
|---|---|---|---|
| `SmtpSession` | one SMTP session | `MCSmtpSession` | `SmtpSessionProofs` |
| `MessageStore` | concurrent calls of `Deliver` over MySQL and Redis | `MCMessageStore` | `MessageStoreProofs` |
| `UidLedger` | what allocation and insertion promise of UIDs (abstract) | refined by `MessageStore`, used by `ImapSession` and `JmapServer` | `UidLedgerProofs`; refinement in `MessageStoreProofs` |
| `ImapSession` | one IMAP session over the ledger | `MCImapSession` | `ImapSessionProofs` |
| `SmtpWire` | `SmtpSession` with a client, the connection and the session's readers | `MCSmtpWire` | `SmtpWireProofs` |
| `JmapServer` | concurrent JMAP requests, tokens and accounts over the ledger | `MCJmapServer` | `JmapServerProofs` |
| `Lifecycle` | a server process from start to exit, listeners and signals | itself | `LifecycleProofs` |
| `Parsers` | `extractAddress`, `parseAddress` | in `mail_system` | `MailSystemProofs` |
| `MailSystem` | `SmtpSession`, `MessageStore`, `Lifecycle` and `Parsers` composed | `MCMailSystem` | `MailSystemProofs` |

### SmtpSession

`fsm`, `envelope` and `tls` are the fields of `Session` (`tls` stands for `tlsCfg`
and `isTLS` together). `pc` says where the goroutine blocks: the read loop, the body
loop of `handleDATA`, the handshake, `Deliver`, or closed. `tx` and `given` are
history: what the client has been told 250 for since MAIL, and on this channel.

One action is one iteration of the loop in `Handle` with the handler it calls.
`handleDATA` and `handleSTARTTLS` are split where they wait: each body line, the
handshake, the delivery. A line is its leading dots, a command word and an argument
that `extractAddress` accepts or not; this is all that dot-unstuffing, the end
marker and the dispatch look at. The size limit counts lines.

`FsmAccepts` is external: `Event` of looplab/fsm v1.0.3 also
refuses an event that leads back to the current state. The library's source is not
in the repository. The comment at `internal/imap/session_test.go:85` says the same
("looplab/fsm does not support self-transitions"), and `transitionRcptTo` and
`transitionSelect` exist to work around it. What is said below about RSET rests on it, and
so does EHLO being refused in `greeted`.

### MessageStore and UidLedger

One action is one statement sent to MySQL or Redis. `SelectForUpdate` waits for the
row lock. A transaction keeps one of `MaxConns` pooled connections; the other
statements need one that is free. For each statement there is an action where it
fails without effect, and for commit and insert one where it takes effect and the
answer is lost. `Crash` kills all running calls; MySQL keeps what was committed.
`Expire` removes a cached body at any time, because the Redis of `docker-compose`
may evict as well as expire. The lookups that find the INBOX are one step: the program
never changes what they depend on (it updates `uid_next` only).

`UidLedger` has three atomic steps per UID: reserve, then file or abandon.
`Waste` is a UID consumed by a commit whose answer was lost.

### ImapSession

The session reads `next` and `filed` of the ledger; deliveries take ledger steps between
any two of its reads. `handleSelect` is two actions because it makes two reads.
`shown` and `opened` are history: the UIDs the client has been told of, and how it was
told the mailbox was opened. IMAP writes nothing to the store, so one session is enough.

### SmtpWire

The session reads commands through `s.reader`; `handleDATA` opens a second
`bufio.Reader` on the same connection and drops it on return; `handleSTARTTLS` replaces
`s.reader`. `Fill` lets a reader take any number of the lines that are there. The client
(external) keeps to what EHLO announces: no PIPELINING, so it waits for a reply before it
sends the next command. Everything said about readers is for such a client; one that
sends ahead does lose lines to the second reader. `gaveUp` marks that `handleDATA`
returned inside a body (552 or a failed read). From then on the rest of the body is read
as commands, and only `ClientAnswered` is claimed.

### JmapServer

A request is a goroutine; its steps are the points between which the store, the clock or
an account may change: one step per method call of a batch. `handleAuth` is split at
`checkPassword`. `Tick` is time in units of which a token lives `TTL`, and may pass between any
two steps. The life of a token begins when it is signed, after the user was looked up, so
access can outlast the account by more than `TTL`: `slowest` (history, with `found`) is the
longest that a `handleAuth` has taken in between, and `AccessEnds` adds it. `SetActive` stands for whoever edits the `users` table. Methods return
the message set of the token's INBOX; the code reads neither `ids`, `filter` nor `sort`.
`shown`, `known` and `lastActive` are history.

### Lifecycle

`proto` chooses between the `Start` of SMTP and IMAP, which are alike, and the one of JMAP.
`main` is the main goroutine: stores, TLS, `Start`, then the deferred calls in reverse
order (Redis, MySQL, log). Sessions and requests are only begun, finished, or cut by the
exit. From `net/http` (external) it takes that `ListenAndServe` returns when `Shutdown`
begins, and that `Serve` gives up on an error that is not temporary. Then the `main` of JMAP calls
`log.Fatal`: the one way in which a process ends without a signal, and `ServesUntilSignal` says so.
The accept loops of SMTP and IMAP never give up.

### Parsers and MailSystem

Parsers work on sequences of characters; `Forms` are the ways to write a mailbox after
RCPT TO: with or without brackets and spaces. `Mailable` says which mailboxes can be written
in all these ways: neither side is empty, the local part has no "@" and does not begin with a
space or "<", the domain does not end with a space. Clients name such mailboxes. `meant` and `acked` are history: the
mailboxes that the client meant, however it wrote them.
`MailSystem` instantiates the three modules side by side. The end of `handleDATA` and the
start of `Deliver` are one joint step, as are exit and `MessageStore`'s crash; `InboxOf` is
`parseAddress` and the table of users. The session runs only on an accepted connection.
A statement works, fails because its store was closed (external: after `Close` of `database/sql`
or go-redis, calls that need a new connection fail and open transactions may go on), or fails by
itself. `Deliver` logs every failure and returns nil, so the client reads 250 all the same. `failed`
(history) has the calls and mailboxes whose statement failed by itself while MySQL was open:
`AcceptedIsStored` excepts exactly these, so a failure costs nobody else their message.

## Runs

Passing runs:

| Run | Shows | Bounds | States |
|---|---|---|---|
| `smtp_session` | events have a sender and recipients; no acknowledged recipient is lost; nothing crosses into TLS; the session is ready after each message | 2 addresses, 2 recipients, 1 body line, all commands with and without argument | |
| `smtp_wire` | bodies arrive as composed; no line is lost between readers; replies answer the right command; no client waits for ever | 1 recipient, size limit 1, messages of up to 2 lines | 98 thousand |
| `store_safety` | UIDs unique and below `uid_next`; at most one row per recipient; cached bodies under their own row; transactions closed; delivery implements `UidLedger`; every call returns | 3 calls over 2 connections, 2 mailboxes, up to 2 recipients (1 when all three calls run), UIDs below 4 | 183 thousand |
| `imap_session` | mailbox, mode and state agree; only own messages; listings never lose a message; UIDNEXT is above what was seen; TLS before LOGIN | 2 users, 2 folders and a missing one, UIDs below 3, a second message in one mailbox only | 430 thousand |
| `jmap_api` | batches answered call by call, from the token's account; monotonic reads; access ends with the token | 2 users, 2 requests, tokens of 1 unit, 3 times, signing up to 1 unit after the lookup, UIDs below 3 | 1.0 million |
| `lifecycle` | the server serves until a signal (or, for JMAP, until `net/http` gives up) and stops after it | 2 connections, both protocols, with and without TLS | 845 |
| `mail_system` | accepted means stored while MySQL is open, except in a mailbox whose UIDs are used up or for which a statement failed; stored means acknowledged, whatever way addresses are written; every ended message is answered | 2 messages of up to 2 recipients against 1 other delivery, 1 connection, 1 statement that fails by itself; 8 ways to write an address | 156 thousand |

The bounds are the smallest where the cases meet: the recipient limit is reached, and
so is the size limit; two calls compete for one row, and a third waits for a connection while both are taken; the
UID range is exhausted; a message is filed out of order; a mailbox is selected again
after it has changed; a body is cut off in the middle; a token expires during a batch; a
second transaction carries recipients of the first. Deadlock is not checked where the
system may stop: a session closes, all calls return, a process exits.

Constraints leave to a component's own run what it explores there. `imap_session` does
not follow the mailboxes once the session is closed. In `store_safety` one of the three calls
begins only when the two others have, and all have one recipient, the same. `jmap_api` has one
delivery at a time and two tokens, and its second user stays active and logs in at time 0.
`mail_system` leaves out
refused commands, Accept failing on an open listener, and signals or other deliveries before the
session's first call of `Deliver`. The first message meets the other delivery together with the
shutdown (once the session has called `Deliver`) or with one failed statement, the second one
either the delivery or the shutdown. Bodies have one line; the recipients are one user, nobody and
that user, or two users, in this order.
In `smtp_wire` a client that was cut off in a body begins neither another one nor TLS.
Symmetry (users in `imap_session`, requests in `jmap_api`) is used only where all
properties are invariants or about single steps.

Runs that are expected to find a violation. Each states what a comment or the
repository's README says (the findings in `PROJECT.json` quote them in full):

| Run | The text | What happens |
|---|---|---|
| `smtp_stale_recipients` | `internal/smtp/envelope.go:7` | the second message of a session also goes to the recipients of the first |
| `store_uid_order` | `internal/storage/mysql/mailbox.go:50` | a lower UID appears after a higher one |
| `store_body_gone` | `README.md:284` | no `raw_key` is ever written, so there is nothing to fall back to |
| `mail_shutdown_lost` | `internal/storage/message_store.go:35` | after a signal MySQL is closed under a session, `Deliver` returns nil, and the client is told 250 |
| `jmap_shutdown` | `cmd/jmap/main.go:53` | `Start` returns when `Shutdown` begins, and the exit cuts requests in progress |

Every property of a passing run has a mutant: a definition `Name_Bug` next to the
one it replaces, with which TLC finds the property violated.

## Known differences without a run

Smaller disagreements between text and code, met while modelling. The models follow the
code; no run is kept for them.

- STARTTLS is accepted in state `data`, which a failed body read or a 451 leaves behind
  (`internal/smtp/session.go:173`: "Reject STARTTLS after MAIL FROM"). `NothingCrossesTLS` holds all the same.
- RSET in `greeted` gets 503 and keeps the envelope, because the FSM library refuses
  self-transitions (`README.md:229`: "Resets transaction, keeps session alive").
- `Deliver` returns nil after any failed statement, not only at shutdown.
- LOGIN, STARTTLS and LSUB get BAD in state `selected` (`internal/imap/session.go:222`: "return a
  NO response").
- FETCH ignores its sequence set (`internal/imap/handler.go:180`), SEARCH its criteria.
- `extractAddress` keeps ESMTP parameters as part of the address, although EHLO announces SIZE.

## Fairness

- `store_safety`, `mail_system`: weak fairness for each call of `Deliver` on the statement it
  can send, and in `mail_system` for the answer of the session. There, of the failures only the
  ones that a closed store makes certain are part of it. Goroutines are scheduled, MySQL and Redis answer. Lock
  and pool need no strong fairness: a call finishes after finitely many statements, so
  competitors run out. `Deliver` gets `context.Background()`, so a database that never
  answers keeps the client waiting; this is outside the assumption.
- `smtp_wire`: the session's goroutine runs, `Deliver` returns, the handshake succeeds or
  fails (the read deadline of `Handle` covers it), and the client reads replies and ends
  the bodies it begins. No read is assumed to fail.
- `lifecycle`: the goroutines of the process run, and Accept on a closed listener
  returns. No signal, client, error or end of a session is assumed.

## Proofs

All are for arbitrary constants, under the named ASSUMEs of the modules, which TLC
also evaluates.

`SmtpSessionProofs` proves the five properties of `smtp_session`. The properties are
about the event while `Deliver` runs; the inductive invariant `IInv` says how it came
about:

- `PlaceInv`: the body loop and `Deliver` run in state `data` only;
- `EnvelopeInv`: from MAIL on the envelope has the acknowledged sender, and its
  recipients *end with* the acknowledged ones. Equality would be false, because
  recipients of the previous message may come first;
- `ChannelInv`: the envelope holds nothing from before the present channel;
- `EventInv`: the event is the envelope's.

`MessageStoreProofs` proves the seven safety properties of `store_safety`, the refinement of
`UidLedger` included. Uniqueness of UIDs is not inductive: a UID read under the lock becomes a
row three statements later. `IInv` follows it:

- `ConnInv`, `LockInv`: who holds connections and row locks;
- `ReadInv`: under the lock, the UID read is still `uid_next`;
- `HeldInv`, `HeldOnce`: after the commit it is below `uid_next`, in no row, and held by
  one call;
- `RowsBelowNext`: so a UID allocated later is in no row;
- `IdInv`, `PassedInv`, `CachingInv`: the same for row ids, recipients and cached bodies.

For the refinement, `next` is `uidNext`, `reserved` the UIDs of calls between commit
and insert, `filed` those in the table. Commits map to `Reserve` or `Waste`, inserts to
`File`, failed inserts and crashes to `Abandon`, everything else to a stutter.

`UidLedgerProofs` proves what its users need: filed and reserved UIDs are disjoint and
below `next` (`LedgerInv`), and a step only adds to `filed`, from `reserved` (`LedgerGrows`).
`LostUIDsStayGaps`: a UID that was committed and never inserted is given to no other message.

`ImapSessionProofs` proves all seven properties of `imap_session`, for any number of users,
folders and deliveries. `IInv` has `LedgerInv` and:

- `FreshInv`: before LOGIN nothing is selected or shown, so `userID` is set only once;
- `SelectionInv`: a selected mailbox is the user's, opened in the mode the client was told;
- `RowInv`: between the two reads of `handleSelect`, `uid_next` in hand is above all that was shown;
- `ShownInv`: what was shown is in the mailbox. With `LedgerGrows` it stays there, so the next
  listing has it.

`JmapServerProofs` proves the four properties of `jmap_api`. `TokenInv` ties each token's
expiry to the time its account was last active and to `slowest`, and `RequestInv` says that a user
found by a `handleAuth` under way was active when `found`; `AccessEnds` follows because
`authMiddleware` refuses expired tokens. `ShownInv` and `RequestInv` say that everything shown or listed
before is still in the mailbox when a call of a batch reads it.

`LifecycleProofs` proves `LifeTypeOK` and `ServesUntilSignal`. `GoroutineInv` says that the
goroutine waiting for `ctx` was started before anything is accepted and leaves its wait only
on the signal; only it closes listeners while `Start` runs. So before the signal an accept loop
never meets a closed listener, which is what would make it return.

`SmtpWireProofs` proves the four safety properties of `smtp_wire`, and `DeliverableEvent`
again where the client and the wire choose the lines. Client, connection, both readers and session
change separately, so the invariant is a case distinction: `InStep` lists the six phases of
an exchange (idle, handshake, command under way, reply under way, body under way, delivery)
with what lies where in each. In the body phase the lines read, buffered and on the way,
put together, are the stuffed text and its end marker; `StuffingRoundTrip` shows that unstuffing gives
the text back, and that no stuffed line is the marker. `WireImplementsSession`: what the session
does behind the readers is a behaviour of `SmtpSession` with any line as input, because each step
of client, wire and readers is a step of the session or leaves it alone. `WireKeepsSession`
states three of its properties there.

`MailSystemProofs` proves the two safety properties of `mail_system`:

- `AddressRoundTrip` is about the parsers alone: for every `Mailable` name and every number
  of spaces, `extractAddress` then `parseAddress` give its two sides. It is argued with the least
  and greatest index of a character, not by induction.
- `PartsAreUsedAsSpecified`: the composition takes only steps of `MessageStore` and `Lifecycle`.
- `MailInv` is the session's invariant from `SmtpSessionProofs`, of which `SessionInv` says what
  is used here, and `LinkInv`, which ties the parts together: `MeaningInv` (the recipients of
  envelope and events are acknowledged mailboxes, and those of the message include all that the
  client meant), `CallInv` (the session answers the call it made, when that has returned),
  `OrderInv` and `RowInv` (a call serves its recipients in order, and its rows are in their
  INBOXes), `ServedInv` (while MySQL is open no recipient is passed over, unless its UIDs are
  used up or a statement failed for it) and `LoopInv` (once MySQL is closed it stays closed).
- `AcceptedMailStays`: once the client has read "250 message accepted", every mailbox it meant,
  and for which no statement of the call failed, has the message from then on (or is out of UIDs,
  and stays so), through later messages, other deliveries, their failures and the shutdown. `TablesGrow` is the reason: no step removes a row or lowers
  `uid_next`.
- `AcceptedUntilSignal` is `AcceptedIsStored` with the signal in place of MySQL, and the same
  exceptions: by `ServesUntilSignal` main closes MySQL only after the signal. The run
  `mail_shutdown_lost` shows that after it the promise fails.
- `MailRunsSession` and `MailRunsStore`: the whole server is a behaviour of `SmtpSession` and
  of `MessageStore`. The proof modules of the parts are instantiated with the variables of the
  whole (`SP`, `LP`, `MP`), so their theorems hold in it: `MailKeepsSession`, `MailKeepsStore`,
  and `MailImplementsLedger`, which makes the ledger that `ImapSession` and `JmapServer` read
  the one that the whole server keeps.

TLC checked `InStep`, and earlier forms of `MailInv` and `AcceptedMailStays`, on the instances of
`smtp_wire` and `mail_system` before they were proved.

The bounds on connections, UIDs, sizes and times are arbitrary in the proofs, the sets of
calls, requests and users are any sets, and the constraints of the runs play no part.

Only model-checked:

- liveness (`DeliverReturns`, `ClientAnswered`, `Stops`, `DataAnswered`), because the prover
  handles neither fairness nor ENABLED;
- the five runs that find a violation: a counterexample needs no proof.

Out of reach besides: induction over data, and modules with RECURSIVE operators. No property
here needs the first, and none of the modules has the second.

## Not modelled

- SMTP clients that send ahead of the replies. The server does not announce PIPELINING.
- `SetRateLimit`, `GetMailboxByID`, `GetMessageByUID` and `Ping`, which nothing calls.
- Message flags, sizes and texts in IMAP and JMAP. STORE and EXPUNGE change nothing in
  the code.
- Accounts and mailboxes changing, except for deactivation in `JmapServer`.
- `extractSubject`, whose result labels a row and decides nothing.
- The argument splitting of IMAP commands, beyond whether it accepts.
- Signatures and password hashing, which are libraries.
- Configuration, certificates, logging, pprof.
