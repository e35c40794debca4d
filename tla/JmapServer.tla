----------------------------- MODULE JmapServer -----------------------------
(***************************************************************************)
(* The JMAP API: internal/jmap/server.go, methods.go and auth.go, reading  *)
(* the mailboxes that SMTP delivers into meanwhile.                        *)
(*                                                                         *)
(* Requests are HTTP requests in progress, each on a goroutine of its own. *)
(* The store is the ledger that MessageStore implements, with the UIDs in  *)
(* the messages table as filed.  Each action is one handler or, in the two *)
(* that do more, one step: handleAuth reads the account and later signs a  *)
(* token; handleJMAP makes its method calls one after the other, each with *)
(* a read of its own.  Of a result the account and the set of messages are *)
(* kept.  The server keeps no state: what it is given back, the token, is  *)
(* all that ties one request to another.                                   *)
(***************************************************************************)
EXTENDS UidLedger, Sequences

CONSTANTS
  User,       \* users rows; Mailbox holds the users that have an INBOX
  NoUser,     \* nobody
  Req,        \* requests that may be in progress at a time
  Batch,      \* what clients send to /jmap: sequences of method calls
  TTL,        \* tokenTTL
  MaxClock    \* bound: the time at which a run ends

ASSUME JmapUserAssumption == NoUser \notin User /\ Mailbox \subseteq User
ASSUME TTLAssumption == TTL \in Nat \ {0} /\ MaxClock \in Nat

VARIABLES
  clock,      \* time.Now
  active,     \* users.active
  tokens,     \* claims of the tokens signed so far
  pc,         \* what is being done with each request
  claims,     \* the user found by handleAuth, or the claims of the token presented
  calls,      \* req.MethodCalls
  resp,       \* resp.MethodResponses so far
  status      \* the HTTP status of an answered request

\* History.
VARIABLES
  lastActive, \* the last time at which each account was active
  found,      \* when FindUser returned the account, while handleAuth goes on
  slowest,    \* the longest that a handleAuth took from FindUser to the token
  shown,      \* the messages that answers have shown to each user
  known       \* of these, the ones shown before the request began

jmap == <<clock, active, tokens, pc, claims, calls, resp, status,
          lastActive, found, slowest, shown, known>>
vars == <<next, reserved, filed, jmap>>

----------------------------------------------------------------------------
Method == {"Mailbox/get", "Mailbox/query", "Email/get", "Email/query"}
EmailMethod == {"Email/get", "Email/query"}
Call == [name: Method \cup {"other"}, id: Nat, account: User]
ASSUME BatchAssumption == Batch \subseteq Seq(Call)

NoClaims == [uid |-> NoUser, exp |-> 0]

\* Request r moves on to label; the rest of its state is given.
Goto(r, label, cl, cs, rs, st) ==
  /\ pc' = [pc EXCEPT ![r] = label]
  /\ claims' = [claims EXCEPT ![r] = cl]
  /\ calls' = [calls EXCEPT ![r] = cs]
  /\ resp' = [resp EXCEPT ![r] = rs]
  /\ status' = [status EXCEPT ![r] = st]

\* writeError, or writeJSON of something other than method responses.
Reply(r, st) == Goto(r, "done", NoClaims, <<>>, <<>>, st)

Init ==
  /\ LedgerInit
  /\ clock = 0
  /\ active = [u \in User |-> TRUE]
  /\ tokens = {}
  /\ pc = [r \in Req |-> "idle"]
  /\ claims = [r \in Req |-> NoClaims]
  /\ calls = [r \in Req |-> <<>>]
  /\ resp = [r \in Req |-> <<>>]
  /\ status = [r \in Req |-> 0]
  /\ lastActive = [u \in User |-> 0]
  /\ found = [r \in Req |-> 0]
  /\ slowest = 0
  /\ shown = [u \in User |-> {}]
  /\ known = [r \in Req |-> {}]

\* A body that is not JSON of the right shape, on /auth or /jmap.
BadRequest(r) ==
  /\ pc[r] = "idle"
  /\ Reply(r, 400)
  /\ UNCHANGED <<clock, active, tokens, lastActive, found, slowest, shown, known>>

\* Mutant: the error of FindUser is not looked at.
handleAuth_NoUser(r, u) ==
  /\ pc[r] = "idle"
  /\ Goto(r, "auth", [uid |-> IF active[u] THEN u ELSE NoUser, exp |-> 0], <<>>, <<>>, 0)
  /\ found' = [found EXCEPT ![r] = clock]
  /\ UNCHANGED <<clock, active, tokens, lastActive, slowest, shown, known>>

\* handleAuth up to checkPassword: FindUser returns active users only.
handleAuth(r, u) ==
  /\ pc[r] = "idle" /\ active[u]
  /\ Goto(r, "auth", [uid |-> u, exp |-> 0], <<>>, <<>>, 0)
  /\ found' = [found EXCEPT ![r] = clock]
  /\ UNCHANGED <<clock, active, tokens, lastActive, slowest, shown, known>>

\* Unknown domain or user, inactive user, wrong password, a failed lookup; or the
\* token cannot be signed.
AuthRefused(r) ==
  /\ \/ pc[r] \in {"idle", "auth"} /\ Reply(r, 401)
     \/ pc[r] = "auth" /\ Reply(r, 500)
  /\ found' = [found EXCEPT ![r] = 0]
  /\ UNCHANGED <<clock, active, tokens, lastActive, slowest, shown, known>>

\* Mutant: the token lives a unit too long.
GenerateToken_OneMore(u) == [uid |-> u, exp |-> clock + TTL + 1]
GenerateToken(u) == [uid |-> u, exp |-> clock + TTL]

\* checkPassword has succeeded: the token is made with the time it is by now.
Authenticated(r) ==
  /\ pc[r] = "auth"
  /\ tokens' = tokens \cup {GenerateToken(claims[r].uid)}
  /\ Reply(r, 200)
  /\ found' = [found EXCEPT ![r] = 0]
  /\ slowest' = IF clock - found[r] > slowest THEN clock - found[r] ELSE slowest
  /\ UNCHANGED <<clock, active, lastActive, shown, known>>

\* External, golang-jwt v5: a token is valid before its expiry time.
ValidateToken(t) == clock < t.exp

\* The session resource names the account of a valid token, and otherwise nobody.
handleSession(r, t) ==
  /\ pc[r] = "idle"
  /\ Goto(r, "done", IF ValidateToken(t) THEN t ELSE NoClaims, <<>>, <<>>, 200)
  /\ UNCHANGED <<clock, active, tokens, lastActive, found, slowest, shown, known>>

\* Mutant: the signature is checked and the expiry is not.
authMiddleware_Unexpired(r, t, batch) ==
  /\ pc[r] = "idle"
  /\ Goto(r, "calls", t, batch, <<>>, 0)
  /\ known' = [known EXCEPT ![r] = shown[t.uid]]
  /\ UNCHANGED <<clock, active, tokens, lastActive, found, slowest, shown>>

\* authMiddleware, then handleJMAP up to its loop: the token is looked at once.
authMiddleware(r, t, batch) ==
  /\ pc[r] = "idle"
  /\ \/ ~ValidateToken(t) /\ Reply(r, 401) /\ UNCHANGED known
     \/ /\ ValidateToken(t)
        /\ Goto(r, "calls", t, batch, <<>>, 0)
        /\ known' = [known EXCEPT ![r] = shown[t.uid]]
  /\ UNCHANGED <<clock, active, tokens, lastActive, found, slowest, shown>>

\* Mutant: only the newest message is returned.
ListInbox_Limited(u) ==
  IF u \in Mailbox THEN {m \in filed[u] : \A n \in filed[u] : n <= m} ELSE {}

\* FindMailbox and ListMessages.  The INBOX of a user does not change between the
\* two reads, so the second one decides.
ListInbox(u) == IF u \in Mailbox THEN filed[u] ELSE {}

\* The four methods, when their reads succeed.  They work on the account of the
\* token, whatever account the call names, and read neither ids, filter nor sort.
\* Mailboxes are left out: the program does not change them.
Result(name, account, messages) ==
  [name |-> name, account |-> account, messages |-> messages]
handleMailboxGet(cl) == Result("Mailbox/get", cl.uid, {})
handleMailboxQuery(cl) == Result("Mailbox/query", cl.uid, {})
handleEmailGet(cl) == Result("Email/get", cl.uid, ListInbox(cl.uid))
handleEmailQuery(cl) == Result("Email/query", cl.uid, ListInbox(cl.uid))

dispatch(cl, call) ==
  CASE call.name = "Mailbox/get" -> handleMailboxGet(cl)
    [] call.name = "Mailbox/query" -> handleMailboxQuery(cl)
    [] call.name = "Email/get" -> handleEmailGet(cl)
    [] call.name = "Email/query" -> handleEmailQuery(cl)
    [] OTHER -> Result("error", NoUser, {})

\* The errors of the handlers ("serverFail"): a failed lookup.
serverFail == Result("error", NoUser, {})

\* Mutant: the response is what the handler made; only dispatch knows the call id.
MethodResponse_AsReturned(result, call) ==
  [name |-> result.name, account |-> result.account, messages |-> result.messages,
   id |-> IF call.name \in Method THEN 0 ELSE call.id]
MethodResponse(result, call) ==
  [name |-> result.name, account |-> result.account, messages |-> result.messages,
   id |-> call.id]

\* One iteration of the loop of handleJMAP.
handleJMAP(r) ==
  /\ pc[r] = "calls" /\ Len(resp[r]) < Len(calls[r])
  /\ LET call == calls[r][Len(resp[r]) + 1] IN
     \E result \in {dispatch(claims[r], call)}
                     \cup IF call.name \in Method THEN {serverFail} ELSE {} :
       resp' = [resp EXCEPT ![r] = Append(@, MethodResponse(result, call))]
  /\ UNCHANGED <<clock, active, tokens, pc, claims, calls, status,
                 lastActive, found, slowest, shown, known>>

\* All calls made: the answer is written.
Listed(rs) == UNION {rs[i].messages : i \in 1..Len(rs)}
Answer(r) ==
  /\ pc[r] = "calls" /\ Len(resp[r]) = Len(calls[r])
  /\ Goto(r, "done", claims[r], calls[r], resp[r], 200)
  /\ shown' = [shown EXCEPT ![claims[r].uid] = @ \cup Listed(resp[r])]
  /\ UNCHANGED <<clock, active, tokens, lastActive, found, slowest, known>>

\* The client has its answer.
Forget(r) ==
  /\ pc[r] = "done"
  /\ Goto(r, "idle", NoClaims, <<>>, <<>>, 0)
  /\ known' = [known EXCEPT ![r] = {}]
  /\ UNCHANGED <<clock, active, tokens, lastActive, found, slowest, shown>>

\* An administrator changes users.active; there is no code for it but FindUser's query.
SetActive(u) ==
  /\ active' = [active EXCEPT ![u] = ~@]
  /\ lastActive' = [lastActive EXCEPT ![u] = clock]
  /\ UNCHANGED <<clock, tokens, pc, claims, calls, resp, status, found, slowest, shown, known>>

\* Time passes, also while a password is checked and between the calls of a batch.
Tick ==
  /\ clock < MaxClock
  /\ clock' = clock + 1
  /\ lastActive' = [u \in User |-> IF active[u] THEN clock + 1 ELSE lastActive[u]]
  /\ UNCHANGED <<active, tokens, pc, claims, calls, resp, status, found, slowest, shown, known>>

RequestNext(r) ==
  \/ BadRequest(r) \/ AuthRefused(r) \/ Authenticated(r)
  \/ \E u \in User : handleAuth(r, u)
  \/ \E t \in tokens : handleSession(r, t) \/ \E b \in Batch : authMiddleware(r, t, b)
  \/ handleJMAP(r) \/ Answer(r) \/ Forget(r)

\* A step of a request, of the world, or of a delivery somewhere.
Next ==
  \/ /\ (\E r \in Req : RequestNext(r)) \/ (\E u \in User : SetActive(u)) \/ Tick
     /\ UNCHANGED ledger
  \/ LedgerNext /\ UNCHANGED jmap

Spec == Init /\ [][Next]_vars

----------------------------------------------------------------------------
Claims == [uid: User \cup {NoUser}, exp: Nat]
Response == [name: Method \cup {"error"}, account: User \cup {NoUser},
             messages: SUBSET Nat, id: Nat]

\* Type correctness; no account is remembered as active later than now.
TypeOK ==
  /\ clock \in 0..MaxClock
  /\ active \in [User -> BOOLEAN]
  /\ tokens \subseteq [uid: User, exp: Nat]
  /\ pc \in [Req -> {"idle", "auth", "calls", "done"}]
  /\ claims \in [Req -> Claims]
  /\ calls \in [Req -> Seq(Call)]
  /\ resp \in [Req -> Seq(Response)]
  /\ status \in [Req -> {0, 200, 400, 401, 500}]
  /\ lastActive \in [User -> 0..clock]
  /\ found \in [Req -> 0..clock] /\ slowest \in Nat
  /\ shown \in [User -> SUBSET Nat]
  /\ known \in [Req -> SUBSET Nat]

\* A batch is answered call by call: the i-th response carries the id of the i-th
\* call and is its result or an error, also when calls before it failed or were
\* unknown; a finished batch has all its responses; and every result is of the
\* account that the token was issued to, whatever account the call names.
AnswersMatchCalls ==
  \A r \in Req :
    /\ status[r] = 200 => Len(resp[r]) = Len(calls[r])
    /\ \A i \in 1..Len(resp[r]) :
         /\ resp[r][i].id = calls[r][i].id
         /\ \/ resp[r][i].name = "error"
            \/ resp[r][i].name = calls[r][i].name /\ resp[r][i].account = claims[r].uid

\* Reads are monotonic although no state is kept and each call reads anew: the
\* messages of an Email/query are among those of a later Email/get of the batch,
\* and every listing has the messages that earlier answers showed to the user.
MonotonicReads ==
  \A r \in Req : \A j \in 1..Len(resp[r]) : resp[r][j].name \in EmailMethod =>
    /\ known[r] \subseteq resp[r][j].messages
    /\ \A i \in 1..j : resp[r][i].messages \subseteq resp[r][j].messages

\* A token does not give access for ever.  TTL counts from the signing, which comes
\* after FindUser has looked at the account, and authMiddleware never looks again: so
\* whoever is let in, with a batch or to the session resource, belongs to an account
\* that was active less ago than TTL and the time the slowest handleAuth took to check
\* a password, also when the account is deactivated meanwhile.  (http.Server has no
\* timeouts here, so that nothing else bounds that time.)
AccessEnds ==
  [][\A r \in Req : claims'[r] # claims[r] /\ pc'[r] \in {"calls", "done"} =>
       \/ claims'[r] = NoClaims
       \/ clock - lastActive[claims'[r].uid] < TTL + slowest]_vars
============================================================================
