-------------------------- MODULE JmapServerProofs --------------------------
(***************************************************************************)
(* Proofs about JmapServer, for every set of users, any number of requests *)
(* in progress, every batch of calls, every token lifetime and every       *)
(* sequence of deliveries.                                                 *)
(***************************************************************************)
EXTENDS JmapServer, UidLedgerProofs

\* The obligations carry many definitions: more time for SMT, a second try, then Zenon.
USE SMTT(30), SMTT(60), ZenonT(60)

\* An active account is active now, and a token expires at most TTL, and the time of
\* the slowest handleAuth, after its account was last active.
TokenInv ==
  /\ \A u \in User : active[u] => lastActive[u] = clock
  /\ \A t \in tokens : t.exp <= lastActive[t.uid] + TTL + slowest

\* What answers have shown is in the mailbox.
ShownInv == \A u \in User : shown[u] \subseteq ListInbox(u)

\* A request has no responses before its calls are made; handleAuth works for an
\* account that was active when it was found, and perhaps later; the calls of a batch
\* work for a user, whose mailbox has all that was shown and that the batch has listed.
RequestInv(r) ==
  /\ pc[r] \in {"idle", "auth"} => resp[r] = <<>> /\ status[r] = 0
  /\ pc[r] = "auth" => claims[r].uid \in User /\ found[r] <= lastActive[claims[r].uid]
  /\ pc[r] = "calls" =>
       /\ claims[r].uid \in User /\ status[r] = 0
       /\ known[r] \subseteq ListInbox(claims[r].uid)
       /\ \A i \in 1..Len(resp[r]) : resp[r][i].messages \subseteq ListInbox(claims[r].uid)

\* The inductive invariant.
IInv ==
  /\ LedgerInv /\ TypeOK
  /\ TokenInv /\ ShownInv /\ \A r \in Req : RequestInv(r)
  /\ AnswersMatchCalls /\ MonotonicReads

----------------------------------------------------------------------------
\* A listing is a set of UIDs.
LEMMA InboxType ==
  ASSUME LedgerInv, NEW u
  PROVE  ListInbox(u) \subseteq Nat
  BY DEF LedgerInv, ListInbox

\* Goto changes the state of one request.
LEMMA GotoFacts ==
  ASSUME TypeOK, NEW r \in Req, NEW label \in {"idle", "auth", "calls", "done"},
         NEW cl \in Claims, NEW cs \in Seq(Call), NEW rs \in Seq(Response),
         NEW st \in {0, 200, 400, 401, 500}, Goto(r, label, cl, cs, rs, st)
  PROVE  /\ pc' \in [Req -> {"idle", "auth", "calls", "done"}]
         /\ claims' \in [Req -> Claims] /\ calls' \in [Req -> Seq(Call)]
         /\ resp' \in [Req -> Seq(Response)] /\ status' \in [Req -> {0, 200, 400, 401, 500}]
         /\ pc'[r] = label /\ claims'[r] = cl /\ calls'[r] = cs /\ resp'[r] = rs
         /\ status'[r] = st
         /\ \A s \in Req \ {r} :
              /\ pc'[s] = pc[s] /\ claims'[s] = claims[s] /\ calls'[s] = calls[s]
              /\ resp'[s] = resp[s] /\ status'[s] = status[s]
  BY DEF TypeOK, Goto

\* A method's result is of the claims' account; it is empty, or all of the INBOX.
LEMMA DispatchFacts ==
  ASSUME LedgerInv, NEW cl \in Claims, NEW call \in Call,
         NEW result \in {dispatch(cl, call)} \cup IF call.name \in Method THEN {serverFail} ELSE {}
  PROVE  LET m == MethodResponse(result, call) IN
         /\ m \in Response /\ m.id = call.id
         /\ m.name = "error" \/ (m.name = call.name /\ m.account = cl.uid)
         /\ m.messages \in {{}, ListInbox(cl.uid)}
         /\ m.name \in EmailMethod => m.messages = ListInbox(cl.uid)
<1>1. ListInbox(cl.uid) \in SUBSET Nat /\ cl.uid \in User \cup {NoUser} /\ call.id \in Nat
  BY InboxType DEF Claims, Call
<1>2. PICK name \in Method \cup {"error"}, acc \in User \cup {NoUser}, ms \in SUBSET Nat :
        /\ result = Result(name, acc, ms)
        /\ name = "error" \/ (name = call.name /\ acc = cl.uid)
        /\ ms \in {{}, ListInbox(cl.uid)}
        /\ name \in EmailMethod => ms = ListInbox(cl.uid)
  <2>1. CASE result = serverFail
    BY <2>1, <1>1 DEF serverFail, EmailMethod
  <2>2. CASE result = dispatch(cl, call)
    <3>1. CASE call.name = "Mailbox/get"
      BY <1>1, <2>2, <3>1 DEF dispatch, handleMailboxGet, Method, EmailMethod
    <3>2. CASE call.name = "Mailbox/query"
      BY <1>1, <2>2, <3>2 DEF dispatch, handleMailboxQuery, Method, EmailMethod
    <3>3. CASE call.name = "Email/get"
      BY <1>1, <2>2, <3>3 DEF dispatch, handleEmailGet, Method, EmailMethod
    <3>4. CASE call.name = "Email/query"
      BY <1>1, <2>2, <3>4 DEF dispatch, handleEmailQuery, Method, EmailMethod
    <3>5. CASE call.name = "other"
      BY <1>1, <2>2, <3>5 DEF dispatch, EmailMethod
    <3> QED  BY <3>1, <3>2, <3>3, <3>4, <3>5 DEF Call, Method
  <2> QED  BY <2>1, <2>2
<1>3. MethodResponse(result, call) = [name |-> name, account |-> acc, messages |-> ms, id |-> call.id]
  BY <1>2 DEF MethodResponse, Result
<1> QED  BY <1>1, <1>2, <1>3 DEF Response

----------------------------------------------------------------------------
\* The empty batch.
NoCalls == <<>>

\* A request moves on without method responses.
Move(r, label, cl, cs, st, k) ==
  Goto(r, label, cl, cs, <<>>, st) /\ known' = [known EXCEPT ![r] = k]

\* The other requests' times stay, and the time of the slowest is a time.
FoundKept(r) ==
  /\ found' \in [Req -> 0..clock] /\ \A s \in Req \ {r} : found'[s] = found[s]
  /\ slowest' \in Nat

\* A request that moves on without method responses keeps the invariant, if what its
\* new place asks of it holds.
LEMMA MoveInv ==
  ASSUME IInv, UNCHANGED ledger, NEW r \in Req,
         NEW label \in {"idle", "auth", "calls", "done"},
         NEW cl \in Claims, NEW cs \in Seq(Call), NEW st \in {0, 200, 400, 401, 500},
         NEW k \in SUBSET Nat,
         Move(r, label, cl, cs, st, k), FoundKept(r),
         clock' = clock, active' = active, lastActive' = lastActive, shown' = shown,
         tokens' \subseteq [uid: User, exp: Nat], TokenInv',
         label # "done" => st = 0,
         st = 200 => cs = NoCalls,
         label = "auth" => cl.uid \in User /\ found'[r] <= lastActive[cl.uid],
         label = "calls" => cl.uid \in User /\ k \subseteq ListInbox(cl.uid)
  PROVE  IInv'
<1>1. /\ UNCHANGED <<next, reserved, filed>> /\ TypeOK
      /\ <<>> \in Seq(Response) /\ 1..Len(<<>>) = {}
  BY DEF ledger, IInv
<1>2. /\ pc' \in [Req -> {"idle", "auth", "calls", "done"}]
      /\ claims' \in [Req -> Claims] /\ calls' \in [Req -> Seq(Call)]
      /\ resp' \in [Req -> Seq(Response)] /\ status' \in [Req -> {0, 200, 400, 401, 500}]
      /\ pc'[r] = label /\ claims'[r] = cl /\ calls'[r] = cs /\ resp'[r] = <<>>
      /\ status'[r] = st
      /\ \A s \in Req \ {r} :
           /\ pc'[s] = pc[s] /\ claims'[s] = claims[s] /\ calls'[s] = calls[s]
           /\ resp'[s] = resp[s] /\ status'[s] = status[s]
  BY <1>1 DEF Move, TypeOK, Goto
<1>3. /\ known' \in [Req -> SUBSET Nat] /\ known'[r] = k
      /\ \A s \in Req \ {r} : known'[s] = known[s]
  BY <1>1 DEF Move, TypeOK
<1>10. /\ found' \in [Req -> 0..clock] /\ slowest' \in Nat
       /\ \A s \in Req \ {r} : found'[s] = found[s]
  BY Zenon DEF FoundKept
<1>4. TypeOK'
  BY <1>1, <1>2, <1>3, <1>10 DEF TypeOK
<1>5. \A u : ListInbox(u)' = ListInbox(u)
  BY <1>1 DEF ListInbox
<1>6. LedgerInv' /\ ShownInv'
  BY <1>1, <1>5 DEF IInv, LedgerInv, ShownInv
<1>7. ASSUME NEW s \in Req PROVE RequestInv(s)'
  <2>1. CASE s = r
    <3>1. lastActive' = lastActive /\ \A i : i \notin 1..Len(resp'[r])
      BY <1>1, <1>2
    <3> QED  BY <1>2, <1>3, <1>10, <1>5, <2>1, <3>1, ZenonT(60) DEF RequestInv
  <2>2. CASE s # r
    <3>1. RequestInv(s)
      BY DEF IInv
    <3>2. /\ pc'[s] = pc[s] /\ claims'[s] = claims[s] /\ resp'[s] = resp[s]
          /\ status'[s] = status[s] /\ known'[s] = known[s]
          /\ found'[s] = found[s] /\ lastActive' = lastActive
      BY <1>2, <1>3, <1>10, <2>2
    <3> QED  BY <1>5, <3>1, <3>2 DEF RequestInv
  <2> QED  BY <2>1, <2>2
<1>8. AnswersMatchCalls'
  <2>1. \A s \in Req \ {r} :
          /\ status'[s] = status[s] /\ resp'[s] = resp[s] /\ calls'[s] = calls[s]
          /\ claims'[s] = claims[s]
    BY <1>2
  <2>2. status'[r] = 200 => Len(resp'[r]) = Len(calls'[r])
    BY <1>2 DEF NoCalls
  <2>3. \A i : i \notin 1..Len(resp'[r])
    BY <1>1, <1>2
  <2> SUFFICES ASSUME NEW s \in Req
               PROVE  /\ status'[s] = 200 => Len(resp'[s]) = Len(calls'[s])
                      /\ \A i \in 1..Len(resp'[s]) :
                           /\ resp'[s][i].id = calls'[s][i].id
                           /\ \/ resp'[s][i].name = "error"
                              \/ /\ resp'[s][i].name = calls'[s][i].name
                                 /\ resp'[s][i].account = claims'[s].uid
    BY DEF AnswersMatchCalls
  <2>4. CASE s = r
    BY <2>2, <2>3, <2>4
  <2>5. CASE s # r
    BY <2>1, <2>5 DEF IInv, AnswersMatchCalls
  <2> QED  BY <2>4, <2>5
<1>9. MonotonicReads'
  <2>1. \A s \in Req \ {r} : resp'[s] = resp[s] /\ known'[s] = known[s]
    BY <1>2, <1>3
  <2>2. \A i : i \notin 1..Len(resp'[r])
    BY <1>1, <1>2
  <2> QED  BY <2>1, <2>2 DEF IInv, MonotonicReads
<1> QED  BY <1>4, <1>6, <1>7, <1>8, <1>9 DEF IInv

\* The empty claims and the claims of a token are claims.
LEMMA ClaimsType ==
  ASSUME IInv
  PROVE  NoClaims \in Claims /\ tokens \subseteq Claims /\ NoCalls \in Seq(Call)
  BY DEF NoCalls, IInv, TypeOK, Claims, NoClaims

\* A reply without method responses ends a request.
LEMMA ReplyInv ==
  ASSUME IInv, UNCHANGED ledger, NEW r \in Req, NEW st \in {200, 400, 401, 500}, Reply(r, st),
         FoundKept(r),
         UNCHANGED <<clock, active, lastActive, shown, known>>,
         tokens' \subseteq [uid: User, exp: Nat], TokenInv'
  PROVE  IInv'
<1>1. known' = [known EXCEPT ![r] = known[r]] /\ known[r] \in SUBSET Nat
  BY DEF IInv, TypeOK
<1>2. Move(r, "done", NoClaims, NoCalls, st, known[r])
  BY <1>1, ZenonT(60) DEF Reply, Move, NoCalls
<1> QED  BY <1>1, <1>2, MoveInv, ClaimsType

\* TokenInv depends on clock, active, lastActive, slowest and tokens only.
LEMMA TokenFrame ==
  ASSUME IInv, UNCHANGED <<clock, active, lastActive, slowest, tokens>>
  PROVE  TokenInv' /\ tokens' \subseteq [uid: User, exp: Nat]
  BY DEF IInv, TokenInv, TypeOK

\* Handlers that read an account or a token.
LEMMA HandlerInv ==
  ASSUME IInv, UNCHANGED ledger, NEW r \in Req,
         \/ BadRequest(r) \/ AuthRefused(r) \/ Forget(r)
         \/ \E u \in User : handleAuth(r, u)
         \/ \E t \in tokens : handleSession(r, t) \/ \E b \in Batch : authMiddleware(r, t, b)
  PROVE  IInv'
<1>1. UNCHANGED <<clock, active, lastActive, slowest, tokens, shown>>
  BY Zenon DEF BadRequest, AuthRefused, Forget, handleAuth, handleSession, authMiddleware
<1>2. TokenInv' /\ tokens' \subseteq [uid: User, exp: Nat]
  BY <1>1, TokenFrame
<1>10. FoundKept(r)
  <2>1. /\ found \in [Req -> 0..clock] /\ slowest \in Nat
        /\ clock \in Nat /\ 0 \in 0..clock /\ clock \in 0..clock
    BY DEF IInv, TypeOK
  <2>2. found' = found \/ \E f \in {0, clock} : found' = [found EXCEPT ![r] = f]
    BY Zenon DEF BadRequest, AuthRefused, Forget, handleAuth, handleSession, authMiddleware
  <2> QED  BY <1>1, <2>1, <2>2 DEF FoundKept
<1>3. known = [known EXCEPT ![r] = known[r]] /\ known[r] \in SUBSET Nat
  BY DEF IInv, TypeOK
<1>4. CASE BadRequest(r)
  BY <1>1, <1>2, <1>10, <1>4, ReplyInv DEF BadRequest
<1>5. CASE AuthRefused(r)
  BY <1>1, <1>2, <1>10, <1>5, ReplyInv DEF AuthRefused
<1>6. CASE Forget(r)
  <2>1. Move(r, "idle", NoClaims, NoCalls, 0, {})
    BY <1>6 DEF Forget, Move, NoCalls
  <2> QED  BY <1>1, <1>2, <1>10, <2>1, MoveInv, ClaimsType
<1>7. CASE \E u \in User : handleAuth(r, u)
  <2>1. PICK u \in User : handleAuth(r, u)
    BY <1>7, ZenonT(60)
  <2>2. found'[r] <= lastActive[u] /\ [uid |-> u, exp |-> 0] \in Claims
    <3>1. /\ found \in [Req -> 0..clock] /\ found' = [found EXCEPT ![r] = clock]
          /\ lastActive[u] = clock /\ clock \in Nat
      BY <2>1 DEF handleAuth, IInv, TokenInv, TypeOK
    <3> QED  BY <3>1 DEF Claims
  <2>3. Move(r, "auth", [uid |-> u, exp |-> 0], NoCalls, 0, known[r])
    BY <1>3, <2>1 DEF handleAuth, Move, NoCalls
  <2> QED  BY <1>1, <1>2, <1>3, <1>10, <2>2, <2>3, MoveInv, ClaimsType
<1>8. CASE \E t \in tokens : handleSession(r, t)
  <2>1. PICK t \in tokens : handleSession(r, t)
    BY <1>8
  <2>2. PICK cl \in Claims : Move(r, "done", cl, NoCalls, 200, known[r])
    BY <1>3, <2>1, ClaimsType DEF handleSession, Move, NoCalls
  <2> QED  BY <1>1, <1>2, <1>3, <1>10, <2>2, MoveInv, ClaimsType
<1>9. CASE \E t \in tokens, b \in Batch : authMiddleware(r, t, b)
  <2>1. PICK t \in tokens, b \in Batch : authMiddleware(r, t, b)
    BY <1>9
  <2>2. CASE Reply(r, 401) /\ known' = known
    BY <1>1, <1>2, <1>10, <2>2, ReplyInv
  <2>3. CASE Goto(r, "calls", t, b, <<>>, 0) /\ known' = [known EXCEPT ![r] = shown[t.uid]]
    <3>1. t \in Claims /\ t.uid \in User /\ b \in Seq(Call)
      BY BatchAssumption, ClaimsType, ZenonT(60) DEF IInv, TypeOK
    <3>2. shown[t.uid] \in SUBSET Nat /\ shown[t.uid] \subseteq ListInbox(t.uid)
      BY <3>1 DEF IInv, TypeOK, ShownInv
    <3>3. Move(r, "calls", t, b, 0, shown[t.uid])
      BY <2>3, Zenon DEF Move
    <3> QED  BY <1>1, <1>2, <1>10, <3>1, <3>2, <3>3, MoveInv
  <2> QED  BY <2>1, <2>2, <2>3 DEF authMiddleware
<1> QED  BY <1>4, <1>5, <1>6, <1>7, <1>8, <1>9

\* A token is signed for an account that was active when handleAuth found it.
LEMMA AuthenticatedInv ==
  ASSUME IInv, UNCHANGED ledger, NEW r \in Req, Authenticated(r)
  PROVE  IInv'
<1> DEFINE u == claims[r].uid
<1>1. u \in User /\ found[r] <= lastActive[u]
  BY DEF Authenticated, IInv, RequestInv
<1>2. /\ clock \in Nat /\ TTL \in Nat /\ slowest \in Nat /\ 0 \in 0..clock
      /\ found \in [Req -> 0..clock] /\ found[r] \in 0..clock /\ lastActive \in [User -> 0..clock]
  BY TTLAssumption DEF IInv, TypeOK
<1>3. /\ tokens' = tokens \cup {[uid |-> u, exp |-> clock + TTL]}
      /\ UNCHANGED <<clock, active, lastActive, shown, known>> /\ Reply(r, 200)
      /\ found' = [found EXCEPT ![r] = 0]
      /\ slowest' = IF clock - found[r] > slowest THEN clock - found[r] ELSE slowest
  BY DEF Authenticated, GenerateToken
<1>4. tokens' \subseteq [uid: User, exp: Nat]
  BY <1>1, <1>2, <1>3 DEF IInv, TypeOK
<1>5. slowest' \in Nat /\ slowest <= slowest' /\ clock - found[r] <= slowest'
  BY <1>2, <1>3
<1>6. ASSUME NEW t \in tokens' PROVE t.exp <= lastActive[t.uid] + TTL + slowest'
  <2>1. CASE t \in tokens
    <3>1. t.exp \in Nat /\ t.uid \in User /\ t.exp <= lastActive[t.uid] + TTL + slowest
      BY <2>1 DEF IInv, TypeOK, TokenInv
    <3>2. lastActive[t.uid] \in Nat
      BY <1>2, <3>1
    <3> QED  BY <1>2, <1>5, <3>1, <3>2
  <2>2. CASE t.uid = u /\ t.exp = clock + TTL
    <3>1. lastActive[u] \in Nat
      BY <1>1, <1>2
    <3> QED  BY <1>1, <1>2, <1>5, <2>2, <3>1
  <2> QED  BY <1>3, <2>1, <2>2
<1>7. TokenInv'
  BY <1>3, <1>6 DEF IInv, TokenInv
<1>8. FoundKept(r)
  BY <1>2, <1>3, <1>5 DEF FoundKept
<1> QED  BY <1>3, <1>4, <1>7, <1>8, ReplyInv

\* One method call: the response is the last of the batch so far, and a listing has
\* everything that was shown or listed before it.
LEMMA handleJMAPInv ==
  ASSUME IInv, UNCHANGED ledger, NEW r \in Req, handleJMAP(r)
  PROVE  IInv'
<1> DEFINE n == Len(resp[r])
           call == calls[r][n + 1]
           inbox == ListInbox(claims[r].uid)
<1>1. /\ pc[r] = "calls" /\ n < Len(calls[r])
      /\ UNCHANGED <<next, reserved, filed, clock, active, tokens, pc, claims, calls, status,
                     lastActive, found, slowest, shown, known>>
  BY DEF handleJMAP, ledger
<1>2. resp[r] \in Seq(Response) /\ n \in Nat /\ calls[r] \in Seq(Call) /\ claims[r] \in Claims
  BY DEF IInv, TypeOK
<1>3. call \in Call
  BY <1>1, <1>2
<1>4. PICK result \in {dispatch(claims[r], call)}
                         \cup IF call.name \in Method THEN {serverFail} ELSE {} :
        resp' = [resp EXCEPT ![r] = Append(resp[r], MethodResponse(result, call))]
  BY Zenon DEF handleJMAP
<1> DEFINE m == MethodResponse(result, call)
<1>5. /\ m \in Response /\ m.id = call.id
      /\ m.name = "error" \/ (m.name = call.name /\ m.account = claims[r].uid)
      /\ m.messages \subseteq inbox
      /\ m.name \in EmailMethod => m.messages = inbox
  <2>1. LedgerInv
    BY DEF IInv
  <2> HIDE DEF call
  <2> QED  BY <1>2, <1>3, <2>1, DispatchFacts
<1> HIDE DEF m
<1>6. resp' = [resp EXCEPT ![r] = Append(resp[r], m)]
  BY <1>4, Zenon DEF m
<1>7. /\ resp' \in [Req -> Seq(Response)]
      /\ resp'[r] = Append(resp[r], m)
      /\ Len(resp'[r]) = n + 1 /\ resp'[r][n + 1] = m
      /\ \A i \in 1..n : resp'[r][i] = resp[r][i]
      /\ \A s \in Req \ {r} : resp'[s] = resp[s]
  <2>1. resp \in [Req -> Seq(Response)] /\ m \in Response
    BY <1>5, Zenon DEF IInv, TypeOK
  <2>2. /\ Append(resp[r], m) \in Seq(Response) /\ Len(Append(resp[r], m)) = n + 1
        /\ Append(resp[r], m)[n + 1] = m
        /\ \A i \in 1..n : Append(resp[r], m)[i] = resp[r][i]
    BY <1>2, <2>1
  <2> QED  BY <1>6, <2>1, <2>2, ZenonT(60)
<1>8. /\ claims[r].uid \in User /\ status[r] = 0 /\ known[r] \subseteq inbox
      /\ \A i \in 1..n : resp[r][i].messages \subseteq inbox
  BY <1>1 DEF IInv, RequestInv
<1>9. \A i \in 1..(n + 1) : i \in 1..n \/ i = n + 1
  BY <1>2
<1>10. TypeOK'
  BY <1>1, <1>7, ZenonT(60) DEF IInv, TypeOK
<1>11. \A u : ListInbox(u)' = ListInbox(u)
  BY <1>1 DEF ListInbox
<1>12. LedgerInv' /\ TokenInv' /\ ShownInv'
  BY <1>1, <1>11 DEF IInv, LedgerInv, TokenInv, ShownInv
<1>13. ASSUME NEW s \in Req PROVE RequestInv(s)'
  <2>1. CASE s = r
    <3>1. \A i \in 1..Len(resp'[r]) : resp'[r][i].messages \subseteq inbox
      BY <1>5, <1>7, <1>8, <1>9, Zenon
    <3> QED  BY <1>1, <1>8, <1>11, <2>1, <3>1, Zenon DEF RequestInv
  <2>2. CASE s # r
    BY <1>1, <1>7, <1>11, <2>2, Zenon DEF IInv, RequestInv
  <2> QED  BY <2>1, <2>2, Zenon
<1>14. AnswersMatchCalls'
  <2> SUFFICES ASSUME NEW s \in Req
               PROVE  /\ status'[s] = 200 => Len(resp'[s]) = Len(calls'[s])
                      /\ \A i \in 1..Len(resp'[s]) :
                           /\ resp'[s][i].id = calls'[s][i].id
                           /\ \/ resp'[s][i].name = "error"
                              \/ /\ resp'[s][i].name = calls'[s][i].name
                                 /\ resp'[s][i].account = claims'[s].uid
    BY Zenon DEF AnswersMatchCalls
  <2>1. CASE s = r
    <3>1. \A i \in 1..n : /\ resp[r][i].id = calls[r][i].id
                          /\ \/ resp[r][i].name = "error"
                             \/ /\ resp[r][i].name = calls[r][i].name
                                /\ resp[r][i].account = claims[r].uid
      BY Zenon DEF IInv, AnswersMatchCalls
    <3>2. ASSUME NEW i \in 1..Len(resp'[r])
          PROVE  /\ resp'[r][i].id = calls[r][i].id
                 /\ \/ resp'[r][i].name = "error"
                    \/ /\ resp'[r][i].name = calls[r][i].name
                       /\ resp'[r][i].account = claims[r].uid
      BY <1>5, <1>7, <1>9, <3>1, ZenonT(60)
    <3>3. status' = status /\ calls' = calls /\ claims' = claims
      BY <1>1
    <3>4. status'[s] = 0
      BY <1>8, <2>1, <3>3, Zenon
    <3>5. status'[s] # 200
      BY <3>4
    <3> QED  BY <2>1, <3>2, <3>3, <3>5, Zenon
  <2>2. CASE s # r
    <3>1. resp'[s] = resp[s] /\ status' = status /\ calls' = calls /\ claims' = claims
      BY <1>1, <1>7, <2>2, ZenonT(60)
    <3>2. /\ status[s] = 200 => Len(resp[s]) = Len(calls[s])
          /\ \A i \in 1..Len(resp[s]) :
               /\ resp[s][i].id = calls[s][i].id
               /\ \/ resp[s][i].name = "error"
                  \/ /\ resp[s][i].name = calls[s][i].name
                     /\ resp[s][i].account = claims[s].uid
      BY Zenon DEF IInv, AnswersMatchCalls
    <3> QED  BY <3>1, <3>2
  <2> QED  BY <2>1, <2>2, Zenon
<1>15. MonotonicReads'
  <2> SUFFICES ASSUME NEW s \in Req, NEW j \in 1..Len(resp'[s]), resp'[s][j].name \in EmailMethod
               PROVE  /\ known'[s] \subseteq resp'[s][j].messages
                      /\ \A i \in 1..j : resp'[s][i].messages \subseteq resp'[s][j].messages
    BY Zenon DEF MonotonicReads
  <2>1. CASE s = r /\ j = n + 1
    <3>1. resp'[r][j] = m /\ known' = known /\ m.messages = inbox
      BY <1>1, <1>5, <1>7, <2>1, Zenon
    <3>2. \A i \in 1..(n + 1) : resp'[r][i].messages \subseteq inbox
      BY <1>5, <1>7, <1>8, <1>9, Zenon
    <3> QED  BY <1>8, <2>1, <3>1, <3>2, ZenonT(60)
  <2>2. CASE s = r /\ j \in 1..n
    <3>1. \A i \in 1..j : i \in 1..n
      BY <1>2, <2>2
    <3>2. resp'[r][j] = resp[r][j] /\ \A i \in 1..j : resp'[r][i] = resp[r][i]
      BY <1>7, <2>2, <3>1
    <3>3. known[s] \subseteq resp[s][j].messages
          /\ \A i \in 1..j : resp[s][i].messages \subseteq resp[s][j].messages
      BY <2>2, <3>2, ZenonT(60) DEF IInv, MonotonicReads
    <3> QED  BY <1>1, <2>2, <3>2, <3>3, ZenonT(60)
  <2>3. CASE s # r
    BY <1>1, <1>7, <2>3, Zenon DEF IInv, MonotonicReads
  <2> QED  BY <1>7, <1>9, <2>1, <2>2, <2>3
<1> QED  BY <1>10, <1>12, <1>13, <1>14, <1>15 DEF IInv

\* The answer shows what the batch has listed.
LEMMA AnswerInv ==
  ASSUME IInv, UNCHANGED ledger, NEW r \in Req, Answer(r)
  PROVE  IInv'
<1> DEFINE u == claims[r].uid
<1>1. /\ pc[r] = "calls" /\ Len(resp[r]) = Len(calls[r])
      /\ Goto(r, "done", claims[r], calls[r], resp[r], 200)
      /\ shown' = [shown EXCEPT ![u] = shown[u] \cup Listed(resp[r])]
      /\ UNCHANGED <<next, reserved, filed, clock, active, tokens, lastActive, found, slowest,
                     known>>
  BY DEF Answer, ledger
<1>2. /\ claims[r] \in Claims /\ calls[r] \in Seq(Call) /\ resp[r] \in Seq(Response) /\ TypeOK
  <2>1. TypeOK
    BY Zenon DEF IInv
  <2>2. claims \in [Req -> Claims] /\ calls \in [Req -> Seq(Call)] /\ resp \in [Req -> Seq(Response)]
    BY <2>1 DEF TypeOK
  <2> QED  BY <2>1, <2>2, Zenon
<1>3. /\ pc' \in [Req -> {"idle", "auth", "calls", "done"}]
      /\ claims' \in [Req -> Claims] /\ calls' \in [Req -> Seq(Call)]
      /\ resp' \in [Req -> Seq(Response)] /\ status' \in [Req -> {0, 200, 400, 401, 500}]
      /\ pc'[r] = "done" /\ claims'[r] = claims[r] /\ calls'[r] = calls[r] /\ resp'[r] = resp[r]
      /\ status'[r] = 200
      /\ \A s \in Req \ {r} :
           /\ pc'[s] = pc[s] /\ claims'[s] = claims[s] /\ calls'[s] = calls[s]
           /\ resp'[s] = resp[s] /\ status'[s] = status[s]
  <2>1. Goto(r, "done", claims[r], calls[r], resp[r], 200)
    BY <1>1, Zenon
  <2> QED  BY <1>2, <2>1, GotoFacts
<1>4. u \in User /\ Listed(resp[r]) \subseteq ListInbox(u) /\ ListInbox(u) \subseteq Nat
  BY <1>1, InboxType DEF IInv, RequestInv, Listed
<1>5. shown' \in [User -> SUBSET Nat]
  BY <1>1, <1>2, <1>4 DEF TypeOK
<1>6. TypeOK'
  BY <1>1, <1>2, <1>3, <1>5 DEF TypeOK
<1>7. \A v : ListInbox(v)' = ListInbox(v)
  BY <1>1 DEF ListInbox
<1>8. ShownInv'
  <2> SUFFICES ASSUME NEW v \in User PROVE shown'[v] \subseteq ListInbox(v)
    BY <1>7, Zenon DEF ShownInv
  <2>1. shown[v] \subseteq ListInbox(v) /\ shown \in [User -> SUBSET Nat]
    BY <1>2, ZenonT(60) DEF IInv, ShownInv, TypeOK
  <2> QED  BY <1>1, <1>4, <2>1
<1>9. LedgerInv' /\ TokenInv'
  BY <1>1 DEF IInv, LedgerInv, TokenInv
<1>10. ASSUME NEW s \in Req PROVE RequestInv(s)'
  <2>1. CASE s = r
    BY <1>3, <2>1 DEF RequestInv
  <2>2. CASE s # r
    <3>1. RequestInv(s)
      BY Zenon DEF IInv
    <3>2. /\ pc'[s] = pc[s] /\ claims'[s] = claims[s] /\ resp'[s] = resp[s]
          /\ status'[s] = status[s] /\ known'[s] = known[s]
          /\ found' = found /\ lastActive' = lastActive
      <4>1. s \in Req \ {r}
        BY <2>2, Zenon
      <4>2. known' = known /\ found' = found /\ lastActive' = lastActive
        BY <1>1, Zenon
      <4> QED  BY <1>3, <4>1, <4>2, ZenonT(60)
    <3> QED  BY <1>7, <3>1, <3>2 DEF RequestInv
  <2> QED  BY <2>1, <2>2, ZenonT(60)
<1>11. AnswersMatchCalls'
  <2>1. \A s \in Req : resp'[s] = resp[s] /\ calls'[s] = calls[s] /\ claims'[s] = claims[s]
    BY <1>3
  <2>2. \A s \in Req \ {r} : status'[s] = status[s]
    BY <1>3, ZenonT(60)
  <2> SUFFICES ASSUME NEW s \in Req
               PROVE  /\ status'[s] = 200 => Len(resp'[s]) = Len(calls'[s])
                      /\ \A i \in 1..Len(resp'[s]) :
                           /\ resp'[s][i].id = calls'[s][i].id
                           /\ \/ resp'[s][i].name = "error"
                              \/ /\ resp'[s][i].name = calls'[s][i].name
                                 /\ resp'[s][i].account = claims'[s].uid
    BY Zenon DEF AnswersMatchCalls
  <2>3. resp'[s] = resp[s] /\ calls'[s] = calls[s] /\ claims'[s] = claims[s]
    BY <2>1, Zenon
  <2>4. AnswersMatchCalls
    BY Zenon DEF IInv
  <2>5. status'[s] = 200 => Len(resp[s]) = Len(calls[s])
    <3>1. CASE s = r
      BY <1>1, <3>1, Zenon
    <3>2. CASE s # r
      <4>1. status'[s] = status[s]
        BY <2>2, <3>2, Zenon
      <4>2. status[s] = 200 => Len(resp[s]) = Len(calls[s])
        BY <2>4, Zenon DEF AnswersMatchCalls
      <4> QED  BY <4>1, <4>2
    <3> QED  BY <3>1, <3>2, Zenon
  <2>6. \A i \in 1..Len(resp[s]) :
          /\ resp[s][i].id = calls[s][i].id
          /\ \/ resp[s][i].name = "error"
             \/ resp[s][i].name = calls[s][i].name /\ resp[s][i].account = claims[s].uid
    BY <2>4, Zenon DEF AnswersMatchCalls
  <2> QED  BY <2>3, <2>5, <2>6, ZenonT(60)
<1>12. MonotonicReads'
  <2>1. \A s \in Req : resp'[s] = resp[s] /\ known'[s] = known[s]
    BY <1>1, <1>3, ZenonT(60)
  <2>2. MonotonicReads
    BY Zenon DEF IInv
  <2> QED  BY <2>1, <2>2, Zenon DEF MonotonicReads
<1> QED  BY <1>6, <1>8, <1>9, <1>10, <1>11, <1>12 DEF IInv

\* Time and account changes: lastActive never falls.
LEMMA WorldInv ==
  ASSUME IInv, UNCHANGED ledger, (\E u \in User : SetActive(u)) \/ Tick
  PROVE  IInv'
<1>1. /\ UNCHANGED <<next, reserved, filed, tokens, pc, claims, calls, resp, status, found,
                     slowest, shown, known>>
      /\ clock \in Nat /\ TTL \in Nat /\ slowest \in Nat /\ lastActive \in [User -> Nat]
      /\ \A u \in User : lastActive[u] <= clock
      /\ found \in [Req -> 0..clock]
      /\ active \in [User -> BOOLEAN]
  BY TTLAssumption DEF SetActive, Tick, ledger, IInv, TypeOK
<1>2. /\ clock' \in 0..MaxClock /\ active' \in [User -> BOOLEAN]
      /\ lastActive' \in [User -> 0..clock']
      /\ \A u \in User : lastActive[u] <= lastActive'[u]
      /\ \A u \in User : active'[u] => lastActive'[u] = clock'
      /\ clock <= clock'
  <2>1. CASE \E u \in User : SetActive(u)
    <3>1. PICK u \in User : SetActive(u)
      BY <2>1
    <3>2. /\ clock' = clock /\ active' = [active EXCEPT ![u] = ~active[u]]
          /\ lastActive' = [lastActive EXCEPT ![u] = clock]
      BY <3>1 DEF SetActive
    <3>3. clock' \in 0..MaxClock /\ lastActive' \in [User -> 0..clock']
      BY <1>1, <3>2 DEF IInv, TypeOK
    <3>4. active' \in [User -> BOOLEAN]
      BY <1>1, <3>2
    <3>5. \A v \in User : lastActive'[v] = (IF v = u THEN clock ELSE lastActive[v])
      BY <1>1, <3>2
    <3>6. \A v \in User \ {u} : active'[v] = active[v]
      BY <1>1, <3>2
    <3> QED  BY <1>1, <3>2, <3>3, <3>4, <3>5, <3>6 DEF IInv, TokenInv
  <2>2. CASE Tick
    <3>1. /\ clock < MaxClock /\ clock' = clock + 1 /\ active' = active
          /\ lastActive' = [u \in User |-> IF active[u] THEN clock + 1 ELSE lastActive[u]]
      BY <2>2 DEF Tick
    <3>2. clock' \in 0..MaxClock
      BY <1>1, <3>1, TTLAssumption
    <3> QED  BY <1>1, <3>1, <3>2
  <2> QED  BY <2>1, <2>2
<1>11. found' \in [Req -> 0..clock']
  BY <1>1, <1>2
<1>3. TypeOK'
  BY <1>1, <1>2, <1>11 DEF IInv, TypeOK
<1>4. TokenInv'
  <2>1. ASSUME NEW t \in tokens PROVE t.exp <= lastActive'[t.uid] + TTL + slowest
    <3>1. t.uid \in User /\ t.exp \in Nat /\ t.exp <= lastActive[t.uid] + TTL + slowest
      BY DEF IInv, TypeOK, TokenInv
    <3>2. lastActive[t.uid] \in Nat /\ lastActive'[t.uid] \in Nat /\ lastActive[t.uid] <= lastActive'[t.uid]
      BY <1>1, <1>2, <3>1
    <3> QED  BY <1>1, <3>1, <3>2
  <2> QED  BY <1>1, <1>2, <2>1 DEF TokenInv
<1>5. \A u : ListInbox(u)' = ListInbox(u)
  BY <1>1 DEF ListInbox
<1>6. ASSUME NEW r \in Req, pc[r] = "auth"
      PROVE  claims[r].uid \in User /\ found[r] <= lastActive'[claims[r].uid]
  <2>1. claims[r].uid \in User /\ found[r] <= lastActive[claims[r].uid]
    BY <1>6 DEF IInv, RequestInv
  <2>2. /\ found[r] \in Nat /\ lastActive[claims[r].uid] \in Nat
        /\ lastActive'[claims[r].uid] \in Nat
        /\ lastActive[claims[r].uid] <= lastActive'[claims[r].uid]
    BY <1>1, <1>2, <2>1
  <2> QED  BY <2>1, <2>2
<1>7. \A r \in Req : RequestInv(r)'
  BY <1>1, <1>5, <1>6 DEF IInv, RequestInv
<1>8. LedgerInv' /\ ShownInv'
  BY <1>1, <1>5, Zenon DEF IInv, LedgerInv, ShownInv
<1>9. AnswersMatchCalls'
  BY <1>1, ZenonT(60) DEF IInv, AnswersMatchCalls
<1>10. MonotonicReads'
  BY <1>1, Zenon DEF IInv, MonotonicReads
<1> QED  BY <1>3, <1>4, <1>7, <1>8, <1>9, <1>10 DEF IInv

\* A delivery somewhere: mailboxes grow, the requests are as they were.
LEMMA DeliveryInv ==
  ASSUME IInv, [LedgerNext]_ledger, UNCHANGED jmap
  PROVE  IInv'
<1>1. LedgerInv' /\ LedgerGrows
  BY LedgerNextInv DEF IInv
<1>2. \A u : ListInbox(u) \subseteq ListInbox(u)'
  BY <1>1 DEF LedgerGrows, ListInbox
<1>3. UNCHANGED <<clock, active, tokens, pc, claims, calls, resp, status, lastActive, found,
                  slowest, shown, known>>
  BY DEF jmap
<1>4. TypeOK' /\ TokenInv'
  BY <1>3, ZenonT(60) DEF IInv, TypeOK, TokenInv
<1>5. AnswersMatchCalls'
  BY <1>3, ZenonT(60) DEF IInv, AnswersMatchCalls
<1>6. MonotonicReads'
  BY <1>3, Zenon DEF IInv, MonotonicReads
<1>7. ShownInv' /\ \A r \in Req : RequestInv(r)'
  BY <1>2, <1>3 DEF IInv, ShownInv, RequestInv
<1> QED  BY <1>1, <1>4, <1>5, <1>6, <1>7 DEF IInv

\* A server before its first request.
LEMMA InitInv == Init => IInv
<1> SUFFICES ASSUME Init PROVE IInv
  OBVIOUS
<1>1. LedgerInv
  BY LedgerInitInv DEF Init
<1>2. TypeOK
  BY TTLAssumption DEF Init, TypeOK, Claims, NoClaims
<1>3. TokenInv /\ ShownInv /\ \A r \in Req : RequestInv(r)
  BY DEF Init, TokenInv, ShownInv, RequestInv
<1>4. AnswersMatchCalls /\ MonotonicReads
  BY DEF Init, AnswersMatchCalls, MonotonicReads
<1> QED  BY <1>1, <1>2, <1>3, <1>4 DEF IInv

\* Every step preserves the invariant.
LEMMA NextInv == IInv /\ [Next]_vars => IInv'
<1> SUFFICES ASSUME IInv, [Next]_vars PROVE IInv'
  OBVIOUS
<1>1. CASE (\E r \in Req : RequestNext(r)) /\ UNCHANGED ledger
  <2>1. PICK r \in Req : RequestNext(r)
    BY <1>1
  <2>2. CASE Authenticated(r)
    BY <1>1, <2>2, AuthenticatedInv
  <2>3. CASE handleJMAP(r)
    BY <1>1, <2>3, handleJMAPInv
  <2>4. CASE Answer(r)
    BY <1>1, <2>4, AnswerInv
  <2>5. CASE \/ BadRequest(r) \/ AuthRefused(r) \/ Forget(r)
             \/ \E u \in User : handleAuth(r, u)
             \/ \E t \in tokens : handleSession(r, t) \/ \E b \in Batch : authMiddleware(r, t, b)
    BY <1>1, <2>5, HandlerInv
  <2> QED  BY <2>1, <2>2, <2>3, <2>4, <2>5 DEF RequestNext
<1>2. CASE ((\E u \in User : SetActive(u)) \/ Tick) /\ UNCHANGED ledger
  BY <1>2, WorldInv
<1>3. CASE LedgerNext /\ UNCHANGED jmap
  BY <1>3, DeliveryInv
<1>4. CASE UNCHANGED vars
  BY <1>4, DeliveryInv DEF vars, ledger
<1> QED  BY <1>1, <1>2, <1>3, <1>4 DEF Next

----------------------------------------------------------------------------
\* The inductive invariant holds in every reachable state.
THEOREM Invariance == Spec => []IInv
<1> QED  BY InitInv, NextInv, PTL DEF Spec

\* Type correctness.
THEOREM TypeCorrect == Spec => []TypeOK
<1>1. IInv => TypeOK
  BY DEF IInv
<1> QED  BY <1>1, Invariance, PTL

\* Responses answer the calls of their batch in order, with the token's account.
THEOREM ResponsesMatchCalls == Spec => []AnswersMatchCalls
<1>1. IInv => AnswersMatchCalls
  BY DEF IInv
<1> QED  BY <1>1, Invariance, PTL

\* A listing has everything that was listed in its batch or shown to the user before.
THEOREM ReadsAreMonotonic == Spec => []MonotonicReads
<1>1. IInv => MonotonicReads
  BY DEF IInv
<1> QED  BY <1>1, Invariance, PTL

\* Whoever is let in belongs to an account that was active less than TTL ago, plus
\* the time that the slowest handleAuth took between FindUser and GenerateToken.
THEOREM AccessExpires == Spec => AccessEnds
<1> DEFINE A == \A r \in Req : claims'[r] # claims[r] /\ pc'[r] \in {"calls", "done"} =>
                  \/ claims'[r] = NoClaims
                  \/ clock - lastActive[claims'[r].uid] < TTL + slowest
<1>1. ASSUME IInv, [Next]_vars PROVE [A]_vars
  <2>1. SUFFICES ASSUME NEW r \in Req, claims'[r] # claims[r], pc'[r] \in {"calls", "done"},
                        claims'[r] # NoClaims
                 PROVE  clock - lastActive[claims'[r].uid] < TTL + slowest
    OBVIOUS
  <2>2. PICK s \in Req : RequestNext(s)
    BY <1>1, <2>1 DEF Next, vars, jmap, SetActive, Tick
  <2>3. claims \in [Req -> Claims] /\ pc \in [Req -> {"idle", "auth", "calls", "done"}]
    BY <1>1, ZenonT(60) DEF IInv, TypeOK
  <2>4. PICK t \in tokens : claims'[r] = t /\ ValidateToken(t)
    BY <2>1, <2>2, <2>3, ZenonT(60) DEF RequestNext, BadRequest, AuthRefused, Authenticated, handleAuth,
         handleSession, authMiddleware, handleJMAP, Answer, Forget, Reply, Goto
  <2>5. t.uid \in User /\ t.exp \in Nat /\ t.exp <= lastActive[t.uid] + TTL + slowest
    BY <1>1 DEF IInv, TypeOK, TokenInv
  <2>6. clock \in Nat /\ slowest \in Nat /\ lastActive[t.uid] \in 0..clock /\ TTL \in Nat
    BY <1>1, <2>5, TTLAssumption DEF IInv, TypeOK
  <2> QED  BY <2>4, <2>5, <2>6 DEF ValidateToken
<1> QED  BY <1>1, Invariance, PTL DEF Spec, AccessEnds
============================================================================
