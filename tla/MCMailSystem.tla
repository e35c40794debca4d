---------------------------- MODULE MCMailSystem ----------------------------
(* MailSystem for TLC: two users with a mailbox each, one of whom is also    *)
(* the sender, and an address of nobody.                                     *)
EXTENDS MailSystem, TLC

CONSTANTS A, B

u == <<<<"u">>, <<"d">>>>
v == <<<<"v">>, <<"d">>>>
x == <<<<"x">>, <<"d">>>>

MCNames == {u, v, x}
MCUsers == u :> A @@ v :> B
sender == Written(v[1], v[2])
MCNoAddr == <<>>
MCAddr == {sender} \cup {extractAddress(to) : to \in UNION {Forms(w[1], w[2], 1) : w \in MCNames}}

Command(verb, a) == [dots |-> 0, verb |-> verb, arg |-> a]
MCInput ==
  {Command("EHLO", sender), Command("MAIL", sender), Command("DATA", MCNoAddr),
   [dots |-> 1, verb |-> "", arg |-> MCNoAddr]}
MCText == {Command("other", MCNoAddr)}
MCOtherTo == {<<Written(u[1], u[2])>>}

OthersCalled == \E d \in Delivery \ Mine : dpc[d] # "idle"

\* A stored message whose body Redis did not take.
Uncached == \E r \in rows : dpc[r.body] # "cache" /\ \A c \in cache : c.key # r.id

\* What SmtpSession and Lifecycle explore by themselves is left to them: commands
\* out of order, Accept failing on an open listener, and a signal or deliveries of
\* others before the session has called Deliver.  The first message meets the other
\* delivery together with the shutdown or with one failed statement, the second one
\* either the delivery or the shutdown.  The recipients are one user, or nobody and
\* that user, or two users, in this order, and messages have the same length.
Bound ==
  /\ reply.code \notin {"452", "501", "503"}
  /\ loop["plain"] = "failed" => lst["plain"] = "closed"
  /\ ctx = "done" \/ OthersCalled => cur # NoDelivery
  /\ ctx = "done" /\ OthersCalled =>
       Unused # {} /\ (spc = "deliver" \/ reply.code = "accepted")
  /\ failed # {} => Cardinality(failed) = 1 /\ ctx = "live"
  /\ failed # {} \/ (Uncached /\ ctx = "live") => Unused # {}
  /\ spc = "deliver" => Len(sevent.Body) = MaxSize
  /\ spc = "deliver" /\ Len(tx.to) = 1 => tx.to[1] = Written(u[1], u[2])
  /\ Len(tx.to) = 2 => tx.to[1] # tx.to[2] /\ tx.to[2] = Written(u[1], u[2])
=============================================================================
