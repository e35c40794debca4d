-------------------------- MODULE LifecycleProofs ---------------------------
(***************************************************************************)
(* Proofs about Lifecycle, for every set of connections.                   *)
(***************************************************************************)
EXTENDS Lifecycle, TLAPS

\* What the goroutines know of each other.  The goroutine that waits for ctx is
\* started before anything is accepted, and leaves its wait only on the signal; the
\* accept loops start when Start can no longer fail; http.Server has no certificate.
GoroutineInv ==
  /\ closer \in {"tls", "drain", "done"} => ctx = "done"
  /\ \A l \in Listener :
       loop[l] # "off" => closer # "off" /\ main \notin Starting \cup {"listen", "listenTLS"}
  /\ proto = "http" => ~cert /\ (main = "listen" => closer # "off")

\* The inductive invariant.
LifeInv == LifeTypeOK /\ GoroutineInv /\ ServesUntilSignal

----------------------------------------------------------------------------
\* The initial state satisfies the invariant.
LEMMA LifeInitInv == LifeInit => LifeInv
  BY Zenon DEF LifeInit, LifeInv, LifeTypeOK, GoroutineInv, ServesUntilSignal, Listener,
         Starting, Returned

\* From main to the listeners: goroutines are started, and none has returned.
LEMMA BootInv ==
  ASSUME LifeInv, Boot \/ StartFails
  PROVE  LifeInv'
<1> USE DEF LifeInv, LifeTypeOK, GoroutineInv, ServesUntilSignal, Listener, Starting, Returned
<1>1. CASE OpenStores
  BY <1>1 DEF OpenStores
<1>2. CASE LoadTLS
  BY <1>2, Zenon DEF LoadTLS
<1>3. CASE ListenPlain
  BY <1>3 DEF ListenPlain
<1>4. CASE ListenTLS
  BY <1>4 DEF ListenTLS
<1>5. CASE NeverListened
  BY <1>5 DEF NeverListened
<1>6. CASE StartFails
  BY <1>6 DEF StartFails
<1> QED  BY <1>1, <1>2, <1>3, <1>4, <1>5, <1>6 DEF Boot

\* An accept loop returns only if the goroutine that waits for ctx has left its
\* wait, or ctx is done.
LEMMA AcceptLoopInv ==
  ASSUME LifeInv, NEW l \in Listener,
         (\E c \in Conn : Accept(l, c)) \/ AcceptFails(l) \/ AfterAcceptError(l)
  PROVE  LifeInv'
<1> USE DEF LifeInv, LifeTypeOK, GoroutineInv, ServesUntilSignal, Listener, Starting, Returned
<1>1. CASE \E c \in Conn : Accept(l, c)
  BY <1>1 DEF Accept
<1>2. CASE AcceptFails(l)
  BY <1>2 DEF AcceptFails
<1>3. CASE AfterAcceptError(l)
  <2>1. ShuttingDown => ctx = "done"
    BY <1>3 DEF AfterAcceptError, ShuttingDown
  <2> QED  BY <1>3, <2>1 DEF AfterAcceptError
<1> QED  BY <1>1, <1>2, <1>3

\* Every step preserves the invariant.
LEMMA LifeNextInv == LifeInv /\ [LifeNext]_life => LifeInv'
<1> SUFFICES ASSUME LifeInv, [LifeNext]_life PROVE LifeInv'
  OBVIOUS
<1>1. CASE Boot \/ StartFails
  BY <1>1, BootInv
<1>2. CASE \E l \in Listener :
             (\E c \in Conn : Accept(l, c)) \/ AcceptFails(l) \/ AfterAcceptError(l)
  BY <1>2, AcceptLoopInv
<1> USE DEF LifeInv, LifeTypeOK, GoroutineInv, ServesUntilSignal, Listener, Starting, Returned
<1>3. CASE Signal
  BY <1>3 DEF Signal
<1>4. CASE ServeFails
  BY <1>4 DEF ServeFails
<1>5. CASE CloseListeners
  BY <1>5 DEF CloseListeners
<1>6. CASE Shutdown \/ ShutdownReturns
  BY <1>6 DEF Shutdown, ShutdownReturns
<1>7. CASE CloseStores \/ Exit
  BY <1>7 DEF CloseStores, Exit
<1>8. CASE \E c \in Conn : Finish(c)
  BY <1>8 DEF Finish
<1>9. CASE UNCHANGED life
  BY <1>9 DEF life
<1> QED  BY <1>1, <1>2, <1>3, <1>4, <1>5, <1>6, <1>7, <1>8, <1>9 DEF LifeNext, Stop

\* The invariant holds in every reachable state.
THEOREM LifeInvariance == LifeSpec => []LifeInv
<1> QED  BY LifeInitInv, LifeNextInv, PTL DEF LifeSpec

\* Type correctness; no listener is closed before the signal.
THEOREM LifeTypeCorrect == LifeSpec => []LifeTypeOK
<1>1. LifeInv => LifeTypeOK
  BY DEF LifeInv
<1> QED  BY <1>1, LifeInvariance, PTL

\* Before the signal, however often and on whichever port Accept fails: no accept loop
\* ends and no store is closed, SMTP and IMAP stay in Start, and JMAP leaves it only
\* for log.Fatal.
THEOREM ServerServesUntilSignal == LifeSpec => []ServesUntilSignal
<1>1. LifeInv => ServesUntilSignal
  BY DEF LifeInv
<1> QED  BY <1>1, LifeInvariance, PTL
============================================================================
