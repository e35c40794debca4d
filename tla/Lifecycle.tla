----------------------------- MODULE Lifecycle -----------------------------
(***************************************************************************)
(* A server process from start to exit: cmd/*/main.go with the Start of    *)
(* internal/smtp/server.go and internal/imap/server.go, which are alike    *)
(* ("tcp": two listeners, each with an acceptLoop, and a goroutine that    *)
(* closes them), or the Start of internal/jmap/server.go ("http": the      *)
(* listener of http.Server, and a goroutine that calls Shutdown).          *)
(*                                                                         *)
(* Each action is a step of one goroutine.  A connection or HTTP request   *)
(* is served by a goroutine of its own that nobody waits for.              *)
(***************************************************************************)
EXTENDS Naturals

CONSTANTS
  Conn       \* connections (tcp) or requests (http)

VARIABLES
  proto,     \* "tcp" (SMTP, IMAP) or "http" (JMAP)
  cert,      \* a TLS configuration was loaded (tcp only)
  ctx,       \* the context of signal.NotifyContext: "live" or "done"
  main,      \* the main goroutine: Start, then the deferred calls of main
  lst,       \* each listener: "none", "open" or "closed"
  loop,      \* each accept loop: "off", "accept", "failed" (Accept), "returned"
  closer,    \* the goroutine that waits for ctx
  work       \* what became of each connection or request

life == <<proto, cert, ctx, main, lst, loop, closer, work>>

----------------------------------------------------------------------------
Listener == {"plain", "tls"}
Starting == {"open_mysql", "open_redis", "load_tls"}
Returned == {"close_redis", "close_mysql", "sync_log", "exited"}
Alive == main \notin {"exited", "fatal"}

LifeInit ==
  /\ proto \in {"tcp", "http"}
  /\ cert = FALSE
  /\ ctx = "live"
  /\ main = "open_mysql"
  /\ lst = [l \in Listener |-> "none"]
  /\ loop = [l \in Listener |-> "off"]
  /\ closer = "off"
  /\ work = [c \in Conn |-> "none"]

\* main: the two stores, the TLS configuration (a failure to load it is logged),
\* the signal context; Start of "http" begins with the goroutine for Shutdown.
OpenStores ==
  /\ \/ main = "open_mysql" /\ main' = "open_redis"
     \/ main = "open_redis" /\ main' = "load_tls"
  /\ UNCHANGED <<proto, cert, ctx, lst, loop, closer, work>>

LoadTLS ==
  /\ main = "load_tls"
  /\ cert' \in IF proto = "tcp" THEN BOOLEAN ELSE {FALSE}
  /\ main' = "listen"
  /\ closer' = IF proto = "http" THEN "wait" ELSE "off"
  /\ UNCHANGED <<proto, ctx, lst, loop, work>>

\* SIGINT or SIGTERM.
Signal ==
  /\ Alive /\ main \notin Starting /\ ctx = "live"
  /\ ctx' = "done"
  /\ UNCHANGED <<proto, cert, main, lst, loop, closer, work>>

\* Start, up to the accept loop of the plain port.  ListenAndServe does not listen
\* once Shutdown has been called.
ListenPlain ==
  /\ main = "listen"
  /\ proto = "http" => closer = "wait"
  /\ lst' = [lst EXCEPT !["plain"] = "open"]
  /\ main' = IF cert THEN "listenTLS" ELSE "serve"
  /\ loop' = [loop EXCEPT !["plain"] = IF cert THEN "off" ELSE "accept"]
  /\ closer' = IF cert THEN closer ELSE "wait"
  /\ UNCHANGED <<proto, cert, ctx, work>>

ListenTLS ==
  /\ main = "listenTLS"
  /\ lst' = [lst EXCEPT !["tls"] = "open"]
  /\ main' = "serve"
  /\ loop' = [l \in Listener |-> "accept"]
  /\ closer' = "wait"
  /\ UNCHANGED <<proto, cert, ctx, work>>

\* log.Fatal: a store cannot be opened, or Start returns the error of Listen.
\* Before NotifyContext a signal has the same effect.
StartFails ==
  /\ main \in Starting \cup {"listen", "listenTLS"}
  /\ main' = "fatal"
  /\ UNCHANGED <<proto, cert, ctx, lst, loop, closer, work>>

Accept(l, c) ==
  /\ Alive /\ loop[l] = "accept" /\ lst[l] = "open"
  /\ work[c] = "none"
  /\ work' = [work EXCEPT ![c] = "running"]
  /\ UNCHANGED <<proto, cert, ctx, main, lst, loop, closer>>

\* Accept returns an error: at once when the listener is closed, and otherwise
\* whenever the system refuses (no file descriptors left, a reset connection).
AcceptFails(l) ==
  /\ Alive /\ loop[l] = "accept"
  /\ loop' = [loop EXCEPT ![l] = "failed"]
  /\ UNCHANGED <<proto, cert, ctx, main, lst, closer, work>>

\* Mutant: any error of Accept ends the loop.
AfterAcceptError_Returns(l) ==
  /\ Alive /\ loop[l] = "failed"
  /\ loop' = [loop EXCEPT ![l] = "returned"]
  /\ main' = IF l = "plain" THEN "close_redis" ELSE main
  /\ UNCHANGED <<proto, cert, ctx, lst, closer, work>>

\* Mutant: the loop goes on after every error.
AfterAcceptError_Continues(l) ==
  /\ Alive /\ loop[l] = "failed"
  /\ loop' = [loop EXCEPT ![l] = "accept"]
  /\ UNCHANGED <<proto, cert, ctx, main, lst, closer, work>>

\* acceptLoop looks at ctx: it returns, and with the loop of the plain port Start
\* returns, or it goes on.  http.Server looks at its own inShutdown instead.
ShuttingDown == IF proto = "http" THEN closer # "wait" ELSE ctx = "done"
AfterAcceptError(l) ==
  /\ Alive /\ loop[l] = "failed"
  /\ loop' = [loop EXCEPT ![l] = IF ShuttingDown THEN "returned" ELSE "accept"]
  /\ main' = IF ShuttingDown /\ l = "plain" THEN "close_redis" ELSE main
  /\ UNCHANGED <<proto, cert, ctx, lst, closer, work>>

\* External, net/http: Serve gives up on an error of Accept that is not temporary,
\* Start returns it, and main calls log.Fatal.
ServeFails ==
  /\ proto = "http" /\ main = "serve"
  /\ loop["plain"] = "failed" /\ ~ShuttingDown
  /\ main' = "fatal"
  /\ UNCHANGED <<proto, cert, ctx, lst, loop, closer, work>>

\* Mutant: the listeners are closed without waiting for ctx.
CloseListeners_AtOnce ==
  /\ Alive /\ proto = "tcp"
  /\ \/ /\ closer = "wait"
        /\ lst' = [lst EXCEPT !["plain"] = "closed"]
        /\ closer' = IF cert THEN "tls" ELSE "done"
     \/ /\ closer = "tls"
        /\ lst' = [lst EXCEPT !["tls"] = "closed"]
        /\ closer' = "done"
  /\ UNCHANGED <<proto, cert, ctx, main, loop, work>>

\* The closing goroutine of "tcp": first the plain listener, then the other.
CloseListeners ==
  /\ Alive /\ proto = "tcp" /\ ctx = "done"
  /\ \/ /\ closer = "wait"
        /\ lst' = [lst EXCEPT !["plain"] = "closed"]
        /\ closer' = IF cert THEN "tls" ELSE "done"
     \/ /\ closer = "tls"
        /\ lst' = [lst EXCEPT !["tls"] = "closed"]
        /\ closer' = "done"
  /\ UNCHANGED <<proto, cert, ctx, main, loop, work>>

\* Shutdown closes the listener and then waits for the requests, at most 5 s.
Shutdown ==
  /\ Alive /\ proto = "http" /\ ctx = "done" /\ closer = "wait"
  /\ lst' = [lst EXCEPT !["plain"] = IF @ = "open" THEN "closed" ELSE @]
  /\ closer' = "drain"
  /\ UNCHANGED <<proto, cert, ctx, main, loop, work>>

ShutdownReturns ==
  /\ Alive /\ closer = "drain"
  /\ closer' = "done"
  /\ UNCHANGED <<proto, cert, ctx, main, lst, loop, work>>

\* ListenAndServe after Shutdown: ErrServerClosed at once.
NeverListened ==
  /\ main = "listen" /\ proto = "http" /\ closer # "wait"
  /\ main' = "close_redis"
  /\ UNCHANGED <<proto, cert, ctx, lst, loop, closer, work>>

\* The deferred calls of main, last first: rdb.Close, mysql.Close, log.Sync.  Then
\* the process is gone, with whatever still ran in it.
CloseStores ==
  /\ \/ main = "close_redis" /\ main' = "close_mysql"
     \/ main = "close_mysql" /\ main' = "sync_log"
  /\ UNCHANGED <<proto, cert, ctx, lst, loop, closer, work>>

Exit ==
  /\ main = "sync_log"
  /\ main' = "exited"
  /\ work' = [c \in Conn |-> IF work[c] = "running" THEN "cut" ELSE work[c]]
  /\ UNCHANGED <<proto, cert, ctx, lst, loop, closer>>

\* A session or request ends.
Finish(c) ==
  /\ Alive /\ work[c] = "running"
  /\ work' = [work EXCEPT ![c] = "finished"]
  /\ UNCHANGED <<proto, cert, ctx, main, lst, loop, closer>>

Serve(l) == AfterAcceptError(l) \/ (lst[l] = "closed" /\ AcceptFails(l))
Boot == OpenStores \/ LoadTLS \/ ListenPlain \/ ListenTLS \/ NeverListened
Stop == CloseListeners \/ Shutdown \/ CloseStores \/ Exit

LifeNext ==
  \/ Signal
  \/ Boot \/ StartFails
  \/ \E l \in Listener : (\E c \in Conn : Accept(l, c)) \/ AcceptFails(l) \/ AfterAcceptError(l)
  \/ ServeFails
  \/ Stop \/ ShutdownReturns
  \/ \E c \in Conn : Finish(c)

\* Goroutines that can run do, and Accept on a closed listener returns.  A signal,
\* a client, an error and the end of a session are never assumed.
LifeFairness ==
  /\ WF_life(Boot) /\ WF_life(Stop)
  /\ \A l \in Listener : WF_life(Serve(l))

LifeSpec == LifeInit /\ [][LifeNext]_life /\ LifeFairness

----------------------------------------------------------------------------
\* Type correctness; a listener that is closed was closed because of a signal.
LifeTypeOK ==
  /\ proto \in {"tcp", "http"} /\ cert \in BOOLEAN
  /\ ctx \in {"live", "done"}
  /\ main \in Starting \cup {"listen", "listenTLS", "serve", "fatal"} \cup Returned
  /\ lst \in [Listener -> {"none", "open", "closed"}]
  /\ \A l \in Listener : lst[l] = "closed" => ctx = "done"
  /\ loop \in [Listener -> {"off", "accept", "failed", "returned"}]
  /\ closer \in {"off", "wait", "tls", "drain", "done"}
  /\ work \in [Conn -> {"none", "running", "finished", "cut"}]

\* A server that serves does so until it is told to stop.  While ctx is live no accept
\* loop has returned, on either port, and main has not begun to close the stores; and
\* SMTP and IMAP are still in Start, however often Accept has failed.  JMAP is so or
\* has ended in log.Fatal, when http.Server gave up on an error of Accept.
ServesUntilSignal ==
  ctx = "live" =>
    /\ main \notin Returned /\ \A l \in Listener : loop[l] # "returned"
    /\ loop["plain"] # "off" => main = "serve" \/ (main = "fatal" /\ proto = "http")

\* A signal stops the process, whenever it comes: during Start, while Accept
\* blocks, or while Accept fails again and again; and no session can prevent it.
Stops == ctx = "done" ~> ~Alive

----------------------------------------------------------------------------
\* What cmd/jmap/main.go says of the signal context: "Graceful shutdown on SIGINT
\* or SIGTERM".  No request that was being served is cut off by the exit.  Start
\* returns when Shutdown begins, not when it is done.
GracefulShutdown ==
  proto = "http" => \A c \in Conn : work[c] # "cut"
============================================================================
