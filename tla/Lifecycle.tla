------------------------------ MODULE Lifecycle ------------------------------
(***************************************************************************)
(* Start and shutdown of one replica: main (cmd/api) with its three kinds  *)
(* of goroutines, NewServer and Server.Close.                              *)
(*                                                                         *)
(* The main goroutine connects to the database, builds the server (which   *)
(* opens Redis), starts the listener and the watchdog, and waits for a     *)
(* signal.  Then it cancels the watchdog and waits for it, drains the      *)
(* HTTP handlers for at most 15 seconds, and closes Redis and the          *)
(* database, unless it gives up on the handlers and exits.  The watchdog   *)
(* and the handlers use both connections all the while; what they use them *)
(* for is in the modules Watchdog and Pipeline.                            *)
(***************************************************************************)
CONSTANTS Handlers   \* HTTP requests served at a time

VARIABLES
    main,       \* where the main goroutine is
    pool,       \* the database connections
    redis,      \* the connections of pythonworker.Publisher
    listener,   \* the goroutine in ListenAndServe
    cancelled,  \* watchdogCtx is done
    watchdog,   \* where the watchdog goroutine is
    handler,    \* where each handler is
    exit        \* how the process ended

vars == <<main, pool, redis, listener, cancelled, watchdog, handler, exit>>

Connection == {"none", "open", "closed"}

\* A handler, and the watchdog, is between calls or inside one of them.
Call == {"query", "publish"}

TypeOK ==
    /\ main \in {"connect", "newServer", "startListener", "startWatchdog", "serving",
                 "cancelWatchdog", "waitWatchdog", "shutdown", "draining",
                 "forced", "closeRedis", "closePool", "returned"}
    /\ pool \in Connection
    /\ redis \in Connection
    /\ listener \in {"off", "starting", "open", "closed"}
    /\ cancelled \in BOOLEAN
    /\ watchdog \in {"off", "idle", "scanning", "done"} \cup Call
    /\ handler \in [Handlers -> {"off", "running"} \cup Call]
    /\ exit \in {"none", "clean", "error"}

\* After config.MustLoad.
Init ==
    /\ main = "connect"
    /\ pool = "none"
    /\ redis = "none"
    /\ listener = "off"
    /\ cancelled = FALSE
    /\ watchdog = "off"
    /\ handler = [h \in Handlers |-> "off"]
    /\ exit = "none"

Alive == exit = "none"
Draining == \E h \in Handlers : handler[h] # "off"

-----------------------------------------------------------------------------
(* Start *)

\* os.Exit: no deferred call runs.
Exit(code) == exit' = code /\ UNCHANGED <<main, pool, redis, listener, cancelled, watchdog, handler>>

\* pgxpool.New and Ping, or the process ends.
Connect ==
    /\ main = "connect"
    /\ \/ pool' = "open" /\ main' = "newServer" /\ UNCHANGED <<redis, listener, cancelled, watchdog, handler, exit>>
       \/ Exit("error")

\* Plausible bug: the error is logged, as that of the storage client is.
NewServer_NilPublisher ==
    /\ main = "newServer"
    /\ redis' \in {"open", "nil"}
    /\ main' = "startListener"
    /\ UNCHANGED <<pool, listener, cancelled, watchdog, handler, exit>>

\* NewServer opens Redis; an invalid URL, or a service that cannot be built,
\* ends the process.
NewServer ==
    /\ main = "newServer"
    /\ \/ redis' = "open" /\ main' = "startListener" /\ UNCHANGED <<pool, listener, cancelled, watchdog, handler, exit>>
       \/ Exit("error")

StartListener ==
    /\ main = "startListener"
    /\ listener' = "starting"
    /\ main' = "startWatchdog"
    /\ UNCHANGED <<pool, redis, cancelled, watchdog, handler, exit>>

\* Start calls runOnce at once.
StartWatchdog ==
    /\ main = "startWatchdog"
    /\ watchdog' = "scanning"
    /\ main' = "serving"
    /\ UNCHANGED <<pool, redis, listener, cancelled, handler, exit>>

-----------------------------------------------------------------------------
(* Shutdown *)

\* SIGINT or SIGTERM.
Signal ==
    /\ main = "serving"
    /\ main' = "cancelWatchdog"
    /\ UNCHANGED <<pool, redis, listener, cancelled, watchdog, handler, exit>>

WatchdogCancel ==
    /\ main = "cancelWatchdog"
    /\ cancelled' = TRUE
    /\ main' = "waitWatchdog"
    /\ UNCHANGED <<pool, redis, listener, watchdog, handler, exit>>

\* Plausible bug: main does not wait for the watchdog it has cancelled.
WatchdogDone_NotAwaited == TRUE

WatchdogDone == watchdog = "done"

WatchdogWait ==
    /\ main = "waitWatchdog"
    /\ WatchdogDone
    /\ main' = "shutdown"
    /\ UNCHANGED <<pool, redis, listener, cancelled, watchdog, handler, exit>>

\* httpSrv.Shutdown: ListenAndServe returns ErrServerClosed.
Shutdown ==
    /\ main = "shutdown"
    /\ listener' = "closed"
    /\ main' = "draining"
    /\ UNCHANGED <<pool, redis, cancelled, watchdog, handler, exit>>

Drained ==
    /\ main = "draining"
    /\ ~Draining
    /\ main' = "closeRedis"
    /\ UNCHANGED <<pool, redis, listener, cancelled, watchdog, handler, exit>>

\* Plausible bug: the error of Shutdown is logged and nothing else.
AfterTimeout_Ignored == "closeRedis"

AfterTimeout == "forced"

\* shutdownCtx expires while handlers are at work.
DrainTimeout ==
    /\ main = "draining"
    /\ Draining
    /\ main' = AfterTimeout
    /\ UNCHANGED <<pool, redis, listener, cancelled, watchdog, handler, exit>>

\* srv.Close, then os.Exit: the pool is left to the operating system.
ForcedClose ==
    /\ main = "forced"
    /\ \/ redis = "open" /\ redis' = "closed" /\ UNCHANGED <<main, pool, listener, cancelled, watchdog, handler, exit>>
       \/ redis = "closed" /\ Exit("error")

CloseRedis ==
    /\ main = "closeRedis"
    /\ redis' = "closed"
    /\ main' = "closePool"
    /\ UNCHANGED <<pool, listener, cancelled, watchdog, handler, exit>>

\* The deferred pool.Close, which waits for connections in use, and the return
\* of main.
ClosePool ==
    /\ main = "closePool"
    /\ "query" \notin {handler[h] : h \in Handlers} \cup {watchdog}
    /\ pool' = "closed"
    /\ main' = "returned"
    /\ UNCHANGED <<redis, listener, cancelled, watchdog, handler, exit>>

MainReturns ==
    /\ main = "returned"
    /\ exit' = "clean"
    /\ UNCHANGED <<main, pool, redis, listener, cancelled, watchdog, handler>>

-----------------------------------------------------------------------------
(* The listener and the handlers *)

Listen ==
    /\ listener = "starting"
    /\ listener' = "open"
    /\ UNCHANGED <<main, pool, redis, cancelled, watchdog, handler, exit>>

\* ListenAndServe returned another error: the goroutine ends the process,
\* wherever the others are.
ListenError ==
    /\ listener \in {"starting", "open"}
    /\ Exit("error")

Accept(h) ==
    /\ listener = "open"
    /\ handler[h] = "off"
    /\ handler' = [handler EXCEPT ![h] = "running"]
    /\ UNCHANGED <<main, pool, redis, listener, cancelled, watchdog, exit>>

\* A handler starts a call, comes back from it, or is done.
HandlerStep(h) ==
    /\ \/ handler[h] = "running" /\ \E s \in Call \cup {"off"} : handler' = [handler EXCEPT ![h] = s]
       \/ handler[h] \in Call /\ handler' = [handler EXCEPT ![h] = "running"]
    /\ UNCHANGED <<main, pool, redis, listener, cancelled, watchdog, exit>>

-----------------------------------------------------------------------------
(* The watchdog goroutine: Start, runOnce and processTask *)

\* The next call of a scan, or its end.  Every call takes the context: once it
\* is cancelled a call under way returns, and no further one has an effect.
WatchdogCall ==
    \/ /\ watchdog = "scanning"
       /\ watchdog' \in IF cancelled THEN {"idle"} ELSE Call \cup {"idle"}
    \/ /\ watchdog \in Call
       /\ watchdog' = "scanning"

\* ticker.C, which select may choose although ctx.Done is ready as well.
WatchdogTick == watchdog = "idle" /\ watchdog' = "scanning"

\* Plausible bug: Start does not look at ctx.Done.
WatchdogStop_Never == FALSE /\ UNCHANGED watchdog

WatchdogStop == watchdog = "idle" /\ cancelled /\ watchdog' = "done"

WatchdogStep ==
    /\ WatchdogCall \/ WatchdogTick \/ WatchdogStop
    /\ UNCHANGED <<main, pool, redis, listener, cancelled, handler, exit>>

-----------------------------------------------------------------------------
MainStep ==
    \/ Connect \/ NewServer \/ StartListener \/ StartWatchdog
    \/ WatchdogCancel \/ WatchdogWait \/ Shutdown \/ Drained \/ DrainTimeout
    \/ ForcedClose \/ CloseRedis \/ ClosePool \/ MainReturns

Running ==
    \/ MainStep
    \/ Signal
    \/ Listen \/ ListenError
    \/ \E h \in Handlers : Accept(h) \/ HandlerStep(h)
    \/ WatchdogStep

\* Nothing happens after the process has ended.
Next == (Alive /\ Running) \/ (~Alive /\ UNCHANGED vars)

Spec == Init /\ [][Next]_vars

\* The main goroutine goes on whenever it can (the 15 seconds pass whatever the
\* handlers do), and so does the watchdog's.  select chooses at random among
\* ready cases, so it does not choose the ticker for ever: strong fairness for
\* the way out.  Nothing is assumed of the handlers and of the signal.
Fairness ==
    /\ WF_vars(Alive /\ MainStep)
    /\ WF_vars(Alive /\ WatchdogStep)
    /\ SF_vars(Alive /\ WatchdogStop /\ UNCHANGED <<main, pool, redis, listener, cancelled, handler, exit>>)

FairSpec == Spec /\ Fairness

-----------------------------------------------------------------------------
(* Properties *)

\* While the process lives, nobody is inside a call on a connection that was
\* closed under it: "If watchdogCancel were only called via defer, the watchdog
\* could tick into a closed Redis pool during the shutdown window" (main.go).
\* Only the handlers a forced shutdown gives up on may find Redis closed.
NoUseAfterClose ==
    Alive =>
        /\ redis = "closed" =>
              /\ watchdog # "publish"
              /\ main # "forced" => \A h \in Handlers : handler[h] # "publish"
        /\ pool = "closed" =>
              /\ watchdog # "query"
              /\ \A h \in Handlers : handler[h] # "query"

\* A process that ends cleanly has cut nobody short: every request it accepted
\* was served to the end, its watchdog has stopped and both connections are
\* closed.  A process that ends with an error has not closed the pool.
CleanExitIsDrained ==
    /\ exit = "clean" =>
          /\ \A h \in Handlers : handler[h] = "off"
          /\ watchdog = "done"
          /\ redis = "closed" /\ pool = "closed"
    /\ exit = "error" => pool # "closed"

\* A replica that gets a signal ends, however long its handlers take and
\* wherever its watchdog is when the signal arrives.
SignalEndsProcess == main = "cancelWatchdog" ~> exit # "none"
=============================================================================
