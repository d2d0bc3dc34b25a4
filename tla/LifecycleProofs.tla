--------------------------- MODULE LifecycleProofs ---------------------------
(***************************************************************************)
(* Proofs about Lifecycle for any number of requests served at a time.     *)
(*                                                                         *)
(* That nobody uses a closed connection is not inductive: it holds because *)
(* of what the main goroutine has done before it closes anything.  IInv    *)
(* ties the position of the main goroutine to the state of the watchdog,   *)
(* of the listener and of the handlers.                                    *)
(***************************************************************************)
EXTENDS Lifecycle, TLAPS

\* Where the main goroutine is once it has waited for the watchdog, and once
\* the handlers have drained.
AfterWatchdog == {"shutdown", "draining", "forced", "closeRedis", "closePool", "returned"}
AfterDraining == {"closeRedis", "closePool", "returned"}

\* wg.Wait: the watchdog has ended, and it never starts again.
WatchdogEnded == main \in AfterWatchdog => watchdog = "done"

\* No handler is at work and none can be accepted.
HandlersEnded ==
    main \in AfterDraining =>
        listener = "closed" /\ \A h \in Handlers : handler[h] = "off"

\* Shutdown closes the listener before it waits, and nothing opens it again.
ListenerOrder == main \in {"draining", "forced"} => listener = "closed"

\* Redis is closed by srv.Close only, the pool by the return of main only.
ClosedByMain ==
    /\ redis = "closed" => main \in {"forced", "closePool", "returned"}
    /\ pool = "closed" => main = "returned"
    /\ main \in {"closePool", "returned"} => redis = "closed"
    /\ main = "returned" => pool = "closed"

ExitByMain == exit = "clean" => main = "returned"

\* The ways to end with an error are behind a main goroutine that has returned:
\* the listener is closed, so it cannot fail any more.
ErrorBeforeReturn == exit = "error" => main # "returned"

IInv ==
    /\ TypeOK
    /\ WatchdogEnded
    /\ HandlersEnded
    /\ ListenerOrder
    /\ ClosedByMain
    /\ ExitByMain
    /\ ErrorBeforeReturn

\* The steps of the main goroutine, one by one.
LEMMA MainStepIInv == ASSUME IInv, Alive, MainStep PROVE IInv'
<1> USE DEF IInv, TypeOK, WatchdogEnded, HandlersEnded, ListenerOrder, ClosedByMain,
            ExitByMain, ErrorBeforeReturn, AfterWatchdog, AfterDraining
<1>1. CASE Connect
  BY <1>1 DEF Connect, Exit, Connection, Call
<1>2. CASE NewServer
  BY <1>2 DEF NewServer, Exit, Connection, Call
<1>3. CASE StartListener
  BY <1>3 DEF StartListener, Connection, Call
<1>4. CASE StartWatchdog
  BY <1>4 DEF StartWatchdog, Connection, Call
<1>5. CASE WatchdogCancel
  BY <1>5 DEF WatchdogCancel, Connection, Call
<1>6. CASE WatchdogWait
  BY <1>6 DEF WatchdogWait, WatchdogDone, Connection, Call
<1>7. CASE Shutdown
  BY <1>7 DEF Shutdown, Connection, Call
<1>8. CASE Drained
  BY <1>8 DEF Drained, Draining, Connection, Call
<1>9. CASE DrainTimeout
  BY <1>9 DEF DrainTimeout, AfterTimeout, Connection, Call
<1>10. CASE ForcedClose
  BY <1>10 DEF ForcedClose, Exit, Connection, Call
<1>11. CASE CloseRedis
  BY <1>11 DEF CloseRedis, Connection, Call
<1>12. CASE ClosePool
  BY <1>12 DEF ClosePool, Alive, Connection, Call
<1>13. CASE MainReturns
  BY <1>13 DEF MainReturns, Connection, Call
<1> QED
  BY <1>1, <1>2, <1>3, <1>4, <1>5, <1>6, <1>7, <1>8, <1>9, <1>10, <1>11, <1>12, <1>13 DEF MainStep

\* The steps of the listener and of the handlers.
LEMMA HandlerIInv ==
    ASSUME IInv, Alive,
           Signal \/ Listen \/ ListenError \/ \E h \in Handlers : Accept(h) \/ HandlerStep(h)
    PROVE  IInv'
<1> USE DEF IInv, TypeOK, WatchdogEnded, HandlersEnded, ListenerOrder, ClosedByMain,
            ExitByMain, ErrorBeforeReturn, AfterWatchdog, AfterDraining
<1>1. CASE Signal
  BY <1>1 DEF Signal, Connection, Call
<1>2. CASE Listen
  BY <1>2 DEF Listen, Connection, Call
<1>3. CASE ListenError
  BY <1>3 DEF ListenError, Exit, Connection, Call
<1>4. ASSUME NEW h \in Handlers, Accept(h) PROVE IInv'
  BY <1>4 DEF Accept, Connection, Call
<1>5. ASSUME NEW h \in Handlers, HandlerStep(h) PROVE IInv'
  <2>1. main \notin AfterDraining
    BY <1>5 DEF HandlerStep, Call
  <2>2. handler' \in [Handlers -> {"off", "running"} \cup Call]
    BY <1>5 DEF HandlerStep, Call
  <2> QED
    BY <1>5, <2>1, <2>2 DEF HandlerStep, Connection
<1> QED
  BY <1>1, <1>2, <1>3, <1>4, <1>5

\* The steps of the watchdog: one that has ended takes none.
LEMMA WatchdogIInv == ASSUME IInv, WatchdogStep PROVE IInv'
<1>1. watchdog # "done" /\ watchdog' \in {"off", "idle", "scanning", "done"} \cup Call
  BY DEF IInv, TypeOK, WatchdogStep, WatchdogCall, WatchdogTick, WatchdogStop, Call
<1>2. main \notin AfterWatchdog
  BY <1>1 DEF IInv, WatchdogEnded
<1> QED
  BY <1>1, <1>2 DEF IInv, TypeOK, WatchdogEnded, HandlersEnded, ListenerOrder,
         ClosedByMain, ExitByMain, ErrorBeforeReturn, WatchdogStep, Connection, Call

\* The strengthened invariant holds in every reachable state.
THEOREM Inductive == Spec => []IInv
<1>1. Init => IInv
  BY DEF Init, IInv, TypeOK, WatchdogEnded, HandlersEnded, ListenerOrder,
         ClosedByMain, ExitByMain, ErrorBeforeReturn, AfterWatchdog, AfterDraining, Connection, Call
<1>2. IInv /\ [Next]_vars => IInv'
  <2>1. ASSUME IInv, Alive, Running PROVE IInv'
    BY <2>1, MainStepIInv, HandlerIInv, WatchdogIInv DEF Running
  <2>2. ASSUME IInv, UNCHANGED vars PROVE IInv'
    BY <2>2 DEF vars, IInv, TypeOK, WatchdogEnded, HandlersEnded, ListenerOrder, ClosedByMain, ExitByMain, ErrorBeforeReturn
  <2> QED
    BY <2>1, <2>2 DEF Next
<1> QED
  BY <1>1, <1>2, PTL DEF Spec

\* The variables of main and of its goroutines keep their types.
THEOREM TypeCorrect == Spec => []TypeOK
<1>1. IInv => TypeOK
  BY DEF IInv
<1> QED
  BY <1>1, Inductive, PTL

\* No goroutine is inside a call on a connection that main has closed, for any
\* number of handlers: the watchdog is awaited before srv.Close, the handlers
\* are drained before it, or given up by a forced shutdown.
THEOREM ConnectionsOutliveUsers == Spec => []NoUseAfterClose
<1>1. IInv => NoUseAfterClose
  <2> SUFFICES ASSUME IInv PROVE NoUseAfterClose
    OBVIOUS
  <2>1. redis = "closed" => watchdog = "done"
    BY DEF IInv, ClosedByMain, WatchdogEnded, AfterWatchdog
  <2>2. redis = "closed" /\ main # "forced" => \A h \in Handlers : handler[h] = "off"
    BY DEF IInv, ClosedByMain, HandlersEnded, AfterDraining
  <2>3. pool = "closed" => watchdog = "done" /\ \A h \in Handlers : handler[h] = "off"
    BY DEF IInv, ClosedByMain, WatchdogEnded, HandlersEnded, AfterWatchdog, AfterDraining
  <2> QED
    BY <2>1, <2>2, <2>3 DEF NoUseAfterClose
<1> QED
  BY <1>1, Inductive, PTL

\* A clean exit is one after everybody has finished and both connections were
\* closed; an exit with an error leaves the pool to the operating system.
THEOREM CleanExit == Spec => []CleanExitIsDrained
<1>1. IInv => CleanExitIsDrained
  BY DEF IInv, CleanExitIsDrained, ClosedByMain, ExitByMain, ErrorBeforeReturn,
         WatchdogEnded, HandlersEnded, AfterWatchdog, AfterDraining
<1> QED
  BY <1>1, Inductive, PTL
=============================================================================
