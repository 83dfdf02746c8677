----------------------------- MODULE ServeProofs -----------------------------
(***************************************************************************)
(* TLAPS proofs about Lifecycle and ServeCommand, for any number of        *)
(* closers and requests: an embedded issuer and the daemon stop what they  *)
(* say they stop.                                                          *)
(***************************************************************************)
EXTENDS ServeCommand, TLAPS

MainPc == {"embedded", "config", "keyring", "discovery", "wait_ctx", "shutdown",
           "close", "wait_cleanup", "return"}

\* Where the body of Close has closed the listener, has seen the requests end,
\* and has seen the rotation goroutine end.
PastListener == {"wait_requests", "cancel", "wait_rotation", "close_internal",
                 "wait_cleanup"}
PastRequests == PastListener \ {"wait_requests"}
PastRotation == {"close_internal", "wait_cleanup"}

Runs(c) == closer[c] \notin {"idle", "wait_once", "returned"}

NoneInFlight == \A r \in Requests : request[r] # "inflight"

\* closeOnce tells how far the calls of Close are, and one of them at most runs
\* the body.
OnceOK ==
    /\ closeOnce = "new" => \A c \in Closers : closer[c] = "idle"
    /\ \A c \in Closers : Runs(c) => closeOnce = "running"
    /\ \A c \in Closers : closer[c] = "returned" => closeOnce = "done"
    /\ \A c, d \in Closers : Runs(c) /\ Runs(d) => c = d

\* What the body of Close has waited for stays as it was.
StageOK ==
    /\ \A c \in Closers :
          /\ closer[c] \in PastListener => listener = "closed"
          /\ closer[c] \in PastRequests => NoneInFlight
          /\ closer[c] \in PastRotation => rotation = "exited"
    /\ closeOnce = "done" =>
          /\ listener = "closed" /\ NoneInFlight
          /\ rotation = "exited" /\ cleanup = "exited"

\* An embedded issuer never listens a second time; nobody calls Close in the
\* daemon, and its listener is closed for good once Shutdown was called.
MainOK ==
    /\ main \in MainPc
    /\ main = "embedded" => listen = "none"
    /\ main # "embedded" => closeOnce = "new"
    /\ main \in {"shutdown", "close", "wait_cleanup", "return"} =>
          listener = "closed"

ServeInv == TypeOK /\ OnceOK /\ StageOK /\ MainOK /\ DrainedUnlessTimedOut

-----------------------------------------------------------------------------
\* Both kinds of initial states satisfy the invariant.
LEMMA InitServe == ServeInit => ServeInv
  <1> USE DEF ServeInv, TypeOK, OnceOK, StageOK, MainOK, DrainedUnlessTimedOut,
              Runs, PastListener, PastRequests, PastRotation, MainPc, CloserPc,
              NoneInFlight, InFlight
  <1>1. EmbeddedInit => ServeInv
    BY DEF EmbeddedInit, Init
  <1>2. DaemonInit => ServeInv
    BY DEF DaemonInit
  <1> QED
    BY <1>1, <1>2 DEF ServeInit

\* A step of a call of Close in an embedded issuer.
LEMMA CloseServe ==
    ASSUME ServeInv, NEW c \in Closers, Embedded(CloseStep(c))
    PROVE  ServeInv'
  <1> USE DEF ServeInv, Embedded, mainVars, Goto
  <1>1. main = "embedded" /\ main' = main /\ listen' = listen
    OBVIOUS
  <1>2. MainOK' /\ DrainedUnlessTimedOut'
    BY <1>1 DEF MainOK, DrainedUnlessTimedOut, MainPc
  <1> USE DEF TypeOK, CloserPc, OnceOK, StageOK, Runs, PastListener, PastRequests,
              PastRotation, NoneInFlight, rotationVars, cleanupVars
  <1>3. CASE CloseFirst(c)
    BY <1>2, <1>3 DEF CloseFirst
  <1>4. CASE CloseAgain(c)
    BY <1>2, <1>4 DEF CloseAgain
  <1>5. CASE CloseWaited(c)
    BY <1>2, <1>5 DEF CloseWaited
  <1>6. CASE CloseListener(c)
    BY <1>2, <1>6 DEF CloseListener
  <1>7. CASE WaitRequests(c)
    BY <1>2, <1>7 DEF WaitRequests
  <1>8. CASE CancelRotation(c)
    BY <1>2, <1>8 DEF CancelRotation
  <1>9. CASE WaitRotation(c)
    BY <1>2, <1>9 DEF WaitRotation
  <1>10. CASE CloseInternal(c)
    BY <1>2, <1>10 DEF CloseInternal
  <1>11. CASE WaitCleanup(c)
    BY <1>2, <1>11 DEF WaitCleanup
  <1> QED
    BY <1>3, <1>4, <1>5, <1>6, <1>7, <1>8, <1>9, <1>10, <1>11 DEF CloseStep

\* A step of a request or of a goroutine, in either kind of behaviour: requests
\* are accepted only while the listener is open, and a goroutine that has
\* exited does not come back.
LEMMA BackgroundServe ==
    ASSUME ServeInv, Shared(BackgroundStep)
    PROVE  ServeInv'
  <1> USE DEF ServeInv, Shared, mainVars
  <1>1. UNCHANGED <<main, listen, timedOut>>
    OBVIOUS
  <1>2. UNCHANGED <<listener, closeOnce, closer>>
    BY DEF BackgroundStep, Accept, Serve, RotationTicks, RotationReceive,
           RotationRotate, RotationPrune, RotationExit, CleanupTicks,
           CleanupReceive, CleanupSweep, CleanupExit
  <1>3. MainOK' /\ OnceOK'
    BY <1>1, <1>2 DEF MainOK, OnceOK, Runs
  <1>4. ASSUME NEW r \in Requests, Accept(r) \/ Serve(r)
        PROVE  ServeInv'
    BY <1>1, <1>2, <1>3, <1>4
       DEF Accept, Serve, TypeOK, StageOK, NoneInFlight, PastListener,
           PastRequests, PastRotation, DrainedUnlessTimedOut, InFlight, MainOK,
           rotationVars, cleanupVars
  <1>5. ASSUME UNCHANGED request,
               TypeOK', rotation = "exited" => rotation' = "exited",
               cleanup = "exited" => cleanup' = "exited"
        PROVE  ServeInv'
    BY <1>1, <1>2, <1>3, <1>5
       DEF StageOK, NoneInFlight, DrainedUnlessTimedOut, InFlight
  <1> USE DEF TypeOK, cleanupVars, rotationVars
  <1>6. CASE RotationTicks
    BY <1>5, <1>6 DEF RotationTicks
  <1>7. CASE RotationReceive
    BY <1>5, <1>7 DEF RotationReceive
  <1>8. CASE RotationRotate
    BY <1>5, <1>8 DEF RotationRotate
  <1>9. CASE RotationPrune
    BY <1>5, <1>9 DEF RotationPrune
  <1>10. CASE RotationExit
    BY <1>5, <1>10 DEF RotationExit
  <1>11. CASE CleanupTicks
    BY <1>5, <1>11 DEF CleanupTicks
  <1>12. CASE CleanupReceive
    BY <1>5, <1>12 DEF CleanupReceive
  <1>13. CASE CleanupSweep
    BY <1>5, <1>13 DEF CleanupSweep
  <1>14. CASE CleanupExit
    BY <1>5, <1>14 DEF CleanupExit
  <1> QED
    BY <1>4, <1>6, <1>7, <1>8, <1>9, <1>10, <1>11, <1>12, <1>13, <1>14
       DEF BackgroundStep

\* In the daemon no call of Close is under way, so only the types, the place of
\* main and the drained requests can be disturbed.
LEMMA DaemonServe ==
    ASSUME ServeInv, main # "embedded", UNCHANGED <<closeOnce, closer>>,
           TypeOK', MainOK', DrainedUnlessTimedOut'
    PROVE  ServeInv'
  <1>1. closeOnce = "new" /\ \A c \in Closers : closer[c] = "idle"
    BY DEF ServeInv, MainOK, OnceOK
  <1> QED
    BY <1>1 DEF ServeInv, OnceOK, StageOK, Runs, PastListener, PastRequests,
                PastRotation

\* A step of runServe.
LEMMA MainServe ==
    ASSUME ServeInv, MainStep
    PROVE  ServeInv'
  <1>1. main # "embedded" /\ UNCHANGED <<closeOnce, closer>>
    BY DEF MainStep, LoadConfig, StartRotation, StartServer, StartFails,
           BeginShutdown, Drained, ShutdownTimesOut, CloseServer, CleanupDone,
           Return, Exit, Step, vars
  <1>2. TypeOK' /\ MainOK' /\ DrainedUnlessTimedOut'
    <2> USE DEF ServeInv, TypeOK, MainOK, MainPc, DrainedUnlessTimedOut, InFlight,
                Step, vars, rotationVars, cleanupVars
    <2>1. CASE LoadConfig
      BY <2>1 DEF LoadConfig
    <2>2. CASE StartRotation
      BY <2>2 DEF StartRotation
    <2>3. CASE StartServer
      BY <2>3 DEF StartServer
    <2>4. CASE StartFails \/ Return
      BY <2>4 DEF StartFails, Return, Exit
    <2>5. CASE BeginShutdown
      BY <2>5 DEF BeginShutdown
    <2>6. CASE Drained
      BY <2>6 DEF Drained
    <2>7. CASE ShutdownTimesOut
      BY <2>7 DEF ShutdownTimesOut
    <2>8. CASE CloseServer
      BY <2>8 DEF CloseServer
    <2>9. CASE CleanupDone
      BY <2>9 DEF CleanupDone
    <2> QED
      BY <2>1, <2>2, <2>3, <2>4, <2>5, <2>6, <2>7, <2>8, <2>9 DEF MainStep
  <1> QED
    BY <1>1, <1>2, DaemonServe

\* A step of the listening goroutine, which exists in the daemon only: it opens
\* the listener before the shutdown or not at all.
LEMMA ListenServe ==
    ASSUME ServeInv, ListenStep
    PROVE  ServeInv'
  <1>1. main # "embedded" /\ UNCHANGED <<closeOnce, closer>>
    BY DEF ListenStep, Bind, BindTooLate, ListenFails, ListenEnds, Listens,
           ServeInv, MainOK
  <1>2. TypeOK' /\ MainOK' /\ DrainedUnlessTimedOut'
    <2> USE <1>1 DEF ServeInv, TypeOK, MainOK, MainPc, DrainedUnlessTimedOut,
                     InFlight, Listens, ShuttingDown, cleanupVars
    <2>1. CASE Bind
      BY <2>1 DEF Bind
    <2>2. CASE BindTooLate
      BY <2>2 DEF BindTooLate
    <2>3. CASE ListenFails
      BY <2>3 DEF ListenFails
    <2>4. CASE ListenEnds
      BY <2>4 DEF ListenEnds
    <2> QED
      BY <2>1, <2>2, <2>3, <2>4 DEF ListenStep
  <1> QED
    BY <1>1, <1>2, DaemonServe

\* The invariant is inductive.
LEMMA NextServe == ServeInv /\ [ServeNext]_allVars => ServeInv'
  <1> SUFFICES ASSUME ServeInv, [ServeNext]_allVars PROVE ServeInv'
    OBVIOUS
  <1>1. CASE UNCHANGED allVars
    BY <1>1 DEF allVars, vars, mainVars, ServeInv, TypeOK, OnceOK, StageOK, MainOK,
                DrainedUnlessTimedOut, Runs, NoneInFlight, InFlight
  <1>2. CASE Embedded(Terminated) \/ Exited
    BY <1>1, <1>2 DEF Embedded, Terminated, Exited, allVars
  <1>3. CASE \E c \in Closers : Embedded(CloseStep(c))
    BY <1>3, CloseServe
  <1>4. CASE Shared(BackgroundStep)
    BY <1>4, BackgroundServe
  <1>5. CASE MainStep
    BY <1>5, MainServe
  <1>6. CASE ListenStep
    BY <1>6, ListenServe
  <1>7. CASE Signal \/ Killed
    BY <1>7 DEF Signal, Killed, Exit, vars, cleanupVars, mainVars, ServeInv, TypeOK,
                OnceOK, StageOK, MainOK, DrainedUnlessTimedOut, Runs, NoneInFlight,
                InFlight
  <1> QED
    BY <1>1, <1>2, <1>3, <1>4, <1>5, <1>6, <1>7 DEF ServeNext

\* The inductive invariant of the embedded issuer and the daemon.
THEOREM ServeInvariant == ServeSpec => []ServeInv
  <1> QED
    BY InitServe, NextServe, PTL DEF ServeSpec

\* The listener, the goroutines and the calls of Close keep their types.
THEOREM ServeTypeCorrect == ServeSpec => []TypeOK
  <1>1. ServeInv => TypeOK
    BY DEF ServeInv
  <1> QED
    BY <1>1, ServeInvariant, PTL

\* sync.Once at work: however many goroutines call Close at once, only one runs
\* its body.
THEOREM OneCloser == ServeSpec => []OneCloserRuns
  <1>1. ServeInv => OneCloserRuns
    BY DEF ServeInv, TypeOK, CloserPc, OnceOK, OneCloserRuns, Runs
  <1> QED
    BY <1>1, ServeInvariant, PTL

\* Whichever call of Close returns, and however many there are, the listener,
\* the requests and both goroutines have come to an end.
THEOREM CloseStops == ServeSpec => []ClosedMeansStopped
  <1>1. ServeInv => ClosedMeansStopped
    BY DEF ServeInv, OnceOK, StageOK, ClosedMeansStopped, NoneInFlight
  <1> QED
    BY <1>1, ServeInvariant, PTL

\* The daemon cuts no request off unless the five seconds were over.
THEOREM DaemonDrains == ServeSpec => []DrainedUnlessTimedOut
  <1>1. ServeInv => DrainedUnlessTimedOut
    BY DEF ServeInv
  <1> QED
    BY <1>1, ServeInvariant, PTL

=============================================================================
