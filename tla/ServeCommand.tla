---------------------------- MODULE ServeCommand ----------------------------
(***************************************************************************)
(* The daemon: runServe of cmd/jwtoken-tester/main.go, which starts the    *)
(* same goroutines as an embedded issuer (module Lifecycle) but ends them  *)
(* its own way.  One context serves the signals, the rotation goroutine    *)
(* and a listener that fails, the shutdown is limited in time, and nobody  *)
(* waits for the rotation goroutine.                                       *)
(*                                                                         *)
(* A behaviour is either that of an embedded issuer (main = "embedded") or *)
(* a run of the daemon.                                                    *)
(***************************************************************************)
EXTENDS Lifecycle

VARIABLES
    main,       \* where runServe is
    listen,     \* the goroutine that calls ListenAndServe: "none", "starting",
                \* "serving" or "returned"
    caught,     \* signal.NotifyContext is in force
    timedOut,   \* shutdownCtx ended before Shutdown was done
    exit        \* the process: "running", "0", "1" or "signal"

mainVars == <<main, listen, caught, timedOut, exit>>
allVars  == <<vars, mainVars>>

EmbeddedInit ==
    /\ Init
    /\ main = "embedded"
    /\ listen = "none" /\ caught = FALSE /\ timedOut = FALSE /\ exit = "running"

\* Before loadServeConfig: nothing was started yet.
DaemonInit ==
    /\ listener = "closed"
    /\ request = [r \in Requests |-> "none"]
    /\ rotation = "exited" /\ rotationTick = FALSE /\ rotationCtx = "live"
    /\ cleanup = "exited" /\ cleanupTick = FALSE /\ cleanupCtx = "live"
    /\ closeOnce = "new"
    /\ closer = [c \in Closers |-> "idle"]
    /\ main = "config"
    /\ listen = "none" /\ caught = FALSE /\ timedOut = FALSE /\ exit = "running"

ServeInit == EmbeddedInit \/ DaemonInit

-----------------------------------------------------------------------------
(* Start-up. *)

\* main moves on; the process keeps running.
Step(from, to) ==
    /\ exit = "running"
    /\ main = from
    /\ main' = to
    /\ exit' = exit

\* The process ends, with everything in it.
Exit(code) ==
    /\ exit = "running" /\ main # "embedded"
    /\ exit' = code
    /\ UNCHANGED <<vars, main, listen, caught, timedOut>>

\* loadServeConfig succeeds, and the signals are caught from now on.
LoadConfig ==
    /\ Step("config", "keyring")
    /\ caught' = TRUE
    /\ UNCHANGED <<vars, listen, timedOut>>

\* keyring.New, then StartRotation, whose channel is dropped.
StartRotation ==
    /\ Step("keyring", "discovery")
    /\ rotation' \in {"select", "exited"}
    /\ UNCHANGED <<listener, request, rotationTick, rotationCtx, cleanupVars,
                   closeOnce, closer, listen, caught, timedOut>>

\* server.New starts cleanupVisitors; the listening goroutine is started.
StartServer ==
    /\ Step("discovery", "wait_ctx")
    /\ cleanup' = "select"
    /\ listen' = "starting"
    /\ UNCHANGED <<listener, request, rotationVars, cleanupTick, cleanupCtx,
                   closeOnce, closer, caught, timedOut>>

\* A configuration, a key ring or a discovery document that cannot be had.
StartFails == main \in {"config", "keyring", "discovery"} /\ Exit("1")

-----------------------------------------------------------------------------
(* The listening goroutine. *)

\* http.Server.inShutdown: Shutdown was called.
ShuttingDown == main \notin {"config", "keyring", "discovery", "wait_ctx"}

Listens(from, to) ==
    /\ exit = "running"
    /\ listen = from
    /\ listen' = to
    /\ UNCHANGED <<request, rotation, rotationTick, cleanupVars, closeOnce,
                   closer, main, timedOut, exit>>

\* ListenAndServe: a server that is shutting down does not listen any more.
Bind ==
    /\ ~ShuttingDown
    /\ Listens("starting", "serving")
    /\ listener' = "open"
    /\ UNCHANGED <<rotationCtx, caught>>

BindTooLate ==
    /\ ShuttingDown
    /\ Listens("starting", "returned")
    /\ UNCHANGED <<listener, rotationCtx, caught>>

\* The address cannot be had, or accepting fails later: stop() ends the context
\* and gives the signals back.
ListenFails ==
    /\ \/ Listens("starting", "returned")
       \/ ~ShuttingDown /\ Listens("serving", "returned")
    /\ listener' = "closed"
    /\ rotationCtx' = "cancelled"
    /\ caught' = FALSE

\* Serve returns ErrServerClosed, which is no error.
ListenEnds ==
    /\ ShuttingDown
    /\ Listens("serving", "returned")
    /\ UNCHANGED <<listener, rotationCtx, caught>>

-----------------------------------------------------------------------------
(* Signals and the shutdown. *)

Signal ==
    /\ exit = "running"
    /\ caught
    /\ rotationCtx' = "cancelled"
    /\ UNCHANGED <<listener, request, rotation, rotationTick, cleanupVars,
                   closeOnce, closer, mainVars>>

\* A signal before NotifyContext or after stop() ends the process at once.
Killed == ~caught /\ Exit("signal")

\* <-ctx.Done(), and httpSrv.Shutdown closes the listener.
BeginShutdown ==
    /\ rotationCtx = "cancelled"
    /\ Step("wait_ctx", "shutdown")
    /\ listener' = "closed"
    /\ UNCHANGED <<request, rotationVars, cleanupVars, closeOnce, closer,
                   listen, caught, timedOut>>

InFlight == {r \in Requests : request[r] = "inflight"}

\* Mutation of Drained: the connections are closed (httpSrv.Close).
DrainedAtOnce ==
    /\ Step("shutdown", "close")
    /\ UNCHANGED <<vars, listen, caught, timedOut>>

\* Shutdown returns nil when no request is in flight ...
Drained ==
    /\ InFlight = {}
    /\ Step("shutdown", "close")
    /\ UNCHANGED <<vars, listen, caught, timedOut>>

\* Mutation of ShutdownTimesOut: shutdownCtx has no timeout.
ShutdownTimesOutNever == FALSE /\ UNCHANGED allVars

\* ... and an error when five seconds are over.
ShutdownTimesOut ==
    /\ Step("shutdown", "close")
    /\ timedOut' = TRUE
    /\ UNCHANGED <<vars, listen, caught>>

\* srv.Close: cleanupCancel, then <-cleanupDone.
CloseServer ==
    /\ Step("close", "wait_cleanup")
    /\ cleanupCtx' = "cancelled"
    /\ UNCHANGED <<listener, request, rotationVars, cleanup, cleanupTick,
                   closeOnce, closer, listen, caught, timedOut>>

CleanupDone ==
    /\ cleanup = "exited"
    /\ Step("wait_cleanup", "return")
    /\ UNCHANGED <<vars, listen, caught, timedOut>>

Return == main = "return" /\ Exit("0")

-----------------------------------------------------------------------------
MainStep ==
    \/ LoadConfig \/ StartRotation \/ StartServer \/ StartFails
    \/ BeginShutdown \/ Drained \/ ShutdownTimesOut \/ CloseServer \/ CleanupDone
    \/ Return

ListenStep == Bind \/ BindTooLate \/ ListenFails \/ ListenEnds

\* The process is gone: nothing happens any more.
Exited == exit # "running" /\ UNCHANGED allVars

\* A step of what main shares with an embedded issuer.
Shared(A) == exit = "running" /\ A /\ UNCHANGED mainVars
Embedded(A) == main = "embedded" /\ A /\ UNCHANGED mainVars

ServeNext ==
    \/ Embedded(Terminated)
    \/ \E c \in Closers : Embedded(CloseStep(c))
    \/ Shared(BackgroundStep)
    \/ MainStep \/ ListenStep \/ Signal \/ Killed
    \/ Exited

\* Every goroutine that can run is scheduled (WF).  select chooses at random
\* among the ready cases, so a cancellation that is ready again and again is
\* chosen eventually (SF), even if a tick is always ready too.  That a handler
\* comes to an end is assumed of an embedded issuer only: the daemon has its
\* timeout.  A signal need not come.
ServeFairness ==
    /\ \A c \in Closers : WF_allVars(Embedded(CloseProgress(c)))
    /\ \A r \in Requests : WF_allVars(Embedded(Serve(r)))
    /\ WF_allVars(Shared(RotationRotate)) /\ WF_allVars(Shared(RotationPrune))
    /\ SF_allVars(Shared(RotationExit))
    /\ WF_allVars(Shared(CleanupSweep)) /\ SF_allVars(Shared(CleanupExit))
    /\ WF_allVars(MainStep)

ServeSpec == ServeInit /\ [][ServeNext]_allVars /\ ServeFairness

-----------------------------------------------------------------------------
(* Properties. *)

\* A signal, or a listener that fails, ends the daemon ("on SIGINT or SIGTERM
\* SHALL shut down the HTTP server gracefully and exit", cli/spec.md), even if a
\* handler never returns, the signal comes while the daemon starts, or ticks
\* keep coming.
ServeStops ==
    (main # "embedded" /\ (rotationCtx = "cancelled" \/ listen = "returned"))
        ~> exit # "running"

\* Nothing is cut off unless the five seconds were over: when the daemon stops
\* the cleanup of the limiters, and when it returns, no request is in flight and
\* none can come, however early the signal came.
DrainedUnlessTimedOut ==
    (main \in {"close", "wait_cleanup", "return"} /\ ~timedOut) =>
        InFlight = {} /\ listener = "closed"

=============================================================================
