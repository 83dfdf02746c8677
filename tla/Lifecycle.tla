------------------------------ MODULE Lifecycle ------------------------------
(***************************************************************************)
(* Shutting an embedded issuer down: tester.Server.Close and the           *)
(* server.Server.Close it calls, against the goroutines they wait for (the *)
(* rotation goroutine of keyring.StartRotation and cleanupVisitors), the   *)
(* requests in flight, and other goroutines calling Close at the same      *)
(* time.  The initial states are those in which Start returned.  Module    *)
(* ServeCommand adds the daemon and states the specification of both.      *)
(***************************************************************************)
EXTENDS Integers

CONSTANTS
    Closers,    \* the goroutines that call Close (a test and its t.Cleanup)
    Requests    \* the HTTP requests that arrive

VARIABLES
    listener,       \* "open" or "closed"
    request,        \* per request: "none", "inflight" or "served"
    rotation,       \* the rotation goroutine
    rotationTick,   \* its ticker has a tick ready
    rotationCtx,    \* "live" or "cancelled": the context cancel() ends
    cleanup,        \* the visitor-cleanup goroutine
    cleanupTick,    \* its ticker has a tick ready
    cleanupCtx,     \* the context cleanupCancel() ends
    closeOnce,      \* tester.Server.closeOnce: "new", "running" or "done"
    closer          \* where each caller of Close is

vars == <<listener, request, rotation, rotationTick, rotationCtx, cleanup,
          cleanupTick, cleanupCtx, closeOnce, closer>>

rotationVars == <<rotation, rotationTick, rotationCtx>>
cleanupVars  == <<cleanup, cleanupTick, cleanupCtx>>

\* StartRotation with an interval of zero closes done at once.
Init ==
    /\ listener = "open"
    /\ request = [r \in Requests |-> "none"]
    /\ rotation \in {"select", "exited"}
    /\ rotationTick = FALSE
    /\ rotationCtx = "live"
    /\ cleanup = "select"
    /\ cleanupTick = FALSE
    /\ cleanupCtx = "live"
    /\ closeOnce = "new"
    /\ closer = [c \in Closers |-> "idle"]

-----------------------------------------------------------------------------
(* Requests: accepted while the listener is open, served by the handlers. *)

Accept(r) ==
    /\ listener = "open"
    /\ request[r] = "none"
    /\ request' = [request EXCEPT ![r] = "inflight"]
    /\ UNCHANGED <<listener, rotationVars, cleanupVars, closeOnce, closer>>

Serve(r) ==
    /\ request[r] = "inflight"
    /\ request' = [request EXCEPT ![r] = "served"]
    /\ UNCHANGED <<listener, rotationVars, cleanupVars, closeOnce, closer>>

-----------------------------------------------------------------------------
(* The rotation goroutine: select, RotateAt, PruneAt. *)

RotationTicks ==
    /\ rotation # "exited"
    /\ ~rotationTick
    /\ rotationTick' = TRUE
    /\ UNCHANGED <<listener, request, rotation, rotationCtx, cleanupVars,
                   closeOnce, closer>>

RotationReceive ==
    /\ rotation = "select"
    /\ rotationTick
    /\ rotation' = "rotate"
    /\ rotationTick' = FALSE
    /\ UNCHANGED <<listener, request, rotationCtx, cleanupVars, closeOnce, closer>>

\* Mutation of RotationRotate: a failed rotation ends the goroutine, and done
\* is never closed.
RotationRotateDies ==
    /\ rotation = "rotate"
    /\ rotation' \in {"prune", "dead"}
    /\ UNCHANGED <<listener, request, rotationTick, rotationCtx, cleanupVars,
                   closeOnce, closer>>

\* RotateAt may fail, and then PruneAt is skipped.
RotationRotate ==
    /\ rotation = "rotate"
    /\ rotation' \in {"prune", "select"}
    /\ UNCHANGED <<listener, request, rotationTick, rotationCtx, cleanupVars,
                   closeOnce, closer>>

RotationPrune ==
    /\ rotation = "prune"
    /\ rotation' = "select"
    /\ UNCHANGED <<listener, request, rotationTick, rotationCtx, cleanupVars,
                   closeOnce, closer>>

RotationExit ==
    /\ rotation = "select"
    /\ rotationCtx = "cancelled"
    /\ rotation' = "exited"
    /\ UNCHANGED <<listener, request, rotationTick, rotationCtx, cleanupVars,
                   closeOnce, closer>>

-----------------------------------------------------------------------------
(* The cleanup goroutine. *)

CleanupTicks ==
    /\ cleanup # "exited"
    /\ ~cleanupTick
    /\ cleanupTick' = TRUE
    /\ UNCHANGED <<listener, request, rotationVars, cleanup, cleanupCtx,
                   closeOnce, closer>>

CleanupReceive ==
    /\ cleanup = "select"
    /\ cleanupTick
    /\ cleanup' = "sweep"
    /\ cleanupTick' = FALSE
    /\ UNCHANGED <<listener, request, rotationVars, cleanupCtx, closeOnce, closer>>

CleanupSweep ==
    /\ cleanup = "sweep"
    /\ cleanup' = "select"
    /\ UNCHANGED <<listener, request, rotationVars, cleanupTick, cleanupCtx,
                   closeOnce, closer>>

CleanupExit ==
    /\ cleanup = "select"
    /\ cleanupCtx = "cancelled"
    /\ cleanup' = "exited"
    /\ UNCHANGED <<listener, request, rotationVars, cleanupTick, cleanupCtx,
                   closeOnce, closer>>

-----------------------------------------------------------------------------
(* Close.  closeOnce.Do lets the first caller run and makes the others wait *)
(* until it is done.                                                        *)

Goto(c, from, to) ==
    /\ closer[c] = from
    /\ closer' = [closer EXCEPT ![c] = to]

\* Mutation of CloseFirst: no Once, whoever calls runs the body.
CloseFirstUnguarded(c) ==
    /\ Goto(c, "idle", "close_listener")
    /\ closeOnce' = "running"
    /\ UNCHANGED <<listener, request, rotationVars, cleanupVars>>

CloseFirst(c) ==
    /\ closeOnce = "new"
    /\ Goto(c, "idle", "close_listener")
    /\ closeOnce' = "running"
    /\ UNCHANGED <<listener, request, rotationVars, cleanupVars>>

\* Mutation of CloseAgain: a flag instead of a Once, a later call returns at
\* once.
CloseAgainReturns(c) ==
    /\ closeOnce # "new"
    /\ Goto(c, "idle", "returned")
    /\ UNCHANGED <<listener, request, rotationVars, cleanupVars, closeOnce>>

CloseAgain(c) ==
    /\ closeOnce # "new"
    /\ Goto(c, "idle", "wait_once")
    /\ UNCHANGED <<listener, request, rotationVars, cleanupVars, closeOnce>>

CloseWaited(c) ==
    /\ closeOnce = "done"
    /\ Goto(c, "wait_once", "returned")
    /\ UNCHANGED <<listener, request, rotationVars, cleanupVars, closeOnce>>

\* httptest.Server.Close: no more connections, then wait for the open ones.
CloseListener(c) ==
    /\ Goto(c, "close_listener", "wait_requests")
    /\ listener' = "closed"
    /\ UNCHANGED <<request, rotationVars, cleanupVars, closeOnce>>

WaitRequests(c) ==
    /\ \A r \in Requests : request[r] # "inflight"
    /\ Goto(c, "wait_requests", "cancel")
    /\ UNCHANGED <<listener, request, rotationVars, cleanupVars, closeOnce>>

\* Mutation of CancelRotation: the goroutine is awaited but not cancelled.
CancelRotationForgotten(c) ==
    /\ Goto(c, "cancel", "wait_rotation")
    /\ UNCHANGED <<listener, request, rotationVars, cleanupVars, closeOnce>>

CancelRotation(c) ==
    /\ Goto(c, "cancel", "wait_rotation")
    /\ rotationCtx' = "cancelled"
    /\ UNCHANGED <<listener, request, rotation, rotationTick, cleanupVars,
                   closeOnce>>

WaitRotation(c) ==
    /\ rotation = "exited"
    /\ Goto(c, "wait_rotation", "close_internal")
    /\ UNCHANGED <<listener, request, rotationVars, cleanupVars, closeOnce>>

\* server.Server.Close: cleanupCancel, then <-cleanupDone.
CloseInternal(c) ==
    /\ Goto(c, "close_internal", "wait_cleanup")
    /\ cleanupCtx' = "cancelled"
    /\ UNCHANGED <<listener, request, rotationVars, cleanup, cleanupTick,
                   closeOnce>>

WaitCleanup(c) ==
    /\ cleanup = "exited"
    /\ Goto(c, "wait_cleanup", "returned")
    /\ closeOnce' = "done"
    /\ UNCHANGED <<listener, request, rotationVars, cleanupVars>>

-----------------------------------------------------------------------------
CloseStep(c) ==
    \/ CloseFirst(c) \/ CloseAgain(c) \/ CloseWaited(c)
    \/ CloseListener(c) \/ WaitRequests(c)
    \/ CancelRotation(c) \/ WaitRotation(c)
    \/ CloseInternal(c) \/ WaitCleanup(c)

\* Inside Close, once it was called.
CloseProgress(c) == closer[c] # "idle" /\ CloseStep(c)

\* All calls of Close have returned: the only state in which nothing is left
\* to do, so any other one without a step is a deadlock.
Terminated ==
    /\ \A c \in Closers : closer[c] = "returned"
    /\ UNCHANGED vars

\* Requests and goroutines.
BackgroundStep ==
    \/ \E r \in Requests : Accept(r) \/ Serve(r)
    \/ RotationTicks \/ RotationReceive \/ RotationRotate \/ RotationPrune
    \/ RotationExit
    \/ CleanupTicks \/ CleanupReceive \/ CleanupSweep \/ CleanupExit

-----------------------------------------------------------------------------
(* Properties. *)

CloserPc == {"idle", "wait_once", "close_listener", "wait_requests", "cancel",
             "wait_rotation", "close_internal", "wait_cleanup", "returned"}

\* Types of the listener, the goroutines, and the calls of Close.
TypeOK ==
    /\ listener \in {"open", "closed"}
    /\ request \in [Requests -> {"none", "inflight", "served"}]
    /\ rotation \in {"select", "rotate", "prune", "exited"}
    /\ cleanup \in {"select", "sweep", "exited"}
    /\ rotationTick \in BOOLEAN /\ cleanupTick \in BOOLEAN
    /\ rotationCtx \in {"live", "cancelled"}
    /\ cleanupCtx \in {"live", "cancelled"}
    /\ closeOnce \in {"new", "running", "done"}
    /\ closer \in [Closers -> CloserPc]

\* When any call of Close has returned, the first or another one, nothing of
\* the server runs any more: the listener is closed, no request is in flight,
\* and both goroutines have exited.
ClosedMeansStopped ==
    (\E c \in Closers : closer[c] = "returned") =>
        /\ listener = "closed"
        /\ \A r \in Requests : request[r] # "inflight"
        /\ rotation = "exited"
        /\ cleanup = "exited"

\* Only one caller runs the body of Close, so no channel is waited for and no
\* listener closed twice.
OneCloserRuns ==
    \A c, d \in Closers :
        (c # d /\ closer[c] \notin {"idle", "wait_once", "returned"}) =>
            closer[d] \in {"idle", "wait_once"}

\* Every call of Close returns, however often the tickers fire and whoever else
\* calls it.
CloseReturns ==
    \A c \in Closers : closer[c] # "idle" ~> closer[c] = "returned"

=============================================================================
