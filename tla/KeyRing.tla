------------------------------ MODULE KeyRing ------------------------------
(***************************************************************************)
(* The in-memory key ring of internal/keyring/keyring.go: one active       *)
(* signing key per enabled algorithm, the retired keys that are still      *)
(* published, rotation, pruning, and the background rotation goroutine.    *)
(*                                                                         *)
(* The exported methods take r.mu for their whole body, so each is one     *)
(* atomic step here.  What is NOT atomic is modelled as it is: a caller of *)
(* Rotate reads time.Now() before it waits for the lock, and the rotation  *)
(* goroutine works with the timestamp the ticker put into its channel,     *)
(* takes the lock once for RotateAt and again for PruneAt.                 *)
(*                                                                         *)
(* Keys are <<alg, generation>>: generateKey draws a fresh random key, so  *)
(* no two keys share a kid, and within an algorithm keys are numbered in   *)
(* the order in which they became active.                                  *)
(***************************************************************************)
EXTENDS Integers

CONSTANTS
    Enabled,    \* the algorithms the ring was built with (KeyRing.enabled)
    Callers,    \* goroutines of the embedding program that call Rotate
    Grace,      \* KeyRing.grace, in clock units
    Interval,   \* the interval given to StartRotation; 0 disables rotation
    PruneTimes, \* the times the embedding program passes to PruneAt
    MaxLag,     \* bound: how long a rotation may wait between reading its
                \* timestamp and releasing the lock (scheduling, the lock,
                \* key generation)
    MaxTime,    \* bound: the last instant of the clock
    MaxGen      \* bound: the last generation of keys of an algorithm

AllAlgorithms == {"RS256", "ES256", "EdDSA"}

\* The position of an algorithm in allAlgorithms, the order of RotateAt's loop.
Rank == [RS256 |-> 1, ES256 |-> 2, EdDSA |-> 3]

ASSUME EnabledAssumption == Enabled \subseteq AllAlgorithms /\ Enabled # {}
ASSUME NumbersAssumption ==
    /\ Grace \in Nat
    /\ Interval \in Nat
    /\ MaxLag \in Nat
    /\ MaxTime \in Nat
    /\ MaxGen \in Nat
    /\ PruneTimes \subseteq 0..MaxTime

NotRetired == -1        \* the zero time.Time of Key.RetiredAt
NoTick     == -1        \* the ticker's channel is empty

Time       == 0..MaxTime
Generation == 0..MaxGen

VARIABLES
    now,        \* the wall clock
    active,     \* KeyRing.active: the generation that signs, per algorithm
    retired,    \* KeyRing.retired: the generations still published
    retiredAt,  \* Key.RetiredAt of every key generated so far
    ctxDone,    \* the context given to StartRotation is cancelled
    rotPc,      \* where the rotation goroutine is
    rotNow,     \* the tick it is working on, 0 when it has none
    tick,       \* ticker.C, a channel of capacity one
    nextTick,   \* when the ticker fires next
    callPc,     \* where each caller of Rotate is
    callNow,    \* the time each caller passes to RotateAt, 0 when idle
    horizon,    \* history: the latest time anybody has claimed it to be, the
                \* clock or an argument of PruneAt
    lastUsed,   \* history: when a key really ceased to be the active one
    missed,     \* history: a scheduled rotation failed, none succeeded since
    lastRotation \* history: the time of the latest rotation that succeeded

ringVars == <<active, retired, retiredAt, lastUsed>>
rotVars  == <<ctxDone, rotPc, rotNow, tick, nextTick, missed>>
callVars == <<callPc, callNow>>
vars == <<now, ringVars, rotVars, callVars, horizon, lastRotation>>

Later(s, t) == IF s < t THEN t ELSE s

-----------------------------------------------------------------------------
(* The key ring's methods. *)

Published(a) == retired[a] \union {active[a]}

\* Lookup(kid); what it reports as not found is told apart here into the keys
\* that were pruned and those not generated yet.
Lookup(a, g) ==
    IF g = active[a] THEN "active"
    ELSE IF g \in retired[a] THEN "retired"
    ELSE IF g < active[a] THEN "gone" ELSE "unborn"

\* The sets of algorithms RotateAt can have handled when it returns: all of
\* them, or those before the algorithm whose generateKey failed.
RotatedSets ==
    {Enabled} \union {{b \in Enabled : Rank[b] < Rank[a]} : a \in Enabled}

\* Mutations of RetiredAfter: a rotation that fails half-way drops the keys it
\* has replaced; every key there ever was is published again.
RetiredAfterDrops(a, rotated) ==
    IF a \in rotated /\ rotated = Enabled THEN Published(a) ELSE retired[a]
RetiredAfterRepublishes(a, rotated) ==
    IF a \in rotated THEN 0..active[a] ELSE retired[a]

\* retired[a] after RotateAt: the key it replaced joins it.
RetiredAfter(a, rotated) ==
    IF a \in rotated THEN Published(a) ELSE retired[a]

\* RotateAt(t) where the algorithms in rotated got a new key.
RotateAt(t, rotated) ==
    /\ \A a \in rotated : active[a] < MaxGen
    /\ active' = [a \in Enabled |->
                    IF a \in rotated THEN active[a] + 1 ELSE active[a]]
    /\ retired' = [a \in Enabled |-> RetiredAfter(a, rotated)]
    /\ retiredAt' = [a \in Enabled |-> [g \in Generation |->
                    IF a \in rotated /\ g = active[a] THEN t
                    ELSE retiredAt[a][g]]]
    /\ lastUsed' = [a \in Enabled |-> [g \in Generation |->
                    IF a \in rotated /\ g = active[a] THEN now
                    ELSE lastUsed[a][g]]]

\* Mutation of InGrace: a key as old as the grace is kept once more.
InGraceInclusive(a, g, t) == t - retiredAt[a][g] <= Grace

InGrace(a, g, t) == t - retiredAt[a][g] < Grace

\* PruneAt(t): what is out of grace at t is dropped (and zeroized).
PruneAt(t) ==
    /\ retired' = [a \in Enabled |-> {g \in retired[a] : InGrace(a, g, t)}]
    /\ horizon' = Later(horizon, t)
    /\ UNCHANGED <<active, retiredAt, lastUsed>>

-----------------------------------------------------------------------------
(* New and StartRotation. *)

Init ==
    /\ now = 0
    /\ active = [a \in Enabled |-> 0]
    /\ retired = [a \in Enabled |-> {}]
    /\ retiredAt = [a \in Enabled |-> [g \in Generation |-> NotRetired]]
    /\ lastUsed = [a \in Enabled |-> [g \in Generation |-> NotRetired]]
    /\ ctxDone = FALSE
    /\ rotPc = IF Interval = 0 THEN "exited" ELSE "select"
    /\ rotNow = 0
    /\ tick = NoTick
    /\ nextTick = Interval
    /\ callPc = [c \in Callers |-> "idle"]
    /\ callNow = [c \in Callers |-> 0]
    /\ horizon = 0
    /\ missed = FALSE
    /\ lastRotation = 0

-----------------------------------------------------------------------------
(* Time.  It may pass while a rotation is under way, but not for longer     *)
(* than MaxLag.                                                             *)

TickerFires == rotPc # "exited" /\ now + 1 = nextTick

WithinLag ==
    /\ \A c \in Callers : callPc[c] = "stamped" => now < callNow[c] + MaxLag
    /\ rotPc \in {"rotate", "prune"} => now < rotNow + MaxLag
    /\ (tick # NoTick /\ rotPc # "exited") => now < tick + MaxLag

\* The ticker keeps its schedule and drops a tick that finds the channel full.
Advance ==
    /\ now < MaxTime
    /\ WithinLag
    /\ now' = now + 1
    /\ horizon' = Later(horizon, now + 1)
    /\ tick' = IF TickerFires /\ tick = NoTick THEN now + 1 ELSE tick
    /\ nextTick' = IF TickerFires THEN nextTick + Interval ELSE nextTick
    /\ UNCHANGED <<ringVars, callVars, ctxDone, rotPc, rotNow, missed,
                   lastRotation>>

-----------------------------------------------------------------------------
(* The rotation goroutine. *)

Cancel ==
    /\ ~ctxDone
    /\ ctxDone' = TRUE
    /\ UNCHANGED <<now, ringVars, rotPc, rotNow, tick, nextTick, callVars,
                   horizon, missed, lastRotation>>

\* select with ctx.Done() ready: done is closed and the ticker stopped.
RotationExit ==
    /\ rotPc = "select"
    /\ ctxDone
    /\ rotPc' = "exited"
    /\ UNCHANGED <<now, ringVars, ctxDone, rotNow, tick, nextTick, callVars,
                   horizon, missed, lastRotation>>

\* select with a tick ready, which Go may choose even after the cancellation.
RotationReceive ==
    /\ rotPc = "select"
    /\ tick # NoTick
    /\ rotPc' = "rotate"
    /\ rotNow' = tick
    /\ tick' = NoTick
    /\ UNCHANGED <<now, ringVars, ctxDone, nextTick, callVars, horizon, missed,
                   lastRotation>>

\* RotateAt(now) of the loop body; an error skips PruneAt (continue).
RotationRotate(rotated) ==
    /\ rotPc = "rotate"
    /\ RotateAt(rotNow, rotated)
    /\ rotPc' = IF rotated = Enabled THEN "prune" ELSE "select"
    /\ rotNow' = IF rotated = Enabled THEN rotNow ELSE 0
    /\ missed' = (missed \/ rotated # Enabled)
    /\ UNCHANGED <<now, ctxDone, tick, nextTick, callVars, horizon,
                   lastRotation>>

RotationPrune ==
    /\ rotPc = "prune"
    /\ PruneAt(rotNow)
    /\ rotPc' = "select"
    /\ rotNow' = 0
    /\ missed' = FALSE
    /\ lastRotation' = Later(lastRotation, rotNow)
    /\ UNCHANGED <<now, ctxDone, tick, nextTick, callVars>>

-----------------------------------------------------------------------------
(* Calls from the embedding program (tester.Server.Rotate and PruneAt). *)

\* Mutation of RotateStamp: Rotate passes the zero time on.
RotateStampZero(c) ==
    /\ callPc[c] = "idle"
    /\ callPc' = [callPc EXCEPT ![c] = "stamped"]
    /\ callNow' = [callNow EXCEPT ![c] = NotRetired]
    /\ UNCHANGED <<now, ringVars, rotVars, horizon, lastRotation>>

\* Rotate: time.Now() is read before RotateAt asks for the lock.
RotateStamp(c) ==
    /\ callPc[c] = "idle"
    /\ callPc' = [callPc EXCEPT ![c] = "stamped"]
    /\ callNow' = [callNow EXCEPT ![c] = now]
    /\ UNCHANGED <<now, ringVars, rotVars, horizon, lastRotation>>

RotateCommit(c, rotated) ==
    /\ callPc[c] = "stamped"
    /\ RotateAt(callNow[c], rotated)
    /\ callPc' = [callPc EXCEPT ![c] = "idle"]
    /\ callNow' = [callNow EXCEPT ![c] = 0]
    /\ lastRotation' = IF rotated = Enabled
                         THEN Later(lastRotation, callNow[c])
                         ELSE lastRotation
    /\ UNCHANGED <<now, rotVars, horizon>>

\* PruneAt with a time of the caller's choosing, the past and the future
\* included; Prune() is the case t <= now.
CallPruneAt(t) ==
    /\ PruneAt(t)
    /\ UNCHANGED <<now, rotVars, callVars, lastRotation>>

-----------------------------------------------------------------------------
RotationStep ==
    \/ RotationExit
    \/ RotationReceive
    \/ \E rotated \in RotatedSets : RotationRotate(rotated)
    \/ RotationPrune

CallerStep ==
    \/ \E c \in Callers : RotateStamp(c)
    \/ \E c \in Callers, rotated \in RotatedSets : RotateCommit(c, rotated)
    \/ \E t \in PruneTimes : CallPruneAt(t)

Next == Advance \/ Cancel \/ RotationStep \/ CallerStep

Spec == Init /\ [][Next]_vars

-----------------------------------------------------------------------------
(* Properties. *)

\* The types of the ring's own state.
RingTypeOK ==
    /\ active \in [Enabled -> Generation]
    /\ retired \in [Enabled -> SUBSET Generation]
    /\ retiredAt \in [Enabled -> [Generation -> Time \union {NotRetired}]]
    /\ lastUsed \in [Enabled -> [Generation -> Time \union {NotRetired}]]

\* Every variable has its type: a ring method never leaves an enabled
\* algorithm without an active key and never loses a timestamp.
TypeOK ==
    /\ now \in Time
    /\ RingTypeOK
    /\ ctxDone \in BOOLEAN
    /\ rotPc \in {"select", "rotate", "prune", "exited"}
    /\ rotNow \in Time
    /\ tick \in Time \union {NoTick}
    /\ nextTick \in Nat
    /\ callPc \in [Callers -> {"idle", "stamped"}]
    /\ callNow \in [Callers -> Time]
    /\ horizon \in Time
    /\ missed \in BOOLEAN
    /\ lastRotation \in Time

\* A key that is not published any more ceased to sign at least Grace, less
\* the lag of the rotation that retired it, before the latest time PruneAt was
\* told or the clock shows.  (RotateAt stamps RetiredAt with a time read before
\* the lock, so this is what a retired key's holder can count on.)
RetainedForGrace ==
    \A a \in Enabled : \A g \in Generation :
        g < active[a] =>
            \/ g \in retired[a]
            \/ horizon >= lastUsed[a][g] + Grace - MaxLag

\* A key past its grace is not published for ever: while the goroutine runs
\* and its last cycle did not fail, such a key is gone within one Interval and
\* the lag, whoever retired it and with whatever stamp.  (With a lag of an
\* Interval the ticker drops ticks, and with a lag of Grace a key may be retired
\* with its grace already over; this is about the other cases.)
ExpiredKeysLeave ==
    (MaxLag < Interval /\ MaxLag < Grace /\ rotPc # "exited" /\ ~missed) =>
        \A a \in Enabled : \A g \in retired[a] :
            now < retiredAt[a][g] + Grace + Interval + MaxLag

\* A rotation that succeeded leaves no key published whose grace had elapsed
\* at its time (key-management/spec.md: "a grace period has fully elapsed for
\* a retired key and a subsequent rotation occurs ... the key no longer
\* appears in the JWKS").
PrunedByRotation ==
    \A a \in Enabled : \A g \in retired[a] : InGrace(a, g, lastRotation)

\* The abstract key life this ring implements.
KeyLife == INSTANCE KeyStatus WITH
    Algorithms <- Enabled,
    Kids <- Generation,
    status <- [a \in Enabled |-> [g \in Generation |-> Lookup(a, g)]]

\* Whatever the rotation goroutine, the callers of Rotate and PruneAt, and a
\* generateKey that fails half-way do between them, what Lookup says of a kid
\* lives the life of KeyStatus: one active key per algorithm at all times, a
\* replaced key is retired before it is gone, and none comes back.
KeyLifeSpec == KeyLife!StatusSpec

-----------------------------------------------------------------------------
(* The strengthening that makes RetainedForGrace and ExpiredKeysLeave       *)
(* inductive.                                                               *)

\* A rotation under way is never older than MaxLag, and nobody's idea of the
\* time is ahead of the clock except the callers of PruneAt.
StampsFresh ==
    /\ now <= horizon
    /\ \A c \in Callers : callPc[c] = "stamped" =>
          callNow[c] <= now /\ now <= callNow[c] + MaxLag
    /\ rotPc \in {"rotate", "prune"} =>
          rotNow <= now /\ now <= rotNow + MaxLag
    /\ (tick # NoTick /\ rotPc # "exited") =>
          tick <= now /\ now <= tick + MaxLag

\* A key that was retired carries a stamp no older than MaxLag, and is either
\* still published or out of grace at the horizon.
RetiredKeyOK(a, g) ==
    /\ lastUsed[a][g] \in Time
    /\ retiredAt[a][g] \in Time
    /\ lastUsed[a][g] <= now
    /\ lastUsed[a][g] <= retiredAt[a][g] + MaxLag
    /\ g \in retired[a] \/ horizon >= retiredAt[a][g] + Grace

RetiredKeysOK ==
    \A a \in Enabled : \A g \in Generation :
        /\ g \in retired[a] => g < active[a]
        /\ g < active[a] => RetiredKeyOK(a, g)

RetentionInv == StampsFresh /\ RetiredKeysOK

\* The tick the goroutine has taken, or may take, and has not finished with.
Pending == tick # NoTick \/ rotPc \in {"rotate", "prune"}

\* With ticks further apart than the lag, at most the latest one is pending.
TicksInStep ==
    /\ now < nextTick
    /\ nextTick <= now + Interval
    /\ tick # NoTick => rotPc = "select" /\ tick = nextTick - Interval
    /\ rotPc \in {"rotate", "prune"} => rotNow = nextTick - Interval

\* What the last finished cycle left published was in grace at its tick.
CleanSince ==
    ~missed => \A a \in Enabled : \A g \in retired[a] :
        retiredAt[a][g] + Grace >
            IF Pending THEN nextTick - 2 * Interval ELSE nextTick - Interval

ScheduleInv ==
    (MaxLag < Interval /\ MaxLag < Grace /\ rotPc # "exited") =>
        TicksInStep /\ CleanSince

=============================================================================
