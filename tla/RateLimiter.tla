----------------------------- MODULE RateLimiter -----------------------------
(***************************************************************************)
(* The per-client rate limiter of internal/server/server.go: the maps      *)
(* visitors and lastSeen under Server.mu, the rateLimit middleware, and    *)
(* the goroutine cleanupVisitors that forgets idle clients.                *)
(*                                                                         *)
(* The middleware fetches the client's limiter under the lock and asks it  *)
(* after the lock is released, so cleanup and other requests come between. *)
(* A limiter is a token bucket of golang.org/x/time/rate: its level grows  *)
(* by Rate each clock unit up to Burst * Cost, and Allow takes Cost from   *)
(* it.  (The library computes the growth when asked; nobody can tell.)     *)
(***************************************************************************)
EXTENDS Integers

CONSTANTS
    Handlers,      \* the goroutines that serve requests
    Origins,       \* where a request comes from: [ip, port, xff]
    Rate, Cost,    \* Rate / Cost is rateLimitRPS per clock unit
    Burst,         \* rateLimitBurst
    IdleLimit,     \* a client idle for longer than this is forgotten (10 min)
    CleanupPeriod, \* the period of the cleanup ticker (5 min)
    MaxStall,      \* bound: how long a handler takes from getVisitorLimiter to
                   \* Allow, and the cleanup goroutine from its tick to its lock
    MaxTime,       \* bound: the last instant of the clock
    MaxLimiters    \* bound: how many limiters are ever created

NoXff == "none"      \* no X-Forwarded-For header
NoLimiter == 0

Limiters == 1..MaxLimiters
Full == Burst * Cost

ASSUME ParametersAssumption ==
    /\ {Rate, Cost, Burst, CleanupPeriod} \subseteq Nat \ {0}
    /\ {IdleLimit, MaxStall, MaxTime, MaxLimiters} \subseteq Nat

\* The key of the maps: the first X-Forwarded-For entry, or RemoteAddr, which
\* is the address AND the port of the connection.
VisitorKey(o) == IF o.xff # NoXff THEN [ip |-> o.xff, port |-> 0]
                 ELSE [ip |-> o.ip, port |-> o.port]

Keys == {VisitorKey(o) : o \in Origins}

VARIABLES
    now,         \* the clock
    visitors,    \* Server.visitors: the limiter of each key, or NoLimiter
    lastSeen,    \* Server.lastSeen of the keys that have a limiter, else 0
    level,       \* the level of every limiter created so far
    created,     \* how many limiters were created
    handler,     \* per handler: the limiter it fetched, for whom, and when
    cleanupTick, \* the cleanup goroutine has a tick, and since when, or -1
    nextCleanup, \* when its ticker fires next
    keyBudget    \* history: a bucket per key that is never forgotten

vars == <<now, visitors, lastSeen, level, created, handler, cleanupTick,
          nextCleanup, keyBudget>>

Idle == [limiter |-> NoLimiter]
NoTick == -1

Refill(l) == IF l + Rate < Full THEN l + Rate ELSE Full

Init ==
    /\ now = 0
    /\ visitors = [k \in Keys |-> NoLimiter]
    /\ lastSeen = [k \in Keys |-> 0]
    /\ level = [i \in Limiters |-> Full]
    /\ created = 0
    /\ handler = [h \in Handlers |-> Idle]
    /\ cleanupTick = NoTick
    /\ nextCleanup = CleanupPeriod
    /\ keyBudget = [k \in Keys |-> Full]

-----------------------------------------------------------------------------
Busy(h) == handler[h] # Idle

Advance ==
    /\ now < MaxTime
    /\ \A h \in Handlers : Busy(h) => now < handler[h].since + MaxStall
    /\ cleanupTick # NoTick => now < cleanupTick + MaxStall
    /\ now' = now + 1
    /\ level' = [i \in Limiters |-> Refill(level[i])]
    /\ keyBudget' = [k \in Keys |-> Refill(keyBudget[k])]
    /\ \/ /\ now + 1 = nextCleanup
          /\ nextCleanup' = nextCleanup + CleanupPeriod
          /\ cleanupTick' = IF cleanupTick = NoTick THEN now + 1
                            ELSE cleanupTick
       \/ /\ now + 1 # nextCleanup
          /\ UNCHANGED <<nextCleanup, cleanupTick>>
    /\ UNCHANGED <<visitors, lastSeen, created, handler>>

\* Mutation of GetVisitorLimiter: a new limiter is not stored in the map.
GetVisitorLimiterUnstored(h, o) ==
    LET key == VisitorKey(o)
        known == visitors[key] # NoLimiter
        limiter == IF known THEN visitors[key] ELSE created + 1
    IN
    /\ ~Busy(h)
    /\ limiter \in Limiters
    /\ lastSeen' = [lastSeen EXCEPT ![key] = now]
    /\ created' = IF known THEN created ELSE created + 1
    /\ level' = IF known THEN level ELSE [level EXCEPT ![limiter] = Full]
    /\ handler' = [handler EXCEPT ![h] =
                     [limiter |-> limiter, origin |-> o, since |-> now]]
    /\ UNCHANGED <<now, visitors, cleanupTick, nextCleanup, keyBudget>>

\* getVisitorLimiter, under the lock: a new client gets a full limiter.
GetVisitorLimiter(h, o) ==
    LET key == VisitorKey(o)
        known == visitors[key] # NoLimiter
        limiter == IF known THEN visitors[key] ELSE created + 1
    IN
    /\ ~Busy(h)
    /\ limiter \in Limiters
    /\ visitors' = [visitors EXCEPT ![key] = limiter]
    /\ lastSeen' = [lastSeen EXCEPT ![key] = now]
    /\ created' = IF known THEN created ELSE created + 1
    /\ level' = IF known THEN level ELSE [level EXCEPT ![limiter] = Full]
    /\ handler' = [handler EXCEPT ![h] =
                     [limiter |-> limiter, origin |-> o, since |-> now]]
    /\ UNCHANGED <<now, cleanupTick, nextCleanup, keyBudget>>

\* Mutation of Allow: the limiter is not asked.
AllowUnasked(h) ==
    /\ Busy(h)
    /\ level' = [level EXCEPT ![handler[h].limiter] = @ - Cost]
    /\ keyBudget' = [keyBudget EXCEPT ![VisitorKey(handler[h].origin)] = @ - Cost]
    /\ handler' = [handler EXCEPT ![h] = Idle]
    /\ UNCHANGED <<now, visitors, lastSeen, created, cleanupTick, nextCleanup>>

\* limiter.Allow() of the middleware, outside the lock: the request is served.
Allow(h) ==
    /\ Busy(h)
    /\ level[handler[h].limiter] >= Cost
    /\ level' = [level EXCEPT ![handler[h].limiter] = @ - Cost]
    /\ keyBudget' = [keyBudget EXCEPT ![VisitorKey(handler[h].origin)] = @ - Cost]
    /\ handler' = [handler EXCEPT ![h] = Idle]
    /\ UNCHANGED <<now, visitors, lastSeen, created, cleanupTick, nextCleanup>>

\* The 429 answer.
TooManyRequests(h) ==
    /\ Busy(h)
    /\ level[handler[h].limiter] < Cost
    /\ handler' = [handler EXCEPT ![h] = Idle]
    /\ UNCHANGED <<now, visitors, lastSeen, level, created, cleanupTick,
                   nextCleanup, keyBudget>>

\* Mutation of Forgotten: cleanup empties the maps.
ForgottenAlways(k) == visitors[k] # NoLimiter

Forgotten(k) == visitors[k] # NoLimiter /\ now - lastSeen[k] > IdleLimit

\* Mutation of Cleanup: only lastSeen is cleared, the limiter stays.
CleanupHalf ==
    /\ cleanupTick # NoTick
    /\ lastSeen' = [k \in Keys |-> IF Forgotten(k) THEN 0 ELSE lastSeen[k]]
    /\ cleanupTick' = NoTick
    /\ UNCHANGED <<now, visitors, level, created, handler, nextCleanup,
                   keyBudget>>

\* One pass of cleanupVisitors under the lock.
Cleanup ==
    /\ cleanupTick # NoTick
    /\ visitors' = [k \in Keys |-> IF Forgotten(k) THEN NoLimiter
                                   ELSE visitors[k]]
    /\ lastSeen' = [k \in Keys |-> IF Forgotten(k) THEN 0 ELSE lastSeen[k]]
    /\ cleanupTick' = NoTick
    /\ UNCHANGED <<now, level, created, handler, nextCleanup, keyBudget>>

Next ==
    \/ Advance
    \/ Cleanup
    \/ \E h \in Handlers :
          \/ \E o \in Origins : GetVisitorLimiter(h, o)
          \/ Allow(h)
          \/ TooManyRequests(h)

Spec == Init /\ [][Next]_vars

-----------------------------------------------------------------------------
(* Properties. *)

HandlerState ==
    {Idle} \union [limiter : Limiters, origin : Origins, since : 0..MaxTime]

\* Types; a limiter is never over-full and never in debt.
TypeOK ==
    /\ now \in 0..MaxTime
    /\ visitors \in [Keys -> Limiters \union {NoLimiter}]
    /\ lastSeen \in [Keys -> 0..MaxTime]
    /\ level \in [Limiters -> 0..Full]
    /\ created \in 0..MaxLimiters
    /\ handler \in [Handlers -> HandlerState]
    /\ cleanupTick \in 0..MaxTime \union {NoTick}
    /\ nextCleanup \in Nat
    /\ keyBudget \in [Keys -> Int]

\* Forgetting a client never gives it more than its rate and burst: what a key
\* is served stays within a bucket that is never forgotten, because a client is
\* only forgotten when its limiter is full again.  A client's idle time counts
\* from getVisitorLimiter, so a handler that stalls before Allow takes its token
\* up to MaxStall later: the burst must be earned in what is left of IdleLimit.
\* (The default burst takes two seconds of the ten minutes.)
KeyLimited ==
    Full <= Rate * (IdleLimit + 1 - MaxStall) =>
        \A k \in Keys : keyBudget[k] >= 0

\* The maps do not grow without bound: a client that stays away is forgotten
\* within one period of the cleanup after IdleLimit.
IdleClientsForgotten ==
    \A k \in Keys : visitors[k] # NoLimiter =>
        now <= lastSeen[k] + IdleLimit + CleanupPeriod + MaxStall

\* No two clients share a limiter, and the limiter a handler asks is still its
\* client's, whatever was forgotten since it fetched it (unless it was stalled
\* for longer than IdleLimit): nobody's requests use up another's allowance, and
\* none are charged to a bucket that is thrown away.
LimitersNotShared ==
    /\ \A k, l \in Keys : (visitors[k] = visitors[l] /\ k # l)
                             => visitors[k] = NoLimiter
    /\ MaxStall <= IdleLimit => \A h \in Handlers : Busy(h) =>
          visitors[VisitorKey(handler[h].origin)] = handler[h].limiter

=============================================================================
