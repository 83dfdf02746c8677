-------------------------- MODULE RateLimiterProofs --------------------------
(***************************************************************************)
(* TLAPS proofs about RateLimiter, for any number of handlers and clients, *)
(* any rate and burst, and any period of the cleanup.                      *)
(***************************************************************************)
EXTENDS RateLimiter, TLAPS

\* The cleanup's ticker fires once a period, and the goroutine takes a tick
\* within MaxStall.
ScheduleOK ==
    /\ now < nextCleanup /\ nextCleanup <= now + CleanupPeriod
    /\ cleanupTick # NoTick =>
          cleanupTick <= now /\ now <= cleanupTick + MaxStall

\* A client in the maps was seen before now, and the next pass of the cleanup
\* is no further away than a period after its IdleLimit.
SeenOK ==
    \A k \in Keys : visitors[k] # NoLimiter =>
        /\ lastSeen[k] <= now
        /\ (IF cleanupTick = NoTick THEN nextCleanup ELSE cleanupTick)
              <= lastSeen[k] + IdleLimit + CleanupPeriod

\* Limiters are numbered as they are created.
DistinctOK ==
    /\ \A k \in Keys : visitors[k] <= created
    /\ \A k, l \in Keys : (visitors[k] = visitors[l] /\ k # l)
                             => visitors[k] = NoLimiter

\* A handler was stalled for MaxStall at most, and if that is no longer than
\* IdleLimit, its client is still in the maps, seen no earlier than the fetch.
HandlersOK ==
    \A h \in Handlers : Busy(h) =>
        /\ handler[h].since <= now /\ now <= handler[h].since + MaxStall
        /\ MaxStall <= IdleLimit =>
              /\ visitors[VisitorKey(handler[h].origin)] = handler[h].limiter
              /\ handler[h].since <= lastSeen[VisitorKey(handler[h].origin)]

\* What a client's limiter has earned since it was asked last, at the latest
\* MaxStall after it was fetched last.
Earned(k) == Rate * (now - lastSeen[k] - MaxStall)

\* The bucket that is never forgotten holds at least what the client's limiter
\* holds; a limiter that is not full holds all it has earned.
BudgetOK ==
    \A k \in Keys :
        IF visitors[k] = NoLimiter THEN keyBudget[k] >= Full
        ELSE /\ keyBudget[k] >= level[visitors[k]]
             /\ \/ level[visitors[k]] = Full
                \/ level[visitors[k]] >= Earned(k)

\* The precondition of KeyLimited: a forgotten client's limiter is full.
EarnsBurst == Full <= Rate * (IdleLimit + 1 - MaxStall)

LimiterInv ==
    /\ TypeOK /\ ScheduleOK /\ SeenOK /\ DistinctOK /\ HandlersOK
    /\ EarnsBurst => BudgetOK

-----------------------------------------------------------------------------
LEMMA Numbers ==
    /\ Rate \in Nat /\ Rate > 0 /\ Cost \in Nat /\ Cost > 0
    /\ Burst \in Nat /\ Burst > 0
    /\ CleanupPeriod \in Nat /\ CleanupPeriod > 0
    /\ IdleLimit \in Nat /\ MaxStall \in Nat
    /\ MaxTime \in Nat /\ MaxLimiters \in Nat
  BY ParametersAssumption DEF ParametersAssumption

\* A bucket's size is a positive number.
LEMMA FullPositive == Full \in Nat /\ Full > 0
  <1>1. \A b, c \in Nat : b > 0 /\ c > 0 => b * c \in Nat /\ b * c > 0
    OBVIOUS
  <1> QED
    BY <1>1, Numbers DEF Full

\* Time earns tokens: the arithmetic of Earned.
LEMMA Earning ==
    ASSUME NEW d \in Int
    PROVE  /\ Rate * d \in Int
           /\ Rate * (d + 1) = Rate * d + Rate
           /\ d <= 0 => Rate * d <= 0
           /\ \A e \in Int : d <= e => Rate * d <= Rate * e
  <1>1. \A r \in Nat : /\ r * d \in Int
                       /\ r * (d + 1) = r * d + r
                       /\ d <= 0 => r * d <= 0
    OBVIOUS
  <1>2. \A r \in Nat, e \in Int : d <= e => r * d <= r * e
    OBVIOUS
  <1> QED
    BY <1>1, <1>2, Numbers

\* A burst that is earned within IdleLimit leaves a handler no time to stall for
\* longer than that.
LEMMA StallsWithinIdle == EarnsBurst => MaxStall <= IdleLimit
  <1> SUFFICES ASSUME EarnsBurst, ~(MaxStall <= IdleLimit) PROVE FALSE
    OBVIOUS
  <1>1. /\ IdleLimit + 1 - MaxStall \in Int /\ IdleLimit + 1 - MaxStall <= 0
    BY Numbers
  <1>2. Rate * (IdleLimit + 1 - MaxStall) <= 0
    BY <1>1, Earning
  <1>3. Rate * (IdleLimit + 1 - MaxStall) \in Int
    BY <1>1, Earning
  <1> QED
    BY <1>2, <1>3, FullPositive DEF EarnsBurst

\* Refilling keeps buckets within their size and in order.
LEMMA Refilling ==
    ASSUME NEW l \in Int
    PROVE  /\ Refill(l) \in Int /\ Refill(l) <= Full
           /\ l >= 0 => Refill(l) \in 0..Full
           /\ l >= Full => Refill(l) = Full
           /\ Refill(l) = Full \/ Refill(l) = l + Rate
           /\ \A m \in Int : l <= m => Refill(l) <= Refill(m)
  BY Numbers, FullPositive DEF Refill

LEMMA InitLimiter == Init => LimiterInv
  <1> USE Numbers, FullPositive DEF NoTick, NoLimiter
  <1>1. Init => TypeOK
    BY DEF Init, TypeOK, HandlerState, Idle
  <1>2. Init => ScheduleOK /\ SeenOK /\ DistinctOK /\ HandlersOK /\ BudgetOK
    BY DEF Init, ScheduleOK, SeenOK, DistinctOK, HandlersOK, BudgetOK, Busy
  <1> QED
    BY <1>1, <1>2 DEF LimiterInv

-----------------------------------------------------------------------------
\* What TypeOK says of the numbers, and of a handler that has fetched a limiter.
LEMMA TypeFacts ==
    ASSUME TypeOK
    PROVE  /\ now \in Int /\ created \in Int /\ nextCleanup \in Int
           /\ cleanupTick \in Int
           /\ \A k \in Keys : /\ visitors[k] \in Int /\ lastSeen[k] \in Int
                              /\ visitors[k] # NoLimiter => visitors[k] \in Limiters
                              /\ keyBudget[k] \in Int
           /\ \A i \in Limiters : level[i] \in Int /\ level[i] \in 0..Full
           /\ \A h \in Handlers : Busy(h) =>
                 /\ handler[h].limiter \in Limiters
                 /\ handler[h].origin \in Origins
                 /\ handler[h].since \in Int
                 /\ VisitorKey(handler[h].origin) \in Keys
  <1> USE Numbers, FullPositive
  <1>1. /\ now \in Int /\ created \in Int /\ nextCleanup \in Int
        /\ cleanupTick \in Int
    BY DEF TypeOK, NoTick
  <1>2. ASSUME NEW k \in Keys
        PROVE  /\ visitors[k] \in Int /\ lastSeen[k] \in Int
               /\ visitors[k] # NoLimiter => visitors[k] \in Limiters
               /\ keyBudget[k] \in Int
    BY DEF TypeOK, Limiters, NoLimiter
  <1>3. ASSUME NEW i \in Limiters PROVE level[i] \in Int /\ level[i] \in 0..Full
    BY DEF TypeOK
  <1>4. ASSUME NEW h \in Handlers, Busy(h)
        PROVE  /\ handler[h].limiter \in Limiters
               /\ handler[h].origin \in Origins
               /\ handler[h].since \in Int
               /\ VisitorKey(handler[h].origin) \in Keys
    <2>1. handler[h] \in [limiter : Limiters, origin : Origins, since : 0..MaxTime]
      BY <1>4 DEF TypeOK, HandlerState, Busy
    <2> QED
      BY <2>1 DEF Keys
  <1> QED
    BY <1>1, <1>2, <1>3, <1>4

\* The clock advances: every bucket refills, and the ticker may fire.
LEMMA AdvanceInv == LimiterInv /\ Advance => LimiterInv'
  <1> SUFFICES ASSUME LimiterInv, Advance PROVE LimiterInv'
    OBVIOUS
  <1> USE Numbers, FullPositive
  <1>a. TypeOK /\ ScheduleOK /\ SeenOK /\ DistinctOK /\ HandlersOK
    BY DEF LimiterInv
  <1>b. /\ now' = now + 1 /\ now < MaxTime
        /\ level' = [i \in Limiters |-> Refill(level[i])]
        /\ keyBudget' = [k \in Keys |-> Refill(keyBudget[k])]
        /\ UNCHANGED <<visitors, lastSeen, created, handler>>
    BY DEF Advance
  <1>1. ScheduleOK' /\ nextCleanup' \in Nat
           /\ cleanupTick' \in 0..MaxTime \union {NoTick}
    BY <1>a, <1>b DEF Advance, ScheduleOK, TypeOK, NoTick
  <1>2. TypeOK'
    <2>1. level' \in [Limiters -> 0..Full]
      BY <1>a, <1>b, TypeFacts, Refilling
    <2>2. keyBudget' \in [Keys -> Int]
      BY <1>a, <1>b, TypeFacts, Refilling
    <2> QED
      BY <1>a, <1>b, <1>1, <2>1, <2>2 DEF TypeOK
  <1>3. SeenOK'
    <2> SUFFICES ASSUME NEW k \in Keys, visitors[k] # NoLimiter
                 PROVE  /\ lastSeen[k] <= now + 1
                        /\ (IF cleanupTick' = NoTick THEN nextCleanup'
                            ELSE cleanupTick')
                              <= lastSeen[k] + IdleLimit + CleanupPeriod
      BY <1>b DEF SeenOK
    <2>1. lastSeen[k] \in Int /\ now \in Nat
      BY <1>a, TypeFacts DEF TypeOK
    <2> QED
      BY <1>a, <2>1 DEF Advance, SeenOK, NoTick
  <1>4. DistinctOK'
    BY <1>a, <1>b DEF DistinctOK
  <1>5. HandlersOK'
    <2> SUFFICES ASSUME NEW h \in Handlers, Busy(h)
                 PROVE  /\ handler[h].since <= now + 1
                        /\ now + 1 <= handler[h].since + MaxStall
      BY <1>a, <1>b DEF HandlersOK, Busy
    <2>1. handler[h].since \in Int /\ now \in Int
      BY <1>a, TypeFacts
    <2> QED
      BY <1>a, <2>1 DEF Advance, HandlersOK
  <1>6. ASSUME BudgetOK PROVE BudgetOK'
    <2> SUFFICES ASSUME NEW k \in Keys
                 PROVE  IF visitors[k] = NoLimiter THEN keyBudget'[k] >= Full
                        ELSE /\ keyBudget'[k] >= level'[visitors[k]]
                             /\ \/ level'[visitors[k]] = Full
                                \/ level'[visitors[k]] >= Earned(k)'
      BY <1>b DEF BudgetOK
    <2>1. keyBudget'[k] = Refill(keyBudget[k]) /\ keyBudget[k] \in Int
      BY <1>a, <1>b, TypeFacts
    <2>2. CASE visitors[k] = NoLimiter
      BY <1>6, <2>1, <2>2, Refilling DEF BudgetOK
    <2>3. CASE visitors[k] # NoLimiter
      <3> DEFINE l == level[visitors[k]]
                 d == now - lastSeen[k] - MaxStall
      <3>1. level'[visitors[k]] = Refill(l) /\ l \in Int /\ d \in Int
        BY <1>a, <1>b, <2>3, TypeFacts
      <3>2. Earned(k) = Rate * d /\ Earned(k)' = Rate * (d + 1)
        <4>1. (now + 1) - lastSeen[k] - MaxStall = d + 1
          BY <1>a, TypeFacts
        <4> QED
          BY <1>b, <4>1 DEF Earned
      <3>3. l <= keyBudget[k] /\ (l = Full \/ l >= Rate * d)
        BY <1>6, <2>1, <2>3, <3>1, <3>2 DEF BudgetOK
      <3> HIDE DEF l, d
      <3>4. Refill(l) <= Refill(keyBudget[k])
        BY <2>1, <3>1, <3>3, Refilling
      <3>5. Refill(l) = Full \/ Refill(l) >= Rate * (d + 1)
        <4>1. CASE l = Full
          BY <3>1, <4>1, Refilling
        <4>2. CASE l >= Rate * d
          BY <3>1, <4>2, Refilling, Earning
        <4> QED
          BY <3>3, <4>1, <4>2
      <3>6. Refill(l) \in Int /\ Refill(keyBudget[k]) \in Int
        BY <2>1, <3>1, Refilling
      <3> QED
        BY <2>1, <2>3, <3>1, <3>2, <3>4, <3>5, <3>6
    <2> QED
      BY <2>2, <2>3
  <1> QED
    BY <1>1, <1>2, <1>3, <1>4, <1>5, <1>6 DEF LimiterInv, EarnsBurst, Full

\* A request fetches its client's limiter, a new one for a client that is not in
\* the maps.
LEMMA GetVisitorLimiterInv ==
    ASSUME LimiterInv, NEW h \in Handlers, NEW o \in Origins,
           GetVisitorLimiter(h, o)
    PROVE  LimiterInv'
  <1> USE Numbers, FullPositive
  <1> DEFINE key == VisitorKey(o)
             known == visitors[key] # NoLimiter
             limiter == IF known THEN visitors[key] ELSE created + 1
  <1>a. TypeOK /\ ScheduleOK /\ SeenOK /\ DistinctOK /\ HandlersOK
    BY DEF LimiterInv
  <1>b. /\ ~Busy(h) /\ limiter \in Limiters
        /\ visitors' = [visitors EXCEPT ![key] = limiter]
        /\ lastSeen' = [lastSeen EXCEPT ![key] = now]
        /\ created' = IF known THEN created ELSE created + 1
        /\ level' = IF known THEN level ELSE [level EXCEPT ![limiter] = Full]
        /\ handler' = [handler EXCEPT ![h] =
                         [limiter |-> limiter, origin |-> o, since |-> now]]
        /\ UNCHANGED <<now, cleanupTick, nextCleanup, keyBudget>>
    BY DEF GetVisitorLimiter
  <1>c. key \in Keys
    BY DEF Keys
  <1>d. /\ visitors \in [Keys -> Limiters \union {NoLimiter}]
        /\ lastSeen \in [Keys -> 0..MaxTime]
        /\ level \in [Limiters -> 0..Full]
        /\ handler \in [Handlers -> HandlerState]
    BY <1>a DEF TypeOK
  <1>e. /\ visitors[key] \in Int /\ created \in Int /\ limiter \in Int
        /\ visitors[key] <= created /\ limiter > 0
        /\ created' >= created /\ limiter <= created'
    <2>1. visitors[key] \in Int /\ created \in Int /\ visitors[key] <= created
      BY <1>a, <1>c, TypeFacts DEF DistinctOK
    <2> QED
      BY <1>b, <2>1 DEF Limiters
  <1>f. ~known => \A k \in Keys : visitors[k] # limiter
    <2> SUFFICES ASSUME ~known, NEW k \in Keys PROVE visitors[k] # created + 1
      OBVIOUS
    <2> QED
      BY <1>a, <1>e, TypeFacts DEF DistinctOK
  <1> HIDE DEF key, known, limiter
  <1>g. known => visitors[key] = limiter
    BY DEF known, limiter
  <1>1. TypeOK'
    <2>1. created' \in 0..MaxLimiters
      BY <1>a, <1>b, <1>e DEF TypeOK, Limiters, known, limiter, NoLimiter
    <2>2. level' \in [Limiters -> 0..Full]
      BY <1>b, <1>d
    <2>3. [limiter |-> limiter, origin |-> o, since |-> now] \in HandlerState
      BY <1>a, <1>b DEF TypeOK, HandlerState
    <2>4. handler' \in [Handlers -> HandlerState]
      BY <1>b, <1>d, <2>3
    <2>5. visitors' \in [Keys -> Limiters \union {NoLimiter}]
      BY <1>b, <1>d
    <2>6. lastSeen' \in [Keys -> 0..MaxTime]
      BY <1>a, <1>b, <1>d DEF TypeOK
    <2> QED
      BY <1>a, <1>b, <2>1, <2>2, <2>4, <2>5, <2>6 DEF TypeOK
  <1>2. ScheduleOK'
    BY <1>a, <1>b DEF ScheduleOK
  <1>3. SeenOK'
    <2> SUFFICES ASSUME NEW k \in Keys, visitors'[k] # NoLimiter
                 PROVE  /\ lastSeen'[k] <= now
                        /\ (IF cleanupTick = NoTick THEN nextCleanup
                            ELSE cleanupTick)
                              <= lastSeen'[k] + IdleLimit + CleanupPeriod
      BY <1>b DEF SeenOK
    <2>1. CASE k = key
      <3>1. lastSeen'[k] = now
        BY <1>b, <1>d, <2>1
      <3>2. now \in Int /\ nextCleanup \in Int /\ cleanupTick \in Int
        BY <1>a, TypeFacts
      <3> QED
        BY <1>a, <3>1, <3>2 DEF ScheduleOK
    <2>2. CASE k # key
      BY <1>a, <1>b, <1>d, <2>2 DEF SeenOK
    <2> QED
      BY <2>1, <2>2
  <1>4. DistinctOK'
    <2>1. ASSUME NEW k \in Keys PROVE visitors'[k] <= created'
      BY <1>a, <1>b, <1>d, <1>e, TypeFacts DEF DistinctOK
    <2>2. ASSUME NEW k \in Keys, k # key PROVE visitors'[k] # limiter
      <3>1. visitors'[k] = visitors[k]
        BY <1>b, <1>d, <2>2
      <3>2. CASE ~known
        BY <1>f, <3>1, <3>2
      <3>3. CASE known
        BY <1>a, <1>c, <1>g, <2>2, <3>1, <3>3 DEF DistinctOK, known
      <3> QED
        BY <3>2, <3>3
    <2>3. visitors'[key] = limiter
      BY <1>b, <1>c, <1>d
    <2>4. ASSUME NEW k \in Keys, NEW l \in Keys, k # l, visitors'[k] = visitors'[l]
          PROVE  visitors'[k] = NoLimiter
      <3>1. CASE k = key \/ l = key
        BY <2>2, <2>3, <2>4, <3>1
      <3>2. CASE k # key /\ l # key
        BY <1>a, <1>b, <1>d, <2>4, <3>2 DEF DistinctOK
      <3> QED
        BY <3>1, <3>2
    <2> QED
      BY <2>1, <2>4 DEF DistinctOK
  <1>5. HandlersOK'
    <2> SUFFICES ASSUME NEW g \in Handlers, Busy(g)'
                 PROVE  /\ handler'[g].since <= now
                        /\ now <= handler'[g].since + MaxStall
                        /\ MaxStall <= IdleLimit =>
                              LET k == VisitorKey(handler'[g].origin) IN
                              /\ visitors'[k] = handler'[g].limiter
                              /\ handler'[g].since <= lastSeen'[k]
      BY <1>b DEF HandlersOK
    <2>0. now \in Int
      BY <1>a, TypeFacts
    <2>1. CASE g = h
      <3>1. handler'[g] = [limiter |-> limiter, origin |-> o, since |-> now]
        BY <1>b, <1>d, <2>1
      <3>2. visitors'[key] = limiter /\ lastSeen'[key] = now
        BY <1>b, <1>c, <1>d
      <3> QED
        BY <2>0, <3>1, <3>2 DEF key
    <2>2. CASE g # h
      <3>1. handler'[g] = handler[g] /\ Busy(g)
        BY <1>b, <1>d, <2>2 DEF Busy
      <3> DEFINE k == VisitorKey(handler[g].origin)
      <3>2. /\ k \in Keys /\ handler[g].limiter \in Limiters
            /\ handler[g].since \in Int
        BY <1>a, <3>1, TypeFacts
      <3>3. /\ handler[g].since <= now /\ now <= handler[g].since + MaxStall
            /\ MaxStall <= IdleLimit =>
                  visitors[k] = handler[g].limiter /\ handler[g].since <= lastSeen[k]
        BY <1>a, <3>1 DEF HandlersOK
      <3> HIDE DEF k
      <3>4. CASE k = key
        <4>1. visitors[k] = handler[g].limiter => known
          BY <3>2, <3>4 DEF known, Limiters, NoLimiter
        <4> QED
          BY <1>b, <1>d, <1>g, <2>0, <3>1, <3>2, <3>3, <3>4, <4>1 DEF k
      <3>5. CASE k # key
        BY <1>b, <1>d, <3>1, <3>2, <3>3, <3>5 DEF k
      <3> QED
        BY <3>4, <3>5
    <2> QED
      BY <2>1, <2>2
  <1>6. ASSUME BudgetOK PROVE BudgetOK'
    <2> SUFFICES ASSUME NEW k \in Keys
                 PROVE  IF visitors'[k] = NoLimiter THEN keyBudget[k] >= Full
                        ELSE /\ keyBudget[k] >= level'[visitors'[k]]
                             /\ \/ level'[visitors'[k]] = Full
                                \/ level'[visitors'[k]] >= Earned(k)'
      BY <1>b DEF BudgetOK
    <2>1. CASE k = key
      <3>1. visitors'[k] = limiter /\ lastSeen'[k] = now /\ limiter # NoLimiter
        BY <1>b, <1>d, <1>e, <2>1 DEF NoLimiter
      <3>2. CASE ~known
        <4>1. level'[limiter] = Full
          BY <1>b, <1>d, <3>2
        <4>2. keyBudget[k] >= Full
          BY <1>6, <2>1, <3>2 DEF BudgetOK, known
        <4> QED
          BY <3>1, <4>1, <4>2
      <3>3. CASE known
        <4>1. level'[limiter] = level[limiter] /\ limiter = visitors[k]
          BY <1>b, <1>g, <2>1, <3>3
        <4>2. keyBudget[k] >= level[limiter]
          BY <1>6, <2>1, <3>3, <4>1 DEF BudgetOK, known
        <4>3. Earned(k)' <= 0 /\ Earned(k)' \in Int
          <5>1. Earned(k)' = Rate * (now - now - MaxStall)
            BY <1>b, <3>1 DEF Earned
          <5>2. now - now - MaxStall \in Int /\ now - now - MaxStall <= 0
            BY <1>a, TypeFacts
          <5> QED
            BY <5>1, <5>2, Earning
        <4>4. level[limiter] \in 0..Full
          BY <1>b, <1>d
        <4> QED
          BY <3>1, <4>1, <4>2, <4>3, <4>4
      <3> QED
        BY <3>2, <3>3
    <2>2. CASE k # key
      <3>1. visitors'[k] = visitors[k] /\ lastSeen'[k] = lastSeen[k]
        BY <1>b, <1>d, <2>2
      <3>2. Earned(k)' = Earned(k)
        BY <1>b, <3>1 DEF Earned
      <3>3. visitors[k] # NoLimiter => level'[visitors[k]] = level[visitors[k]]
        BY <1>b, <1>d, <1>f
      <3> QED
        BY <1>6, <3>1, <3>2, <3>3 DEF BudgetOK
    <2> QED
      BY <2>1, <2>2
  <1> QED
    BY <1>1, <1>2, <1>3, <1>4, <1>5, <1>6 DEF LimiterInv, EarnsBurst, Full

\* A request is served: its client's limiter and its budget pay alike.
LEMMA AllowInv ==
    ASSUME LimiterInv, NEW h \in Handlers, Allow(h)
    PROVE  LimiterInv'
  <1> USE Numbers, FullPositive
  <1> DEFINE i == handler[h].limiter
             key == VisitorKey(handler[h].origin)
  <1>a. TypeOK /\ ScheduleOK /\ SeenOK /\ DistinctOK /\ HandlersOK
    BY DEF LimiterInv
  <1>b. /\ Busy(h) /\ level[i] >= Cost
        /\ level' = [level EXCEPT ![i] = level[i] - Cost]
        /\ keyBudget' = [keyBudget EXCEPT ![key] = keyBudget[key] - Cost]
        /\ handler' = [handler EXCEPT ![h] = Idle]
        /\ UNCHANGED <<now, visitors, lastSeen, created, cleanupTick,
                       nextCleanup>>
    BY DEF Allow
  <1>c. i \in Limiters /\ key \in Keys
    BY <1>a, <1>b, TypeFacts
  <1>d. /\ level \in [Limiters -> 0..Full] /\ keyBudget \in [Keys -> Int]
        /\ handler \in [Handlers -> HandlerState]
    BY <1>a DEF TypeOK
  <1>e. /\ handler[h].since <= now /\ now <= handler[h].since + MaxStall
        /\ MaxStall <= IdleLimit =>
              visitors[key] = i /\ handler[h].since <= lastSeen[key]
    BY <1>a, <1>b DEF HandlersOK
  <1>f. handler[h].since \in Int
    BY <1>a, <1>b, TypeFacts
  <1> HIDE DEF i, key
  <1>1. TypeOK'
    <2>1. level[i] - Cost \in 0..Full
      BY <1>b, <1>c, <1>d
    <2>2. keyBudget[key] - Cost \in Int
      BY <1>c, <1>d
    <2>3. Idle \in HandlerState
      BY DEF HandlerState
    <2> QED
      BY <1>a, <1>b, <1>d, <2>1, <2>2, <2>3 DEF TypeOK
  <1>2. ScheduleOK' /\ SeenOK' /\ DistinctOK'
    BY <1>a, <1>b DEF ScheduleOK, SeenOK, DistinctOK
  <1>3. HandlersOK'
    BY <1>a, <1>b, <1>d DEF HandlersOK, Busy
  <1>4. ASSUME EarnsBurst, BudgetOK PROVE BudgetOK'
    <2> SUFFICES ASSUME NEW k \in Keys
                 PROVE  IF visitors[k] = NoLimiter THEN keyBudget'[k] >= Full
                        ELSE /\ keyBudget'[k] >= level'[visitors[k]]
                             /\ \/ level'[visitors[k]] = Full
                                \/ level'[visitors[k]] >= Earned(k)'
      BY <1>b DEF BudgetOK
    <2>0. visitors[key] = i /\ handler[h].since <= lastSeen[key]
      BY <1>4, <1>e, StallsWithinIdle
    <2>1. i # NoLimiter
      BY <1>c DEF Limiters, NoLimiter
    <2>2. Earned(k)' = Earned(k)
      BY <1>b DEF Earned
    <2>3. CASE k = key
      <3>1. /\ level'[i] = level[i] - Cost /\ level[i] \in 0..Full
            /\ keyBudget'[k] = keyBudget[k] - Cost /\ keyBudget[k] \in Int
        BY <1>b, <1>c, <1>d, <2>3
      <3>2. keyBudget[k] >= level[i]
        BY <1>4, <2>0, <2>1, <2>3 DEF BudgetOK
      <3>3. Earned(k) <= 0 /\ Earned(k) \in Int
        <4>1. /\ now - lastSeen[k] - MaxStall \in Int
              /\ now - lastSeen[k] - MaxStall <= 0
          BY <1>a, <1>c, <1>e, <1>f, <2>0, <2>3, TypeFacts
        <4> QED
          BY <4>1, Earning DEF Earned
      <3> QED
        BY <1>b, <2>0, <2>1, <2>2, <2>3, <3>1, <3>2, <3>3
    <2>4. CASE k # key
      <3>1. keyBudget'[k] = keyBudget[k]
        BY <1>b, <1>d, <2>4
      <3>2. visitors[k] # i
        BY <1>a, <1>c, <2>0, <2>1, <2>4 DEF DistinctOK
      <3>3. level'[visitors[k]] = level[visitors[k]] \/ visitors[k] = NoLimiter
        BY <1>a, <1>b, <1>d, <3>2, TypeFacts
      <3> QED
        BY <1>4, <2>2, <3>1, <3>3 DEF BudgetOK
    <2> QED
      BY <2>3, <2>4
  <1> QED
    BY <1>1, <1>2, <1>3, <1>4 DEF LimiterInv, EarnsBurst, Full

\* A refused request changes nothing but its handler.
LEMMA TooManyRequestsInv ==
    ASSUME LimiterInv, NEW h \in Handlers, TooManyRequests(h)
    PROVE  LimiterInv'
  <1>a. TypeOK /\ ScheduleOK /\ SeenOK /\ DistinctOK /\ HandlersOK
    BY DEF LimiterInv
  <1>b. /\ handler' = [handler EXCEPT ![h] = Idle]
        /\ UNCHANGED <<now, visitors, lastSeen, level, created, cleanupTick,
                       nextCleanup, keyBudget>>
    BY DEF TooManyRequests
  <1>1. TypeOK'
    BY <1>a, <1>b DEF TypeOK, HandlerState
  <1>2. ScheduleOK' /\ SeenOK' /\ DistinctOK'
    BY <1>a, <1>b DEF ScheduleOK, SeenOK, DistinctOK
  <1>3. HandlersOK'
    BY <1>a, <1>b DEF HandlersOK, Busy, TypeOK
  <1>4. BudgetOK => BudgetOK'
    BY <1>b DEF BudgetOK, Earned
  <1> QED
    BY <1>1, <1>2, <1>3, <1>4 DEF LimiterInv, EarnsBurst, Full

\* A pass of the cleanup forgets no client that a handler still asks for, and
\* none whose limiter has not earned its burst.
LEMMA CleanupInv == LimiterInv /\ Cleanup => LimiterInv'
  <1> SUFFICES ASSUME LimiterInv, Cleanup PROVE LimiterInv'
    OBVIOUS
  <1> USE Numbers, FullPositive
  <1>a. TypeOK /\ ScheduleOK /\ SeenOK /\ DistinctOK /\ HandlersOK
    BY DEF LimiterInv
  <1>b. /\ visitors' = [k \in Keys |-> IF Forgotten(k) THEN NoLimiter
                                       ELSE visitors[k]]
        /\ lastSeen' = [k \in Keys |-> IF Forgotten(k) THEN 0 ELSE lastSeen[k]]
        /\ cleanupTick' = NoTick
        /\ UNCHANGED <<now, level, created, handler, nextCleanup, keyBudget>>
    BY DEF Cleanup
  <1>c. \A k \in Keys :
           \/ /\ Forgotten(k) /\ visitors'[k] = NoLimiter /\ lastSeen'[k] = 0
           \/ /\ ~Forgotten(k)
              /\ visitors'[k] = visitors[k] /\ lastSeen'[k] = lastSeen[k]
    BY <1>b
  <1>1. TypeOK'
    <2>1. visitors' \in [Keys -> Limiters \union {NoLimiter}]
      BY <1>a, <1>b DEF TypeOK
    <2>2. lastSeen' \in [Keys -> 0..MaxTime]
      BY <1>a, <1>b DEF TypeOK
    <2> QED
      BY <1>a, <1>b, <2>1, <2>2 DEF TypeOK
  <1>2. ScheduleOK'
    BY <1>a, <1>b DEF ScheduleOK
  <1>3. SeenOK'
    <2> SUFFICES ASSUME NEW k \in Keys, visitors'[k] # NoLimiter
                 PROVE  /\ lastSeen'[k] <= now
                        /\ nextCleanup <= lastSeen'[k] + IdleLimit + CleanupPeriod
      BY <1>b DEF SeenOK
    <2>1. ~Forgotten(k) /\ visitors[k] # NoLimiter /\ lastSeen'[k] = lastSeen[k]
      BY <1>c
    <2>2. lastSeen[k] \in Int /\ now \in Int /\ nextCleanup \in Int
      BY <1>a, TypeFacts
    <2> QED
      BY <1>a, <2>1, <2>2 DEF Forgotten, SeenOK, ScheduleOK
  <1>4. DistinctOK'
    <2>1. \A k \in Keys : visitors'[k] <= created'
      BY <1>a, <1>b, <1>c DEF DistinctOK, TypeOK, NoLimiter
    <2>2. \A k, l \in Keys : (visitors'[k] = visitors'[l] /\ k # l)
                                => visitors'[k] = NoLimiter
      BY <1>a, <1>c DEF DistinctOK
    <2> QED
      BY <2>1, <2>2 DEF DistinctOK
  <1>5. HandlersOK'
    <2> SUFFICES ASSUME NEW h \in Handlers, Busy(h)
                 PROVE  /\ handler[h].since <= now
                        /\ now <= handler[h].since + MaxStall
                        /\ MaxStall <= IdleLimit =>
                              LET k == VisitorKey(handler[h].origin) IN
                              /\ visitors'[k] = handler[h].limiter
                              /\ handler[h].since <= lastSeen'[k]
      BY <1>b DEF HandlersOK, Busy
    <2> DEFINE k == VisitorKey(handler[h].origin)
    <2>1. /\ handler[h].since <= now /\ now <= handler[h].since + MaxStall
          /\ MaxStall <= IdleLimit =>
                visitors[k] = handler[h].limiter /\ handler[h].since <= lastSeen[k]
      BY <1>a DEF HandlersOK
    <2>2. /\ k \in Keys /\ handler[h].since \in Int
          /\ lastSeen[k] \in Int /\ now \in Int
      BY <1>a, TypeFacts
    <2> HIDE DEF k
    <2>3. MaxStall <= IdleLimit => ~Forgotten(k)
      BY <2>1, <2>2 DEF Forgotten
    <2> QED
      BY <1>c, <2>1, <2>2, <2>3 DEF k
  <1>6. ASSUME EarnsBurst, BudgetOK PROVE BudgetOK'
    <2> SUFFICES ASSUME NEW k \in Keys
                 PROVE  IF visitors'[k] = NoLimiter THEN keyBudget[k] >= Full
                        ELSE /\ keyBudget[k] >= level[visitors'[k]]
                             /\ \/ level[visitors'[k]] = Full
                                \/ level[visitors'[k]] >= Earned(k)'
      BY <1>b DEF BudgetOK
    <2>1. CASE ~Forgotten(k)
      <3>1. visitors'[k] = visitors[k] /\ Earned(k)' = Earned(k)
        BY <1>b, <1>c, <2>1 DEF Earned
      <3> QED
        BY <1>6, <3>1 DEF BudgetOK
    <2>2. CASE Forgotten(k)
      <3> DEFINE d == now - lastSeen[k] - MaxStall
                 l == level[visitors[k]]
      <3>1. visitors'[k] = NoLimiter /\ visitors[k] # NoLimiter
        BY <1>c, <2>2 DEF Forgotten
      <3>2. /\ d \in Int /\ IdleLimit + 1 - MaxStall \in Int
            /\ IdleLimit + 1 - MaxStall <= d
        BY <1>a, <2>2, TypeFacts DEF Forgotten
      <3>3. keyBudget[k] >= l /\ (l = Full \/ l >= Rate * d)
        BY <1>6, <3>1 DEF BudgetOK, Earned
      <3>4. l \in Int /\ keyBudget[k] \in Int
        BY <1>a, <3>1, TypeFacts
      <3> HIDE DEF d, l
      <3>5. /\ Full <= Rate * (IdleLimit + 1 - MaxStall)
            /\ Rate * (IdleLimit + 1 - MaxStall) <= Rate * d
            /\ Rate * d \in Int /\ Rate * (IdleLimit + 1 - MaxStall) \in Int
        BY <1>6, <3>2, Earning DEF EarnsBurst
      <3> QED
        BY <3>1, <3>3, <3>4, <3>5
    <2> QED
      BY <2>1, <2>2
  <1> QED
    BY <1>1, <1>2, <1>3, <1>4, <1>5, <1>6 DEF LimiterInv, EarnsBurst, Full

-----------------------------------------------------------------------------
\* The invariant of the rate limiter.
THEOREM LimiterInvariant == Spec => []LimiterInv
  <1>1. LimiterInv /\ [Next]_vars => LimiterInv'
    <2> SUFFICES ASSUME LimiterInv, [Next]_vars PROVE LimiterInv'
      OBVIOUS
    <2>1. CASE UNCHANGED vars
      BY <2>1 DEF vars, LimiterInv, TypeOK, ScheduleOK, SeenOK, DistinctOK,
                  HandlersOK, BudgetOK, Earned, Busy, EarnsBurst, Full
    <2> QED
      BY <2>1, AdvanceInv, CleanupInv, GetVisitorLimiterInv, AllowInv,
         TooManyRequestsInv DEF Next
  <1> QED
    BY <1>1, InitLimiter, PTL DEF Spec

\* The types of the limiter's state: no limiter is over-full or in debt.
THEOREM LimiterTypeCorrect == Spec => []TypeOK
  <1>1. LimiterInv => TypeOK
    BY DEF LimiterInv
  <1> QED
    BY <1>1, LimiterInvariant, PTL

\* A client that stays away is forgotten within a period of the cleanup.
THEOREM IdleForgotten == Spec => []IdleClientsForgotten
  <1>1. LimiterInv => IdleClientsForgotten
    <2> SUFFICES ASSUME LimiterInv, NEW k \in Keys, visitors[k] # NoLimiter
                 PROVE  now <= lastSeen[k] + IdleLimit + CleanupPeriod + MaxStall
      BY DEF IdleClientsForgotten
    <2>1. /\ now \in Int /\ nextCleanup \in Int /\ cleanupTick \in Int
          /\ lastSeen[k] \in Int
      BY TypeFacts DEF LimiterInv
    <2> QED
      BY <2>1, Numbers DEF LimiterInv, ScheduleOK, SeenOK
  <1> QED
    BY <1>1, LimiterInvariant, PTL

\* No two clients share a limiter, and the one a handler asks is its client's.
THEOREM NoneShared == Spec => []LimitersNotShared
  <1>1. LimiterInv => LimitersNotShared
    BY DEF LimiterInv, DistinctOK, HandlersOK, LimitersNotShared
  <1> QED
    BY <1>1, LimiterInvariant, PTL

\* Forgetting a client never gives it more than its rate and burst.
THEOREM ClientsLimited == Spec => []KeyLimited
  <1>1. LimiterInv => KeyLimited
    <2> SUFFICES ASSUME LimiterInv, EarnsBurst, NEW k \in Keys
                 PROVE  keyBudget[k] >= 0
      BY DEF KeyLimited, EarnsBurst
    <2>1. keyBudget[k] \in Int
      BY TypeFacts DEF LimiterInv
    <2>2. CASE visitors[k] = NoLimiter
      BY <2>1, <2>2, FullPositive DEF LimiterInv, BudgetOK
    <2>3. CASE visitors[k] # NoLimiter
      BY <2>1, <2>3, TypeFacts, FullPositive DEF LimiterInv, BudgetOK
    <2> QED
      BY <2>2, <2>3
  <1> QED
    BY <1>1, LimiterInvariant, PTL

=============================================================================
