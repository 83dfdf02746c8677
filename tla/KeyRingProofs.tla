--------------------------- MODULE KeyRingProofs ---------------------------
(***************************************************************************)
(* TLAPS proofs about KeyRing, for any set of algorithms and callers and   *)
(* any grace, interval, lag, prune times and bounds.                       *)
(***************************************************************************)
EXTENDS KeyRing, TLAPS

\* What RotateAt has handled when it returns is a set of enabled algorithms.
LEMMA RotatedSubset == ASSUME NEW rotated \in RotatedSets
                       PROVE  rotated \subseteq Enabled
  BY DEF RotatedSets

LEMMA PruneTimesType == PruneTimes \subseteq Time
  BY NumbersAssumption DEF NumbersAssumption, Time

\* RotateAt keeps the ring well typed: every algorithm still has an active key.
LEMMA RotateAtType ==
    ASSUME TypeOK, NEW t \in Time, NEW rotated \in SUBSET Enabled,
           RotateAt(t, rotated)
    PROVE  RingTypeOK'
  <1> USE NumbersAssumption DEF NumbersAssumption, TypeOK, RingTypeOK, RotateAt, RetiredAfter, Published
  <1>1. active' \in [Enabled -> Generation]
    BY DEF Generation
  <1>2. retired' \in [Enabled -> SUBSET Generation]
    OBVIOUS
  <1>3. retiredAt' \in [Enabled -> [Generation -> Time \union {NotRetired}]]
    OBVIOUS
  <1>4. lastUsed' \in [Enabled -> [Generation -> Time \union {NotRetired}]]
    OBVIOUS
  <1> QED
    BY <1>1, <1>2, <1>3, <1>4

\* PruneAt keeps the ring well typed.
LEMMA PruneAtType ==
    ASSUME TypeOK, NEW t \in Time, PruneAt(t)
    PROVE  RingTypeOK' /\ horizon' \in Time
  BY DEF TypeOK, RingTypeOK, PruneAt, Later

\* The type invariant holds initially.
LEMMA InitType == Init => TypeOK
  <1> SUFFICES ASSUME Init PROVE TypeOK
    OBVIOUS
  <1> USE NumbersAssumption DEF NumbersAssumption, Init
  <1>1. RingTypeOK
    BY DEF RingTypeOK, Generation
  <1>2. now \in Time /\ rotNow \in Time /\ horizon \in Time
           /\ lastRotation \in Time /\ callNow \in [Callers -> Time]
    BY DEF Time
  <1>3. ctxDone \in BOOLEAN /\ missed \in BOOLEAN
    OBVIOUS
  <1>4. /\ rotPc \in {"select", "rotate", "prune", "exited"}
        /\ tick \in Time \union {NoTick}
        /\ nextTick \in Nat
        /\ callPc \in [Callers -> {"idle", "stamped"}]
    OBVIOUS
  <1> QED
    BY <1>1, <1>2, <1>3, <1>4 DEF TypeOK

\* Every step of the clock, the goroutine and the callers preserves it.
LEMMA NextType == TypeOK /\ [Next]_vars => TypeOK'
  <1> SUFFICES ASSUME TypeOK, [Next]_vars PROVE TypeOK'
    OBVIOUS
  <1> USE NumbersAssumption DEF NumbersAssumption
  <1>1. CASE Advance
    BY <1>1 DEF TypeOK, RingTypeOK, Advance, ringVars, callVars, Later, Time,
                TickerFires
  <1>2. CASE Cancel
    BY <1>2 DEF TypeOK, RingTypeOK, Cancel, ringVars, callVars
  <1>3. CASE RotationExit
    BY <1>3 DEF TypeOK, RingTypeOK, RotationExit, ringVars, callVars
  <1>4. CASE RotationReceive
    BY <1>4 DEF TypeOK, RingTypeOK, RotationReceive, ringVars, callVars
  <1>5. ASSUME NEW rotated \in RotatedSets, RotationRotate(rotated)
        PROVE  TypeOK'
    <2>1. RingTypeOK'
      BY <1>5, RotatedSubset, RotateAtType DEF RotationRotate, TypeOK
    <2> QED
      BY <1>5, <2>1 DEF TypeOK, RotationRotate, callVars, Time
  <1>6. CASE RotationPrune
    <2>1. RingTypeOK' /\ horizon' \in Time
      BY <1>6, PruneAtType DEF RotationPrune, TypeOK
    <2>2. missed' \in BOOLEAN
      BY <1>6 DEF RotationPrune
    <2>3. lastRotation' \in Time /\ rotNow' \in Time
      BY <1>6 DEF TypeOK, RotationPrune, Time, Later
    <2> QED
      BY <1>6, <2>1, <2>2, <2>3 DEF TypeOK, RotationPrune, callVars
  <1>7. ASSUME NEW c \in Callers, RotateStamp(c)
        PROVE  TypeOK'
    BY <1>7 DEF TypeOK, RingTypeOK, RotateStamp, ringVars, rotVars
  <1>8. ASSUME NEW c \in Callers, NEW rotated \in RotatedSets,
               RotateCommit(c, rotated)
        PROVE  TypeOK'
    <2>1. RingTypeOK'
      BY <1>8, RotatedSubset, RotateAtType DEF RotateCommit, TypeOK
    <2> QED
      BY <1>8, <2>1 DEF TypeOK, RotateCommit, rotVars, Time, Later
  <1>9. ASSUME NEW t \in PruneTimes, CallPruneAt(t)
        PROVE  TypeOK'
    <2>1. RingTypeOK' /\ horizon' \in Time
      BY <1>9, PruneTimesType, PruneAtType DEF CallPruneAt
    <2> QED
      BY <1>9, <2>1 DEF TypeOK, CallPruneAt, callVars, rotVars
  <1>10. CASE UNCHANGED vars
    BY <1>10 DEF TypeOK, RingTypeOK, vars, ringVars, rotVars, callVars
  <1> QED
    BY <1>1, <1>2, <1>3, <1>4, <1>5, <1>6, <1>7, <1>8, <1>9, <1>10
       DEF Next, RotationStep, CallerStep

\* Type correctness of the ring, the goroutine and its callers: whatever
\* fails, an enabled algorithm always has an active key.
THEOREM TypeCorrect == Spec => []TypeOK
  <1>1. Init => TypeOK
    BY InitType
  <1>2. TypeOK /\ [Next]_vars => TypeOK'
    BY NextType
  <1> QED
    BY <1>1, <1>2, PTL DEF Spec

-----------------------------------------------------------------------------
(* Retention. *)

\* Retiring the active key with a stamp no older than MaxLag keeps every
\* retired key's stamp that fresh, and drops nothing.
LEMMA RotateAtRetention ==
    ASSUME TypeOK, RetiredKeysOK, now' = now, horizon' = horizon,
           NEW t \in Time, t <= now, now <= t + MaxLag,
           NEW rotated \in SUBSET Enabled, RotateAt(t, rotated)
    PROVE  RetiredKeysOK'
  <1> SUFFICES ASSUME NEW a \in Enabled, NEW g \in Generation
               PROVE  /\ g \in retired'[a] => g < active'[a]
                      /\ g < active'[a] => RetiredKeyOK(a, g)'
    BY DEF RetiredKeysOK
  <1> USE NumbersAssumption DEF NumbersAssumption
  <1>1. active[a] \in Int /\ g \in Int /\ now \in Int /\ horizon \in Int
    BY DEF TypeOK, RingTypeOK, Generation, Time
  <1>2. /\ g \in retired[a] => g < active[a]
        /\ g < active[a] => RetiredKeyOK(a, g)
    BY DEF RetiredKeysOK
  <1>3. CASE a \notin rotated
    <2>1. /\ active'[a] = active[a]
          /\ retired'[a] = retired[a]
          /\ retiredAt'[a][g] = retiredAt[a][g]
          /\ lastUsed'[a][g] = lastUsed[a][g]
      BY <1>3 DEF RotateAt, RetiredAfter
    <2> QED
      BY <1>2, <2>1 DEF RetiredKeyOK
  <1>4. CASE a \in rotated /\ g # active[a]
    <2>1. /\ active'[a] = active[a] + 1
          /\ retired'[a] = retired[a] \union {active[a]}
          /\ retiredAt'[a][g] = retiredAt[a][g]
          /\ lastUsed'[a][g] = lastUsed[a][g]
      BY <1>4 DEF RotateAt, RetiredAfter, Published
    <2> QED
      BY <1>1, <1>2, <1>4, <2>1 DEF RetiredKeyOK
  <1>5. CASE a \in rotated /\ g = active[a]
    <2>1. /\ active'[a] = active[a] + 1
          /\ retired'[a] = retired[a] \union {active[a]}
          /\ retiredAt'[a][g] = t
          /\ lastUsed'[a][g] = now
      BY <1>5 DEF RotateAt, RetiredAfter, Published
    <2> QED
      BY <1>1, <1>5, <2>1 DEF RetiredKeyOK, TypeOK
  <1> QED
    BY <1>3, <1>4, <1>5

\* Pruning drops only keys that are out of grace at the new horizon.
LEMMA PruneAtRetention ==
    ASSUME TypeOK, RetiredKeysOK, now' = now, NEW t \in Time, PruneAt(t)
    PROVE  RetiredKeysOK'
  <1> SUFFICES ASSUME NEW a \in Enabled, NEW g \in Generation
               PROVE  /\ g \in retired'[a] => g < active'[a]
                      /\ g < active'[a] => RetiredKeyOK(a, g)'
    BY DEF RetiredKeysOK
  <1>1. /\ active'[a] = active[a]
        /\ retired'[a] = {h \in retired[a] : InGrace(a, h, t)}
        /\ retiredAt'[a][g] = retiredAt[a][g]
        /\ lastUsed'[a][g] = lastUsed[a][g]
    BY DEF PruneAt
  <1>2. horizon' >= horizon /\ horizon' >= t
        /\ horizon \in Int /\ horizon' \in Int /\ t \in Int
    BY NumbersAssumption DEF NumbersAssumption, PruneAt, Later, TypeOK, Time
  <1>3. /\ g \in retired[a] => g < active[a]
        /\ g < active[a] => RetiredKeyOK(a, g)
    BY DEF RetiredKeysOK
  <1>4. ASSUME g < active[a] PROVE RetiredKeyOK(a, g)'
    <2>1. g \in retired'[a] \/ horizon' >= retiredAt[a][g] + Grace
      BY <1>1, <1>2, <1>3, <1>4, NumbersAssumption
         DEF NumbersAssumption, RetiredKeyOK, InGrace, Time
    <2> QED
      BY <1>1, <1>3, <1>4, <2>1 DEF RetiredKeyOK
  <1> QED
    BY <1>1, <1>3, <1>4

\* RetentionInv is inductive: one case per action.
LEMMA NextRetention ==
    ASSUME TypeOK, RetentionInv, [Next]_vars
    PROVE  RetentionInv'
  <1> USE NumbersAssumption DEF NumbersAssumption
  <1>0. TypeOK'
    BY NextType
  <1> USE DEF RetentionInv
  <1>1. CASE Advance
    <2>1. now' = now + 1 /\ horizon' >= horizon /\ horizon' >= now'
          /\ now \in Int /\ horizon \in Int /\ horizon' \in Int
      BY <1>1, <1>0 DEF Advance, Later, TypeOK, Time
    <2>2. StampsFresh'
      <3>1. ASSUME NEW c \in Callers, callPc'[c] = "stamped"
            PROVE  callNow'[c] <= now' /\ now' <= callNow'[c] + MaxLag
        BY <1>1, <2>1, <3>1
           DEF Advance, WithinLag, StampsFresh, callVars, TypeOK, Time
      <3>2. ASSUME rotPc' \in {"rotate", "prune"}
            PROVE  rotNow' <= now' /\ now' <= rotNow' + MaxLag
        BY <1>1, <2>1, <3>2 DEF Advance, WithinLag, StampsFresh, TypeOK, Time
      <3>3. ASSUME tick' # NoTick, rotPc' # "exited"
            PROVE  tick' <= now' /\ now' <= tick' + MaxLag
        BY <1>1, <2>1, <3>3 DEF Advance, WithinLag, StampsFresh, TypeOK, Time
      <3> QED
        BY <2>1, <3>1, <3>2, <3>3 DEF StampsFresh
    <2>3. RetiredKeysOK'
      <3>1. UNCHANGED ringVars
        BY <1>1 DEF Advance
      <3> QED
        BY <2>1, <3>1 DEF RetiredKeysOK, RetiredKeyOK, ringVars, Time
    <2> QED
      BY <2>2, <2>3
  <1>2. CASE Cancel
    BY <1>2 DEF Cancel, StampsFresh, RetiredKeysOK, RetiredKeyOK, ringVars,
                callVars
  <1>3. CASE RotationExit
    BY <1>3 DEF RotationExit, StampsFresh, RetiredKeysOK, RetiredKeyOK,
                ringVars, callVars
  <1>4. CASE RotationReceive
    BY <1>4 DEF RotationReceive, StampsFresh, RetiredKeysOK, RetiredKeyOK,
                ringVars, callVars
  <1>5. ASSUME NEW rotated \in RotatedSets, RotationRotate(rotated)
        PROVE  RetentionInv'
    <2>1. StampsFresh'
      BY <1>5 DEF RotationRotate, StampsFresh, callVars
    <2>2. /\ rotNow \in Time /\ rotNow <= now /\ now <= rotNow + MaxLag
          /\ now' = now /\ horizon' = horizon /\ RotateAt(rotNow, rotated)
      BY <1>5 DEF RotationRotate, StampsFresh, TypeOK
    <2>3. RetiredKeysOK'
      BY <2>2, RotatedSubset, RotateAtRetention
    <2> QED
      BY <2>1, <2>3
  <1>6. CASE RotationPrune
    <2>1. PruneAt(rotNow) /\ rotNow \in Time /\ now' = now
      BY <1>6 DEF RotationPrune, TypeOK
    <2>2. RetiredKeysOK'
      BY <2>1, PruneAtRetention
    <2>3. horizon' >= horizon
      BY <2>1 DEF PruneAt, Later, TypeOK, Time
    <2>4. StampsFresh'
      BY <1>6, <1>0, <2>3 DEF RotationPrune, StampsFresh, callVars, TypeOK, Time
    <2> QED
      BY <2>2, <2>4
  <1>7. ASSUME NEW c \in Callers, RotateStamp(c)
        PROVE  RetentionInv'
    <2>1. StampsFresh'
      BY <1>7 DEF RotateStamp, StampsFresh, TypeOK, Time, rotVars
    <2> QED
      BY <1>7, <2>1 DEF RotateStamp, RetiredKeysOK, RetiredKeyOK, ringVars
  <1>8. ASSUME NEW c \in Callers, NEW rotated \in RotatedSets,
               RotateCommit(c, rotated)
        PROVE  RetentionInv'
    <2>1. StampsFresh'
      BY <1>8 DEF RotateCommit, StampsFresh, TypeOK, Time, rotVars
    <2>2. /\ callNow[c] \in Time /\ callNow[c] <= now
          /\ now <= callNow[c] + MaxLag
          /\ now' = now /\ horizon' = horizon /\ RotateAt(callNow[c], rotated)
      BY <1>8 DEF RotateCommit, StampsFresh, TypeOK
    <2>3. RetiredKeysOK'
      BY <2>2, RotatedSubset, RotateAtRetention
    <2> QED
      BY <2>1, <2>3
  <1>9. ASSUME NEW t \in PruneTimes, CallPruneAt(t)
        PROVE  RetentionInv'
    <2>1. PruneAt(t) /\ t \in Time /\ now' = now
      BY <1>9, PruneTimesType DEF CallPruneAt
    <2>2. RetiredKeysOK'
      BY <2>1, PruneAtRetention
    <2>3. horizon' >= horizon
      BY <2>1 DEF PruneAt, Later, TypeOK, Time
    <2>4. StampsFresh'
      BY <1>9, <1>0, <2>3 DEF CallPruneAt, StampsFresh, callVars, rotVars,
                              TypeOK, Time
    <2> QED
      BY <2>2, <2>4
  <1>10. CASE UNCHANGED vars
    BY <1>10 DEF vars, ringVars, rotVars, callVars, StampsFresh, RetiredKeysOK,
                 RetiredKeyOK
  <1> QED
    BY <1>1, <1>2, <1>3, <1>4, <1>5, <1>6, <1>7, <1>8, <1>9, <1>10
       DEF Next, RotationStep, CallerStep

\* The invariant implies what a retired key's holder counts on.
LEMMA RetentionImplies ==
    ASSUME TypeOK, RetentionInv PROVE RetainedForGrace
  <1> SUFFICES ASSUME NEW a \in Enabled, NEW g \in Generation, g < active[a],
                      g \notin retired[a]
               PROVE  horizon >= lastUsed[a][g] + Grace - MaxLag
    BY DEF RetainedForGrace
  <1>1. RetiredKeyOK(a, g)
    BY DEF RetentionInv, RetiredKeysOK
  <1> QED
    BY <1>1, NumbersAssumption DEF NumbersAssumption, RetiredKeyOK, TypeOK, Time

\* The strengthened invariant of KeyRing, which the issuer's proof builds on.
THEOREM RetentionInvariant == Spec => [](TypeOK /\ RetentionInv)
  <1>1. Init => TypeOK /\ RetentionInv
    <2>1. Init => RetentionInv
      BY DEF Init, RetentionInv, StampsFresh, RetiredKeysOK, Generation, NoTick
    <2> QED
      BY <2>1, InitType
  <1>2. TypeOK /\ RetentionInv /\ [Next]_vars => (TypeOK /\ RetentionInv)'
    BY NextType, NextRetention
  <1> QED
    BY <1>1, <1>2, PTL DEF Spec

\* A key stays in the JWKS for Grace, less the lag of its rotation, after it
\* really ceased to sign, whoever rotates and prunes in whatever order.
THEOREM Retained == Spec => []RetainedForGrace
  <1>1. TypeOK /\ RetentionInv => RetainedForGrace
    BY RetentionImplies
  <1> QED
    BY <1>1, RetentionInvariant, PTL

-----------------------------------------------------------------------------
(* The schedule. *)

\* RotateAt retires a key with stamp t and touches no other stamp, so a lower
\* bound on the stamps of the published keys that t meets is kept.
LEMMA RotateAtStamps ==
    ASSUME TypeOK, RetentionInv, NEW t \in Time, NEW rotated \in SUBSET Enabled,
           RotateAt(t, rotated), NEW low \in Int, t + Grace > low,
           \A a \in Enabled : \A g \in retired[a] : retiredAt[a][g] + Grace > low
    PROVE  \A a \in Enabled : \A g \in retired'[a] :
              retiredAt'[a][g] + Grace > low
  <1> SUFFICES ASSUME NEW a \in Enabled, NEW g \in retired'[a]
               PROVE  retiredAt'[a][g] + Grace > low
    OBVIOUS
  <1>1. g \in Generation /\ g \in retired[a] \union {active[a]}
    BY DEF TypeOK, RingTypeOK, RotateAt, RetiredAfter, Published
  <1>2. CASE a \in rotated /\ g = active[a]
    BY <1>1, <1>2 DEF RotateAt, RetiredAfter
  <1>3. CASE a \in rotated /\ g # active[a]
    BY <1>1, <1>3 DEF RotateAt, RetiredAfter
  <1>4. CASE a \notin rotated
    BY <1>1, <1>4 DEF RotateAt, RetiredAfter
  <1> QED
    BY <1>2, <1>3, <1>4

\* The stamp of a published key is a time.
LEMMA PublishedStamp ==
    ASSUME TypeOK, RetentionInv, NEW a \in Enabled, NEW g \in retired[a]
    PROVE  retiredAt[a][g] \in Int
  <1>1. g \in Generation /\ RetiredKeyOK(a, g)
    BY DEF TypeOK, RingTypeOK, RetentionInv, RetiredKeysOK
  <1> QED
    BY <1>1 DEF RetiredKeyOK, Time

\* ScheduleInv is inductive relative to the retention invariant.
LEMMA NextSchedule ==
    ASSUME TypeOK, RetentionInv, ScheduleInv, [Next]_vars,
           MaxLag < Interval, MaxLag < Grace, rotPc' # "exited"
    PROVE  TicksInStep' /\ CleanSince'
  <1> USE NumbersAssumption DEF NumbersAssumption
  <1>a. TypeOK' /\ RetentionInv'
    BY NextType, NextRetention
  <1>b. rotPc # "exited"
    BY DEF Next, Advance, Cancel, RotationStep, RotationExit, RotationReceive,
           RotationRotate, RotationPrune, CallerStep, RotateStamp, RotateCommit,
           CallPruneAt, rotVars, vars
  <1>c. TicksInStep /\ CleanSince
    BY <1>b DEF ScheduleInv
  <1>d. /\ now \in Int /\ nextTick \in Int /\ rotNow \in Int /\ tick \in Int
        /\ Interval \in Int /\ Grace \in Int /\ MaxLag \in Int
    BY DEF TypeOK, Time, NoTick
  <1>1. CASE Advance
    <2>1. Pending => now' < nextTick
      BY <1>1, <1>b, <1>c, <1>d
         DEF Advance, WithinLag, Pending, TicksInStep, NoTick
    <2>2. CASE now + 1 = nextTick
      <3>1. ~Pending /\ TickerFires
        BY <1>1, <1>b, <1>d, <2>1, <2>2 DEF Advance, TickerFires
      <3>2. /\ tick' = nextTick /\ nextTick' = nextTick + Interval
            /\ tick' # NoTick /\ rotPc' = "select" /\ rotPc = "select"
        BY <1>1, <1>b, <1>d, <2>2, <3>1
           DEF Advance, Pending, TypeOK, NoTick, Time
      <3>3. TicksInStep'
        BY <1>1, <1>d, <2>2, <3>2 DEF Advance, TicksInStep
      <3>4. CleanSince'
        BY <1>1, <1>c, <1>d, <3>1, <3>2
           DEF Advance, CleanSince, Pending, ringVars
      <3> QED
        BY <3>3, <3>4
    <2>3. CASE now + 1 # nextTick
      <3>1. tick' = tick /\ nextTick' = nextTick
        BY <1>1, <2>3 DEF Advance, TickerFires
      <3> QED
        BY <1>1, <1>c, <1>d, <2>3, <3>1
           DEF Advance, TicksInStep, CleanSince, Pending, ringVars
    <2> QED
      BY <2>2, <2>3
  <1>2. CASE Cancel
    BY <1>2, <1>c DEF Cancel, TicksInStep, CleanSince, Pending, ringVars
  <1>3. CASE RotationExit
    BY <1>3 DEF RotationExit
  <1>4. CASE RotationReceive
    BY <1>4, <1>c DEF RotationReceive, TicksInStep, CleanSince, Pending, ringVars
  <1>5. ASSUME NEW rotated \in RotatedSets, RotationRotate(rotated)
        PROVE  TicksInStep' /\ CleanSince'
    <2>1. TicksInStep'
      BY <1>5, <1>c DEF RotationRotate, TicksInStep
    <2>2. CleanSince'
      <3> DEFINE low == nextTick - 2 * Interval
      <3> SUFFICES ASSUME ~missed, rotated = Enabled
                   PROVE  CleanSince'
        BY <1>5 DEF RotationRotate, CleanSince
      <3>1. Pending /\ Pending' /\ nextTick' = nextTick
        BY <1>5 DEF RotationRotate, Pending
      <3>2. \A a \in Enabled : \A g \in retired[a] :
               retiredAt[a][g] + Grace > low
        BY <1>c, <3>1 DEF CleanSince
      <3>3. rotNow + Grace > low /\ low \in Int /\ rotNow \in Time
        BY <1>5, <1>c, <1>d DEF RotationRotate, TicksInStep, TypeOK
      <3>4. \A a \in Enabled : \A g \in retired'[a] :
               retiredAt'[a][g] + Grace > low
        <4> HIDE DEF low
        <4> QED
          BY <1>5, <3>2, <3>3, RotateAtStamps DEF RotationRotate
      <3> QED
        BY <3>1, <3>4 DEF CleanSince
    <2> QED
      BY <2>1, <2>2
  <1>6. CASE RotationPrune
    <2>1. TicksInStep'
      BY <1>6, <1>c DEF RotationPrune, TicksInStep
    <2>2. ~Pending' /\ rotNow = nextTick - Interval /\ nextTick' = nextTick
      BY <1>6, <1>c DEF RotationPrune, TicksInStep, Pending
    <2>3. ASSUME NEW a \in Enabled, NEW g \in retired'[a]
          PROVE  retiredAt'[a][g] + Grace > nextTick - Interval
      <3>1. /\ g \in retired[a] /\ rotNow - retiredAt[a][g] < Grace
            /\ retiredAt' = retiredAt
        BY <1>6, <2>3 DEF RotationPrune, PruneAt, InGrace
      <3>2. retiredAt[a][g] \in Int
        BY <3>1, PublishedStamp
      <3> QED
        BY <1>d, <2>2, <3>1, <3>2
    <2> QED
      BY <2>1, <2>2, <2>3 DEF CleanSince
  <1>7. ASSUME NEW c \in Callers, RotateStamp(c)
        PROVE  TicksInStep' /\ CleanSince'
    BY <1>7, <1>c DEF RotateStamp, TicksInStep, CleanSince, Pending, ringVars,
                      rotVars
  <1>8. ASSUME NEW c \in Callers, NEW rotated \in RotatedSets,
               RotateCommit(c, rotated)
        PROVE  TicksInStep' /\ CleanSince'
    <2>1. TicksInStep'
      BY <1>8, <1>c DEF RotateCommit, TicksInStep, rotVars
    <2>2. CleanSince'
      <3> DEFINE low == IF Pending THEN nextTick - 2 * Interval
                        ELSE nextTick - Interval
      <3> SUFFICES ASSUME ~missed PROVE CleanSince'
        BY <1>8 DEF RotateCommit, CleanSince, rotVars
      <3>1. (Pending <=> Pending') /\ nextTick' = nextTick
        BY <1>8 DEF RotateCommit, Pending, rotVars
      <3>2. \A a \in Enabled : \A g \in retired[a] :
               retiredAt[a][g] + Grace > low
        BY <1>c DEF CleanSince
      <3>3. callNow[c] \in Time /\ now <= callNow[c] + MaxLag
        BY <1>8 DEF RotateCommit, TypeOK, RetentionInv, StampsFresh
      <3>4. callNow[c] + Grace > low /\ low \in Int
        BY <1>c, <1>d, <3>3 DEF TicksInStep, Time
      <3>5. \A a \in Enabled : \A g \in retired'[a] :
               retiredAt'[a][g] + Grace > low
        <4> HIDE DEF low
        <4> QED
          BY <1>8, <3>2, <3>3, <3>4, RotateAtStamps, RotatedSubset
             DEF RotateCommit
      <3> QED
        BY <3>1, <3>5 DEF CleanSince
    <2> QED
      BY <2>1, <2>2
  <1>9. ASSUME NEW t \in PruneTimes, CallPruneAt(t)
        PROVE  TicksInStep' /\ CleanSince'
    <2>1. TicksInStep'
      BY <1>9, <1>c DEF CallPruneAt, TicksInStep, rotVars
    <2>2. /\ \A a \in Enabled : retired'[a] \subseteq retired[a]
          /\ UNCHANGED <<retiredAt, rotVars>>
      BY <1>9 DEF CallPruneAt, PruneAt
    <2> QED
      BY <1>c, <2>1, <2>2 DEF CleanSince, Pending, rotVars
  <1>10. CASE UNCHANGED vars
    BY <1>10, <1>c DEF vars, ringVars, rotVars, TicksInStep, CleanSince, Pending
  <1> QED
    BY <1>1, <1>2, <1>3, <1>4, <1>5, <1>6, <1>7, <1>8, <1>9, <1>10
       DEF Next, RotationStep, CallerStep

\* What ScheduleInv says about the published keys that are past their grace.
LEMMA ScheduleImplies ==
    ASSUME TypeOK, RetentionInv, ScheduleInv PROVE ExpiredKeysLeave
  <1> SUFFICES ASSUME MaxLag < Interval, MaxLag < Grace, rotPc # "exited",
                      ~missed, NEW a \in Enabled, NEW g \in retired[a]
               PROVE  now < retiredAt[a][g] + Grace + Interval + MaxLag
    BY DEF ExpiredKeysLeave
  <1>1. TicksInStep /\ CleanSince
    BY DEF ScheduleInv
  <1>2. retiredAt[a][g] \in Int /\ now \in Int /\ nextTick \in Int
        /\ Interval \in Int /\ Grace \in Int /\ MaxLag \in Int
        /\ rotNow \in Int /\ tick \in Int /\ MaxLag >= 0
    BY PublishedStamp, NumbersAssumption
       DEF NumbersAssumption, TypeOK, Time, NoTick
  <1>3. CASE Pending
    <2>1. now <= nextTick - Interval + MaxLag
      BY <1>1, <1>2, <1>3 DEF Pending, TicksInStep, RetentionInv, StampsFresh
    <2> QED
      BY <1>1, <1>2, <1>3, <2>1 DEF CleanSince
  <1>4. CASE ~Pending
    BY <1>1, <1>2, <1>4 DEF CleanSince, TicksInStep
  <1> QED
    BY <1>3, <1>4

\* While the goroutine runs and its cycles succeed, a key past its grace leaves
\* the JWKS within one Interval and the lag: retired keys do not pile up.
THEOREM ExpiredLeave == Spec => []ExpiredKeysLeave
  <1>1. Init => ScheduleInv
    BY NumbersAssumption
       DEF NumbersAssumption, Init, ScheduleInv, TicksInStep, CleanSince, NoTick
  <1>2. TypeOK /\ RetentionInv /\ ScheduleInv /\ [Next]_vars => ScheduleInv'
    BY NextSchedule DEF ScheduleInv
  <1>3. TypeOK /\ RetentionInv /\ ScheduleInv => ExpiredKeysLeave
    BY ScheduleImplies
  <1> QED
    BY <1>1, <1>2, <1>3, RetentionInvariant, PTL DEF Spec

-----------------------------------------------------------------------------
(* The refinement of KeyStatus. *)

\* The state function that stands for KeyStatus!status.
LookupTable == [a \in Enabled |-> [g \in Generation |-> Lookup(a, g)]]

\* New generates the active keys of the first generation and nothing else.
LEMMA InitRefines == Init => KeyLife!StatusInit
  <1> SUFFICES ASSUME Init PROVE KeyLife!StatusInit
    OBVIOUS
  <1>1. \A a \in Enabled, g \in Generation :
          Lookup(a, g) = IF g = 0 THEN "active" ELSE "unborn"
    BY NumbersAssumption DEF Init, Lookup, Generation, NumbersAssumption
  <1> QED
    BY <1>1 DEF KeyLife!StatusInit

\* A rotation, complete or cut short, replaces the active keys of the algorithms
\* it has handled by keys that were not there before.
LEMMA RotateRefines ==
    ASSUME TypeOK, RetiredKeysOK, NEW t, NEW rotated \in SUBSET Enabled,
           RotateAt(t, rotated)
    PROVE  KeyLife!StatusNext
  <1> DEFINE fresh == [a \in rotated |-> active[a] + 1]
  <1>1. /\ active \in [Enabled -> Generation]
        /\ retired \in [Enabled -> SUBSET Generation]
        /\ \A a \in Enabled : \A g \in retired[a] : g < active[a]
    BY DEF TypeOK, RingTypeOK, RetiredKeysOK
  <1>2. fresh \in [rotated -> Generation]
    BY <1>1, NumbersAssumption DEF RotateAt, Generation, NumbersAssumption
  <1>3. ASSUME NEW a \in rotated PROVE Lookup(a, fresh[a]) = "unborn"
    <2>1. a \in Enabled /\ active[a] \in Int /\ fresh[a] = active[a] + 1
      BY <1>1, NumbersAssumption DEF Generation, NumbersAssumption
    <2>2. fresh[a] # active[a] /\ fresh[a] \notin retired[a]
             /\ ~(fresh[a] < active[a])
      BY <1>1, <2>1
    <2> HIDE DEF fresh
    <2> QED
      BY <2>2 DEF Lookup
  <1>4. ASSUME NEW a \in Enabled, NEW g \in Generation
        PROVE  Lookup(a, g)' =
                 IF a \notin rotated THEN Lookup(a, g)
                 ELSE IF g = fresh[a] THEN "active"
                 ELSE IF Lookup(a, g) = "active" THEN "retired"
                 ELSE Lookup(a, g)
    <2>1. g \in Int /\ active[a] \in Int
      BY <1>1, NumbersAssumption DEF Generation, NumbersAssumption
    <2>2. /\ active'[a] = IF a \in rotated THEN active[a] + 1 ELSE active[a]
          /\ retired'[a] = IF a \in rotated THEN retired[a] \union {active[a]}
                           ELSE retired[a]
      BY DEF RotateAt, RetiredAfter, Published
    <2>3. CASE a \notin rotated
      BY <2>2, <2>3 DEF Lookup
    <2>4. CASE a \in rotated /\ g = active[a]
      BY <2>1, <2>2, <2>4 DEF Lookup
    <2>5. CASE a \in rotated /\ g # active[a]
      BY <1>1, <2>1, <2>2, <2>5 DEF Lookup
    <2> QED
      BY <2>3, <2>4, <2>5
  <1>5. KeyLife!Replace(rotated, fresh)
    BY <1>2, <1>3, <1>4 DEF KeyLife!Replace
  <1> QED
    BY <1>2, <1>5 DEF KeyLife!StatusNext

\* A pruning drops retired keys only.
LEMMA PruneRefines ==
    ASSUME TypeOK, RetiredKeysOK, NEW t, PruneAt(t)
    PROVE  KeyLife!StatusNext
  <1> DEFINE dropped == {p \in Enabled \X Generation :
                           /\ p[2] \in retired[p[1]]
                           /\ p[2] \notin retired'[p[1]]}
  <1>1. /\ active' = active
        /\ \A a \in Enabled : retired'[a] \subseteq retired[a]
        /\ \A a \in Enabled : \A g \in retired[a] : g < active[a]
        /\ \A a \in Enabled : active[a] \in Int
    BY NumbersAssumption
       DEF PruneAt, TypeOK, RingTypeOK, RetiredKeysOK, Generation,
           NumbersAssumption
  <1>2. \A p \in dropped : Lookup(p[1], p[2]) = "retired"
    BY <1>1 DEF Lookup
  <1>3. ASSUME NEW a \in Enabled, NEW g \in Generation
        PROVE  Lookup(a, g)' = IF <<a, g>> \in dropped THEN "gone"
                               ELSE Lookup(a, g)
    BY <1>1 DEF Lookup
  <1>4. dropped \in SUBSET (Enabled \X Generation)
    OBVIOUS
  <1>5. KeyLife!Drop(dropped)
    BY <1>2, <1>3, <1>4 DEF KeyLife!Drop
  <1> QED
    BY <1>4, <1>5 DEF KeyLife!StatusNext

\* Every step of KeyRing is a step of KeyStatus or leaves every status alone.
LEMMA NextRefines ==
    ASSUME TypeOK, RetentionInv, [Next]_vars
    PROVE  [KeyLife!StatusNext]_LookupTable
  <1>1. RetiredKeysOK
    BY DEF RetentionInv
  <1>2. ASSUME UNCHANGED <<active, retired>>
        PROVE  UNCHANGED LookupTable
    BY <1>2 DEF LookupTable, Lookup
  <1>3. CASE \E rotated \in RotatedSets : RotationRotate(rotated)
    BY <1>1, <1>3, RotatedSubset, RotateRefines DEF RotationRotate
  <1>4. CASE \E c \in Callers, rotated \in RotatedSets : RotateCommit(c, rotated)
    BY <1>1, <1>4, RotatedSubset, RotateRefines DEF RotateCommit
  <1>5. CASE RotationPrune
    BY <1>1, <1>5, PruneRefines DEF RotationPrune
  <1>6. CASE \E t \in PruneTimes : CallPruneAt(t)
    BY <1>1, <1>6, PruneRefines DEF CallPruneAt
  <1>7. CASE \/ Advance \/ Cancel \/ RotationExit \/ RotationReceive
             \/ \E c \in Callers : RotateStamp(c)
             \/ UNCHANGED vars
    BY <1>2, <1>7 DEF Advance, Cancel, RotationExit, RotationReceive,
                      RotateStamp, vars, ringVars
  <1> QED
    BY <1>3, <1>4, <1>5, <1>6, <1>7 DEF Next, RotationStep, CallerStep

\* KeyRing implements KeyStatus: for every algorithm set, grace, interval and
\* lag, and whatever the goroutine, the callers and failing key generations do,
\* what Lookup says of a kid goes from active to retired to gone, and each
\* algorithm has one active key in every state.
THEOREM KeyLifeImplemented == Spec => KeyLifeSpec
  <1>1. Init => KeyLife!StatusInit
    BY InitRefines
  <1>2. TypeOK /\ RetentionInv /\ [Next]_vars
          => [KeyLife!StatusNext]_LookupTable
    BY NextRefines
  <1> QED
    BY <1>1, <1>2, RetentionInvariant, PTL
       DEF Spec, KeyLifeSpec, KeyLife!StatusSpec, LookupTable

=============================================================================
