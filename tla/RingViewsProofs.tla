-------------------------- MODULE RingViewsProofs --------------------------
(***************************************************************************)
(* TLAPS proofs about RingViews, for any number of viewers and rotations:  *)
(* what Keys and the health document say of the ring while it moves on.    *)
(***************************************************************************)
EXTENDS RingViews, KeyRingProofs

Entry == [alg : Enabled, kid : Generation, retiredAt : Time \union {NotRetired},
          retired : BOOLEAN]

ViewsTypeOK ==
    /\ viewPc \in [Viewers -> {"idle", "keys", "health"}]
    /\ since \in [Viewers -> Time]
    /\ listed \in [Viewers -> SUBSET Entry]

\* A key listed as retired has its final stamp.  One listed as current still is,
\* with the stamp that was read, or it was replaced after the call began.
EntryOK(v, k) ==
    /\ k.retired =>
          /\ k.kid < active[k.alg]
          /\ retiredAt[k.alg][k.kid] = k.retiredAt
    /\ ~k.retired =>
          \/ /\ k.kid = active[k.alg]
             /\ viewPc[v] = "keys" => retiredAt[k.alg][k.kid] = k.retiredAt
          \/ /\ k.kid < active[k.alg]
             /\ lastUsed[k.alg][k.kid] >= since[v]

\* The snapshot of Keys has one current key per algorithm.
OneCurrent(v) ==
    viewPc[v] = "keys" => \A k, l \in listed[v] :
        (k.alg = l.alg /\ ~k.retired /\ ~l.retired) => k.kid = l.kid

ViewsOK ==
    \A v \in Viewers :
        /\ since[v] <= now
        /\ \A k \in listed[v] : EntryOK(v, k)
        /\ OneCurrent(v)

ViewsInv == TypeOK /\ RetentionInv /\ ViewsTypeOK /\ ViewsOK

-----------------------------------------------------------------------------
(* The ring under its viewers. *)

\* RotateAt replaces the active key, records when it did, and leaves the keys
\* retired before alone.
LEMMA RotateAtKeeps ==
    ASSUME TypeOK, NEW t \in Time, NEW rotated \in SUBSET Enabled,
           RotateAt(t, rotated), NEW a \in Enabled, NEW g \in Generation
    PROVE  /\ g < active[a] =>
                 /\ g < active'[a] /\ retiredAt'[a][g] = retiredAt[a][g]
                 /\ lastUsed'[a][g] = lastUsed[a][g]
           /\ g = active[a] =>
                 \/ g = active'[a] /\ retiredAt'[a][g] = retiredAt[a][g]
                 \/ g < active'[a] /\ lastUsed'[a][g] = now
  <1>1. active[a] \in Int /\ g \in Int
    BY NumbersAssumption DEF NumbersAssumption, TypeOK, RingTypeOK, Generation
  <1>2. CASE a \in rotated
    BY <1>1, <1>2 DEF RotateAt
  <1>3. CASE a \notin rotated
    BY <1>1, <1>3 DEF RotateAt
  <1> QED
    BY <1>2, <1>3

\* The same of every step of the ring.
LEMMA RingKeeps ==
    ASSUME TypeOK, [Next]_vars, NEW a \in Enabled, NEW g \in Generation
    PROVE  /\ now <= now'
           /\ g < active[a] =>
                 /\ g < active'[a] /\ retiredAt'[a][g] = retiredAt[a][g]
                 /\ lastUsed'[a][g] = lastUsed[a][g]
           /\ g = active[a] =>
                 \/ g = active'[a] /\ retiredAt'[a][g] = retiredAt[a][g]
                 \/ g < active'[a] /\ lastUsed'[a][g] = now
  <1>a. now \in Int
    BY NumbersAssumption DEF NumbersAssumption, TypeOK, Time
  <1>1. ASSUME NEW rotated \in RotatedSets, RotationRotate(rotated)
        PROVE  now' = now /\ \E t \in Time : RotateAt(t, rotated)
    BY <1>1 DEF RotationRotate, TypeOK
  <1>2. ASSUME NEW c \in Callers, NEW rotated \in RotatedSets,
               RotateCommit(c, rotated)
        PROVE  now' = now /\ \E t \in Time : RotateAt(t, rotated)
    BY <1>2 DEF RotateCommit, TypeOK
  <1>3. CASE \E rotated \in RotatedSets : now' = now /\ \E t \in Time :
                RotateAt(t, rotated)
    BY <1>a, <1>3, RotatedSubset, RotateAtKeeps
  <1>4. CASE Advance \/ Cancel \/ RotationExit \/ RotationReceive \/ RotationPrune
             \/ (\E c \in Callers : RotateStamp(c))
             \/ (\E t \in PruneTimes : CallPruneAt(t)) \/ UNCHANGED vars
    <2>1. UNCHANGED <<active, retiredAt, lastUsed>> /\ now' \in {now, now + 1}
      BY <1>4 DEF Advance, Cancel, RotationExit, RotationReceive, RotationPrune,
                  PruneAt, RotateStamp, CallPruneAt, ringVars, vars
    <2> QED
      BY <1>a, <2>1
  <1> QED
    BY <1>1, <1>2, <1>3, <1>4 DEF Next, RotationStep, CallerStep

\* Viewers do not touch the ring.
LEMMA ViewsStepRing == [ViewsNext]_allVars => [Next]_vars
  BY DEF ViewsNext, ViewStep, KeysSnapshot, KeysReturn, HealthBegin, HealthRead,
         HealthReturn, Call, Return, allVars

-----------------------------------------------------------------------------
(* The invariant. *)

\* The entries of a snapshot are well typed, current exactly if active, and
\* carry the stamps of the ring.
LEMMA SnapshotOK ==
    ASSUME TypeOK, RetentionInv, NEW k \in Snapshot
    PROVE  /\ k \in Entry
           /\ k.retiredAt = retiredAt[k.alg][k.kid]
           /\ k.retired => k.kid < active[k.alg]
           /\ ~k.retired => k.kid = active[k.alg]
  <1>0. PICK a \in Enabled : \E g \in Published(a) :
           k = KeyInfo(a, g, retiredAt[a][g], g # active[a])
    BY DEF Snapshot
  <1>1. PICK g \in Published(a) :
           k = KeyInfo(a, g, retiredAt[a][g], g # active[a])
    BY <1>0
  <1>2. /\ g \in Generation /\ retiredAt[a][g] \in Time \union {NotRetired}
        /\ g # active[a] => g < active[a]
    BY <1>1 DEF Published, TypeOK, RingTypeOK, RetentionInv, RetiredKeysOK
  <1> QED
    BY <1>1, <1>2 DEF KeyInfo, Entry

\* A step of the ring.
LEMMA RingStepViews ==
    ASSUME ViewsInv, [Next]_vars, UNCHANGED viewVars
    PROVE  ViewsTypeOK' /\ ViewsOK'
  <1>1. ViewsTypeOK'
    BY DEF ViewsInv, ViewsTypeOK, viewVars
  <1>2. ASSUME NEW v \in Viewers
        PROVE  since'[v] <= now' /\ OneCurrent(v)'
               /\ \A k \in listed'[v] : EntryOK(v, k)'
    <2>1. now \in Int /\ now' \in Int /\ since[v] \in Int /\ since[v] <= now
      BY NextType, NumbersAssumption
         DEF NumbersAssumption, ViewsInv, ViewsOK, TypeOK, Time, ViewsTypeOK
    <2>2. PICK a \in Enabled : active[a] \in Generation
      BY EnabledAssumption DEF EnabledAssumption, ViewsInv, TypeOK, RingTypeOK
    <2>3. now <= now'
      BY <2>2, RingKeeps DEF ViewsInv
    <2>4. OneCurrent(v)'
      BY DEF ViewsInv, ViewsOK, OneCurrent, viewVars
    <2>5. ASSUME NEW k \in listed[v]
          PROVE  EntryOK(v, k)'
      <3>1. k.alg \in Enabled /\ k.kid \in Generation /\ EntryOK(v, k)
        BY DEF ViewsInv, ViewsTypeOK, ViewsOK, Entry
      <3>2. k.kid \in Int /\ active[k.alg] \in Int
        BY <3>1 DEF ViewsInv, TypeOK, RingTypeOK, Generation
      <3>3. CASE k.kid < active[k.alg]
        BY <3>1, <3>2, <3>3, RingKeeps DEF ViewsInv, EntryOK, viewVars
      <3>4. CASE k.kid = active[k.alg]
        BY <2>1, <3>1, <3>2, <3>4, RingKeeps DEF ViewsInv, EntryOK, viewVars
      <3> QED
        BY <3>1, <3>3, <3>4 DEF EntryOK
    <2> QED
      BY <2>1, <2>3, <2>4, <2>5 DEF viewVars
  <1> QED
    BY <1>1, <1>2 DEF ViewsOK

\* A step of a viewer.
LEMMA ViewStepViews ==
    ASSUME ViewsInv, ViewStep
    PROVE  ViewsTypeOK' /\ ViewsOK'
  <1> USE DEF ViewsInv
  <1>1. PICK v \in Viewers : \/ KeysSnapshot(v) \/ KeysReturn(v) \/ HealthBegin(v)
                             \/ HealthRead(v) \/ HealthReturn(v)
    BY DEF ViewStep
  <1>2. UNCHANGED vars
    BY <1>1 DEF KeysSnapshot, KeysReturn, HealthBegin, HealthRead, HealthReturn,
                Call, Return
  <1>3. UNCHANGED <<now, active, retiredAt, lastUsed>>
    BY <1>2 DEF vars, ringVars
  <1>4. now \in Time /\ 0 \in Time /\ \A t \in Time : t \in Int /\ 0 <= t
    BY NumbersAssumption DEF NumbersAssumption, TypeOK, Time
  <1>5. ASSUME NEW w \in Viewers, UNCHANGED <<viewPc[w], since[w], listed[w]>>
        PROVE  /\ since'[w] <= now' /\ OneCurrent(w)'
               /\ \A k \in listed'[w] : EntryOK(w, k)'
    BY <1>3, <1>5 DEF ViewsOK, OneCurrent, EntryOK
  <1>6. ASSUME ViewsTypeOK',
               \A w \in Viewers \ {v} : UNCHANGED <<viewPc[w], since[w], listed[w]>>,
               since'[v] <= now', OneCurrent(v)',
               \A k \in listed'[v] : EntryOK(v, k)'
        PROVE  ViewsTypeOK' /\ ViewsOK'
    BY <1>5, <1>6 DEF ViewsOK
  <1>7. CASE KeysSnapshot(v)
    <2>1. /\ viewPc' = [viewPc EXCEPT ![v] = "keys"]
          /\ since' = [since EXCEPT ![v] = now]
          /\ listed' = [listed EXCEPT ![v] = Snapshot]
      BY <1>7 DEF KeysSnapshot, Call
    <2>2. Snapshot \subseteq Entry
      BY SnapshotOK
    <2>3. ViewsTypeOK'
      BY <1>4, <2>1, <2>2 DEF ViewsTypeOK
    <2>4. viewPc'[v] = "keys" /\ since'[v] = now /\ listed'[v] = Snapshot
      BY <2>1 DEF ViewsTypeOK
    <2>5. OneCurrent(v)' /\ \A k \in listed'[v] : EntryOK(v, k)'
      BY <1>3, <2>4, SnapshotOK DEF OneCurrent, EntryOK
    <2> QED
      BY <1>3, <1>4, <1>6, <2>1, <2>3, <2>4, <2>5 DEF ViewsTypeOK
  <1>8. CASE HealthBegin(v) \/ KeysReturn(v) \/ HealthReturn(v)
    <2>1. PICK pc \in {"health", "idle"}, s \in {0, now} :
             /\ viewPc' = [viewPc EXCEPT ![v] = pc]
             /\ since' = [since EXCEPT ![v] = s]
             /\ listed' = [listed EXCEPT ![v] = {}]
      BY <1>8 DEF HealthBegin, KeysReturn, HealthReturn, Call, Return
    <2>2. ViewsTypeOK'
      BY <1>4, <2>1 DEF ViewsTypeOK
    <2>3. listed'[v] = {} /\ since'[v] = s
      BY <2>1 DEF ViewsTypeOK
    <2> QED
      BY <1>3, <1>4, <1>6, <2>1, <2>2, <2>3 DEF ViewsTypeOK, OneCurrent
  <1>9. CASE HealthRead(v)
    <2>1. PICK a \in Enabled :
             listed' = [listed EXCEPT ![v] =
                @ \union {KeyInfo(a, active[a], NotRetired, FALSE)}]
      BY <1>9 DEF HealthRead, Unread, ActiveKid
    <2> DEFINE new == KeyInfo(a, active[a], NotRetired, FALSE)
    <2>2. /\ new \in Entry /\ ~new.retired /\ new.alg = a
          /\ new.kid = active[new.alg]
      BY DEF KeyInfo, Entry, TypeOK, RingTypeOK
    <2>3. viewPc[v] = "health" /\ UNCHANGED <<viewPc, since>>
      BY <1>9 DEF HealthRead
    <2>4. listed'[v] = listed[v] \union {new}
      BY <2>1 DEF ViewsTypeOK
    <2> HIDE DEF new
    <2>5. ViewsTypeOK'
      BY <2>1, <2>2, <2>3 DEF ViewsTypeOK, new
    <2>6. OneCurrent(v)' /\ \A k \in listed'[v] : EntryOK(v, k)'
      BY <1>3, <2>2, <2>3, <2>4 DEF OneCurrent, EntryOK, ViewsOK
    <2> QED
      BY <1>3, <1>6, <2>1, <2>3, <2>5, <2>6 DEF ViewsTypeOK, ViewsOK
  <1> QED
    BY <1>1, <1>7, <1>8, <1>9

-----------------------------------------------------------------------------
\* Viewers leave the ring's behaviour as it is, so that what is proved of
\* KeyRing holds of it here.
THEOREM ViewsLeaveRing == ViewsSpec => Spec
  <1>1. ViewsInit => Init
    BY DEF ViewsInit
  <1> QED
    BY <1>1, ViewsStepRing, PTL DEF ViewsSpec, Spec

\* The inductive invariant of the viewers.
THEOREM ViewsInvariant == ViewsSpec => []ViewsInv
  <1> DEFINE Own == ViewsTypeOK /\ ViewsOK
  <1>1. ViewsInit => Own
    BY NumbersAssumption
       DEF NumbersAssumption, ViewsInit, Init, ViewsTypeOK, ViewsOK, OneCurrent, Time
  <1>2. TypeOK /\ RetentionInv /\ Own /\ [ViewsNext]_allVars => Own'
    <2> SUFFICES ASSUME ViewsInv, [ViewsNext]_allVars PROVE Own'
      BY DEF ViewsInv
    <2>1. [Next]_vars
      BY ViewsStepRing
    <2>2. CASE ViewStep
      BY <2>2, ViewStepViews
    <2>3. CASE UNCHANGED viewVars
      BY <2>1, <2>3, RingStepViews
    <2> QED
      BY <2>2, <2>3 DEF ViewsNext, allVars
  <1>3. TypeOK /\ RetentionInv /\ Own => ViewsInv
    BY DEF ViewsInv
  <1> HIDE DEF Own
  <1> QED
    BY <1>1, <1>2, <1>3, ViewsLeaveRing, RetentionInvariant, PTL DEF ViewsSpec

\* A result of Keys shows at most one current key per algorithm, and as retired
\* only keys that sign no more, whichever rotations race with its reads.
THEOREM KeysAreConsistent == ViewsSpec => []KeysConsistent
  <1>1. ViewsInv => KeysConsistent
    <2> SUFFICES ASSUME ViewsInv, NEW v \in Viewers, viewPc[v] = "keys",
                        NEW k \in listed[v], NEW e \in ReadKey(k)
                 PROVE  IF e.retired THEN e.kid < active[e.alg]
                        ELSE \A l \in listed[v] :
                                (l.alg = e.alg /\ ~l.retired) => l.kid = e.kid
      BY DEF KeysConsistent, KeysEntries
    <2>1. k \in Entry /\ EntryOK(v, k) /\ OneCurrent(v)
      BY DEF ViewsInv, ViewsTypeOK, ViewsOK
    <2>2. CASE retiredAt[k.alg][k.kid] = k.retiredAt
      <3>1. e = k
        BY <2>2 DEF ReadKey
      <3> QED
        BY <2>1, <3>1 DEF EntryOK, OneCurrent
    <2>3. CASE retiredAt[k.alg][k.kid] # k.retiredAt
      <3>1. e.alg = k.alg /\ e.kid = k.kid
        BY <2>3 DEF ReadKey, KeyInfo
      <3>2. ~k.retired /\ k.kid < active[k.alg]
        BY <2>1, <2>3 DEF EntryOK
      <3> QED
        BY <2>1, <3>1, <3>2 DEF OneCurrent
    <2> QED
      BY <2>2, <2>3
  <1> QED
    BY <1>1, ViewsInvariant, PTL

\* A kid named as current can be looked up for Grace less the lag after the call
\* began, however many rotations and prunings come in between.
THEOREM NamedIsFound == ViewsSpec => []NamedKidFound
  <1>1. ViewsInv => NamedKidFound
    <2> SUFFICES ASSUME ViewsInv, NEW v \in Viewers, NEW k \in listed[v],
                        ~k.retired, ~Found(k.alg, k.kid)
                 PROVE  horizon >= since[v] + Grace - MaxLag
      BY DEF NamedKidFound
    <2>1. k.alg \in Enabled /\ k.kid \in Generation /\ EntryOK(v, k)
      BY DEF ViewsInv, ViewsTypeOK, ViewsOK, Entry
    <2>2. /\ k.kid < active[k.alg] /\ k.kid \notin retired[k.alg]
          /\ lastUsed[k.alg][k.kid] >= since[v]
      BY <2>1 DEF EntryOK, Found, Published
    <2>3. /\ lastUsed[k.alg][k.kid] \in Int /\ since[v] \in Int /\ horizon \in Int
      BY <2>1, <2>2, NumbersAssumption
         DEF NumbersAssumption, ViewsInv, ViewsTypeOK, RetentionInv, RetiredKeysOK,
             RetiredKeyOK, TypeOK, Time
    <2>4. horizon >= lastUsed[k.alg][k.kid] + Grace - MaxLag
      BY <2>1, <2>2, RetentionImplies DEF ViewsInv, RetainedForGrace
    <2> QED
      BY <2>2, <2>3, <2>4, NumbersAssumption DEF NumbersAssumption
  <1> QED
    BY <1>1, ViewsInvariant, PTL

=============================================================================
