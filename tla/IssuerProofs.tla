---------------------------- MODULE IssuerProofs ----------------------------
(***************************************************************************)
(* TLAPS proofs about Issuer: the grace rule, for every configuration      *)
(* whose grace exceeds the longest lifetime by the rotations' lag.         *)
(***************************************************************************)
EXTENDS Issuer, KeyRingProofs

\* RotateAt only moves an algorithm's active key forward, and records when the
\* key it retires signed last.
LEMMA RotateAtCovers ==
    ASSUME TypeOK, now' = now, NEW t \in Time, NEW rotated \in SUBSET Enabled,
           RotateAt(t, rotated), MaxTTL \in Nat,
           NEW a \in Enabled
    PROVE  /\ active'[a] >= active[a]
           /\ \A g, exp \in Int : KeyCovers(a, g, exp) => KeyCovers(a, g, exp)'
  <1>1. active[a] \in Int /\ now \in Int
    BY NumbersAssumption DEF NumbersAssumption, TypeOK, RingTypeOK, Generation,
                             Time
  <1>2. active'[a] \in {active[a], active[a] + 1}
    BY DEF RotateAt, RetiredAfter
  <1>3. ASSUME NEW g \in Int, NEW exp \in Int, KeyCovers(a, g, exp)
        PROVE  KeyCovers(a, g, exp)'
    <2>1. g \in Generation
      BY <1>1, <1>3, NumbersAssumption
         DEF NumbersAssumption, KeyCovers, TypeOK, RingTypeOK, Generation
    <2>2. CASE a \notin rotated
      BY <1>3, <2>1, <2>2 DEF RotateAt, RetiredAfter, KeyCovers
    <2>3. CASE a \in rotated /\ g = active[a]
      <3>1. lastUsed'[a][g] = now /\ active'[a] = active[a] + 1
        BY <2>1, <2>3 DEF RotateAt, RetiredAfter
      <3> QED
        BY <1>1, <1>3, <2>3, <3>1 DEF KeyCovers
    <2>4. CASE a \in rotated /\ g # active[a]
      <3>1. lastUsed'[a][g] = lastUsed[a][g] /\ active'[a] = active[a] + 1
        BY <2>1, <2>4 DEF RotateAt, RetiredAfter
      <3> QED
        BY <1>1, <1>3, <2>4, <3>1 DEF KeyCovers
    <2> QED
      BY <2>2, <2>3, <2>4
  <1> QED
    BY <1>1, <1>2, <1>3

\* No step of the ring makes a key cover less.
LEMMA RingCovers ==
    ASSUME TypeOK, RetentionInv, [Next]_vars, NEW a \in Enabled
    PROVE  /\ active'[a] >= active[a]
           /\ \A g, exp \in Int : KeyCovers(a, g, exp) => KeyCovers(a, g, exp)'
  <1> USE LifetimesAssumption DEF LifetimesAssumption
  <1>a. active[a] \in Int /\ now \in Int
    BY NumbersAssumption DEF NumbersAssumption, TypeOK, RingTypeOK, Generation,
                             Time
  <1>1. CASE Advance
    <2>1. now' = now + 1 /\ active' = active /\ lastUsed' = lastUsed
      BY <1>1 DEF Advance, ringVars
    <2>2. ASSUME NEW g \in Int, NEW exp \in Int, KeyCovers(a, g, exp)
          PROVE  KeyCovers(a, g, exp)'
      BY <1>a, <2>1, <2>2 DEF KeyCovers
    <2> QED
      BY <1>a, <2>1, <2>2
  <1>2. CASE UNCHANGED <<now, active, lastUsed>>
    BY <1>a, <1>2 DEF KeyCovers
  <1>3. ASSUME NEW rotated \in RotatedSets, RotationRotate(rotated)
        PROVE  /\ active'[a] >= active[a]
               /\ \A g, exp \in Int :
                     KeyCovers(a, g, exp) => KeyCovers(a, g, exp)'
    BY <1>3, RotatedSubset, RotateAtCovers DEF RotationRotate, TypeOK
  <1>4. ASSUME NEW c \in Callers, NEW rotated \in RotatedSets,
               RotateCommit(c, rotated)
        PROVE  /\ active'[a] >= active[a]
               /\ \A g, exp \in Int :
                     KeyCovers(a, g, exp) => KeyCovers(a, g, exp)'
    BY <1>4, RotatedSubset, RotateAtCovers DEF RotateCommit, TypeOK
  <1>5. CASE Cancel \/ RotationExit \/ RotationReceive \/ RotationPrune
             \/ (\E c \in Callers : RotateStamp(c))
             \/ (\E t \in PruneTimes : CallPruneAt(t)) \/ UNCHANGED vars
    <2>1. UNCHANGED <<now, active, lastUsed>>
      BY <1>5 DEF Cancel, RotationExit, RotationReceive, RotationPrune, PruneAt,
                  RotateStamp, CallPruneAt, ringVars, vars
    <2> QED
      BY <1>2, <2>1
  <1> QED
    BY <1>1, <1>3, <1>4, <1>5 DEF Next, RotationStep, CallerStep

-----------------------------------------------------------------------------
\* The requests' state keeps its type.
LEMMA NextIssuerType ==
    ASSUME IssuerTypeOK, MintersOK, [IssuerNext]_issuerVars
    PROVE  IssuerTypeOK'
  <1> USE LifetimesAssumption DEF LifetimesAssumption
  <1>1. CASE RingStep \/ UNCHANGED issuerVars
    <2>1. TypeOK'
      BY <1>1, NextType DEF IssuerTypeOK, RingStep, issuerVars
    <2> QED
      BY <1>1, <2>1 DEF IssuerTypeOK, RingStep, issuerVars, mintVars
  <1>2. CASE UNCHANGED vars /\ MintStep
    <2>1. TypeOK'
      BY <1>2, NextType DEF IssuerTypeOK
    <2>2. ASSUME NEW m \in Minters, NEW raw \in RequestAlgs,
                 NEW life \in Lifetimes, MintStamp(m, raw, life)
          PROVE  IssuerTypeOK'
      <3>1. ResolveAlg(raw) \in AllAlgorithms
        BY <2>2 DEF MintStamp
      <3>2. now + life \in Int
        BY NumbersAssumption DEF NumbersAssumption, IssuerTypeOK, TypeOK, Time
      <3>3. (IF ResolveAlg(raw) \in Enabled THEN active[ResolveAlg(raw)] ELSE 0)
               \in Generation
        BY NumbersAssumption
           DEF NumbersAssumption, IssuerTypeOK, TypeOK, RingTypeOK, Generation
      <3> QED
        BY <2>1, <2>2, <3>1, <3>2, <3>3 DEF IssuerTypeOK, MintStamp, MintPc
    <2>3. ASSUME NEW m \in Minters, NEW raw \in RequestAlgs,
                 NEW life \in Lifetimes, MintReject(m, raw, life)
          PROVE  IssuerTypeOK'
      BY <2>1, <2>3 DEF IssuerTypeOK, MintReject, MintPc
    <2>4. ASSUME NEW m \in Minters, Signer(m) PROVE IssuerTypeOK'
      <3>1. mAlg[m] \in Enabled => active[mAlg[m]] \in Generation
        BY DEF IssuerTypeOK, TypeOK, RingTypeOK
      <3>2. mPc' \in [Minters -> MintPc]
        BY <2>4 DEF IssuerTypeOK, Signer, MintPc
      <3>3. mKid' \in [Minters -> Generation \union {NoKid}]
        BY <2>4, <3>1 DEF IssuerTypeOK, Signer
      <3> QED
        BY <2>1, <2>4, <3>2, <3>3 DEF IssuerTypeOK, Signer
    <2>5. ASSUME NEW m \in Minters, Sign(m) PROVE IssuerTypeOK'
      <3>1. mAlg[m] \in Enabled /\ mKid[m] \in Generation /\ mExp[m] \in Int
        BY <2>5, NumbersAssumption
           DEF NumbersAssumption, Sign, IssuerTypeOK, MintersOK, KeyCovers, NoKid
      <3> QED
        BY <2>1, <2>5, <3>1 DEF IssuerTypeOK, Sign, MintPc
    <2>6. ASSUME NEW m \in Minters, Audit(m) PROVE IssuerTypeOK'
      <3>1. mAlg[m] \in Enabled /\ mKid[m] \in Generation
               /\ active[mAlg[m]] \in Generation
        BY <2>6, NumbersAssumption
           DEF NumbersAssumption, Audit, IssuerTypeOK, MintersOK, KeyCovers,
               NoKid, TypeOK, RingTypeOK
      <3> QED
        BY <2>1, <2>6, <3>1 DEF IssuerTypeOK, Audit, MintPc
    <2> QED
      BY <1>2, <2>2, <2>3, <2>4, <2>5, <2>6 DEF MintStep
  <1>3. MintStep => UNCHANGED vars
    BY DEF MintStep, MintStamp, MintReject, Signer, Sign, Audit
  <1> QED
    BY <1>1, <1>2, <1>3 DEF IssuerNext

\* A step of the ring keeps what is known of the requests and the tokens.
LEMMA RingStepMint ==
    ASSUME IssuerTypeOK, RetentionInv, MintersOK, TokensOK,
           [Next]_vars, UNCHANGED mintVars
    PROVE  MintersOK' /\ TokensOK'
  <1> USE LifetimesAssumption, NumbersAssumption
      DEF LifetimesAssumption, NumbersAssumption
  <1>a. TypeOK
    BY DEF IssuerTypeOK
  <1>1. now' >= now /\ now \in Int /\ now' \in Int
    <2>1. now' \in {now, now + 1}
      BY DEF Next, Advance, Cancel, RotationStep, RotationExit, RotationReceive,
             RotationRotate, RotationPrune, CallerStep, RotateStamp,
             RotateCommit, CallPruneAt, vars
    <2> QED
      BY <1>a, <2>1 DEF TypeOK, Time
  <1>2. ASSUME NEW m \in Minters
        PROVE  /\ mPc'[m] = "stamped" =>
                     /\ MaxTTL > 0 => mExp'[m] <= now' + MaxTTL
                     /\ mAlg'[m] \in Enabled => mFloor'[m] <= active'[mAlg'[m]]
               /\ mPc'[m] \in {"signing", "minted", "done"} =>
                     /\ mAlg'[m] \in Enabled
                     /\ mFloor'[m] <= mKid'[m]
                     /\ KeyCovers(mAlg[m], mKid[m], mExp[m])'
    <2>1. /\ mExp[m] \in Int /\ mFloor[m] \in Int /\ mKid[m] \in Int
          /\ \A a \in Enabled : active[a] \in Int /\ active'[a] \in Int
      BY <1>a, NextType
         DEF IssuerTypeOK, TypeOK, RingTypeOK, Generation, NoKid
    <2>2. CASE mPc[m] = "stamped"
      <3>1. MaxTTL > 0 => mExp[m] <= now' + MaxTTL
        BY <1>1, <2>1, <2>2 DEF MintersOK
      <3>2. mAlg[m] \in Enabled => mFloor[m] <= active'[mAlg[m]]
        BY <1>a, <2>1, <2>2, RingCovers DEF MintersOK
      <3> QED
        BY <2>2, <3>1, <3>2 DEF mintVars
    <2>3. CASE mPc[m] \in {"signing", "minted", "done"}
      <3>1. /\ mAlg[m] \in Enabled /\ mFloor[m] <= mKid[m]
            /\ KeyCovers(mAlg[m], mKid[m], mExp[m])
        BY <2>3 DEF MintersOK
      <3> DEFINE a == mAlg[m]
      <3>2. \A g, exp \in Int : KeyCovers(a, g, exp) =>
               /\ g \in 0..active'[a]
               /\ MaxTTL > 0 =>
                     exp <= (IF g = active'[a] THEN now' ELSE lastUsed'[a][g])
                            + MaxTTL
        <4> HIDE DEF a
        <4>1. a \in Enabled
          BY <3>1 DEF a
        <4> QED
          BY <1>a, <4>1, RingCovers DEF KeyCovers
      <3> QED
        BY <2>1, <2>3, <3>1, <3>2 DEF KeyCovers, mintVars
    <2> QED
      BY <2>2, <2>3 DEF mintVars
  <1>3. ASSUME NEW tok \in tokens PROVE KeyCovers(tok.alg, tok.kid, tok.exp)'
    <2>1. tok.alg \in Enabled /\ tok.kid \in Int /\ tok.exp \in Int
      BY DEF IssuerTypeOK, Generation
    <2>2. KeyCovers(tok.alg, tok.kid, tok.exp)
      BY DEF TokensOK
    <2> QED
      BY <1>a, <2>1, <2>2, RingCovers
  <1> QED
    BY <1>2, <1>3 DEF MintersOK, TokensOK, mintVars

\* A step of a request keeps it as well.  Signer hands out a key that is active
\* at that moment, so a stamp taken earlier is covered by it.
LEMMA MintStepMint ==
    ASSUME IssuerTypeOK, MintersOK, TokensOK, MintStep
    PROVE  MintersOK' /\ TokensOK'
  <1> USE LifetimesAssumption, NumbersAssumption
      DEF LifetimesAssumption, NumbersAssumption
  <1>a. UNCHANGED <<now, active, lastUsed>>
    BY DEF MintStep, MintStamp, MintReject, Signer, Sign, Audit, vars, ringVars
  <1>b. now \in Int /\ \A a \in Enabled : active[a] \in Int /\ active[a] >= 0
    BY DEF IssuerTypeOK, TypeOK, RingTypeOK, Time, Generation
  <1>1. ASSUME NEW m \in Minters, NEW raw \in RequestAlgs,
               NEW life \in Lifetimes, MintStamp(m, raw, life)
        PROVE  MintersOK' /\ TokensOK'
    <2>1. MaxTTL > 0 => now + life <= now + MaxTTL
      BY <1>1, <1>b DEF MintStamp, TooLong
    <2>2. ResolveAlg(raw) \in Enabled =>
             mFloor'[m] <= active[ResolveAlg(raw)]
      BY <1>1, <1>b DEF MintStamp, IssuerTypeOK
    <2>3. MintersOK'
      BY <1>1, <1>a, <2>1, <2>2
         DEF MintStamp, MintersOK, IssuerTypeOK, KeyCovers
    <2>4. TokensOK'
      BY <1>1, <1>a DEF MintStamp, TokensOK, KeyCovers
    <2> QED
      BY <2>3, <2>4
  <1>2. ASSUME NEW m \in Minters, NEW raw \in RequestAlgs,
               NEW life \in Lifetimes, MintReject(m, raw, life)
        PROVE  MintersOK' /\ TokensOK'
    BY <1>2, <1>a DEF MintReject, MintersOK, TokensOK, IssuerTypeOK, KeyCovers
  <1>3. ASSUME NEW m \in Minters, Signer(m) PROVE MintersOK' /\ TokensOK'
    <2>1. TokensOK'
      BY <1>3, <1>a DEF Signer, TokensOK, KeyCovers
    <2>2. ASSUME mAlg[m] \in Enabled
          PROVE  /\ mFloor[m] <= active[mAlg[m]]
                 /\ KeyCovers(mAlg[m], active[mAlg[m]], mExp[m])
      BY <1>3, <1>b, <2>2 DEF Signer, MintersOK, KeyCovers
    <2>3. MintersOK'
      BY <1>3, <1>a, <2>2 DEF Signer, MintersOK, IssuerTypeOK, KeyCovers
    <2> QED
      BY <2>1, <2>3
  <1>4. ASSUME NEW m \in Minters, Sign(m) PROVE MintersOK' /\ TokensOK'
    <2>1. MintersOK'
      BY <1>4, <1>a DEF Sign, MintersOK, IssuerTypeOK, KeyCovers
    <2>2. TokensOK'
      BY <1>4, <1>a DEF Sign, MintersOK, TokensOK, KeyCovers
    <2> QED
      BY <2>1, <2>2
  <1>5. ASSUME NEW m \in Minters, Audit(m) PROVE MintersOK' /\ TokensOK'
    BY <1>5, <1>a DEF Audit, MintersOK, TokensOK, IssuerTypeOK, KeyCovers
  <1> QED
    BY <1>1, <1>2, <1>3, <1>4, <1>5 DEF MintStep

\* The inductive invariant of the issuer.
THEOREM IssuerInvariant ==
    IssuerSpec => [](IssuerTypeOK /\ RetentionInv /\ MintersOK /\ TokensOK)
  <1> DEFINE IInv == IssuerTypeOK /\ RetentionInv /\ MintersOK /\ TokensOK
  <1>1. IssuerInit => IInv
    <2> SUFFICES ASSUME IssuerInit PROVE IInv
      OBVIOUS
    <2>1. TypeOK
      BY InitType DEF IssuerInit
    <2>2. RetentionInv
      BY DEF IssuerInit, Init, RetentionInv, StampsFresh, RetiredKeysOK,
             Generation, NoTick
    <2>3. MintersOK /\ TokensOK
      BY DEF IssuerInit, MintersOK, TokensOK
    <2>4. IssuerTypeOK
      BY <2>1, NumbersAssumption
         DEF NumbersAssumption, IssuerInit, IssuerTypeOK, MintPc, AllAlgorithms,
             Generation
    <2> QED
      BY <2>2, <2>3, <2>4
  <1>2. IInv /\ [IssuerNext]_issuerVars => IInv'
    <2> SUFFICES ASSUME IInv, [IssuerNext]_issuerVars PROVE IInv'
      OBVIOUS
    <2>1. IssuerTypeOK'
      BY NextIssuerType
    <2>2. [Next]_vars
      BY DEF IssuerNext, RingStep, MintStep, MintStamp, MintReject, Signer, Sign,
             Audit, issuerVars
    <2>3. RetentionInv'
      BY <2>2, NextRetention DEF IssuerTypeOK
    <2>4. MintersOK' /\ TokensOK'
      BY <2>2, RingStepMint, MintStepMint DEF IssuerNext, RingStep, issuerVars
    <2> QED
      BY <2>1, <2>3, <2>4
  <1> QED
    BY <1>1, <1>2, PTL DEF IssuerSpec

\* The types of the issuer's state: an unenabled algorithm signs no token and is
\* named by no audit entry, although ResolveAlg lets it through.
THEOREM IssuerTypeCorrect == IssuerSpec => []IssuerTypeOK
  BY IssuerInvariant, PTL

\* Minting never disturbs the ring: its state changes as in KeyRing whatever the
\* requests do, so what is proved of the ring alone holds of the issuer's.
THEOREM IssuerLeavesRing == IssuerSpec => Spec
  <1>1. IssuerInit => Init
    BY DEF IssuerInit
  <1>2. [IssuerNext]_issuerVars => [Next]_vars
    BY DEF IssuerNext, RingStep, MintStep, MintStamp, MintReject, Signer, Sign,
           Audit, issuerVars
  <1> QED
    BY <1>1, <1>2, PTL DEF IssuerSpec, Spec

\* The grace rule with the margin it needs: if the grace period is at least
\* MAX_TTL plus the lag between a rotation's clock read and its taking effect,
\* an unexpired token's key is always published.
THEOREM GraceRule ==
    ASSUME MaxTTL > 0, Grace >= MaxTTL + MaxLag
    PROVE  IssuerSpec => []TokenKeyPublished
  <1>1. IssuerTypeOK /\ RetentionInv /\ MintersOK /\ TokensOK
           => TokenKeyPublished
    <2> SUFFICES ASSUME IssuerTypeOK, RetentionInv, TokensOK,
                        NEW tok \in tokens, tok.exp > horizon,
                        tok.kid # active[tok.alg]
                 PROVE  tok.kid \in retired[tok.alg]
      BY DEF TokenKeyPublished, Published
    <2>1. /\ tok.alg \in Enabled /\ tok.kid \in Generation /\ tok.exp \in Int
          /\ horizon \in Int /\ tok.kid \in Int /\ active[tok.alg] \in Int
      BY NumbersAssumption DEF NumbersAssumption, IssuerTypeOK, TypeOK,
                               RingTypeOK, Generation, Time
    <2>2. /\ tok.kid < active[tok.alg]
          /\ tok.exp <= lastUsed[tok.alg][tok.kid] + MaxTTL
      BY <2>1 DEF TokensOK, KeyCovers
    <2>3. RetainedForGrace /\ lastUsed[tok.alg][tok.kid] \in Int
      BY <2>1, <2>2, RetentionImplies
         DEF IssuerTypeOK, RetentionInv, RetiredKeysOK, RetiredKeyOK, Time
    <2> QED
      BY <2>1, <2>2, <2>3, LifetimesAssumption, NumbersAssumption
         DEF LifetimesAssumption, NumbersAssumption, RetainedForGrace
  <1> QED
    BY <1>1, IssuerInvariant, PTL

\* A request that came in after a rotation took effect never signs with a key
\* that rotation retired.
THEOREM SignerFresh == IssuerSpec => []SignerNotStale
  <1>1. IssuerTypeOK /\ RetentionInv /\ MintersOK /\ TokensOK => SignerNotStale
    BY NumbersAssumption DEF NumbersAssumption, MintersOK, SignerNotStale,
                             IssuerTypeOK, Generation, NoKid
  <1> QED
    BY <1>1, IssuerInvariant, PTL

=============================================================================
