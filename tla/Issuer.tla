------------------------------- MODULE Issuer -------------------------------
(***************************************************************************)
(* The issuer: the key ring composed with the requests that mint tokens    *)
(* (internal/tokenfactory/factory.go) and their audit entries              *)
(* (internal/server/server.go).  A request takes the ring's lock more than *)
(* once or not at all: it reads the clock, asks the ring for a signer,     *)
(* signs with the key it was handed after the lock is released, and the    *)
(* handler then asks the ring again to name the key in its audit entry.    *)
(* Rotations and prunings of KeyRing interleave with all of these steps.   *)
(***************************************************************************)
EXTENDS KeyRing

CONSTANTS
    Minters,      \* the requests, each of which mints at most one token
    RequestAlgs,  \* the values of Request.Alg, "" for an absent one
    Lifetimes,    \* exp - now as requested; DefaultTTL is among them
    MaxTTL        \* Factory.maxTTL; 0 means no cap

ASSUME LifetimesAssumption == Lifetimes \subseteq Int /\ MaxTTL \in Nat

VARIABLES
    mPc,      \* where each request is
    mAlg,     \* the algorithm it signs with
    mExp,     \* the exp claim of its token
    mFloor,   \* history: the algorithm's active key when the request came in
    mKid,     \* the key Signer handed it
    tokens,   \* the tokens that were signed
    audit     \* the token_minted entries of the log

mintVars == <<mPc, mAlg, mExp, mFloor, mKid, tokens, audit>>
issuerVars == <<vars, mintVars>>

NoKid == -1

MintPc == {"idle", "stamped", "signing", "minted", "done",
           "unsupported_alg", "ttl_too_long"}

IssuerInit ==
    /\ Init
    /\ mPc = [m \in Minters |-> "idle"]
    /\ mAlg = [m \in Minters |-> "RS256"]
    /\ mExp = [m \in Minters |-> 0]
    /\ mFloor = [m \in Minters |-> 0]
    /\ mKid = [m \in Minters |-> NoKid]
    /\ tokens = {}
    /\ audit = {}

-----------------------------------------------------------------------------
(* Factory.Mint. *)

ResolveAlg(raw) == IF raw = "" THEN "RS256" ELSE raw

\* Mutation of TooLong: off by one.
TooLongByOne(life) == MaxTTL > 0 /\ life > MaxTTL + 1

\* The lifetime cap of Mint.
TooLong(life) == MaxTTL > 0 /\ life > MaxTTL

\* Mint up to the cap: the algorithm is resolved, the clock read, exp fixed.
MintStamp(m, raw, life) ==
    LET alg == ResolveAlg(raw) IN
    /\ mPc[m] = "idle"
    /\ alg \in AllAlgorithms
    /\ ~TooLong(life)
    /\ mPc' = [mPc EXCEPT ![m] = "stamped"]
    /\ mAlg' = [mAlg EXCEPT ![m] = alg]
    /\ mExp' = [mExp EXCEPT ![m] = now + life]
    /\ mFloor' = [mFloor EXCEPT ![m] =
                     IF alg \in Enabled THEN active[alg] ELSE 0]
    /\ UNCHANGED <<vars, mKid, tokens, audit>>

\* Mint's early returns: an unknown algorithm, then a lifetime over the cap.
MintReject(m, raw, life) ==
    LET alg == ResolveAlg(raw) IN
    /\ mPc[m] = "idle"
    /\ alg \notin AllAlgorithms \/ TooLong(life)
    /\ mPc' = [mPc EXCEPT ![m] = IF alg \notin AllAlgorithms
                                   THEN "unsupported_alg" ELSE "ttl_too_long"]
    /\ UNCHANGED <<vars, mAlg, mExp, mFloor, mKid, tokens, audit>>

\* Mutation of Signer: the enabled check is missing.
SignerUnchecked(m) ==
    /\ mPc[m] = "stamped"
    /\ mKid' = [mKid EXCEPT ![m] = IF mAlg[m] \in Enabled
                                     THEN active[mAlg[m]] ELSE 0]
    /\ mPc' = [mPc EXCEPT ![m] = "signing"]
    /\ UNCHANGED <<vars, mAlg, mExp, mFloor, tokens, audit>>

\* Mutation of Signer: any published key signs, a retired one too.
SignerAnyPublished(m) ==
    /\ mPc[m] = "stamped"
    /\ mAlg[m] \in Enabled
    /\ \E g \in Published(mAlg[m]) : mKid' = [mKid EXCEPT ![m] = g]
    /\ mPc' = [mPc EXCEPT ![m] = "signing"]
    /\ UNCHANGED <<vars, mAlg, mExp, mFloor, tokens, audit>>

\* ring.Signer(alg): the active key, or ErrUnsupportedAlg.
Signer(m) ==
    /\ mPc[m] = "stamped"
    /\ \/ /\ mAlg[m] \in Enabled
          /\ mKid' = [mKid EXCEPT ![m] = active[mAlg[m]]]
          /\ mPc' = [mPc EXCEPT ![m] = "signing"]
       \/ /\ mAlg[m] \notin Enabled
          /\ mPc' = [mPc EXCEPT ![m] = "unsupported_alg"]
          /\ UNCHANGED mKid
    /\ UNCHANGED <<vars, mAlg, mExp, mFloor, tokens, audit>>

\* jwt.Sign with the key Signer returned, outside the lock.
Sign(m) ==
    /\ mPc[m] = "signing"
    /\ tokens' = tokens \union
                    {[alg |-> mAlg[m], kid |-> mKid[m], exp |-> mExp[m]]}
    /\ mPc' = [mPc EXCEPT ![m] = "minted"]
    /\ UNCHANGED <<vars, mAlg, mExp, mFloor, mKid, audit>>

\* The handler's token_minted entry: handleToken and handleOAuthToken call
\* Signer once more for the kid they log.
Audit(m) ==
    /\ mPc[m] = "minted"
    /\ audit' = audit \union
                  {[alg |-> mAlg[m], kid |-> active[mAlg[m]],
                    tokenKid |-> mKid[m]]}
    /\ mPc' = [mPc EXCEPT ![m] = "done"]
    /\ UNCHANGED <<vars, mAlg, mExp, mFloor, mKid, tokens>>

-----------------------------------------------------------------------------
MintStep ==
    \/ \E m \in Minters, raw \in RequestAlgs, life \in Lifetimes :
          MintStamp(m, raw, life) \/ MintReject(m, raw, life)
    \/ \E m \in Minters : Signer(m) \/ Sign(m) \/ Audit(m)

RingStep == Next /\ UNCHANGED mintVars

IssuerNext == RingStep \/ MintStep

IssuerSpec == IssuerInit /\ [][IssuerNext]_issuerVars

-----------------------------------------------------------------------------
(* Properties. *)

\* The types of the requests' state: only an enabled algorithm ever signs.
IssuerTypeOK ==
    /\ TypeOK
    /\ mPc \in [Minters -> MintPc]
    /\ mAlg \in [Minters -> AllAlgorithms]
    /\ mExp \in [Minters -> Int]
    /\ mFloor \in [Minters -> Generation]
    /\ mKid \in [Minters -> Generation \union {NoKid}]
    /\ tokens \subseteq [alg : Enabled, kid : Generation, exp : Int]
    /\ audit \subseteq [alg : Enabled, kid : Generation, tokenKid : Generation]

\* The grace rule of the README ("Keep GRACE_PERIOD >= MAX_TTL so tokens
\* minted just before a rotation stay verifiable until they expire"): the key
\* of a token that has not expired is published, however the request's clock
\* read, Signer, signature, the rotation's clock read, its lock and the
\* prunings interleave.  "Not expired" is at the latest time anybody claimed
\* it to be, since PruneAt takes the caller's word for the time.
TokenKeyPublished ==
    \A tok \in tokens :
        tok.exp > horizon => tok.kid \in Published(tok.alg)

\* A request that came in after a rotation took effect never signs with a key
\* that rotation retired.
SignerNotStale ==
    \A m \in Minters :
        mPc[m] \in {"signing", "minted", "done"} => mKid[m] >= mFloor[m]

\* The audit entry of a token names the key that signed it
\* (token-minting/spec.md: "an audit log entry records the event, algorithm,
\* key id, and expires_in").
AuditNamesSigner == \A e \in audit : e.kid = e.tokenKid

-----------------------------------------------------------------------------
(* The strengthening that makes TokenKeyPublished and SignerNotStale        *)
(* inductive.                                                               *)

\* A key covers an expiry when, lifetimes being capped, it signed no longer than
\* MaxTTL before it: the active key may sign now, a retired one signed last at
\* lastUsed.
KeyCovers(a, g, exp) ==
    /\ g \in 0..active[a]
    /\ MaxTTL > 0 =>
          exp <= (IF g = active[a] THEN now ELSE lastUsed[a][g]) + MaxTTL

MintersOK ==
    \A m \in Minters :
        /\ mPc[m] = "stamped" =>
              /\ MaxTTL > 0 => mExp[m] <= now + MaxTTL
              /\ mAlg[m] \in Enabled => mFloor[m] <= active[mAlg[m]]
        /\ mPc[m] \in {"signing", "minted", "done"} =>
              /\ mAlg[m] \in Enabled
              /\ mFloor[m] <= mKid[m]
              /\ KeyCovers(mAlg[m], mKid[m], mExp[m])

TokensOK == \A tok \in tokens : KeyCovers(tok.alg, tok.kid, tok.exp)

=============================================================================
