------------------------------- MODULE Verify -------------------------------
(***************************************************************************)
(* The token classifier of internal/verify/verify.go, shared by POST       *)
(* /verify, POST /introspect and `jwtoken-tester verify`.  Verify(in) is   *)
(* the function itself; the front ends that call it are in Endpoints.      *)
(*                                                                         *)
(* A token is what the checks can tell apart: whether its segments decode, *)
(* whether its registered claims have the right JSON types, its alg and    *)
(* kid headers, what its signature is worth with the key its kid names,    *)
(* and its time, issuer and audience claims.  The policy fields are those  *)
(* of verify.Input; keys says whether there is a key source.               *)
(***************************************************************************)
EXTENDS Integers

CONSTANTS
    RegisteredAlgs, \* the algorithms the jwt library knows
    SourceAlgs,     \* Keys.Algorithms(): those the key source advertises
    OtherAlgs,      \* header values the library does not know, NoAlg too
    AllowedSets,    \* the AllowedAlgs of the callers, {} for none given
    Issuers,        \* iss values
    Audiences,      \* members of aud
    Times,          \* the instants in exp, nbf and iat
    Clocks,         \* the instants in Input.Now
    Leeways         \* the durations in Input.Leeway

ASSUME AlgsAssumption ==
    /\ SourceAlgs \subseteq RegisteredAlgs
    /\ OtherAlgs \intersect RegisteredAlgs = {}
    /\ AllowedSets \subseteq SUBSET RegisteredAlgs
ASSUME TimesAssumption ==
    Times \subseteq Nat /\ Clocks \subseteq Nat /\ Leeways \subseteq Int

Absent  == -1       \* a time claim the token does not carry
NoIss   == "none"   \* no iss claim; no expected issuer
NoKid   == "no kid" \* no kid header

\* What Lookup says of a kid: ErrKeyNotFound makes it unknown, and "error" is any
\* other error.
KidStatus == {"active", "retired", "unknown", "error"}

\* The signature verifies, or does not, or its segment does not decode.
Signatures == {"good", "bad", "undecodable"}

\* A token whose header or payload does not decode, tokens with a claim of the
\* wrong JSON type, and the others.
Garbled == [decodes |-> FALSE, shapesOK |-> FALSE, kid |-> NoKid, sig |-> "bad",
            alg |-> CHOOSE a \in RegisteredAlgs \union OtherAlgs : TRUE,
            exp |-> Absent, nbf |-> Absent, iat |-> Absent, iss |-> NoIss, aud |-> {}]
Misshapen == [decodes  : {TRUE}, shapesOK : {FALSE},
              alg      : RegisteredAlgs \union OtherAlgs,
              kid      : KidStatus \union {NoKid},
              sig      : Signatures,
              exp : {Absent}, nbf : {Absent}, iat : {Absent}, iss : {NoIss}, aud : {{}}]
Token == {Garbled} \union Misshapen \union
         [decodes  : {TRUE}, shapesOK : {TRUE},
          alg      : RegisteredAlgs \union OtherAlgs,
          kid      : KidStatus \union {NoKid},
          sig      : Signatures,
          exp      : Times \union {Absent},
          nbf      : Times \union {Absent},
          iat      : Times \union {Absent},
          iss      : Issuers \union {NoIss},
          aud      : SUBSET Audiences]

Policy == [keys     : BOOLEAN,
           allowed  : AllowedSets,
           issuer   : Issuers \union {NoIss},
           audience : SUBSET Audiences,
           leeway   : Leeways,
           now      : Clocks]

-----------------------------------------------------------------------------
(* The checks. *)

\* ParseUnverified calls a token with an unknown or missing alg unverifiable.
Unverifiable(tok) == tok.alg \in OtherAlgs

\* Mutation of Allowed: a list with none of the source's algorithms counts as
\* no list.
AllowedFallsBack(pol) ==
    IF pol.allowed \intersect SourceAlgs = {} THEN SourceAlgs ELSE pol.allowed

Allowed(pol) == IF pol.allowed = {} THEN SourceAlgs ELSE pol.allowed

Leeway(pol) == IF pol.leeway < 0 THEN 0 ELSE pol.leeway

\* MapClaims hands a claim to the validator: it takes the number 0 for no claim.
Carried(t) == t \notin {Absent, 0}

\* Mutations of Expired: the leeway is applied the wrong way round; a token is
\* still good in the instant of exp.
ExpiredEarly(tok, pol) == Carried(tok.exp) /\ ~(pol.now < tok.exp - Leeway(pol))
ExpiredLate(tok, pol) == Carried(tok.exp) /\ ~(pol.now <= tok.exp + Leeway(pol))

\* The time rules of the jwt library's validator: a token expires at exp, and
\* may be used from nbf and iat on.
Expired(tok, pol) == Carried(tok.exp) /\ ~(pol.now < tok.exp + Leeway(pol))
TooEarly(t, pol) == Carried(t) /\ pol.now < t - Leeway(pol)
NotYetValid(tok, pol) == TooEarly(tok.nbf, pol) \/ TooEarly(tok.iat, pol)

IssuerMismatch(tok, pol) == pol.issuer # NoIss /\ tok.iss # pol.issuer

AudienceMismatch(tok, pol) ==
    pol.audience # {} /\ pol.audience \intersect tok.aud = {}

-----------------------------------------------------------------------------
(* The verdict. *)

\* The time, issuer and audience checks, which follow the signature.
ClaimsReason(tok, pol) ==
    IF Expired(tok, pol) THEN "expired"
    ELSE IF NotYetValid(tok, pol) THEN "not_yet_valid"
    ELSE IF IssuerMismatch(tok, pol) THEN "issuer"
    ELSE IF AudienceMismatch(tok, pol) THEN "audience"
    ELSE "valid"

\* The early returns of Verify, in their order; "error" is one without a verdict.
\* The validator and GetAudience have errors of their own only for a claim that
\* validateClaimShapes, which calls the same getters, has rejected.
Reason(tok, pol) ==
    IF ~tok.decodes THEN "malformed"
    ELSE IF Unverifiable(tok) THEN "alg"
    ELSE IF ~tok.shapesOK THEN "malformed"
    ELSE IF pol.allowed = {} /\ ~pol.keys THEN "error"
    ELSE IF tok.alg \notin Allowed(pol) THEN "alg"
    ELSE IF tok.kid = NoKid THEN "kid"
    ELSE IF ~pol.keys \/ tok.kid = "error" THEN "error"
    ELSE IF tok.kid = "unknown" THEN "kid"
    ELSE IF tok.sig = "undecodable" THEN "error"
    ELSE IF tok.sig = "bad" THEN "signature"
    ELSE ClaimsReason(tok, pol)

\* Mutation of Verify: the claims are labelled before the signature is checked.
VerifyLabelsEarly(tok, pol) ==
    LET reason == Reason(tok, pol) IN
    [reason    |-> reason,
     claims    |-> IF reason \in {"malformed", "error"} THEN "none"
                   ELSE IF reason \in {"alg", "kid"}
                     THEN "unverified" ELSE "authenticated",
     kidStatus |-> IF reason \in {"malformed", "error", "alg"} \/ tok.kid = NoKid
                     THEN "omitted" ELSE tok.kid]

\* The check for alg and the one for kid return before base.KidStatus is set;
\* a malformed token and an error get an empty verdict, and
\* authenticatedVerdict follows the signature.
Verify(tok, pol) ==
    LET reason == Reason(tok, pol) IN
    [reason    |-> reason,
     claims    |-> IF reason \in {"malformed", "error"} THEN "none"
                   ELSE IF reason \in {"alg", "kid", "signature"}
                     THEN "unverified" ELSE "authenticated",
     kidStatus |-> IF reason \in {"malformed", "error", "alg"} \/ tok.kid = NoKid
                     THEN "omitted" ELSE tok.kid]

-----------------------------------------------------------------------------
VARIABLES
    tok,        \* the token
    pol,        \* the caller's policy and its clock
    verdict     \* Verify's answer, Pending before it

vars == <<tok, pol, verdict>>

Pending == [reason |-> "pending"]

-----------------------------------------------------------------------------
(* Properties. *)

\* The order of Reasons().
Reasons == <<"malformed", "alg", "kid", "signature", "expired",
             "not_yet_valid", "issuer", "audience">>

Skew == IF pol.leeway > 0 THEN pol.leeway ELSE 0

\* Which checks a token fails when each is asked on its own, as the documents
\* put them: each segment decodes, and a token is good before exp and from nbf
\* and iat on, give or take the skew.
Fails(reason) ==
    CASE reason = "malformed"     ->
            ~tok.decodes \/ ~tok.shapesOK \/ tok.sig = "undecodable"
      [] reason = "alg"           ->
            tok.alg \notin IF pol.allowed = {} THEN SourceAlgs ELSE pol.allowed
      [] reason = "kid"           -> tok.kid \notin {"active", "retired"}
      [] reason = "signature"     -> tok.sig # "good"
      [] reason = "expired"       ->
            tok.exp # Absent /\ tok.exp + Skew <= pol.now
      [] reason = "not_yet_valid" ->
            \E t \in {tok.nbf, tok.iat} : t # Absent /\ pol.now + Skew < t
      [] reason = "issuer"        -> pol.issuer \notin {NoIss, tok.iss}
      [] reason = "audience"      ->
            pol.audience # {} /\ ~\E a \in pol.audience : a \in tok.aud

FirstOf(reason) ==
    IF reason = "valid"
    THEN \A i \in 1..8 : ~Fails(Reasons[i])
    ELSE \E i \in 1..8 :
           /\ Reasons[i] = reason
           /\ Fails(Reasons[i])
           /\ \A j \in 1..(i - 1) : ~Fails(Reasons[j])

\* "Exactly one reason drawn from malformed, alg, [...]; Checks SHALL run
\* structural, algorithm, key, signature, time, issuer, then audience, and a
\* later failure SHALL NOT replace an earlier one" (token-verification/spec.md):
\* when the key source answers, the verdict names the first check that fails.
DocumentedReason ==
    (verdict # Pending /\ pol.keys /\ tok.kid # "error") =>
        FirstOf(verdict.reason)

\* The tokens that are not treated as documented: the library puts an unknown alg
\* before the shapes of the claims, takes an exp of 0 for none, and looks at the
\* third segment only when it checks the signature.
Undocumented ==
    \/ Unverifiable(tok) /\ tok.decodes /\ ~tok.shapesOK
    \/ tok.exp = 0
    \/ tok.sig = "undecodable"

\* For every other token one of Reasons() is found, it is the first that applies
\* when each check is asked on its own, and at the very instants of exp, nbf and
\* iat it is the right one.
FirstFailure == (verdict # Pending /\ ~Undocumented) => DocumentedReason

\* Claims are presented as authenticated only for a signature that verified,
\* with a key the source knows and an algorithm the caller accepts.
ClaimsLabelled ==
    (verdict # Pending /\ verdict.claims = "authenticated") =>
        /\ tok.decodes /\ tok.sig = "good"
        /\ tok.kid \in {"active", "retired"} /\ verdict.kidStatus = tok.kid
        /\ tok.alg \in Allowed(pol)

\* A wider leeway never rejects what a narrower one accepts, and never turns a
\* verdict about the key or the signature into another one.
LeewayWidens ==
    verdict # Pending =>
        \A wider \in {d \in Leeways : d >= pol.leeway} :
            LET relaxed == Verify(tok, [pol EXCEPT !.leeway = wider]) IN
            /\ verdict.reason = "valid" => relaxed.reason = "valid"
            /\ verdict.reason \notin {"expired", "not_yet_valid"} =>
                  relaxed.reason = verdict.reason

\* Narrowing the accepted algorithms never makes a token valid, and the only
\* other verdict it can lead to is alg.  (Without a key source an error is due
\* to having to ask it for its algorithms.)
NarrowingRejects ==
    (verdict # Pending /\ verdict.reason # "error") =>
        \A narrow \in (SUBSET Allowed(pol)) \ {{}} :
            Reason(tok, [pol EXCEPT !.allowed = narrow])
                \in {verdict.reason, "alg"}

=============================================================================
