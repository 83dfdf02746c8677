----------------------------- MODULE Endpoints -----------------------------
(***************************************************************************)
(* The front ends of Mint and Verify: what each accepts, what it makes of  *)
(* its parameters, and how it reports the outcome.  They are the handlers  *)
(* of internal/server/server.go, tester.Server.Mint and print-token.  None *)
(* keeps state, so a behaviour is one call.  It is either a request for a  *)
(* token, handled with the arithmetic of TokenTimes, or a token to judge,  *)
(* handled with the classifier of Verify; a call of verify.Verify with a   *)
(* policy of the caller's own (the verify command) is one of the latter.   *)
(***************************************************************************)
EXTENDS TokenTimes, Verify

CONSTANTS
    KnownAlgs,      \* keyring.JWAAlgorithms, the algorithms Mint knows, all
                    \* of which the jwt library knows
    EnabledSets,    \* the sets of algorithms a ring was built with
    Ours            \* the configured issuer, not empty

ASSUME FrontEndAssumption ==
    /\ KnownAlgs \subseteq {"RS256", "ES256", "EdDSA"} \intersect RegisteredAlgs
    /\ {} \notin EnabledSets
    /\ \A enabledAlgs \in EnabledSets : enabledAlgs \subseteq KnownAlgs
    /\ Ours \in Issuers /\ Ours # NoIss

VARIABLES
    endpoint,   \* which front end is called
    params,     \* what it is called with besides the token or the exp
    enabled,    \* EnabledAlgorithms of the ring
    answer      \* how it ends: "ok" (200, nil, exit 0), "refused" (4xx, an
                \* error of the caller's, exit 1) or "failed" (5xx)

callVars == <<endpoint, params, enabled, answer>>
endpointVars == <<timesVars, vars, callVars>>

\* Front ends whose checks come before Mint, and those that leave it to Mint.
CheckedMint == {"oauth/token", "v2/oauth/token"}
PlainMint   == {"token", "tester.Mint", "print-token"}

-----------------------------------------------------------------------------
(* The calls. *)

\* What may be wrong with a call besides its alg, exp or ttl, each a way to be
\* refused.  A claim or header is one that Mint cannot set; an unsignable claim
\* is a Go value that cannot be marshalled, which only an embedding program has.
Flaws(e) ==
    CASE e = "token"          -> {"json", "claim", "header"}
      [] e = "tester.Mint"    -> {"claim", "header", "unsignable"}
      [] e = "print-token"    -> {"no algorithms", "json", "claim", "header"}
      [] e = "oauth/token"    -> {"form", "no grant_type", "grant_type", "client_id"}
      [] e = "v2/oauth/token" -> {"client_id", "scope"}
      [] e = "verify"         -> {"json", "unknown field", "token"}
      [] e = "introspect"     -> {"form", "token"}
      [] OTHER                -> {}

None == "none"

\* The ttl parameter of the OAuth endpoints.
TTLs == {r \in Requests : r.kind \in {"absent", "garbage", "duration"}}

MintParams(e) ==
    [flaw : Flaws(e), alg : {""}, jtiOK : {TRUE}]
    \union [flaw : {None}, alg : {""} \union KnownAlgs \union OtherAlgs,
            jtiOK : IF e \in CheckedMint THEN BOOLEAN ELSE {TRUE}]

AlgParams == {[kind |-> "absent"]} \union
             [kind : {"list"}, value : SUBSET RegisteredAlgs]
LeewayParams == {[kind |-> "absent"], [kind |-> "garbage"]} \union
                [kind : {"duration"}, value : Leeways]

VerifyParams ==
    [flaw : Flaws("verify"), alg : {[kind |-> "absent"]},
     leeway : {[kind |-> "absent"]}, aud : {{}}, now : Clocks]
    \union [flaw : {None}, alg : AlgParams, leeway : LeewayParams,
            aud : SUBSET Audiences, now : Clocks]

\* claimsActive: the token carries a claim of the name "active", set to false.
IntrospectParams ==
    [flaw : Flaws("introspect") \union {None}, claimsActive : BOOLEAN, now : Clocks]

NoCall == "none"

MintCalls ==
    /\ endpoint \in CheckedMint \union PlainMint
    /\ params \in MintParams(endpoint)
    /\ request \in IF endpoint \in CheckedMint THEN TTLs ELSE Requests
    /\ maxTTL \in MaxTTLs
    /\ enabled \in EnabledSets
    /\ tok = NoCall /\ pol = NoCall

\* The ring's Lookup has no error but ErrKeyNotFound.
JudgeCalls ==
    /\ tok \in Token
    /\ \/ endpoint = "verify.Verify" /\ params = NoCall /\ pol \in Policy
       \/ endpoint = "verify" /\ params \in VerifyParams /\ pol = NoCall
       \/ endpoint = "introspect" /\ params \in IntrospectParams /\ pol = NoCall
    /\ endpoint # "verify.Verify" => tok.kid # "error"
    /\ enabled = SourceAlgs
    /\ request = [kind |-> "absent"] /\ maxTTL = 0

EndpointsInit ==
    /\ MintCalls \/ JudgeCalls
    /\ outcome = Unanswered
    /\ verdict = Pending
    /\ answer = None

-----------------------------------------------------------------------------
(* Asking for a token. *)

\* selectAlgorithm for an alg it accepts: RS256 when no alg is given and it is
\* enabled, else the first enabled one.
SelectAlgorithm(raw) ==
    IF raw # "" THEN raw
    ELSE IF "RS256" \in enabled THEN "RS256"
    ELSE IF "ES256" \in enabled THEN "ES256" ELSE "EdDSA"

\* Mutations of TTLRefused: the cap is left to Mint; the cap itself is too long.
TTLRefusedNoCap(ttl) ==
    ttl.kind = "garbage" \/ (ttl.kind = "duration" /\ ttl.value < 0)
TTLRefusedAtCap(ttl) ==
    \/ ttl.kind = "garbage"
    \/ ttl.kind = "duration" /\ (ttl.value < 0 \/ (maxTTL > 0 /\ ttl.value >= maxTTL))

\* selectTTL returns an error.
TTLRefused(ttl) ==
    \/ ttl.kind = "garbage"
    \/ ttl.kind = "duration" /\ (ttl.value < 0 \/ (maxTTL > 0 /\ ttl.value > maxTTL))

\* The alg that Mint is called with, and how Mint reads it.
MintAlg ==
    IF endpoint \in CheckedMint THEN SelectAlgorithm(params.alg)
    ELSE IF params.alg = "" THEN "RS256" ELSE params.alg

\* The checks of a handler that come before Mint.
Precheck ==
    /\ params.flaw \in {None, "unsignable"}
    /\ endpoint \in CheckedMint =>
          (params.alg = "" \/ params.alg \in enabled) /\ ~TTLRefused(request)

Asks == answer = None /\ endpoint \in CheckedMint \union PlainMint

RefuseMint ==
    /\ Asks
    /\ ~Precheck
    /\ answer' = "refused"
    /\ UNCHANGED <<timesVars, vars, endpoint, params, enabled>>

\* generateJTI fails.
JTIFails ==
    /\ Asks
    /\ Precheck
    /\ ~params.jtiOK
    /\ answer' = "failed"
    /\ UNCHANGED <<timesVars, vars, endpoint, params, enabled>>

\* Mint meets an alg it does not know, or one the ring has no key for.
UnsupportedAlg ==
    /\ MintAlg \notin enabled
    /\ MintAlg \in KnownAlgs =>
          ~Unparsable(request) /\ \E exp \in Expiry(request) : ~OverCap(exp, maxTTL)
    /\ outcome' = [result |-> "unsupported_alg"]
    /\ UNCHANGED <<request, maxTTL>>

\* jwt.Sign fails.
SignFails ==
    /\ params.flaw = "unsignable"
    /\ \E exp \in Expiry(request) : ~OverCap(exp, maxTTL)
    /\ outcome' = [result |-> "unsigned"]
    /\ UNCHANGED <<request, maxTTL>>

\* What a result of Mint is reported as.
Answer(result) ==
    IF result = "minted" THEN "ok"
    ELSE IF result = "unsigned" THEN "failed" ELSE "refused"

\* Factory.Mint; the handler hands a ttl on as the string of a duration, which
\* reads back as the same duration.
CallMint ==
    /\ Asks
    /\ Precheck
    /\ params.jtiOK
    /\ \/ UnsupportedAlg
       \/ MintAlg \in KnownAlgs /\ (InvalidRequest \/ TTLTooLong)
       \/ MintAlg \in enabled /\ (SignFails \/ (params.flaw = None /\ Mint))
    /\ answer' = Answer(outcome'.result)
    /\ UNCHANGED <<vars, endpoint, params, enabled>>

\* Mutation of MintedToken: nbf and iat are rounded up instead of truncated.
MintedTokenRoundedUp ==
    [decodes |-> TRUE, shapesOK |-> TRUE, alg |-> MintAlg, kid |-> "active",
     sig |-> "good", exp |-> outcome.exp, nbf |-> NowUnix + 1,
     iat |-> NowUnix + 1, iss |-> Ours, aud |-> {}]

\* The token of an OAuth endpoint as Verify sees it: iss, iat and nbf are the
\* ones Mint adds.  Introspection does not look at aud.
MintedToken ==
    [decodes |-> TRUE, shapesOK |-> TRUE, alg |-> MintAlg, kid |-> "active",
     sig |-> "good", exp |-> outcome.exp, nbf |-> NowUnix, iat |-> NowUnix,
     iss |-> Ours, aud |-> {}]

-----------------------------------------------------------------------------
(* Having a token judged. *)

\* Mutation of VerifyPolicy: the list of algorithms is checked and forgotten.
VerifyPolicyAnyAlg(p) ==
    [keys |-> TRUE, allowed |-> {}, issuer |-> Ours, audience |-> p.aud,
     leeway |-> IF p.leeway.kind = "duration" THEN p.leeway.value ELSE 0,
     now |-> p.now]

\* The verify.Input of POST /verify.
VerifyPolicy(p) ==
    [keys |-> TRUE, allowed |-> IF p.alg.kind = "list" THEN p.alg.value ELSE {},
     issuer |-> Ours, audience |-> p.aud,
     leeway |-> IF p.leeway.kind = "duration" THEN p.leeway.value ELSE 0,
     now |-> p.now]

\* The verify.Input of POST /introspect: without AllowedAlgs it accepts what the
\* key source, the ring, has enabled.
IntrospectPolicy(t) ==
    [keys |-> TRUE, allowed |-> enabled, issuer |-> Ours, audience |-> {},
     leeway |-> 0, now |-> t]

VerifyRefused(p) ==
    \/ p.flaw # None
    \/ p.leeway.kind = "garbage" \/ (p.leeway.kind = "duration" /\ p.leeway.value < 0)
    \/ p.alg.kind = "list" /\ (p.alg.value = {} \/ ~(p.alg.value \subseteq enabled))

Refused ==
    \/ endpoint = "verify" /\ VerifyRefused(params)
    \/ endpoint = "introspect" /\ params.flaw # None

RefuseJudge ==
    /\ answer = None
    /\ Refused
    /\ answer' = "refused"
    /\ UNCHANGED <<timesVars, vars, endpoint, params, enabled>>

Judge(policy) ==
    /\ answer = None
    /\ pol' = policy
    /\ verdict' = Verify(tok, policy)
    /\ answer' = IF verdict'.reason = "error" THEN "failed" ELSE "ok"
    /\ UNCHANGED <<timesVars, tok, endpoint, params, enabled>>

HandleVerify ==
    endpoint = "verify" /\ ~VerifyRefused(params) /\ Judge(VerifyPolicy(params))
HandleIntrospect ==
    endpoint = "introspect" /\ params.flaw = None /\ Judge(IntrospectPolicy(params.now))
CallVerify ==
    endpoint = "verify.Verify" /\ Judge(pol)

\* Mutation of IntrospectActive: the claims are copied over the response.
IntrospectActiveCopied == verdict.reason = "valid" /\ ~params.claimsActive

\* "active" of the response: set after the claims have been copied into it.
IntrospectActive == verdict.reason = "valid"

-----------------------------------------------------------------------------
EndpointsNext ==
    \/ RefuseMint \/ JTIFails \/ CallMint
    \/ RefuseJudge \/ HandleVerify \/ HandleIntrospect \/ CallVerify

EndpointsSpec == EndpointsInit /\ [][EndpointsNext]_endpointVars

-----------------------------------------------------------------------------
(* Properties. *)

\* What the OAuth endpoints' own checks of alg and ttl let pass, Mint does not
\* refuse: the two places where the cap and the enabled algorithms are looked
\* at agree, and the default algorithm is always an enabled one.  Only a
\* DEFAULT_TTL over MAX_TTL is left to Mint.
PrecheckSuffices ==
    (endpoint \in CheckedMint /\ outcome # Unanswered /\ ~Minted) =>
        request.kind = "absent" /\ maxTTL > 0 /\ DefaultTTL > maxTTL

\* What is wrong with a call, in exact arithmetic and without an order.
Faulty ==
    \/ params.flaw # None
    \/ IF params.alg # "" THEN params.alg \notin enabled
       ELSE endpoint \in PlainMint /\ "RS256" \notin enabled
    \/ request.kind = "garbage"
    \/ ~InRange
    \/ endpoint \in CheckedMint /\ request.kind = "duration" /\ request.value < 0
    \/ maxTTL > 0 /\ \E exp \in Expiry(request) : Ticks(exp) - Ticks(Now) > maxTTL

\* A call without a fault gets its token from every front end unless the
\* random source fails; that and a claim that cannot be marshalled alone are
\* server errors; one with a fault gets none.  (A number out of the range of
\* time.Unix may be minted all the same.)
AnswerFits ==
    (endpoint \in CheckedMint \union PlainMint /\ answer # None) =>
        /\ answer = "refused" => Faulty
        /\ answer = "failed" => ~params.jtiOK \/ params.flaw = "unsignable"
        /\ answer = "ok" => ~Faulty \/ (~InRange /\ ~Unparsable(request))

\* A token from an OAuth endpoint is introspected as active from the second it
\* was minted in until it expires, and not after (http-api/oauth/spec.md: "a
\* valid, unexpired token from this issuer is introspected"): the algorithm
\* the handler chose, the claims Mint adds and the checks of Verify fit.
MintedIntrospectsActive ==
    (endpoint \in CheckedMint /\ Minted) =>
        \A t \in NowUnix..(outcome.exp + 1) :
            (Reason(MintedToken, IntrospectPolicy(t)) = "valid") = (t < outcome.exp)

\* POST /verify answers valid only for a token signed with a published key of
\* this issuer, by one of the algorithms asked for, addressed to one of the
\* audiences asked for, and expired by no more than the leeway (an exp of 0
\* apart, which is taken for none, see Undocumented).
ValidAnswerEarned ==
    (endpoint = "verify" /\ answer = "ok" /\ verdict.reason = "valid") =>
        /\ tok.sig = "good" /\ tok.kid \in {"active", "retired"} /\ tok.iss = Ours
        /\ tok.alg \in enabled
        /\ params.alg.kind = "list" => tok.alg \in params.alg.value
        /\ params.aud # {} => params.aud \intersect tok.aud # {}
        /\ tok.exp \notin {Absent, 0} =>
              params.now < tok.exp + (IF params.leeway.kind = "duration"
                                        THEN params.leeway.value ELSE 0)

\* The active field a client reads is true exactly for the tokens that POST
\* /verify calls valid when asked about nothing but the token, whatever claims
\* the token carries; and no alg or aud parameter makes /verify accept more.
IntrospectAgrees ==
    (endpoint = "introspect" /\ answer = "ok") =>
        \A p \in VerifyParams :
            LET valid == Reason(tok, VerifyPolicy(p)) = "valid" IN
            (~VerifyRefused(p) /\ p.leeway.kind = "absent" /\ p.now = params.now) =>
                IF p.alg.kind = "absent" /\ p.aud = {}
                THEN valid = IntrospectActive
                ELSE valid => IntrospectActive

=============================================================================
