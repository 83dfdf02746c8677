----------------------------- MODULE CliVerify -----------------------------
(***************************************************************************)
(* `jwtoken-tester verify` (cmd/jwtoken-tester/cli.go): the command fetches *)
(* the keys, from a JWKS URL, a file or through a discovery document, and   *)
(* then judges the token with what it fetched, while the issuer goes on     *)
(* rotating and pruning as KeyStatus allows, and may restart with new keys. *)
(* A file is a JWKS document somebody saved at any time before that.        *)
(*                                                                          *)
(* Of the verdict only what depends on the key source is kept: whether alg  *)
(* is accepted, the kid is found and iss is the expected one.  The token is *)
(* good otherwise; module Verify is about the rest.                         *)
(***************************************************************************)
EXTENDS KeyStatus

CONSTANTS
    Issuers,    \* values of --issuer, of the discovery document and of iss
    MaxRestarts \* bound: how often the issuer restarts

NoIssuer == "none"      \* no --issuer; no "issuer" in the discovery document

\* The flags --jwks, --issuer and --alg, and whether the command line is
\* acceptable otherwise (no --alg that is empty, "none" or unknown to the
\* library, at most one argument, a token that is not empty).  NoFlags is a
\* command line that is not, and stands for none before the command is called.
NoFlags == [jwks |-> "none", issuer |-> NoIssuer, algs |-> {}, ok |-> FALSE]
Flags == {NoFlags} \union
         [jwks : {"none", "url", "file"}, issuer : Issuers \union {NoIssuer},
          algs : {{}} \union {{a} : a \in Algorithms}, ok : {TRUE}]

\* The discovery document the server hands out.
Discovery == [issuer : Issuers \union {NoIssuer}, jwksURI : BOOLEAN]

NoDiscovery == [issuer |-> NoIssuer, jwksURI |-> FALSE]    \* not yet fetched

AllKids == Algorithms \X Kids
Token == [kid : AllKids, iss : Issuers \union {NoIssuer}]
NoToken == [kid |-> <<>>, iss |-> NoIssuer]    \* nobody has looked at it yet

VARIABLES
    flags,      \* the command line
    token,      \* the token to verify, chosen when Verify first looks at it
    discovery,  \* the discovery document that arrived
    saved,      \* the kids of the JWKS file
    pc,         \* where the command is
    expected,   \* verify.Input.ExpectedIssuer
    keys,       \* jwksKeySource.keys
    exit,       \* the exit code, or Running
    reason,     \* the verdict
    restarts,   \* how often the issuer restarted
    seen,       \* history: the kids published at some time since the start
    steady      \* history: the kids published all the time since the start

envVars == <<status, restarts, seen, steady>>
inputVars == <<flags, saved>>
cliVars == <<inputVars, envVars, token, discovery, pc, expected, keys, exit, reason>>

Running == -1

CliInit ==
    /\ StatusInit
    /\ flags = NoFlags
    /\ token = NoToken
    /\ discovery = NoDiscovery
    /\ saved = PublishedKids
    /\ pc = "before"
    /\ expected = NoIssuer
    /\ keys = {}
    /\ exit = Running
    /\ reason = "none"
    /\ restarts = 0
    /\ seen = {}
    /\ steady = {}

-----------------------------------------------------------------------------
(* The issuer, and who calls the command. *)

\* A new process: New generates keys that were never there before.
Restart(fresh) ==
    /\ restarts < MaxRestarts
    /\ \A a \in Algorithms : status[a][fresh[a]] = "unborn"
    /\ status' = [a \in Algorithms |-> [k \in Kids |->
          IF k = fresh[a] THEN "active"
          ELSE IF status[a][k] = "unborn" THEN "unborn" ELSE "gone"]]
    /\ restarts' = restarts + 1

IssuerStep ==
    /\ pc # "done"
    /\ \/ StatusNext /\ UNCHANGED restarts
       \/ \E fresh \in [Algorithms -> Kids] : Restart(fresh)
    /\ seen' = seen \union PublishedKids'
    /\ steady' = steady \intersect PublishedKids'
    /\ UNCHANGED <<inputVars, token, discovery, pc, expected, keys, exit, reason>>

\* The JWKS document is saved to the file.
SaveJWKS ==
    /\ pc = "before"
    /\ saved' = PublishedKids
    /\ UNCHANGED <<flags, token, discovery, envVars, pc, expected, keys, exit, reason>>

\* runVerifyCommand is called.
Begin ==
    /\ pc = "before"
    /\ flags' \in Flags
    /\ pc' = "start"
    /\ seen' = PublishedKids
    /\ steady' = PublishedKids
    /\ UNCHANGED <<status, restarts, saved, token, discovery, expected, keys, exit, reason>>

-----------------------------------------------------------------------------
(* The command. *)

Exit(code, why) ==
    /\ pc' = "done"
    /\ exit' = code
    /\ reason' = why

\* Exactly one of --jwks and --issuer is given, and the rest is acceptable.
Usable == flags.ok /\ ((flags.jwks = "none") # (flags.issuer = NoIssuer))

\* Usage errors.
UsageError ==
    /\ pc = "start"
    /\ ~Usable
    /\ Exit(2, "usage")
    /\ UNCHANGED <<inputVars, envVars, token, discovery, expected, keys>>

\* loadKeySource chooses between discovery and the JWKS document.
LoadKeySource ==
    /\ pc = "start"
    /\ Usable
    /\ pc' = IF flags.issuer # NoIssuer THEN "discovery"
             ELSE IF flags.jwks = "url" THEN "jwks" ELSE "file"
    /\ UNCHANGED <<inputVars, envVars, token, discovery, expected, keys, exit, reason>>

\* The issuer the token is held against: the document's, or else the flag's.
ExpectedIssuer(doc) == IF doc.issuer # NoIssuer THEN doc.issuer ELSE flags.issuer

\* The discovery document arrives; without a jwks_uri it is an error.
FetchDiscovery ==
    /\ pc = "discovery"
    /\ discovery' \in Discovery
    /\ \/ /\ discovery'.jwksURI
          /\ pc' = "jwks"
          /\ expected' = ExpectedIssuer(discovery')
          /\ UNCHANGED <<exit, reason>>
       \/ /\ ~discovery'.jwksURI
          /\ Exit(2, "operational")
          /\ UNCHANGED expected
    /\ UNCHANGED <<inputVars, envVars, token, keys>>

\* Mutation of FetchJWKS: the active keys only.
FetchJWKSActive ==
    /\ pc = "jwks"
    /\ keys' = {p \in PublishedKids : status[p[1]][p[2]] = "active"}
    /\ pc' = "verify"
    /\ UNCHANGED <<inputVars, envVars, token, discovery, expected, exit, reason>>

\* The JWKS document arrives, with the keys published then.
FetchJWKS ==
    /\ pc = "jwks"
    /\ keys' = PublishedKids
    /\ pc' = "verify"
    /\ UNCHANGED <<inputVars, envVars, token, discovery, expected, exit, reason>>

ReadFile ==
    /\ pc = "file"
    /\ keys' = saved
    /\ pc' = "verify"
    /\ UNCHANGED <<inputVars, envVars, token, discovery, expected, exit, reason>>

\* fetchBytes, ReadFile or parseJWKS fails: no connection, the timeout, a status
\* other than 200, too many redirects, too large, not a JWKS, no usable key.
FetchFails ==
    /\ pc \in {"discovery", "jwks", "file"}
    /\ Exit(2, "operational")
    /\ UNCHANGED <<inputVars, envVars, token, discovery, expected, keys>>

\* Mutation of KidFound: a kid that is not found is taken for good.
KidFoundAlways(kid) == TRUE

KidFound(kid) == kid \in keys

\* Without --alg the algorithms of the keys in the document are accepted.
AlgAllowed(alg) ==
    alg \in IF flags.algs = {} THEN {p[1] : p \in keys} ELSE flags.algs

\* verify.Verify and the exit code of its verdict.
Judge ==
    /\ pc = "verify"
    /\ token' \in Token
    /\ IF ~AlgAllowed(token'.kid[1]) THEN Exit(1, "alg")
       ELSE IF ~KidFound(token'.kid) THEN Exit(1, "kid")
       ELSE IF expected \notin {NoIssuer, token'.iss} THEN Exit(1, "issuer")
       ELSE Exit(0, "valid")
    /\ UNCHANGED <<inputVars, envVars, discovery, expected, keys>>

CommandStep ==
    \/ UsageError \/ LoadKeySource
    \/ FetchDiscovery \/ FetchJWKS \/ ReadFile \/ FetchFails
    \/ Judge

\* The command has exited.
Done == pc = "done" /\ UNCHANGED cliVars

CliNext == IssuerStep \/ SaveJWKS \/ Begin \/ CommandStep \/ Done

CliSpec == CliInit /\ [][CliNext]_cliVars

-----------------------------------------------------------------------------
(* Properties. *)

\* Exit 0 is about a key the issuer published while the command ran or, when it
\* was asked about a file, one in the file that the issuer published some time.
ValidMeansPublished ==
    exit = 0 =>
        IF flags.jwks = "file"
        THEN token.kid \in saved /\ status[token.kid[1]][token.kid[2]] # "unborn"
        ELSE token.kid \in seen

\* A token whose key is published all the while, or is in the file, is never
\* reported as having an unknown kid or, unless --alg says so, an algorithm that
\* is not accepted, whatever was rotated, pruned or restarted in between.
PublishedIsFound ==
    (reason = "kid" \/ (reason = "alg" /\ flags.algs = {})) =>
        token.kid \notin IF flags.jwks = "file" THEN saved ELSE steady

=============================================================================
