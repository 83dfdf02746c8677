------------------------------ MODULE KeyCache ------------------------------
(***************************************************************************)
(* The JWKS cache of the demo service (docker/demo-service/main.go)        *)
(* against an issuer that rotates and drops keys as KeyStatus allows.      *)
(*                                                                         *)
(* getKey reads the cache under a read lock and judges its age after the   *)
(* unlock; refreshAndGet fetches the JWKS document with no lock held and   *)
(* writes it back under the lock with the time of the WRITE.  Several      *)
(* requests do this at once, so a document fetched earlier may overwrite   *)
(* one that was fetched later.  The requests here carry tokens that are    *)
(* good except, perhaps, for their kid.                                    *)
(***************************************************************************)
EXTENDS KeyStatus

CONSTANTS
    Requests,     \* the handler goroutines
    Refresh,      \* keyCache.refresh
    FetchTimeout, \* the timeout of the client, from the request to the write
    MaxTime       \* bound: the last instant of the clock

ASSUME CacheAssumption ==
    Refresh \in Nat /\ FetchTimeout \in Nat /\ MaxTime \in Nat

Never == -1       \* the zero time.Time of keyCache.fetched; a key not gone
Time  == 0..MaxTime
NoWant == <<"none", 0>>

VARIABLES
    now,      \* the clock
    keys,     \* keyCache.keys: the kids it holds
    fetched,  \* keyCache.fetched
    request,  \* per request, see NewRequest
    goneAt    \* history: when each kid was dropped by the issuer

cacheVars == <<status, now, keys, fetched, request, goneAt>>

AllKids == Algorithms \X Kids

\* A request: where it is, its kid, what getKey read, when the fetch began, the
\* document it was sent, and its answer.  steady and failed are history: the
\* kid was published all the time; the fetch failed.
NewRequest ==
    [pc |-> "idle", want |-> NoWant, hit |-> FALSE, read |-> Never,
     since |-> 0, body |-> {}, answer |-> "none", at |-> 0,
     steady |-> FALSE, failed |-> FALSE]

CacheInit ==
    /\ StatusInit
    /\ now = 0
    /\ keys = {}
    /\ fetched = Never
    /\ request = [r \in Requests |-> NewRequest]
    /\ goneAt = [k \in AllKids |-> Never]

-----------------------------------------------------------------------------
(* The issuer and the clock. *)

IssuerStep ==
    /\ StatusNext
    /\ goneAt' = [k \in AllKids |->
                    IF k \in PublishedKids /\ k \notin PublishedKids'
                      THEN now ELSE goneAt[k]]
    /\ request' = [r \in Requests |-> [request[r] EXCEPT
                    !.steady = IF request[r].pc = "idle" THEN @
                               ELSE @ /\ request[r].want \in PublishedKids']]
    /\ UNCHANGED <<now, keys, fetched>>

Fetching(r) == request[r].pc \in {"fetching", "parsed"}

Advance ==
    /\ now < MaxTime
    /\ \A r \in Requests : Fetching(r) => now < request[r].since + FetchTimeout
    /\ now' = now + 1
    /\ UNCHANGED <<status, keys, fetched, request, goneAt>>

-----------------------------------------------------------------------------
(* getKey and refreshAndGet. *)

Answer(r, answer, failed) ==
    request' = [request EXCEPT ![r].pc = "idle", ![r].answer = answer,
                               ![r].at = now, ![r].failed = failed]

\* getKey up to RUnlock.
GetKey(r, k) ==
    /\ request[r].pc = "idle"
    /\ request' = [request EXCEPT ![r] =
          [NewRequest EXCEPT !.pc = "decide", !.want = k, !.hit = k \in keys,
                             !.read = fetched, !.steady = k \in PublishedKids]]
    /\ UNCHANGED <<status, now, keys, fetched, goneAt>>

\* Mutation of Usable: an old document is never fetched again.
UsableForever(r) == request[r].hit

\* time.Since(fetched) < c.refresh, for a kid that was in the cache.
Usable(r) == request[r].hit /\ now - request[r].read < Refresh

UseCached(r) ==
    /\ request[r].pc = "decide"
    /\ Usable(r)
    /\ Answer(r, "granted", FALSE)
    /\ UNCHANGED <<status, now, keys, fetched, goneAt>>

\* Mutation of StartFetch: a kid the cache does not hold is refused while the
\* document is fresh.
StartFetchIfOld(r) ==
    /\ request[r].pc = "decide"
    /\ ~Usable(r)
    /\ IF fetched # Never /\ now - fetched < Refresh
         THEN Answer(r, "refused", FALSE)
         ELSE request' = [request EXCEPT ![r].pc = "fetching",
                                         ![r].since = now]
    /\ UNCHANGED <<status, now, keys, fetched, goneAt>>

StartFetch(r) ==
    /\ request[r].pc = "decide"
    /\ ~Usable(r)
    /\ request' = [request EXCEPT ![r].pc = "fetching", ![r].since = now]
    /\ UNCHANGED <<status, now, keys, fetched, goneAt>>

\* The issuer answers with the document as it is then.
FetchBody(r) ==
    /\ request[r].pc = "fetching"
    /\ request' = [request EXCEPT ![r].pc = "parsed", ![r].body = PublishedKids]
    /\ UNCHANGED <<status, now, keys, fetched, goneAt>>

\* An error, a status other than 200, the timeout: the cache is left alone.
FetchFails(r) ==
    /\ request[r].pc = "fetching"
    /\ Answer(r, "refused", TRUE)
    /\ UNCHANGED <<status, now, keys, fetched, goneAt>>

\* Mutation of StoreKeys: a kid that is not in the document is fetched again,
\* without end.
StoreKeysRetries(r) ==
    /\ request[r].pc = "parsed"
    /\ keys' = request[r].body
    /\ fetched' = now
    /\ IF request[r].want \in request[r].body
         THEN Answer(r, "granted", FALSE)
         ELSE request' = [request EXCEPT ![r].pc = "fetching"]
    /\ UNCHANGED <<status, now, goneAt>>

\* The write back, and the answer from the document just fetched.
StoreKeys(r) ==
    /\ request[r].pc = "parsed"
    /\ keys' = request[r].body
    /\ fetched' = now
    /\ Answer(r, IF request[r].want \in request[r].body
                   THEN "granted" ELSE "refused", FALSE)
    /\ UNCHANGED <<status, now, goneAt>>

-----------------------------------------------------------------------------
RequestProgress(r) ==
    UseCached(r) \/ StartFetch(r) \/ FetchBody(r) \/ FetchFails(r) \/ StoreKeys(r)

CacheNext ==
    \/ IssuerStep
    \/ Advance
    \/ \E r \in Requests, k \in AllKids : GetKey(r, k)
    \/ \E r \in Requests : RequestProgress(r)

\* A handler's goroutine is scheduled, and a fetch ends: the client has a
\* timeout.
CacheFairness == \A r \in Requests : WF_cacheVars(RequestProgress(r))

CacheSpec == CacheInit /\ [][CacheNext]_cacheVars /\ CacheFairness

-----------------------------------------------------------------------------
(* Properties. *)

\* A kid that is published from the moment the request asks for it until the
\* answer is refused only because the issuer could not be reached: a rotation
\* since the last fetch, or an older document that overwrote a newer one, never
\* costs a good token its access.
NoFalseRefusal ==
    \A r \in Requests : request[r].answer = "refused" =>
        request[r].failed \/ ~request[r].steady

\* A kid the issuer dropped is accepted for no longer than the refresh period
\* and one fetch, however the fetches of several requests overwrite each other;
\* a kid it has never had is not accepted at all.
BoundedStaleness ==
    \A r \in Requests : request[r].answer = "granted" =>
        LET k == request[r].want IN
        /\ status[k[1]][k[2]] # "unborn"
        /\ \/ goneAt[k] = Never
           \/ goneAt[k] > request[r].at - Refresh - FetchTimeout
           \/ goneAt[k] >= request[r].at - FetchTimeout

\* Every request is answered.
RequestsAnswered ==
    \A r \in Requests : request[r].pc # "idle" ~> request[r].pc = "idle"

=============================================================================
