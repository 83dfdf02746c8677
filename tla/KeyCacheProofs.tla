--------------------------- MODULE KeyCacheProofs ---------------------------
(***************************************************************************)
(* TLAPS proofs about KeyCache, for any number of requests and any refresh *)
(* period and timeout: what the cache may do to a token.                   *)
(***************************************************************************)
EXTENDS KeyCache, TLAPS

RequestState ==
    [pc : {"idle", "decide", "fetching", "parsed"}, want : AllKids \union {NoWant},
     hit : BOOLEAN, read : Time \union {Never}, since : Time, body : SUBSET AllKids,
     answer : {"none", "granted", "refused"}, at : Time,
     steady : BOOLEAN, failed : BOOLEAN]

CacheTypeOK ==
    /\ status \in [Algorithms -> [Kids -> Status]]
    /\ now \in Time
    /\ keys \in SUBSET AllKids
    /\ fetched \in Time \union {Never}
    /\ request \in [Requests -> RequestState]
    /\ goneAt \in [AllKids -> Time \union {Never}]

\* The issuer has published k, and dropped it at t at the earliest.
KeptUntil(k, t) ==
    /\ status[k[1]][k[2]] # "unborn"
    /\ goneAt[k] = Never \/ goneAt[k] >= t

\* A kid that has a time it was dropped at is gone.
GoneOK ==
    \A k \in AllKids : goneAt[k] # Never => status[k[1]][k[2]] = "gone"

\* A kid in the cache was published one fetch before the document's stamp.
CacheOK ==
    /\ fetched <= now
    /\ \A k \in keys : KeptUntil(k, fetched - FetchTimeout)

\* So was a kid behind a hit.  A kid in a document was published since the fetch
\* began, and the fetch has not timed out.  What the answer granted rests on
\* either.
FreshOK(q) ==
    /\ q.read <= now /\ q.at <= now
    /\ (q.pc = "decide" /\ q.hit) => KeptUntil(q.want, q.read - FetchTimeout)
    /\ q.pc \in {"fetching", "parsed"} => q.since <= now /\ now <= q.since + FetchTimeout
    /\ q.pc = "parsed" => \A k \in q.body : KeptUntil(k, q.since)
    /\ q.answer = "granted" =>
          /\ q.want \in AllKids
          /\ \/ KeptUntil(q.want, q.at - Refresh - FetchTimeout + 1)
             \/ KeptUntil(q.want, q.at - FetchTimeout)

\* A kid published all the while is published, and is in the document.
SteadyOK(q) ==
    /\ q.pc # "idle" => q.want \in AllKids /\ q.answer = "none"
    /\ (q.pc # "idle" /\ q.steady) => q.want \in PublishedKids
    /\ (q.pc = "parsed" /\ q.steady) => q.want \in q.body
    /\ q.answer = "refused" => q.failed \/ ~q.steady

RequestsOK == \A r \in Requests : FreshOK(request[r]) /\ SteadyOK(request[r])

CacheInv == CacheTypeOK /\ GoneOK /\ CacheOK /\ RequestsOK

-----------------------------------------------------------------------------
(* The issuer. *)

\* A step of the issuer keeps the types, never unmakes a key and never brings
\* one back.
LEMMA StatusStep ==
    ASSUME status \in [Algorithms -> [Kids -> Status]], StatusNext
    PROVE  /\ status' \in [Algorithms -> [Kids -> Status]]
           /\ \A k \in AllKids :
                 /\ status[k[1]][k[2]] # "unborn" => status'[k[1]][k[2]] # "unborn"
                 /\ status[k[1]][k[2]] = "gone" => status'[k[1]][k[2]] = "gone"
  <1>1. ASSUME NEW rotated \in SUBSET Algorithms, NEW fresh \in [rotated -> Kids],
               Replace(rotated, fresh)
        PROVE  /\ status' \in [Algorithms -> [Kids -> Status]]
               /\ \A a \in Algorithms, k \in Kids :
                     /\ status[a][k] # "unborn" => status'[a][k] # "unborn"
                     /\ status[a][k] = "gone" => status'[a][k] = "gone"
    BY <1>1 DEF Replace, Status
  <1>2. ASSUME NEW dropped \in SUBSET (Algorithms \X Kids), Drop(dropped)
        PROVE  /\ status' \in [Algorithms -> [Kids -> Status]]
               /\ \A a \in Algorithms, k \in Kids :
                     /\ status[a][k] # "unborn" => status'[a][k] # "unborn"
                     /\ status[a][k] = "gone" => status'[a][k] = "gone"
    BY <1>2 DEF Drop, Status
  <1>3. \A k \in AllKids : k[1] \in Algorithms /\ k[2] \in Kids
    BY DEF AllKids
  <1> QED
    BY <1>1, <1>2, <1>3 DEF StatusNext

\* A published kid has not been dropped.
LEMMA PublishedKept ==
    ASSUME CacheTypeOK, GoneOK, NEW k \in PublishedKids, NEW t
    PROVE  k \in AllKids /\ KeptUntil(k, t)
  BY DEF PublishedKids, KeptUntil, GoneOK, AllKids

\* What was kept until some time in the past still is after a step of the issuer.
LEMMA IssuerKeeps ==
    ASSUME CacheTypeOK, GoneOK, IssuerStep
    PROVE  /\ GoneOK'
           /\ \A k \in AllKids : \A t \in Int :
                 t <= now /\ KeptUntil(k, t) => KeptUntil(k, t)'
  <1>1. ASSUME NEW k \in AllKids
        PROVE  /\ goneAt'[k] = IF k \in PublishedKids /\ k \notin PublishedKids'
                                  THEN now ELSE goneAt[k]
               /\ status[k[1]][k[2]] # "unborn" => status'[k[1]][k[2]] # "unborn"
               /\ status[k[1]][k[2]] = "gone" => status'[k[1]][k[2]] = "gone"
               /\ status'[k[1]][k[2]] \in Status
    BY StatusStep DEF IssuerStep, CacheTypeOK, AllKids
  <1>2. ASSUME NEW k \in AllKids, goneAt'[k] # Never
        PROVE  status'[k[1]][k[2]] = "gone"
    <2>1. CASE k \in PublishedKids /\ k \notin PublishedKids'
      BY <1>1, <2>1 DEF PublishedKids, Status, AllKids
    <2>2. CASE ~(k \in PublishedKids /\ k \notin PublishedKids')
      BY <1>1, <1>2, <2>2 DEF GoneOK
    <2> QED
      BY <2>1, <2>2
  <1>3. ASSUME NEW k \in AllKids, NEW t \in Int, t <= now, KeptUntil(k, t)
        PROVE  KeptUntil(k, t)'
    BY <1>1, <1>3 DEF KeptUntil, CacheTypeOK, Time
  <1> QED
    BY <1>2, <1>3 DEF GoneOK

-----------------------------------------------------------------------------
(* Steps of the requests. *)

\* The answers and the documents leave every request alone but their own.
LEMMA AnswerState ==
    ASSUME CacheTypeOK, NEW r \in Requests, NEW answer \in {"granted", "refused"},
           NEW failed \in BOOLEAN, Answer(r, answer, failed)
    PROVE  /\ request' \in [Requests -> RequestState]
           /\ \A s \in Requests \ {r} : request'[s] = request[s]
           /\ request'[r].pc = "idle" /\ request'[r].answer = answer
           /\ request'[r].at = now /\ request'[r].failed = failed
           /\ request'[r].want = request[r].want
           /\ request'[r].read = request[r].read
           /\ request'[r].steady = request[r].steady
  <1>1. request[r] \in RequestState /\ now \in Time
    BY DEF CacheTypeOK
  <1> DEFINE q == [request[r] EXCEPT !.pc = "idle", !.answer = answer, !.at = now,
                                     !.failed = failed]
  <1>2. request' = [request EXCEPT ![r] = q]
    BY DEF Answer, CacheTypeOK
  <1>3. /\ q \in RequestState /\ q.pc = "idle" /\ q.answer = answer /\ q.at = now
        /\ q.failed = failed /\ q.want = request[r].want
        /\ q.read = request[r].read /\ q.steady = request[r].steady
    BY <1>1 DEF RequestState
  <1> HIDE DEF q
  <1> QED
    BY <1>2, <1>3 DEF CacheTypeOK

\* With the clock and the issuer at rest, only the request that moves and the
\* cache have to be looked at.
LEMMA OneRequest ==
    ASSUME CacheInv, NEW r \in Requests, UNCHANGED <<status, now, goneAt>>,
           request' \in [Requests -> RequestState],
           \A s \in Requests \ {r} : request'[s] = request[s],
           keys' \in SUBSET AllKids, fetched' \in Time \union {Never}, CacheOK',
           FreshOK(request[r])', SteadyOK(request[r])'
    PROVE  CacheInv'
  <1>1. ASSUME NEW s \in Requests \ {r}
        PROVE  FreshOK(request[s])' /\ SteadyOK(request[s])'
    <2>1. request'[s] = request[s] /\ FreshOK(request[s]) /\ SteadyOK(request[s])
      BY DEF CacheInv, RequestsOK
    <2>2. PublishedKids' = PublishedKids
      BY DEF PublishedKids
    <2>3. FreshOK(request[s])'
      BY <2>1 DEF FreshOK, KeptUntil
    <2>4. SteadyOK(request[s])'
      BY <2>1, <2>2 DEF SteadyOK
    <2> QED
      BY <2>3, <2>4
  <1>2. RequestsOK'
    BY <1>1 DEF RequestsOK
  <1> QED
    BY <1>2 DEF CacheInv, CacheTypeOK, GoneOK

-----------------------------------------------------------------------------
(* The actions. *)

\* An empty cache and no requests.
LEMMA InitCache == CacheInit => CacheInv
  <1> SUFFICES ASSUME CacheInit PROVE CacheInv
    OBVIOUS
  <1>1. CacheTypeOK
    <2>1. NewRequest \in RequestState
      BY CacheAssumption DEF CacheAssumption, NewRequest, RequestState, Time
    <2> QED
      BY <2>1, CacheAssumption
         DEF CacheAssumption, CacheInit, StatusInit, CacheTypeOK, Status, Time
  <1>2. GoneOK /\ CacheOK
    BY DEF CacheInit, GoneOK, CacheOK, Never
  <1>3. RequestsOK
    BY DEF CacheInit, RequestsOK, FreshOK, SteadyOK, NewRequest, Never
  <1> QED
    BY <1>1, <1>2, <1>3 DEF CacheInv

\* The clock moves on: no fetch is older than its timeout.
LEMMA AdvanceCache ==
    ASSUME CacheInv, Advance PROVE CacheInv'
  <1>1. now \in Int /\ FetchTimeout \in Int /\ now' = now + 1 /\ now' \in Time
    BY CacheAssumption DEF CacheAssumption, CacheInv, CacheTypeOK, Time, Advance
  <1>2. ASSUME NEW r \in Requests
        PROVE  FreshOK(request[r])' /\ SteadyOK(request[r])'
    <2>1. FreshOK(request[r]) /\ SteadyOK(request[r])
      BY DEF CacheInv, RequestsOK
    <2>2. request[r].read \in Int /\ request[r].at \in Int /\ request[r].since \in Int
      BY DEF CacheInv, CacheTypeOK, RequestState, Time, Never
    <2>3. request[r].pc \in {"fetching", "parsed"} =>
             now < request[r].since + FetchTimeout
      BY DEF Advance, Fetching
    <2>4. FreshOK(request[r])'
      BY <1>1, <2>1, <2>2, <2>3 DEF Advance, FreshOK, KeptUntil
    <2>5. SteadyOK(request[r])'
      BY <2>1 DEF Advance, SteadyOK, PublishedKids
    <2> QED
      BY <2>4, <2>5
  <1>3. CacheOK'
    <2>1. fetched \in Int
      BY DEF CacheInv, CacheTypeOK, Time, Never
    <2> QED
      BY <1>1, <2>1 DEF CacheInv, CacheOK, Advance, KeptUntil
  <1> QED
    BY <1>1, <1>2, <1>3 DEF CacheInv, CacheTypeOK, GoneOK, RequestsOK, Advance

\* The issuer rotates or drops keys: whatever was kept until some time is kept
\* until then, and a request whose kid was dropped is not steady any more.
LEMMA IssuerCache ==
    ASSUME CacheInv, IssuerStep PROVE CacheInv'
  <1>1. UNCHANGED <<now, keys, fetched>> /\ now \in Int /\ FetchTimeout \in Nat
        /\ Refresh \in Nat
    BY CacheAssumption DEF CacheAssumption, CacheInv, CacheTypeOK, Time, IssuerStep
  <1>2. /\ GoneOK'
        /\ \A k \in AllKids : \A t \in Int :
              t <= now /\ KeptUntil(k, t) => KeptUntil(k, t)'
    BY IssuerKeeps DEF CacheInv
  <1>3. ASSUME NEW r \in Requests
        PROVE  /\ request'[r] \in RequestState
               /\ FreshOK(request[r])' /\ SteadyOK(request[r])'
    <2>1. /\ request[r] \in RequestState
          /\ FreshOK(request[r]) /\ SteadyOK(request[r])
      BY DEF CacheInv, RequestsOK, CacheTypeOK
    <2> DEFINE steady == IF request[r].pc = "idle" THEN request[r].steady
                         ELSE request[r].steady /\ request[r].want \in PublishedKids'
    <2>2. request'[r] = [request[r] EXCEPT !.steady = steady] /\ steady \in BOOLEAN
      BY <2>1 DEF IssuerStep, RequestState
    <2>3. /\ request'[r] \in RequestState /\ request'[r].steady = steady
          /\ request'[r].pc = request[r].pc /\ request'[r].want = request[r].want
          /\ request'[r].hit = request[r].hit /\ request'[r].read = request[r].read
          /\ request'[r].since = request[r].since
          /\ request'[r].body = request[r].body
          /\ request'[r].answer = request[r].answer /\ request'[r].at = request[r].at
          /\ request'[r].failed = request[r].failed
      <3> HIDE DEF steady
      <3> QED
        BY <2>1, <2>2 DEF RequestState
    <2>4. /\ request[r].read \in Int /\ request[r].at \in Int /\ request[r].since \in Int
          /\ request[r].body \subseteq AllKids
      BY <2>1 DEF RequestState, Time, Never
    <2>5. FreshOK(request[r])'
      <3>1. (request'[r].pc = "decide" /\ request'[r].hit) =>
               KeptUntil(request[r].want, request[r].read - FetchTimeout)'
        BY <1>1, <1>2, <2>1, <2>3, <2>4 DEF FreshOK, SteadyOK
      <3>2. request'[r].pc = "parsed" =>
               \A k \in request[r].body : KeptUntil(k, request[r].since)'
        BY <1>1, <1>2, <2>1, <2>3, <2>4 DEF FreshOK
      <3>3. request'[r].answer = "granted" =>
               \/ KeptUntil(request[r].want,
                            request[r].at - Refresh - FetchTimeout + 1)'
               \/ KeptUntil(request[r].want, request[r].at - FetchTimeout)'
        <4> DEFINE late == request[r].at - Refresh - FetchTimeout + 1
        <4>1. /\ late \in Int /\ request[r].at <= now
              /\ request[r].at - FetchTimeout \in Int
              /\ request[r].at - FetchTimeout <= now
          BY <1>1, <2>1, <2>4 DEF FreshOK
        <4>2. CASE late <= now
          BY <1>2, <2>1, <2>3, <4>1, <4>2 DEF FreshOK
        <4>3. CASE late > now
          <5>1. late >= request[r].at - FetchTimeout
            BY <1>1, <2>4, <4>1, <4>3
          <5>2. ASSUME request'[r].answer = "granted"
                PROVE  /\ request[r].want \in AllKids
                       /\ KeptUntil(request[r].want, request[r].at - FetchTimeout)
            <6>1. goneAt[request[r].want] \in Int
              BY <2>1, <2>3, <5>2
                 DEF FreshOK, CacheInv, CacheTypeOK, Time, Never
            <6> QED
              BY <2>1, <2>3, <4>1, <5>1, <5>2, <6>1 DEF FreshOK, KeptUntil
          <5> QED
            BY <1>1, <1>2, <2>3, <4>1, <5>2
        <4> QED
          BY <1>1, <4>1, <4>2, <4>3
      <3> QED
        BY <1>1, <2>1, <2>3, <3>1, <3>2, <3>3 DEF FreshOK
    <2>6. SteadyOK(request[r])'
      BY <2>1, <2>3 DEF SteadyOK
    <2> QED
      BY <2>3, <2>5, <2>6
  <1>4. CacheOK'
    <2>1. fetched \in Int /\ keys \subseteq AllKids
      BY DEF CacheInv, CacheTypeOK, Time, Never
    <2> QED
      BY <1>1, <1>2, <2>1 DEF CacheInv, CacheOK
  <1>5. CacheTypeOK'
    <2>1. status' \in [Algorithms -> [Kids -> Status]]
      BY StatusStep DEF CacheInv, CacheTypeOK, IssuerStep
    <2>2. request' \in [Requests -> RequestState]
      BY <1>3 DEF IssuerStep
    <2>3. goneAt' \in [AllKids -> Time \union {Never}]
      BY DEF CacheInv, CacheTypeOK, IssuerStep
    <2> QED
      BY <1>1, <2>1, <2>2, <2>3 DEF CacheInv, CacheTypeOK
  <1> QED
    BY <1>2, <1>3, <1>4, <1>5 DEF CacheInv, RequestsOK

\* getKey reads the cache: a hit is as old as the document it comes from.
LEMMA GetKeyCache ==
    ASSUME CacheInv, NEW r \in Requests, NEW k \in AllKids, GetKey(r, k)
    PROVE  CacheInv'
  <1> DEFINE q == [NewRequest EXCEPT !.pc = "decide", !.want = k, !.hit = k \in keys,
                                     !.read = fetched, !.steady = k \in PublishedKids]
  <1>0. NewRequest \in RequestState /\ NewRequest.answer = "none" /\ NewRequest.at = 0
    BY CacheAssumption DEF CacheAssumption, NewRequest, RequestState, Time
  <1>1. /\ q.pc = "decide" /\ q.want = k /\ q.hit = (k \in keys)
        /\ q.read = fetched /\ q.steady = (k \in PublishedKids)
        /\ q.answer = "none" /\ q.at = 0 /\ q \in RequestState
    <2> DEFINE hit == k \in keys
               steady == k \in PublishedKids
    <2>1. hit \in BOOLEAN /\ steady \in BOOLEAN
      OBVIOUS
    <2>2. fetched \in Time \union {Never}
      BY DEF CacheInv, CacheTypeOK
    <2> HIDE DEF hit, steady
    <2>3. LET p == [NewRequest EXCEPT !.pc = "decide", !.want = k, !.hit = hit,
                                      !.read = fetched, !.steady = steady] IN
          /\ p.pc = "decide" /\ p.want = k /\ p.hit = hit /\ p.read = fetched
          /\ p.steady = steady /\ p.answer = "none" /\ p.at = 0 /\ p \in RequestState
      BY <1>0, <2>1, <2>2 DEF RequestState
    <2> QED
      BY <2>3 DEF hit, steady
  <1>2. request' = [request EXCEPT ![r] = q]
    BY DEF GetKey
  <1>3. UNCHANGED <<status, now, keys, fetched, goneAt>>
    BY DEF GetKey
  <1> HIDE DEF q
  <1>4. /\ request'[r] = q /\ request' \in [Requests -> RequestState]
        /\ \A s \in Requests \ {r} : request'[s] = request[s]
    BY <1>1, <1>2 DEF CacheInv, CacheTypeOK
  <1>5. CacheOK' /\ PublishedKids' = PublishedKids
    BY <1>3 DEF CacheInv, CacheOK, KeptUntil, PublishedKids
  <1>6. FreshOK(request[r])'
    <2>1. fetched <= now /\ 0 <= now
      BY DEF CacheInv, CacheOK, CacheTypeOK, Time
    <2>2. k \in keys => KeptUntil(k, fetched - FetchTimeout)
      BY DEF CacheInv, CacheOK
    <2> QED
      BY <1>1, <1>3, <1>4, <2>1, <2>2 DEF FreshOK, KeptUntil
  <1>7. SteadyOK(request[r])'
    BY <1>1, <1>4, <1>5 DEF SteadyOK
  <1> QED
    BY <1>3, <1>4, <1>5, <1>6, <1>7, OneRequest DEF CacheInv, CacheTypeOK

\* An answer from the cache: the hit is younger than the refresh period.
LEMMA UseCachedCache ==
    ASSUME CacheInv, NEW r \in Requests, UseCached(r) PROVE CacheInv'
  <1>1. /\ request[r].pc = "decide" /\ request[r].hit
        /\ now - request[r].read < Refresh
        /\ Answer(r, "granted", FALSE) /\ UNCHANGED <<status, now, keys, fetched, goneAt>>
    BY DEF UseCached, Usable
  <1>2. /\ FreshOK(request[r]) /\ SteadyOK(request[r])
        /\ request[r].read \in Int /\ now \in Int /\ Refresh \in Int
        /\ FetchTimeout \in Int
    BY CacheAssumption DEF CacheAssumption, CacheInv, CacheTypeOK, RequestsOK,
                           RequestState, Time, Never
  <1>3. /\ request' \in [Requests -> RequestState]
        /\ \A s \in Requests \ {r} : request'[s] = request[s]
        /\ request'[r].pc = "idle" /\ request'[r].answer = "granted"
        /\ request'[r].at = now /\ request'[r].read = request[r].read
        /\ request'[r].want = request[r].want
    BY <1>1, AnswerState DEF CacheInv
  <1>4. CacheOK'
    BY <1>1 DEF CacheInv, CacheOK, KeptUntil
  <1>5. /\ request[r].want \in AllKids
        /\ KeptUntil(request[r].want, now - Refresh - FetchTimeout + 1)
    <2>1. /\ request[r].want \in AllKids
          /\ KeptUntil(request[r].want, request[r].read - FetchTimeout)
      BY <1>1, <1>2 DEF FreshOK, SteadyOK
    <2>2. goneAt[request[r].want] \in Int
      BY <2>1 DEF CacheInv, CacheTypeOK, Time, Never
    <2> QED
      BY <1>1, <1>2, <2>1, <2>2 DEF KeptUntil
  <1>6. FreshOK(request[r])'
    BY <1>1, <1>2, <1>3, <1>5 DEF FreshOK, KeptUntil
  <1>7. SteadyOK(request[r])'
    BY <1>3 DEF SteadyOK
  <1> QED
    BY <1>1, <1>3, <1>4, <1>6, <1>7, OneRequest DEF CacheInv, CacheTypeOK

\* The fetch begins.
LEMMA StartFetchCache ==
    ASSUME CacheInv, NEW r \in Requests, StartFetch(r) PROVE CacheInv'
  <1> DEFINE q == [request[r] EXCEPT !.pc = "fetching", !.since = now]
  <1>1. /\ request[r].pc = "decide" /\ UNCHANGED <<status, now, keys, fetched, goneAt>>
        /\ request' = [request EXCEPT ![r] = q]
    BY DEF StartFetch, CacheInv, CacheTypeOK
  <1>2. /\ request[r] \in RequestState /\ now \in Time
        /\ FreshOK(request[r]) /\ SteadyOK(request[r])
    BY DEF CacheInv, CacheTypeOK, RequestsOK
  <1>3. /\ q \in RequestState /\ q.pc = "fetching" /\ q.since = now
        /\ q.want = request[r].want /\ q.read = request[r].read
        /\ q.answer = request[r].answer /\ q.at = request[r].at
        /\ q.steady = request[r].steady /\ q.failed = request[r].failed
    BY <1>2 DEF RequestState
  <1> HIDE DEF q
  <1>4. /\ request'[r] = q /\ request' \in [Requests -> RequestState]
        /\ \A s \in Requests \ {r} : request'[s] = request[s]
    BY <1>1, <1>3 DEF CacheInv, CacheTypeOK
  <1>5. CacheOK' /\ PublishedKids' = PublishedKids
    BY <1>1 DEF CacheInv, CacheOK, KeptUntil, PublishedKids
  <1>6. FreshOK(request[r])'
    BY <1>1, <1>2, <1>3, <1>4, CacheAssumption
       DEF CacheAssumption, FreshOK, SteadyOK, KeptUntil, Time
  <1>7. SteadyOK(request[r])'
    BY <1>1, <1>2, <1>3, <1>4, <1>5 DEF SteadyOK
  <1> QED
    BY <1>1, <1>4, <1>5, <1>6, <1>7, OneRequest DEF CacheInv, CacheTypeOK

\* The document holds what is published now, since the fetch began therefore.
LEMMA FetchBodyCache ==
    ASSUME CacheInv, NEW r \in Requests, FetchBody(r) PROVE CacheInv'
  <1> DEFINE q == [request[r] EXCEPT !.pc = "parsed", !.body = PublishedKids]
  <1>1. /\ request[r].pc = "fetching" /\ UNCHANGED <<status, now, keys, fetched, goneAt>>
        /\ request' = [request EXCEPT ![r] = q]
    BY DEF FetchBody, CacheInv, CacheTypeOK
  <1>2. /\ request[r] \in RequestState /\ PublishedKids \subseteq AllKids
        /\ FreshOK(request[r]) /\ SteadyOK(request[r])
    BY DEF CacheInv, CacheTypeOK, RequestsOK, PublishedKids, AllKids
  <1>3. /\ q \in RequestState /\ q.pc = "parsed" /\ q.body = PublishedKids
        /\ q.since = request[r].since
        /\ q.want = request[r].want /\ q.read = request[r].read
        /\ q.answer = request[r].answer /\ q.at = request[r].at
        /\ q.steady = request[r].steady /\ q.failed = request[r].failed
    BY <1>2 DEF RequestState
  <1> HIDE DEF q
  <1>4. /\ request'[r] = q /\ request' \in [Requests -> RequestState]
        /\ \A s \in Requests \ {r} : request'[s] = request[s]
    BY <1>1, <1>3 DEF CacheInv, CacheTypeOK
  <1>5. CacheOK' /\ PublishedKids' = PublishedKids
    BY <1>1 DEF CacheInv, CacheOK, KeptUntil, PublishedKids
  <1>6. \A k \in PublishedKids : KeptUntil(k, request[r].since)
    BY PublishedKept DEF CacheInv
  <1>7. FreshOK(request[r])'
    BY <1>1, <1>2, <1>3, <1>4, <1>6 DEF FreshOK, SteadyOK, KeptUntil
  <1>8. SteadyOK(request[r])'
    BY <1>1, <1>2, <1>3, <1>4, <1>5 DEF SteadyOK
  <1> QED
    BY <1>1, <1>4, <1>5, <1>7, <1>8, OneRequest DEF CacheInv, CacheTypeOK

\* A failed fetch refuses, and says so.
LEMMA FetchFailsCache ==
    ASSUME CacheInv, NEW r \in Requests, FetchFails(r) PROVE CacheInv'
  <1>1. Answer(r, "refused", TRUE) /\ UNCHANGED <<status, now, keys, fetched, goneAt>>
    BY DEF FetchFails
  <1>2. FreshOK(request[r]) /\ now \in Int
    BY CacheAssumption DEF CacheAssumption, CacheInv, CacheTypeOK, RequestsOK, Time
  <1>3. /\ request' \in [Requests -> RequestState]
        /\ \A s \in Requests \ {r} : request'[s] = request[s]
        /\ request'[r].pc = "idle" /\ request'[r].answer = "refused"
        /\ request'[r].at = now /\ request'[r].read = request[r].read
        /\ request'[r].failed = TRUE
    BY <1>1, AnswerState DEF CacheInv
  <1>4. CacheOK'
    BY <1>1 DEF CacheInv, CacheOK, KeptUntil
  <1>5. FreshOK(request[r])' /\ SteadyOK(request[r])'
    BY <1>1, <1>2, <1>3 DEF FreshOK, SteadyOK
  <1> QED
    BY <1>1, <1>3, <1>4, <1>5, OneRequest DEF CacheInv, CacheTypeOK

\* The document is written back with the time of the write, one fetch after it
\* began at most, and the answer comes from the document itself.
LEMMA StoreKeysCache ==
    ASSUME CacheInv, NEW r \in Requests, StoreKeys(r) PROVE CacheInv'
  <1> DEFINE answer == IF request[r].want \in request[r].body
                         THEN "granted" ELSE "refused"
  <1>1. /\ request[r].pc = "parsed" /\ keys' = request[r].body /\ fetched' = now
        /\ Answer(r, answer, FALSE) /\ UNCHANGED <<status, now, goneAt>>
    BY DEF StoreKeys
  <1>2. /\ FreshOK(request[r]) /\ SteadyOK(request[r])
        /\ request[r].since \in Int /\ now \in Int /\ now \in Time
        /\ FetchTimeout \in Int /\ request[r].body \subseteq AllKids
    BY CacheAssumption DEF CacheAssumption, CacheInv, CacheTypeOK, RequestsOK,
                           RequestState, Time
  <1>3. /\ request' \in [Requests -> RequestState]
        /\ \A s \in Requests \ {r} : request'[s] = request[s]
        /\ request'[r].pc = "idle" /\ request'[r].answer = answer
        /\ request'[r].at = now /\ request'[r].read = request[r].read
        /\ request'[r].want = request[r].want
        /\ request'[r].steady = request[r].steady
    BY <1>1, AnswerState DEF CacheInv
  <1>4. \A k \in request[r].body : KeptUntil(k, now - FetchTimeout)
    <2> SUFFICES ASSUME NEW k \in request[r].body
                 PROVE  KeptUntil(k, now - FetchTimeout)
      OBVIOUS
    <2>1. goneAt[k] \in Int
      BY <1>2 DEF CacheInv, CacheTypeOK, Time, Never
    <2>2. /\ KeptUntil(k, request[r].since)
          /\ now - FetchTimeout <= request[r].since
      BY <1>1, <1>2 DEF FreshOK
    <2> QED
      BY <1>2, <2>1, <2>2 DEF KeptUntil
  <1>5. CacheOK'
    BY <1>1, <1>2, <1>4 DEF CacheOK, KeptUntil
  <1>6. FreshOK(request[r])'
    BY <1>1, <1>2, <1>3, <1>4 DEF FreshOK, SteadyOK, KeptUntil
  <1>7. SteadyOK(request[r])'
    BY <1>1, <1>2, <1>3 DEF SteadyOK
  <1> QED
    BY <1>1, <1>2, <1>3, <1>5, <1>6, <1>7, OneRequest

-----------------------------------------------------------------------------
\* The inductive invariant of the cache, its requests and the issuer.
THEOREM CacheInvariant == CacheSpec => []CacheInv
  <1>1. CacheInv /\ [CacheNext]_cacheVars => CacheInv'
    <2> SUFFICES ASSUME CacheInv, [CacheNext]_cacheVars PROVE CacheInv'
      OBVIOUS
    <2>1. CASE UNCHANGED cacheVars
      BY <2>1 DEF cacheVars, CacheInv, CacheTypeOK, GoneOK, CacheOK, RequestsOK,
                  FreshOK, SteadyOK, KeptUntil, PublishedKids
    <2> QED
      BY <2>1, IssuerCache, AdvanceCache, GetKeyCache, UseCachedCache,
         StartFetchCache, FetchBodyCache, FetchFailsCache, StoreKeysCache
         DEF CacheNext, RequestProgress
  <1> QED
    BY <1>1, InitCache, PTL DEF CacheSpec

\* A good token is refused only because the issuer could not be reached.
THEOREM GoodTokensPass == CacheSpec => []NoFalseRefusal
  <1>1. CacheInv => NoFalseRefusal
    BY DEF CacheInv, RequestsOK, SteadyOK, NoFalseRefusal
  <1> QED
    BY <1>1, CacheInvariant, PTL

\* A dropped kid is accepted for no longer than the refresh period and a fetch,
\* whichever documents overwrite each other.
THEOREM StalenessBounded == CacheSpec => []BoundedStaleness
  <1>1. CacheInv => BoundedStaleness
    <2> SUFFICES ASSUME CacheInv, NEW r \in Requests, request[r].answer = "granted"
                 PROVE  LET k == request[r].want IN
                        /\ status[k[1]][k[2]] # "unborn"
                        /\ \/ goneAt[k] = Never
                           \/ goneAt[k] > request[r].at - Refresh - FetchTimeout
                           \/ goneAt[k] >= request[r].at - FetchTimeout
      BY DEF BoundedStaleness
    <2>1. FreshOK(request[r])
      BY DEF CacheInv, RequestsOK
    <2>2. request[r].at \in Int /\ Refresh \in Int /\ FetchTimeout \in Int
      BY CacheAssumption
         DEF CacheAssumption, CacheInv, CacheTypeOK, RequestState, Time
    <2>3. goneAt[request[r].want] \in Int
      BY <2>1 DEF FreshOK, CacheInv, CacheTypeOK, Time, Never
    <2> QED
      BY <2>1, <2>2, <2>3 DEF FreshOK, KeptUntil
  <1> QED
    BY <1>1, CacheInvariant, PTL

=============================================================================
