# A TLA+ model of jwtoken-tester

jwtoken-tester is an issuer of JWTs for integration tests: it keeps its signing
keys in memory, rotates them, publishes the active and the retired ones as a
JWKS, mints tokens on request and classifies tokens it is shown. It runs as a
daemon (`serve`), embedded in a Go test (`pkg/tester`), and as a command
(`print-token`, `decode`, `verify`); a demo service under `docker/` shows how a
resource server would use it.

This directory holds TLA+ modules translated from that code, TLC configurations
that check them on small instances, and proofs that TLAPS checks for every value
of the constants. `PROJECT.json` ties each definition to the lines it models,
each property to a mutation of the code that breaks it, and each hazard to the
properties that would catch it.

## The system

| Part | Source | State | Operations |
| --- | --- | --- | --- |
| key ring | `internal/keyring/keyring.go` | an active key per algorithm, retired keys with `RetiredAt`, under one `RWMutex` | `Rotate(At)`, `Prune(At)`, `StartRotation` (a goroutine), `Signer`, `Lookup`, `JWKS` |
| token factory | `internal/tokenfactory/factory.go` | none of its own | `Mint`, `ParseTimeValue` |
| classifier | `internal/verify/verify.go` | none | `Verify` |
| HTTP server | `internal/server/server.go` | `visitors` and `lastSeen` under a mutex; a cleanup goroutine | the rate-limit middleware, the handlers, `Close` |
| embedded server | `pkg/tester/tester.go` | listener, contexts, `closeOnce` | `Start`, `Close`, `Rotate`, `PruneAt`, accessors |
| commands | `cmd/jwtoken-tester` | none | `serve`, `print-token`, `decode`, `verify`, `healthcheck` |
| demo service | `docker/demo-service/main.go` | a JWKS cache under an `RWMutex` | `getKey`, `refreshAndGet` |

They interact as follows. A request handler takes the rate limiter's lock, then
the ring's, several times and with none held in between. The rotation goroutine
and callers of `Rotate` and `PruneAt` change the ring meanwhile. `Close` waits
for the requests, the rotation goroutine and the cleanup goroutine; the daemon
ends the same goroutines on a signal, with a limit on the time. Clients see the
ring through the JWKS document, which they fetch and cache while the ring moves
on, and embedding programs through accessors that hold the lock for a part of
their work only.

What is hard to test here is what happens between two lock sections: a clock
read before a lock, a key used after an unlock, a second lookup that answers
differently from the first, a tick that was taken late, a goroutine that picks
the tick although the context is cancelled, two refreshes that finish in the
other order, a rotation that fails half-way, a signal before the listener is
open. `PROJECT.json` lists these as hazards, at their lines. A second group are
boundaries: the instant at which grace, leeway or TTL are exactly used up, and
`int64` seconds that wrap. A third are decisions taken twice: a handler checks
an algorithm or a lifetime that `Mint` or `Verify` checks again.

## Modules

Keys are `<<algorithm, generation>>` throughout: a kid is the thumbprint of a
fresh random key, so no two keys share one.

- **KeyStatus** is the abstract specification: what the ring promises to whoever
  holds a kid. A kid is unborn, active, retired or gone; `Replace` and `Drop` are
  the only steps.
- **KeyRing** models `keyring.go`. Every exported method holds `r.mu` for its
  whole body, so it is one step; the clock read in `Rotate` (`RotateStamp`), and
  the goroutine's receive, `RotateAt` and `PruneAt` are steps of their own.
  `RotateAt(t, rotated)` is parameterised by the algorithms handled before
  `generateKey` failed, in `allAlgorithms` order. The variables after `callNow`
  are history: they appear in properties and never in a guard.
  `KeyLife` instantiates KeyStatus with what `Lookup` answers.
- **Issuer** composes KeyRing with the requests that mint: reading the clock and
  checking the cap, `Signer` under the lock, signing without it, and the second
  `Signer` call of the handler's audit entry.
- **TokenTimes** is the arithmetic of `Mint` at integer width: `ParseTimeValue`,
  `time.Unix`, `Add`, `Sub` (saturating), the cap and `expires_in`. An `exp` is a
  number (`Truncate`: `int64(v)` cuts a fraction off toward zero), a decimal
  string (`NumeralInstants`: "0" is a duration to `time.ParseDuration`, which is
  tried first, and every other numeral epoch seconds), a duration or a date.
  Issuer's clock unit is a second, so the truncation of `now` is the identity
  there; the fractions are here.
- **Verify** is the classifier as a function. A token is a record of what the
  checks can tell apart; the policy is `verify.Input`. The reason `"error"` stands
  for the returns without a verdict (HTTP 500, exit code 2): no key source, a
  `Lookup` that fails other than with `ErrKeyNotFound`, and a signature segment
  that does not decode, which the first pass does not look at. The validator and
  `GetAudience` could fail only on claims that `validateClaimShapes` has rejected,
  as it calls the same getters. `Carried` is what golang-jwt's `MapClaims` makes
  of a time claim: the number 0 is no claim. That, and that `ParseUnverified` does
  not decode the signature, is knowledge of golang-jwt v5.3.1, the version of
  `go.mod`, whose source is not in the repository.
- **Endpoints** composes TokenTimes and Verify with everything that calls them:
  `POST /token`, `/oauth/token`, `/v2/oauth/token`, `/verify` and `/introspect`,
  `tester.Server.Mint` and `print-token`. A behaviour is one call: what the front
  end refuses itself (`Precheck`, `VerifyRefused`), what it passes on (`MintAlg`,
  `VerifyPolicy`, `IntrospectPolicy`), and what it makes of the result (`Answer`,
  `IntrospectActive`). Server errors are the random source of a `jti` that fails
  (`JTIFails`), a claim that cannot be marshalled, which only an embedding program
  can pass (`SignFails`), and an error of Verify. The ring's `Lookup` has no error
  but `ErrKeyNotFound` (`keyring.go:318-334`), so only a key source of the caller's
  own has others. A refusal's wording and status code within its class are left
  out.
- **RingViews** composes KeyRing with its readers: `tester.Server.Keys`, whose
  reads of `RetiredAt` race with `RotateAt`, the health document, which takes the
  lock once per algorithm, and the lookups by kid. A racing read may yield the
  zero time, the stamp, or a mixture (`Torn`).
- **RateLimiter** models the middleware, the visitor maps and the cleanup
  goroutine. The token bucket is the library's and modelled by its effect.
- **Lifecycle** models `tester.Server.Close` and the `server.Server.Close` it
  calls against both goroutines, requests in flight and other closers.
- **ServeCommand** adds `runServe` to Lifecycle and states the specification of
  both: the start-up and its errors, signals, the listening goroutine, `Shutdown`
  with its timeout, and the exit, which ends whatever still runs. Its context is
  Lifecycle's `rotationCtx`: a signal, `stop()` and the rotation goroutine share
  it. An embedded issuer is a behaviour with `main = "embedded"`.
- **KeyCache** models the demo service's cache against KeyStatus.
- **CliVerify** models `jwtoken-tester verify` against KeyStatus with restarts:
  the key source (a URL, a file, or discovery), the algorithms that the fetched
  document or `--alg` allows, and the exit code. The issuer runs before the
  command is called (`Begin`), and the JWKS document may be saved to the file at
  any time until then (`SaveJWKS`), so a file may hold keys that are gone and lack
  the current ones. The token is chosen when `Judge` looks at it; nothing before
  depends on it.

The `MC*` modules only define the values the configurations need.
The `*Proofs` modules hold the theorems: `KeyRingProofs` (with the refinement of
KeyStatus), `IssuerProofs`, `RingViewsProofs`, `EndpointsProofs` (which is about
TokenTimes and Verify too), `ServeProofs` (Lifecycle and ServeCommand),
`RateLimiterProofs`, `KeyCacheProofs` and `CliVerifyProofs`.

## Bounds and fairness

`MaxTime`, `MaxGen`, `MaxLimiters` and `MaxRestarts` end the exploration.
`MaxLag` and `MaxStall` are different: they say how long a step may be delayed
between reading a clock and using it, and properties mention them, because the
guarantees of the code depend on them. `FetchTimeout` is the ten seconds of the
demo service's client.

- RingViews, which checks KeyRing too: five clock units with a grace and an
  interval of two are two cycles and the expiry of a key retired at the start,
  with a manual rotation anywhere. Two algorithms suffice for a rotation that
  fails half-way, and a caller and the goroutine for one that overtakes another.
  The time passed to `PruneAt` is ahead of the clock at first and behind it later;
  the runs of Issuer pass every time. Viewers do not interact, so one is enough.
  What more callers, other times and longer schedules do is proved.
- Issuer: the lifetimes lie around the cap, and a rotation, an expiry and a
  pruning fit into four units after a token.
- Endpoints: every call is an initial state. For tokens asked for, seven-bit
  words, an epoch offset of ten and four units to a second, with numbers, whole
  and fractional, and numerals over the whole word and beyond either end, and
  rings with and without RS256. For tokens judged, leeway, clock and claims
  straddle each other by one unit on either side, with 0 among the instants;
  algorithms are enabled ones, a registered one that is not enabled, and an
  unknown one, and an alg parameter is any set of them. The run VerifyOrder uses
  the same values for tokens judged.
- Serve: two closers and two requests; the daemon has one main goroutine and one
  listener.
- RateLimiter: seven units hold two cleanups past the idle limit. A burst takes
  two units, which is exactly what a stall of two leaves of an idle limit of three.
- KeyCache: a refresh time and a fetch of one unit each; two requests are enough
  for a late write of an early document.
- CliVerify: two algorithms with three kids each are two rotations, or one and a
  restart, before and during the command; algorithms are symmetric. One issuer
  URL and its absence are enough for a mismatch.

Fairness matters to the liveness properties only. Some configurations switch the
deadlock check off: RateLimiter stops at `MaxTime`, and the runs of Endpoints and
TokenTimes answer one call and stop.

ServeCommand assumes weak fairness of each closer that has begun, of the main
goroutine of the daemon (whose wait for requests ends at the timeout) and of the
goroutines' bodies (Go's scheduler runs a runnable goroutine), and strong fairness
of `RotationExit` and `CleanupExit`: a select with two ready cases chooses at
random, so a cancellation that is ready again and again is taken. That handlers
return is assumed of an embedded issuer, whose `Close` waits for them without a
limit, and not of the daemon. Nothing is assumed of ticks, arrivals, signals, the
listener or of anyone calling `Close`.
KeyCache assumes weak fairness of each request's progress: the fetch has a
timeout, so it ends in a body or an error.

## What the runs show

| Run | Result |
| --- | --- |
| Issuer | with enough grace an unexpired token's key is published; no token is signed with a key that was replaced before the request |
| Endpoints | the cap, its boundary, the rounding of `expires_in`, and that `exp` is the second asked for however it is spelled; the first failing check decides a verdict, also at the very instants of `exp`, `nbf` and `iat`, authenticated claims are signed, leeway only widens, narrowing algorithms only rejects; what the OAuth handlers let pass `Mint` accepts, a call gets its token exactly if nothing is wrong with it (the random source and unmarshallable claims apart), a minted token introspects as active from its first second to its last, `/verify` answers valid only within what was asked, and `active` agrees with `/verify` whatever claims a token carries |
| RingViews | a retired key is published for its grace less the lag, and leaves within an interval and the lag after its grace, with rotations that fail half-way or overtake each other; KeyRing implements KeyStatus; `Keys` and the health document name at most one current key per algorithm, and what they name can be looked up for the grace less the lag |
| RateLimiter | forgetting idle clients costs no accuracy when a bucket refills within the idle limit less a handler's stall; limiters are neither shared nor orphaned in use |
| Serve | `Close` returns, to every caller, and only after everything has stopped; the daemon ends after a signal or a failed listener even if a handler hangs, and cuts nothing off before the timeout |
| KeyCache | no false refusal without a failed fetch; a dropped key is honoured for less than refresh plus fetch; requests are answered |
| CliVerify | exit 0 means the kid was published during the command or, with a file, is in the file and was the issuer's at some time; a kid published throughout, or in the file, is found, and its algorithm accepted |

With a file the command says nothing about the present: a pruned key in it gives
exit 0, and a new key missing from it an unknown kid. The properties say just
that, and the states in which the two differ are in the run.

Five runs end in a counterexample, each to a sentence of the README or of
`openspec/` (quoted under `findings`):

- *KeyRingManual*: `Rotate` never prunes, so without the scheduler an expired key
  stays in the JWKS after a later rotation.
- *IssuerReadmeGrace*: `GRACE_PERIOD = MAX_TTL` is not quite enough, because
  `RetiredAt` is read before the lock and a token may be signed in between. The
  rule that holds, and is proved, is `Grace >= MaxTTL + MaxLag`.
- *IssuerAudit*: the audit entry can name a key that did not sign the token.
- *TokenTimesOverflow*: an `exp` near the end of `int64` wraps and passes the cap.
- *VerifyOrder*: a token that is both misshapen and of an unknown algorithm is
  answered with `alg`; the documented order puts structural checks first. The
  trace shows this one. `DocumentedReason` fails on two other kinds of token as
  well: one with `exp` 0 never expires (`token-verification/spec.md:52-53` says
  `expired`), and one whose signature segment does not decode makes `/verify`
  answer 500 (`:22` says 200 with a verdict, `:36-37` says `malformed`).
  `Undocumented` names the three, and `FirstFailure`, which passes and is proved,
  is about all other tokens; `ValidAnswerEarned` is about every `exp` but 0.

Modelling met other disagreements, which reading the lines settles:

- `factory.go:163` tries `time.ParseDuration` before the integer parse, and it
  accepts "0" (with a sign too): the numeric string "0" means now, and the number
  0 means 1970. `token-minting/spec.md:37` wants epoch seconds for either.
  `NumeralInstants` has the code's reading; `ExpAsAsked` is about every other
  spelling.
- `cli.go:325`: `verify --issuer` holds the token against the issuer that the
  discovery document names, and against the supplied URL only when it names none;
  `cli/spec.md:97` says "the supplied issuer URL". `ExpectedIssuer` has the code's
  choice; no property is about it.
- `server.go:193` keys the rate limiter by address and port;
  `http-api/security/spec.md:17` limits "each client IP". `KeyLimited` is
  therefore about keys of the map.
- `server.go:163` forgets a limiter after ten minutes whatever its level. A burst
  of more than ten minutes' worth of requests is refilled early; `KeyLimited` is
  about the other configurations, the default (200 at 100 per second) among them.
  The ten minutes count from `getVisitorLimiter`, and `Allow` may come later by
  as long as the handler is stalled, so the time left to earn the burst is
  `IdleLimit + 1 - MaxStall`: with `Full <= Rate * IdleLimit` alone the proof of
  `KeyLimited` fails, and TLC finds the behaviour for a stall as long as the limit.
- `verify.go:171` gives no `kid_status` with an `alg` failure;
  `token-verification/spec.md:128` wants one whenever there is a `kid`.
- `tester.go:208` calls the result of `Keys` a snapshot. `RetiredAt` is read
  twice per key after the unlock, without synchronisation with the write in
  `RotateAt`, so a result may show no current key for an algorithm, or a `Retired`
  that contradicts `RetiredAt`. `KeysConsistent` states what is left.
- `main.go:162`: a daemon that cannot bind its address ends through the same path
  as one that got a signal, with exit code 0.
- `tester.go:126`: `httptest.NewUnstartedServer` opens a listener of its own, which
  is overwritten and never closed.
- `demo-service/main.go:218`: `main` returns when `ListenAndServe` does, which is
  before `Shutdown` has drained the requests.

## What is proved

Every invariant that a run checks, and the refinement, for all constants that
satisfy the named assumptions of the modules. Those are types and signs, and
these facts: rotations lag by less than the interval and the grace where a
theorem says so; the clock is past the first second of 1970 and no `Duration` leads from it out of
the range of `time.Time` (`RangesAssumption`); the library knows the three
algorithms of the ring, and a ring has one at least (`FrontEndAssumption`);
`WidthAssumption` spells out that `2^W` is twice `2^(W - 1)`, since the provers
know nothing of powers.

- **KeyRing.** *TypeCorrect*. *Retained*, `Spec => []RetainedForGrace`: on its own
  this is not inductive, as it relates the time a key was really last used to
  the horizon, while `PruneAt` looks at the stamp. `RetentionInv` adds that a
  rotation under way is no older than `MaxLag` (`StampsFresh`) and that each
  retired key carries a stamp no older than `MaxLag` and is published or out of
  grace by that stamp (`RetiredKeysOK`). *ExpiredLeave*, `Spec =>
  []ExpiredKeysLeave`: `ScheduleInv` adds that at most the latest tick is pending
  (`TicksInStep`, which needs `MaxLag < Interval`) and that what the last finished
  cycle left was in grace at its tick (`CleanSince`, which needs `MaxLag < Grace`
  for keys retired since). *KeyLifeImplemented*, `Spec => KeyLifeSpec`: every step
  is a `Replace`, a `Drop` or leaves what `Lookup` answers alone; retired
  generations precede the active one by `RetentionInv`.
- **Issuer.** *IssuerTypeCorrect*. *IssuerLeavesRing*, `IssuerSpec => Spec`, carries
  the ring's theorems over. *GraceRule*, `IssuerSpec => []TokenKeyPublished` when
  `MaxTTL > 0` and `Grace >= MaxTTL + MaxLag`: the invariant says of each token,
  and of each request that holds a key, that its `exp` is at most `MaxTTL` after
  the key was last active (`KeyCovers`); with `RetentionInv` the key outlasts the
  token. *SignerFresh*, `IssuerSpec => []SignerNotStale`.
- **RingViews.** *ViewsLeaveRing*, `ViewsSpec => Spec`. *KeysAreConsistent* and
  *NamedIsFound*: of each entry a reader holds it is known that its key was not
  retired before the call began unless it says so (`EntryOK`), and that one entry
  per algorithm is current (`OneCurrent`); `RetentionInv` then gives the time for
  which it can be looked up.
- **Endpoints, TokenTimes, Verify.** The lemma *CallsAnswered* is the invariant:
  what a call has been answered so far is what its one step assigns. From it
  follow, with lemmas about the arithmetic, *CapHolds*, *ShortAccepted*,
  *ExpiresInRight*, *ExpIsAsked* (words of any width, any units to a
  second: `Add` is exact, `Wrap` leaves words alone, a clamped `Sub` compares with
  a cap as the exact difference does, rounding is off by half a second at most),
  *PrecheckEnough*, *AnswersFit*, *MintedIsActive*, *ValidIsEarned*,
  *IntrospectionAgrees*, and the properties of the classifier, *Labelled*, *First*,
  *Widens* and *Narrows*, for all tokens and policies. *First* compares the
  classifier with checks stated independently of it (`Fails`; the lemma
  *ChecksRight* has the boundaries of the time checks).
- **Lifecycle and ServeCommand.** *ServeTypeCorrect*, *OneCloser*, *CloseStops* and
  *DaemonDrains*, for any number of closers and requests. `ServeInv` ties the
  state of `closeOnce` to where the calls of `Close` are (`OnceOK`), what the one
  that runs has waited for to its place in the body (`StageOK`), and an embedded
  issuer and a daemon to the parts of the state they never touch (`MainOK`).
- **RateLimiter.** *LimiterTypeCorrect*; *IdleForgotten* (`ScheduleOK`, `SeenOK`:
  the next pass of the cleanup is at most a period away, and none was missed);
  *NoneShared* (`DistinctOK`, `HandlersOK`: limiters are numbered, and a handler's
  client was seen no earlier than its fetch); *ClientsLimited*: the budget that is
  never forgotten is at least the level of the client's limiter, and a limiter
  that is not full holds what it earned since its client was last seen, less the
  longest stall (`BudgetOK`), so it is full when it is forgotten.
- **KeyCache.** *GoodTokensPass* and *StalenessBounded*: every kid in the cache, in
  a fetched document or behind a hit was published no longer ago than the stamp
  and a fetch (`CacheOK`, `FreshOK`), and a kid that stayed published is in
  whatever a request fetched since it began (`SteadyOK`).
- **CliVerify.** *ValidIsPublished* and *SteadyIsFound*, for a file of any age, with
  what each step of the command has learnt by then of the issuer's history
  (`HistoryOK`: the file holds kids that were born, which they stay by
  *BornStays*; what was fetched lies between the kids steadily published and those
  seen) and of its key source (`SourceOK`).

The inductive invariants that are not part of a configuration hold under TLC on
the same instances as well.

Only model-checked is liveness (`CloseReturns`, `ServeStops`, `RequestsAnswered`):
TLAPS does not reason about fairness. The properties that end in a counterexample
are false, so there is nothing to prove; *GraceRule*, *CapHolds* and *First* are
what holds in place of some of them.

## What is not modelled

Key material, encodings, HTTP plumbing and log formats are abstracted. A number
in a request is exact: that a `float64` above 2^53 is not every integer is left
out, and so are numerals with leading zeros ("00" is a duration like "0"). The
private parts that `zeroizePrivate` clears are not the ones `Mint` signs with
(it uses the imported JWK), so zeroization has no step. The discovery document,
the index, the version and the response headers are constants of a running
server. `PublicKeyPEM`, `JWKSJSON` and `decode` are conversions of a value into
another without a decision in them. Environment and flag parsing, version
resolution, `healthcheck`, the release guard and the coverage tool are
sequential input and output.

## Plan

1. *Done*: KeyStatus, KeyRing, Issuer, Verify, RateLimiter, Lifecycle, KeyCache,
   TokenTimes, CliVerify and the first theorems.
2. *Done*: RingViews, Endpoints and ServeCommand; CliVerify with files and
   algorithms.
3. *Done*: the proofs of all invariants.
4. Left: what KeyStatus promises in words (one active key per algorithm, nothing
   comes back) as an action property of KeyRing, through *KeyLifeImplemented*; and
   that the issuer of KeyCache is a KeyStatus, so that its theorems hold for the
   ring of KeyRing.
