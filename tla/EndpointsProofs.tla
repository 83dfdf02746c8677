-------------------------- MODULE EndpointsProofs --------------------------
(***************************************************************************)
(* TLAPS proofs about Endpoints, TokenTimes and Verify: what TLC checks    *)
(* for words of seven bits and a few tokens and policies holds for any     *)
(* width, any clock, and all tokens and policies.                          *)
(***************************************************************************)
EXTENDS Endpoints, TLAPS

-----------------------------------------------------------------------------
(* Arithmetic. *)

\* Division with remainder, and that a quotient with a remainder in range is it.
LEMMA DivMod ==
    ASSUME NEW n \in Int, NEW x \in Int, n > 0
    PROVE  /\ x \div n \in Int /\ x % n \in 0..(n - 1)
           /\ x = n * (x \div n) + (x % n)
  OBVIOUS

\* A multiple of n that lies between -n and n is 0.
LEMMA SmallMultiple ==
    ASSUME NEW n \in Int, NEW q \in Int, n > 0, -n < n * q, n * q < n
    PROVE  q = 0
  <1>1. CASE q >= 1
    <2>1. n * q >= n
      BY <1>1
    <2> QED
      BY <2>1
  <1>2. CASE q <= -1
    <2>1. n * q <= -n
      BY <1>2
    <2> QED
      BY <2>1
  <1> QED
    BY <1>1, <1>2

LEMMA DivModUnique ==
    ASSUME NEW n \in Int, NEW q \in Int, NEW r \in Int, n > 0,
           0 <= r, r < n
    PROVE  (n * q + r) \div n = q /\ (n * q + r) % n = r
  <1> DEFINE x == n * q + r
             p == x \div n
             m == x % n
  <1>1. x \in Int
    OBVIOUS
  <1>2. p \in Int /\ m \in 0..(n - 1) /\ x = n * p + m
    BY <1>1, DivMod
  <1>3. n * q + r = n * p + m
    BY <1>2
  <1> HIDE DEF x, p, m
  <1>4. n * (p - q) = r - m
    BY <1>2, <1>3
  <1>5. -n < n * (p - q) /\ n * (p - q) < n
    BY <1>2, <1>4
  <1>6. p - q = 0
    BY <1>2, <1>5, SmallMultiple
  <1> QED
    BY <1>2, <1>4, <1>6 DEF p, m, x

-----------------------------------------------------------------------------
(* package time *)

LEMMA Widths ==
    /\ Second \in Int /\ Second > 0
    /\ WordCount \in Int /\ WordCount > 0
    /\ MinWord \in Int /\ MaxWord \in Int /\ MinWord <= -1 /\ MaxWord >= 0
    /\ MaxWord = -MinWord - 1 /\ WordCount = -2 * MinWord
  BY WidthAssumption DEF WidthAssumption

LEMMA Ranges ==
    /\ UnixToInternal \in Int /\ NowUnix \in Int /\ NowUnix >= 2
    /\ NowUnix \in Word /\ NowUnix + UnixToInternal \in Word
  <1>1. 0 \in Word /\ 0 \div Second = 0
    <2>1. 0 \in Word
      BY Widths DEF Word
    <2>2. Second * 0 + 0 = 0
      BY Widths
    <2> QED
      BY <2>1, <2>2, Widths, DivModUnique
  <1>2. NowUnix + 0 \in Word /\ NowUnix + UnixToInternal + 0 \in Word
    BY <1>1, RangesAssumption DEF RangesAssumption
  <1> QED
    BY <1>2, RangesAssumption DEF RangesAssumption

\* Two's complement leaves a word alone.
LEMMA WrapWord == ASSUME NEW x \in Word PROVE Wrap(x) = x /\ x \in Int
  <1> USE Widths
  <1>1. x \in Int /\ x - MinWord >= 0 /\ x - MinWord < WordCount
    BY DEF Word
  <1>2. (WordCount * 0 + (x - MinWord)) % WordCount = x - MinWord
    BY <1>1, DivModUnique
  <1>3. WordCount * 0 + (x - MinWord) = x - MinWord
    BY <1>1
  <1> QED
    BY <1>1, <1>2, <1>3 DEF Wrap

LEMMA NowFields ==
    Now = [sec |-> NowUnix + UnixToInternal, frac |-> 0]
  BY Ranges, WrapWord DEF Now, Unix

\* Add is exact.
LEMMA AddTicks ==
    ASSUME NEW d \in Word
    PROVE  /\ Add(Now, d).sec = NowUnix + UnixToInternal + (d \div Second)
           /\ Add(Now, d).frac = d % Second
           /\ d \div Second \in Int /\ d % Second \in 0..(Second - 1)
           /\ d = Second * (d \div Second) + (d % Second)
           /\ Ticks(Add(Now, d)) - Ticks(Now) = d
  <1> USE Widths, Ranges
  <1>1. d \in Int
    BY DEF Word
  <1>2. 0 + d = d
    BY <1>1
  <1>3. Add(Now, d) = [sec  |-> NowUnix + UnixToInternal + (d \div Second),
                       frac |-> d % Second]
    BY <1>2, NowFields DEF Add
  <1>4. /\ d \div Second \in Int /\ d % Second \in 0..(Second - 1)
        /\ d = Second * (d \div Second) + (d % Second)
    BY <1>1, DivMod
  <1>5. \A n, q, r, s \in Int : ((n + q) * s + r) - (n * s + 0) = s * q + r
    OBVIOUS
  <1>6. Ticks(Add(Now, d)) - Ticks(Now) = Second * (d \div Second) + (d % Second)
    <2>1. /\ Ticks(Add(Now, d)) =
                (NowUnix + UnixToInternal + (d \div Second)) * Second + (d % Second)
          /\ Ticks(Now) = (NowUnix + UnixToInternal) * Second + 0
      BY <1>3, NowFields DEF Ticks
    <2>2. NowUnix + UnixToInternal \in Int /\ d % Second \in Int
      BY <1>4
    <2> QED
      BY <1>4, <1>5, <2>1, <2>2
  <1> QED
    BY <1>3, <1>4, <1>6

\* Sub clamps, and so compares with a cap as the exact difference does.
LEMMA SubClamps ==
    ASSUME NEW t, NEW u, Ticks(t) - Ticks(u) \in Int
    PROVE  /\ Sub(t, u) \in Int
           /\ Ticks(t) - Ticks(u) \in Word => Sub(t, u) = Ticks(t) - Ticks(u)
           /\ \A cap \in 0..(MaxWord - 1) :
                 Sub(t, u) > cap <=> Ticks(t) - Ticks(u) > cap
  BY Widths DEF Sub, Word

\* An instant is where its fields say, of the whole second and the rest.
WellFormed(t) ==
    /\ t.sec \in Word /\ t.sec - UnixToInternal \in Word
    /\ t.frac \in 0..(Second - 1)

\* The time from now until an instant.
Until(t) == Ticks(t) - Ticks(Now)

LEMMA UntilWellFormed ==
    ASSUME NEW t, WellFormed(t)
    PROVE  /\ NumericDate(t) = t.sec - UnixToInternal
           /\ NumericDate(t) \in Int /\ t.frac \in Int
           /\ Until(t) = (NumericDate(t) - NowUnix) * Second + t.frac
           /\ Until(t) \in Int
  <1> USE Widths, Ranges
  <1>1. /\ NumericDate(t) = t.sec - UnixToInternal
        /\ t.sec \in Int /\ t.frac \in Int
    BY WrapWord DEF WellFormed, NumericDate, Word
  <1>2. \A s, f, n, u, k \in Int :
           (s * k + f) - ((n + u) * k + 0) = ((s - u) - n) * k + f
    OBVIOUS
  <1>3. Until(t) = (t.sec * Second + t.frac)
                     - ((NowUnix + UnixToInternal) * Second + 0)
    BY NowFields DEF Until, Ticks
  <1>4. Until(t) = ((t.sec - UnixToInternal) - NowUnix) * Second + t.frac
    BY <1>1, <1>2, <1>3
  <1>5. \A s, f, n, u, k \in Int : ((s - u) - n) * k + f \in Int
    OBVIOUS
  <1> QED
    BY <1>1, <1>4, <1>5

\* Rounding to seconds is off by half a second at most.
LEMMA RoundNearest ==
    ASSUME NEW d \in Int
    PROVE  /\ RoundSeconds(d) \in Int
           /\ 2 * (RoundSeconds(d) * Second - d) \in -Second..Second
  <1> USE Widths
  <1>0. 2 * Second \in Int /\ 2 * Second > 0
    OBVIOUS
  <1>1. ASSUME NEW e \in Int
        PROVE  LET q == (2 * e + Second) \div (2 * Second) IN
               q \in Int /\ 2 * (q * Second - e) \in (-Second + 1)..Second
    <2> DEFINE q == (2 * e + Second) \div (2 * Second)
               r == (2 * e + Second) % (2 * Second)
    <2>1. /\ q \in Int /\ r \in 0..(2 * Second - 1)
          /\ 2 * e + Second = (2 * Second) * q + r
      BY <1>0, DivMod
    <2> HIDE DEF q, r
    <2>2. (2 * Second) * q = 2 * (q * Second)
      BY <2>1
    <2>3. q * Second \in Int
      BY <2>1
    <2> QED
      BY <2>1, <2>2, <2>3 DEF q
  <1>2. CASE d >= 0
    BY <1>1, <1>2 DEF RoundSeconds
  <1>3. CASE d < 0
    <2> DEFINE q == (2 * (-d) + Second) \div (2 * Second)
    <2>1. q \in Int /\ 2 * (q * Second - (-d)) \in (-Second + 1)..Second
      BY <1>1
    <2>2. RoundSeconds(d) = -q
      BY <1>3 DEF RoundSeconds
    <2> HIDE DEF q
    <2>3. (-q) * Second = -(q * Second) /\ q * Second \in Int
      BY <2>1
    <2> QED
      BY <2>1, <2>2, <2>3
  <1> QED
    BY <1>2, <1>3

\* A multiple of a second that is within half a second of n seconds and a
\* fraction is n seconds or the next.
LEMMA RoundNeighbours ==
    ASSUME NEW q \in Int, NEW n \in Int, NEW f \in 0..(Second - 1),
           2 * (q * Second - (n * Second + f)) \in -Second..Second
    PROVE  q * Second - n * Second \in 0..Second
  <1> USE Widths
  <1> DEFINE k == q - n
  <1>1. /\ q * Second - n * Second = k * Second /\ k \in Int
        /\ k * Second \in Int /\ f \in Int
    OBVIOUS
  <1>2. 2 * (k * Second - f) \in -Second..Second
    <2>1. q * Second \in Int /\ n * Second \in Int
      OBVIOUS
    <2> QED
      BY <1>1, <2>1
  <1> HIDE DEF k
  <1>3. k >= 0
    <2> SUFFICES ASSUME k <= -1 PROVE FALSE
      BY <1>1
    <2>1. k * Second <= -Second
      BY <1>1
    <2> QED
      BY <1>1, <1>2, <2>1
  <1>4. k <= 1
    <2> SUFFICES ASSUME k >= 2 PROVE FALSE
      BY <1>1
    <2>1. k * Second >= 2 * Second
      BY <1>1
    <2> QED
      BY <1>1, <1>2, <2>1
  <1>5. k = 0 \/ k = 1
    BY <1>1, <1>3, <1>4
  <1> QED
    BY <1>1, <1>5

-----------------------------------------------------------------------------
(* The request, and ParseTimeValue. *)

\* A number is cut off to a whole second.
LEMMA TruncateFacts ==
    ASSUME NEW v \in Numbers
    PROVE  /\ v.unix \in Int /\ v.frac \in 0..(Second - 1) /\ Truncate(v) \in Int
           /\ Truncate(v) = v.unix \/ (Truncate(v) = v.unix + 1 /\ v.unix < 0 /\ v.frac > 0)
  <1>1. v.unix \in Int /\ v.frac \in 0..(Second - 1)
    BY RangesAssumption DEF RangesAssumption
  <1> QED
    BY <1>1 DEF Truncate

\* What an exp says, of its kind.
LEMMA RequestKinds ==
    ASSUME NEW req \in Requests
    PROVE  \/ req.kind = "absent"
           \/ req.kind = "garbage"
           \/ req.kind = "number" /\ req.value \in Numbers
           \/ req.kind = "numeral" /\ req.value \in Int
           \/ req.kind = "duration" /\ req.value \in Durations /\ req.value \in Word
           \/ req.kind = "date" /\ req.value \in Dates
  <1>1. Durations \subseteq Word /\ Numerals \subseteq Int
    BY RangesAssumption DEF RangesAssumption
  <1>2. \/ req \in {[kind |-> "absent"], [kind |-> "garbage"]}
        \/ req \in [kind : {"number"}, value : Numbers]
        \/ req \in [kind : {"numeral"}, value : Numerals]
        \/ req \in [kind : {"duration"}, value : Durations]
        \/ req \in [kind : {"date"}, value : Dates]
    BY Zenon DEF Requests
  <1>3. CASE req \in {[kind |-> "absent"], [kind |-> "garbage"]}
    BY <1>3
  <1>4. CASE req \in [kind : {"number"}, value : Numbers]
    BY <1>4
  <1>5. CASE req \in [kind : {"numeral"}, value : Numerals]
    BY <1>1, <1>5
  <1>6. CASE req \in [kind : {"duration"}, value : Durations]
    BY <1>1, <1>6
  <1>7. CASE req \in [kind : {"date"}, value : Dates]
    BY <1>7
  <1> QED
    BY <1>2, <1>3, <1>4, <1>5, <1>6, <1>7

\* What can be represented stands for one instant, a duration for that far from
\* now, a number or a numeral for its second.
LEMMA ExpiryInstant ==
    ASSUME NEW req \in Requests, req.kind # "garbage", Represented(req)
    PROVE  \E t : /\ Expiry(req) = {t} /\ WellFormed(t)
                  /\ req.kind = "absent" => Until(t) = DefaultTTL
                  /\ req.kind = "duration" => Until(t) = req.value
                  /\ IsEpoch(req) /\ ~(req.kind = "numeral" /\ req.value = 0) =>
                        t = [sec |-> EpochSecond(req) + UnixToInternal, frac |-> 0]
                  /\ req.kind = "date" =>
                        t = [sec |-> req.value.unix + UnixToInternal,
                             frac |-> req.value.frac]
  <1> USE Widths, Ranges
  <1>1. ASSUME NEW d \in Word PROVE WellFormed(Add(Now, d))
    <2>1. /\ NowUnix + (d \div Second) \in Word
          /\ NowUnix + UnixToInternal + (d \div Second) \in Word
      BY RangesAssumption DEF RangesAssumption
    <2>2. (NowUnix + UnixToInternal + (d \div Second)) - UnixToInternal
             = NowUnix + (d \div Second)
      BY AddTicks
    <2> QED
      BY <2>1, <2>2, AddTicks DEF WellFormed
  <1>2. CASE req.kind = "absent"
    <2>1. Expiry(req) = {Add(Now, DefaultTTL)}
      BY <1>2 DEF Expiry
    <2>2. DefaultTTL \in Word
      BY RangesAssumption DEF RangesAssumption
    <2>3. WellFormed(Add(Now, DefaultTTL)) /\ Until(Add(Now, DefaultTTL)) = DefaultTTL
      BY <1>1, <2>2, AddTicks DEF Until
    <2> QED
      BY <1>2, <2>1, <2>3 DEF IsEpoch
  <1>3. CASE req.kind = "duration"
    <2>1. Expiry(req) = {Add(Now, req.value)}
      BY <1>3 DEF Expiry, ParseTimeValue
    <2>2. req.value \in Word
      BY <1>3, RequestKinds
    <2>3. WellFormed(Add(Now, req.value)) /\ Until(Add(Now, req.value)) = req.value
      BY <1>1, <2>2, AddTicks DEF Until
    <2> QED
      BY <1>3, <2>1, <2>3 DEF IsEpoch
  <1>4. CASE IsEpoch(req) /\ ~(req.kind = "numeral" /\ req.value = 0)
    <2> DEFINE n == EpochSecond(req)
               t == [sec |-> n + UnixToInternal, frac |-> 0]
    <2>1. n + UnixToInternal \in Word /\ n \in Word
      BY <1>4 DEF Represented
    <2>2. Unix(n) = t
      BY <2>1, WrapWord DEF Unix
    <2>3. Expiry(req) = {Unix(n)}
      <3>1. CASE req.kind = "number"
        BY <2>1, <3>1 DEF EpochSecond, Expiry, ParseTimeValue, InstantsOf
      <3>2. CASE req.kind = "numeral"
        BY <1>4, <2>1, <3>2 DEF EpochSecond, Expiry, ParseTimeValue, NumeralInstants
      <3> QED
        BY <1>4, <3>1, <3>2 DEF IsEpoch
    <2>4. n \in Int
      BY <2>1, WrapWord
    <2>5. (n + UnixToInternal) - UnixToInternal = n
      BY <2>4
    <2> HIDE DEF n
    <2>6. WellFormed(t)
      BY <2>1, <2>5 DEF WellFormed
    <2>7. Expiry(req) = {t}
      BY <2>2, <2>3
    <2> QED
      BY <1>4, <2>6, <2>7 DEF IsEpoch, n
  <1>5. CASE req.kind = "numeral" /\ req.value = 0
    <2>1. Expiry(req) = {Add(Now, 0)}
      BY <1>5 DEF Expiry, ParseTimeValue, NumeralInstants
    <2>2. 0 \in Word
      BY DEF Word
    <2>3. WellFormed(Add(Now, 0))
      BY <1>1, <2>2
    <2> QED
      BY <1>5, <2>1, <2>3
  <1>6. CASE req.kind = "date"
    <2> DEFINE t == [sec |-> req.value.unix + UnixToInternal,
                     frac |-> req.value.frac]
    <2>1. Expiry(req) = {t}
      BY <1>6 DEF Expiry, ParseTimeValue
    <2>2. /\ req.value.unix + UnixToInternal \in Word /\ req.value.unix \in Word
          /\ req.value.frac \in 0..(Second - 1)
      BY <1>6, RequestKinds, RangesAssumption DEF RangesAssumption
    <2>3. (req.value.unix + UnixToInternal) - UnixToInternal = req.value.unix
      <3>1. req.value.unix \in Int
        BY <2>2, WrapWord
      <3> QED
        BY <3>1
    <2>4. WellFormed(t)
      BY <2>2, <2>3 DEF WellFormed
    <2> QED
      BY <1>6, <2>1, <2>4 DEF IsEpoch
  <1> QED
    BY <1>2, <1>3, <1>4, <1>5, <1>6, RequestKinds DEF IsEpoch

\* The cap is compared with the exact lifetime.
LEMMA OverCapExact ==
    ASSUME NEW t, WellFormed(t), NEW cap \in MaxTTLs
    PROVE  OverCap(t, cap) <=> cap > 0 /\ Until(t) > cap
  <1>1. cap \in 0..(MaxWord - 1)
    BY RangesAssumption DEF RangesAssumption
  <1>2. Until(t) \in Int
    BY UntilWellFormed
  <1> QED
    BY <1>1, <1>2, SubClamps DEF OverCap, Lifetime, Until

-----------------------------------------------------------------------------
(* The invariant: a call is answered as its parameters say. *)

\* The results of Mint, each with why.
MintOutcome ==
    \/ outcome = [result |-> "unsupported_alg"] /\ MintAlg \notin enabled
    \/ outcome = [result |-> "invalid_request"] /\ Unparsable(request)
    \/ /\ outcome = [result |-> "ttl_too_long"]
       /\ \E exp \in Expiry(request) : OverCap(exp, maxTTL)
    \/ outcome = [result |-> "unsigned"] /\ params.flaw = "unsignable"
    \/ /\ MintAlg \in enabled /\ params.flaw = None
       /\ \E exp \in Expiry(request) :
             /\ ~OverCap(exp, maxTTL)
             /\ outcome = [result    |-> "minted",
                           exp       |-> NumericDate(exp),
                           expiresIn |-> RoundSeconds(Lifetime(exp))]

MintAnswered ==
    /\ MintCalls /\ verdict = Pending
    /\ \/ answer = None /\ outcome = Unanswered
       \/ answer = "refused" /\ outcome = Unanswered /\ ~Precheck
       \/ answer = "failed" /\ outcome = Unanswered /\ ~params.jtiOK
       \/ answer = Answer(outcome.result) /\ Precheck /\ MintOutcome

\* The policy that a front end of Verify asks for.
JudgePolicy ==
    \/ endpoint = "verify.Verify" /\ pol \in Policy
    \/ endpoint = "verify" /\ ~VerifyRefused(params) /\ pol = VerifyPolicy(params)
    \/ endpoint = "introspect" /\ pol = IntrospectPolicy(params.now)

JudgeAnswered ==
    /\ tok \in Token
    /\ \/ endpoint = "verify.Verify" /\ params = NoCall /\ pol \in Policy
       \/ endpoint = "verify" /\ params \in VerifyParams
       \/ endpoint = "introspect" /\ params \in IntrospectParams
    /\ enabled = SourceAlgs
    /\ request = [kind |-> "absent"] /\ maxTTL = 0
    /\ outcome = Unanswered
    /\ \/ answer \in {None, "refused"} /\ verdict = Pending
       \/ /\ answer = IF verdict.reason = "error" THEN "failed" ELSE "ok"
          /\ verdict = Verify(tok, pol) /\ JudgePolicy

\* What the handlers compute from the call is computed from the call alone.
LEMMA CallUnchanged ==
    ASSUME UNCHANGED <<request, maxTTL, endpoint, params, enabled>>
    PROVE  /\ Precheck' <=> Precheck
           /\ MintAlg' = MintAlg
           /\ VerifyPolicy(params)' = VerifyPolicy(params)
           /\ IntrospectPolicy(params.now)' = IntrospectPolicy(params.now)
           /\ VerifyRefused(params)' <=> VerifyRefused(params)
  <1>1. Precheck' <=> Precheck
    BY DEF Precheck, TTLRefused
  <1>2. MintAlg' = MintAlg
    BY DEF MintAlg, SelectAlgorithm
  <1>3. /\ VerifyPolicy(params)' = VerifyPolicy(params)
        /\ IntrospectPolicy(params.now)' = IntrospectPolicy(params.now)
    BY DEF VerifyPolicy, IntrospectPolicy
  <1>4. VerifyRefused(params)' <=> VerifyRefused(params)
    BY DEF VerifyRefused
  <1> QED
    BY <1>1, <1>2, <1>3, <1>4

LEMMA MintAnsweredKept ==
    ASSUME MintAnswered, [EndpointsNext]_endpointVars
    PROVE  MintAnswered'
  <1>a. endpoint \notin {"verify", "introspect", "verify.Verify"}
    BY DEF MintAnswered, MintCalls, CheckedMint, PlainMint
  <1>1. CASE UNCHANGED endpointVars
    <2>1. UNCHANGED <<request, maxTTL, outcome, tok, pol, verdict, endpoint,
                      params, enabled, answer>>
      BY <1>1 DEF endpointVars, timesVars, vars, callVars
    <2>2. MintOutcome' <=> MintOutcome
      BY <2>1, CallUnchanged DEF MintOutcome
    <2> QED
      BY <2>1, <2>2, CallUnchanged DEF MintAnswered, MintCalls
  <1>2. CASE RefuseMint \/ JTIFails
    <2>1. /\ UNCHANGED <<request, maxTTL, outcome, tok, pol, verdict, endpoint,
                         params, enabled>>
          /\ answer = None
          /\ \/ answer' = "refused" /\ ~Precheck
             \/ answer' = "failed" /\ ~params.jtiOK
      BY <1>2 DEF RefuseMint, JTIFails, timesVars, vars, Asks
    <2>2. outcome = Unanswered
      BY <2>1 DEF MintAnswered, Answer, None
    <2> QED
      BY <2>1, <2>2, CallUnchanged DEF MintAnswered, MintCalls
  <1>3. CASE CallMint
    <2>1. /\ UNCHANGED <<request, maxTTL, tok, pol, verdict, endpoint, params,
                         enabled>>
          /\ Precheck /\ answer' = Answer(outcome'.result)
      BY <1>3 DEF CallMint, UnsupportedAlg, InvalidRequest, TTLTooLong, SignFails,
                  Mint, vars
    <2>2. MintOutcome'
      BY <1>3, <2>1, CallUnchanged
         DEF CallMint, UnsupportedAlg, InvalidRequest, TTLTooLong, SignFails, Mint,
             MintOutcome
    <2> QED
      BY <2>1, <2>2, CallUnchanged DEF MintAnswered, MintCalls
  <1>4. ~RefuseJudge /\ ~HandleVerify /\ ~HandleIntrospect /\ ~CallVerify
    BY <1>a DEF RefuseJudge, Refused, HandleVerify, HandleIntrospect, CallVerify
  <1> QED
    BY <1>1, <1>2, <1>3, <1>4 DEF EndpointsNext

LEMMA JudgeAnsweredKept ==
    ASSUME JudgeAnswered, [EndpointsNext]_endpointVars
    PROVE  JudgeAnswered'
  <1>a. ~RefuseMint /\ ~JTIFails /\ ~CallMint
    BY DEF JudgeAnswered, RefuseMint, JTIFails, CallMint, Asks, CheckedMint,
           PlainMint
  <1>1. CASE UNCHANGED endpointVars
    <2>1. UNCHANGED <<request, maxTTL, outcome, tok, pol, verdict, endpoint,
                      params, enabled, answer>>
      BY <1>1 DEF endpointVars, timesVars, vars, callVars
    <2>2. JudgePolicy' <=> JudgePolicy
      BY <2>1, CallUnchanged DEF JudgePolicy
    <2> QED
      BY <2>1, <2>2 DEF JudgeAnswered
  <1>2. CASE RefuseJudge
    <2>1. /\ UNCHANGED <<request, maxTTL, outcome, tok, pol, verdict, endpoint,
                         params, enabled>>
          /\ answer = None /\ answer' = "refused"
      BY <1>2 DEF RefuseJudge, timesVars, vars
    <2> QED
      BY <2>1 DEF JudgeAnswered, None
  <1>3. CASE HandleVerify \/ HandleIntrospect \/ CallVerify
    <2>1. /\ UNCHANGED <<request, maxTTL, outcome, tok, endpoint, params, enabled>>
          /\ answer' = IF verdict'.reason = "error" THEN "failed" ELSE "ok"
          /\ verdict' = Verify(tok, pol')
          /\ \/ endpoint = "verify" /\ ~VerifyRefused(params)
                   /\ pol' = VerifyPolicy(params)
             \/ endpoint = "introspect" /\ pol' = IntrospectPolicy(params.now)
             \/ endpoint = "verify.Verify" /\ pol' = pol
      BY <1>3 DEF HandleVerify, HandleIntrospect, CallVerify, Judge, timesVars
    <2>2. JudgePolicy'
      BY <2>1, CallUnchanged DEF JudgePolicy, JudgeAnswered
    <2>3. Verify(tok, pol)' = Verify(tok', pol')
      OBVIOUS
    <2>4. verdict' = Verify(tok, pol)'
      BY <2>1, <2>3
    <2> QED
      BY <2>1, <2>2, <2>4 DEF JudgeAnswered
  <1> QED
    BY <1>a, <1>1, <1>2, <1>3 DEF EndpointsNext

\* Every front end answers a call as its parameters say, and changes nothing
\* that it was called with.
LEMMA CallsAnswered == EndpointsSpec => [](MintAnswered \/ JudgeAnswered)
  <1>1. EndpointsInit => MintAnswered \/ JudgeAnswered
    BY DEF EndpointsInit, MintAnswered, JudgeAnswered, JudgeCalls
  <1>2. (MintAnswered \/ JudgeAnswered) /\ [EndpointsNext]_endpointVars
           => (MintAnswered \/ JudgeAnswered)'
    BY MintAnsweredKept, JudgeAnsweredKept
  <1> QED
    BY <1>1, <1>2, PTL DEF EndpointsSpec

-----------------------------------------------------------------------------
(* The times of a token. *)

\* What is known of a call for a token.
LEMMA MintFacts ==
    ASSUME MintAnswered
    PROVE  /\ request \in Requests
           /\ maxTTL \in MaxTTLs /\ maxTTL \in Int /\ maxTTL >= 0
           /\ enabled \in EnabledSets
           /\ endpoint \in CheckedMint =>
                 /\ request.kind \in {"absent", "garbage", "duration"}
                 /\ params.flaw # "unsignable"
  <1>1. maxTTL \in MaxTTLs /\ enabled \in EnabledSets
    BY DEF MintAnswered, MintCalls
  <1>2. request \in Requests
    BY DEF MintAnswered, MintCalls, TTLs
  <1>3. maxTTL \in Int /\ maxTTL >= 0
    <2>1. maxTTL \in 0..(MaxWord - 1)
      BY <1>1, RangesAssumption DEF RangesAssumption
    <2> QED
      BY <2>1, Widths
  <1>4. endpoint \in CheckedMint => request.kind \in {"absent", "garbage", "duration"}
    BY DEF MintAnswered, MintCalls, TTLs
  <1>5. endpoint \in CheckedMint => params.flaw # "unsignable"
    BY DEF MintAnswered, MintCalls, MintParams, Flaws, CheckedMint, None
  <1> QED
    BY <1>1, <1>2, <1>3, <1>4, <1>5

\* Where a token comes from.
LEMMA MintedFacts ==
    ASSUME MintAnswered, Minted, request.kind # "garbage", InRange
    PROVE  \E t : /\ Expiry(request) = {t} /\ WellFormed(t)
                  /\ ~OverCap(t, maxTTL)
                  /\ outcome.exp = NumericDate(t)
                  /\ outcome.expiresIn = RoundSeconds(Lifetime(t))
  <1>1. Represented(request)
    BY DEF InRange
  <1>2. PICK t : Expiry(request) = {t} /\ WellFormed(t)
    BY <1>1, ExpiryInstant, MintFacts
  <1>3. \E exp \in Expiry(request) :
           /\ ~OverCap(exp, maxTTL)
           /\ outcome = [result    |-> "minted",
                         exp       |-> NumericDate(exp),
                         expiresIn |-> RoundSeconds(Lifetime(exp))]
    BY DEF MintAnswered, MintOutcome, Minted, Unanswered
  <1> QED
    BY <1>2, <1>3

\* What cannot be parsed is never minted.
LEMMA GarbageRefused ==
    ASSUME MintAnswered, Minted
    PROVE  ~Unparsable(request) /\ request.kind # "garbage"
  <1>1. Expiry(request) # {}
    BY DEF MintAnswered, MintOutcome, Minted, Unanswered
  <1>2. request.kind = "garbage" => Expiry(request) = {}
    BY DEF Expiry, ParseTimeValue
  <1>3. 0 \in Word
    BY Widths DEF Word
  <1>4. (request.kind = "numeral" /\ request.value \notin Word) => Expiry(request) = {}
    BY <1>3 DEF Expiry, ParseTimeValue, NumeralInstants
  <1> QED
    BY <1>1, <1>2, <1>4 DEF Unparsable

LEMMA JudgeMintsNothing ==
    ASSUME JudgeAnswered
    PROVE  /\ ~Minted /\ outcome = Unanswered /\ outcome.result = "pending"
           /\ request.kind = "absent"
           /\ endpoint \notin CheckedMint \union PlainMint
  BY DEF JudgeAnswered, Minted, Unanswered, CheckedMint, PlainMint

\* No token outlives the cap, whatever the width of the words: for every exp
\* that time.Unix can represent.
THEOREM CapHolds == EndpointsSpec => []CapRespectedInRange
  <1>1. MintAnswered => CapRespectedInRange
    <2> SUFFICES ASSUME MintAnswered, InRange, Minted, maxTTL > 0
                 PROVE  (outcome.exp - NowUnix) * Second <= maxTTL
      BY DEF CapRespectedInRange, CapRespected, TokenLifetime
    <2>1. PICK t : /\ WellFormed(t) /\ ~OverCap(t, maxTTL)
                   /\ outcome.exp = NumericDate(t)
      BY GarbageRefused, MintedFacts
    <2>2. Until(t) <= maxTTL
      BY <2>1, MintFacts, OverCapExact, UntilWellFormed
    <2>3. /\ Until(t) = (outcome.exp - NowUnix) * Second + t.frac
          /\ t.frac \in Int /\ t.frac >= 0
          /\ (outcome.exp - NowUnix) * Second \in Int
      <3>1. t.frac \in Int /\ t.frac >= 0
        BY <2>1, Widths DEF WellFormed
      <3>2. \A e, n, k \in Int : (e - n) * k \in Int
        OBVIOUS
      <3>3. outcome.exp \in Int
        BY <2>1, UntilWellFormed
      <3> QED
        BY <2>1, <3>1, <3>2, <3>3, UntilWellFormed, Widths, Ranges
    <2> QED
      BY <2>2, <2>3, MintFacts
  <1>2. JudgeAnswered => CapRespectedInRange
    BY JudgeMintsNothing DEF CapRespectedInRange, CapRespected
  <1> QED
    BY <1>1, <1>2, CallsAnswered, PTL

\* Only a lifetime over the cap is too long.
THEOREM ShortAccepted == EndpointsSpec => []OnlyLongRefused
  <1>1. MintAnswered => OnlyLongRefused
    <2> SUFFICES ASSUME MintAnswered, InRange, outcome.result = "ttl_too_long"
                 PROVE  \E exp \in Expiry(request) : Until(exp) > maxTTL
      BY DEF OnlyLongRefused, Until
    <2>1. PICK exp \in Expiry(request) : OverCap(exp, maxTTL)
      BY DEF MintAnswered, MintOutcome, Unanswered
    <2>2. request.kind # "garbage"
      BY <2>1 DEF Expiry, ParseTimeValue
    <2>3. WellFormed(exp)
      BY <2>1, <2>2, MintFacts, ExpiryInstant DEF InRange
    <2> QED
      BY <2>1, <2>3, MintFacts, OverCapExact
  <1>2. JudgeAnswered => OnlyLongRefused
    BY JudgeMintsNothing DEF OnlyLongRefused
  <1> QED
    BY <1>1, <1>2, CallsAnswered, PTL

\* expires_in is the lifetime to the nearest second.
THEOREM ExpiresInRight == EndpointsSpec => []ExpiresInNearest
  <1>1. MintAnswered => ExpiresInNearest
    <2> SUFFICES ASSUME MintAnswered, Minted, InRange,
                        NEW t \in Expiry(request), Until(t) \in Word
                 PROVE  /\ 2 * (outcome.expiresIn * Second - Until(t))
                              \in -Second..Second
                        /\ outcome.expiresIn * Second - TokenLifetime \in 0..Second
      BY DEF ExpiresInNearest, Until
    <2>1. /\ WellFormed(t) /\ outcome.exp = NumericDate(t)
          /\ outcome.expiresIn = RoundSeconds(Lifetime(t))
      BY GarbageRefused, MintedFacts
    <2>2. Lifetime(t) = Until(t) /\ Until(t) \in Int
      BY <2>1, SubClamps, UntilWellFormed DEF Lifetime, Until
    <2>3. /\ outcome.expiresIn \in Int
          /\ 2 * (outcome.expiresIn * Second - Until(t)) \in -Second..Second
      BY <2>1, <2>2, RoundNearest
    <2>4. /\ Until(t) = (outcome.exp - NowUnix) * Second + t.frac
          /\ outcome.exp - NowUnix \in Int /\ t.frac \in 0..(Second - 1)
      BY <2>1, UntilWellFormed, Ranges DEF WellFormed
    <2>5. outcome.expiresIn * Second - (outcome.exp - NowUnix) * Second \in 0..Second
      BY <2>3, <2>4, RoundNeighbours
    <2> QED
      BY <2>3, <2>5 DEF TokenLifetime
  <1>2. JudgeAnswered => ExpiresInNearest
    BY JudgeMintsNothing DEF ExpiresInNearest
  <1> QED
    BY <1>1, <1>2, CallsAnswered, PTL

\* The token expires in the second that was asked for, for every spelling of exp
\* but the string "0", which is taken for a duration.
THEOREM ExpIsAsked == EndpointsSpec => []ExpAsAsked
  <1>1. MintAnswered => ExpAsAsked
    <2> SUFFICES ASSUME MintAnswered, Minted, InRange,
                        ~(request.kind = "numeral" /\ request.value = 0)
                 PROVE  /\ Asked - outcome.exp * Second \in (1 - Second)..(Second - 1)
                        /\ request.kind # "number" \/ Asked >= 0 =>
                              outcome.exp * Second <= Asked
      BY DEF ExpAsAsked
    <2> DEFINE value == request.value
               e == outcome.exp
    <2>1. PICK t :
             /\ Expiry(request) = {t} /\ WellFormed(t) /\ e = NumericDate(t)
             /\ request.kind = "absent" => Until(t) = DefaultTTL
             /\ request.kind = "duration" => Until(t) = value
             /\ IsEpoch(request) =>
                   t = [sec |-> EpochSecond(request) + UnixToInternal, frac |-> 0]
             /\ request.kind = "date" =>
                   t = [sec |-> value.unix + UnixToInternal, frac |-> value.frac]
      <3>1. request.kind # "garbage" /\ Represented(request)
        BY GarbageRefused DEF InRange
      <3>2. \E u : Expiry(request) = {u} /\ WellFormed(u) /\ e = NumericDate(u)
        BY <3>1, MintedFacts
      <3>3. PICK u : Expiry(request) = {u} /\ WellFormed(u) /\ e = NumericDate(u)
        BY <3>2
      <3>4. \A x, y : {x} = {y} => x = y
        OBVIOUS
      <3> QED
        BY <3>1, <3>3, <3>4, MintFacts, ExpiryInstant
    <2>2. /\ e \in Int /\ e = t.sec - UnixToInternal /\ t.frac \in 0..(Second - 1)
          /\ Until(t) = (e - NowUnix) * Second + t.frac /\ Until(t) \in Int
      BY <2>1, UntilWellFormed DEF WellFormed
    <2>3. /\ Second \in Int /\ Second > 0 /\ NowUnix \in Int /\ UnixToInternal \in Int
          /\ t.frac \in Int /\ e * Second \in Int
      BY <2>2, Widths, Ranges
    <2>4. \A x, n, k, f \in Int : (n * k + ((x - n) * k + f)) - x * k = f
      OBVIOUS
    <2>5. \A x, k, f \in Int : (x * k + f) - x * k = f /\ x * k + f \in Int
      OBVIOUS
    <2>6. ASSUME Asked = NowUnix * Second + Until(t) \/ Asked = e * Second + t.frac
          PROVE  Asked - e * Second \in 0..(Second - 1) /\ Asked \in Int
      <3>1. CASE Asked = e * Second + t.frac
        BY <2>2, <2>3, <2>5, <3>1
      <3>2. CASE Asked = NowUnix * Second + Until(t)
        <4>0. Asked = NowUnix * Second + ((e - NowUnix) * Second + t.frac)
          BY <2>2, <3>2, Zenon
        <4>1. Asked - e * Second = t.frac
          <5>1. (NowUnix * Second + ((e - NowUnix) * Second + t.frac)) - e * Second
                   = t.frac
            BY <2>2, <2>3, <2>4
          <5> QED
            BY <4>0, <5>1, Zenon
        <4>2. Asked \in Int
          BY <2>2, <2>3, <3>2
        <4> QED
          BY <2>2, <4>1, <4>2
      <3> QED
        BY <2>6, <3>1, <3>2
    <2>7. CASE Asked - e * Second \in 0..(Second - 1) /\ Asked \in Int
      BY <2>3, <2>7
    <2>8. CASE request.kind \in {"absent", "duration"}
      BY <2>1, <2>6, <2>7, <2>8 DEF Asked
    <2>9. CASE request.kind = "date"
      <3>1. value.unix \in Int /\ value.frac \in Int
        <4>1. value \in Dates
          BY <2>9, MintFacts, RequestKinds
        <4> QED
          BY <4>1, RangesAssumption, Widths DEF RangesAssumption, Word
      <3>2. e = value.unix /\ t.frac = value.frac
        BY <2>1, <2>2, <2>3, <2>9, <3>1
      <3>3. Asked = e * Second + t.frac
        BY <2>9, <3>2 DEF Asked
      <3> QED
        BY <2>6, <2>7, <3>3
    <2>10. CASE request.kind = "numeral"
      <3>1. value \in Int
        BY <2>10, MintFacts, RequestKinds
      <3>2. e = value /\ t.frac = 0
        BY <2>1, <2>2, <2>3, <2>10, <3>1 DEF IsEpoch, EpochSecond
      <3>3. Asked = e * Second + t.frac
        BY <2>3, <2>10, <3>2 DEF Asked
      <3> QED
        BY <2>6, <2>7, <3>3
    <2>11. CASE request.kind = "number"
      <3>1. /\ value.unix \in Int /\ value.frac \in 0..(Second - 1)
            /\ Truncate(value) \in Int
            /\ \/ Truncate(value) = value.unix
               \/ Truncate(value) = value.unix + 1 /\ value.unix < 0 /\ value.frac > 0
        BY <2>11, MintFacts, RequestKinds, TruncateFacts
      <3>2. e = Truncate(value)
        BY <2>1, <2>2, <2>3, <2>11, <3>1 DEF IsEpoch, EpochSecond
      <3>3. Asked = value.unix * Second + value.frac
        BY <2>11 DEF Asked
      <3>4. value.frac \in Int
        BY <2>3, <3>1
      <3>5. CASE e = value.unix
        <4>0. Asked = e * Second + value.frac
          BY <3>3, <3>5, Zenon
        <4>1. Asked - e * Second = value.frac /\ Asked \in Int
          <5>1. /\ (e * Second + value.frac) - e * Second = value.frac
                /\ e * Second + value.frac \in Int
            BY <2>2, <2>3, <2>5, <3>4, Zenon
          <5> QED
            BY <4>0, <5>1, Zenon
        <4> QED
          BY <2>7, <3>1, <4>1
      <3>6. CASE e = value.unix + 1 /\ value.unix < 0 /\ value.frac > 0
        <4>1. \A x, k, f \in Int : (x * k + f) - (x + 1) * k = f - k
          OBVIOUS
        <4>2. Asked - e * Second = value.frac - Second
          <5>1. (value.unix * Second + value.frac) - (value.unix + 1) * Second
                   = value.frac - Second
            BY <2>3, <3>1, <3>4, <4>1
          <5> QED
            BY <3>3, <3>6, <5>1, Zenon
        <4>3. \A x, k \in Int : x <= -1 /\ k > 0 => x * k <= -k
          <5> SUFFICES ASSUME NEW x \in Int, NEW k \in Int, x <= -1, k > 0
                       PROVE  x * k <= -k
            OBVIOUS
          <5> QED
            OBVIOUS
        <4>4. value.unix <= -1
          BY <3>1, <3>6
        <4>5. value.unix * Second <= -Second
          BY <2>3, <3>1, <4>3, <4>4, Zenon
        <4>6. value.unix * Second \in Int
          BY <2>3, <3>1
        <4>7. Asked < 0
          BY <2>3, <3>1, <3>3, <3>4, <4>5, <4>6
        <4>8. Asked - e * Second \in (1 - Second)..(Second - 1)
          BY <2>3, <3>1, <3>4, <3>6, <4>2
        <4>9. ~(Asked >= 0)
          BY <3>3, <3>4, <4>6, <4>7
        <4> QED
          BY <2>11, <4>8, <4>9
      <3> QED
        BY <3>1, <3>2, <3>5, <3>6
    <2> QED
      BY <2>8, <2>9, <2>10, <2>11, GarbageRefused, MintFacts, RequestKinds
  <1>2. JudgeAnswered => ExpAsAsked
    BY JudgeMintsNothing DEF ExpAsAsked
  <1> QED
    BY <1>1, <1>2, CallsAnswered, PTL

-----------------------------------------------------------------------------
(* Asking for a token. *)

\* The rings: at least one algorithm, all of them known to Mint and the library.
LEMMA RingFacts ==
    ASSUME NEW e \in EnabledSets
    PROVE  /\ e # {} /\ e \subseteq {"RS256", "ES256", "EdDSA"}
           /\ e \intersect OtherAlgs = {}
  BY FrontEndAssumption, AlgsAssumption DEF FrontEndAssumption, AlgsAssumption

\* What passes the OAuth endpoints' checks signs with an enabled algorithm and
\* asks for a time within the cap.
LEMMA CheckedFacts ==
    ASSUME MintAnswered, endpoint \in CheckedMint, Precheck
    PROVE  /\ MintAlg \in enabled
           /\ request.kind \in {"absent", "duration"}
           /\ request.kind = "duration" =>
                 /\ request.value \in Int /\ request.value >= 0
                 /\ maxTTL > 0 => request.value <= maxTTL
  <1>0. ~TTLRefused(request) /\ (params.alg = "" \/ params.alg \in enabled)
    BY DEF Precheck
  <1>1. MintAlg \in enabled
    <2>1. MintAlg = SelectAlgorithm(params.alg)
      BY DEF MintAlg
    <2>2. enabled # {} /\ enabled \subseteq {"RS256", "ES256", "EdDSA"}
      BY MintFacts, RingFacts
    <2>3. \/ "RS256" \in enabled
          \/ "RS256" \notin enabled /\ "ES256" \in enabled
          \/ "RS256" \notin enabled /\ "ES256" \notin enabled /\ "EdDSA" \in enabled
      BY <2>2
    <2>4. CASE params.alg = ""
      BY <2>1, <2>3, <2>4 DEF SelectAlgorithm
    <2>5. CASE params.alg # ""
      BY <1>0, <2>1, <2>5 DEF SelectAlgorithm
    <2> QED
      BY <2>4, <2>5
  <1>2. request.kind \in {"absent", "duration"}
    BY <1>0, MintFacts DEF TTLRefused
  <1>3. ASSUME request.kind = "duration"
        PROVE  /\ request.value \in Int /\ request.value >= 0
               /\ maxTTL > 0 => request.value <= maxTTL
    <2>1. request.value \in Int /\ maxTTL \in Int
      BY <1>3, MintFacts, RequestKinds, Widths DEF Word
    <2>2. ~(request.value < 0) /\ ~(maxTTL > 0 /\ request.value > maxTTL)
      BY <1>0, <1>3, Zenon DEF TTLRefused
    <2> QED
      BY <2>1, <2>2
  <1> QED
    BY <1>1, <1>2, <1>3

\* The exp of a request that is no number is one instant, with its time from now.
LEMMA AskedTime ==
    ASSUME MintAnswered, request.kind # "garbage", InRange
    PROVE  \E t : /\ Expiry(request) = {t} /\ WellFormed(t) /\ Until(t) \in Int
                  /\ request.kind = "absent" => Until(t) = DefaultTTL
                  /\ request.kind = "duration" => Until(t) = request.value
                  /\ OverCap(t, maxTTL) <=> maxTTL > 0 /\ Until(t) > maxTTL
  <1>1. PICK t : /\ Expiry(request) = {t} /\ WellFormed(t)
                 /\ request.kind = "absent" => Until(t) = DefaultTTL
                 /\ request.kind = "duration" => Until(t) = request.value
    BY MintFacts, ExpiryInstant DEF InRange
  <1>2. Until(t) \in Int /\ (OverCap(t, maxTTL) <=> maxTTL > 0 /\ Until(t) > maxTTL)
    BY <1>1, MintFacts, OverCapExact, UntilWellFormed
  <1> QED
    BY <1>1, <1>2

\* What the OAuth endpoints' own checks let pass, Mint does not refuse, for every
\* ring and every cap.
THEOREM PrecheckEnough == EndpointsSpec => []PrecheckSuffices
  <1>1. MintAnswered => PrecheckSuffices
    <2> SUFFICES ASSUME MintAnswered, endpoint \in CheckedMint,
                        outcome # Unanswered, ~Minted
                 PROVE  request.kind = "absent" /\ maxTTL > 0 /\ DefaultTTL > maxTTL
      BY DEF PrecheckSuffices
    <2>1. Precheck /\ MintOutcome
      BY DEF MintAnswered
    <2>2. MintAlg \in enabled /\ request.kind \in {"absent", "duration"}
      BY <2>1, CheckedFacts
    <2>3. ~Unparsable(request) /\ InRange /\ request.kind # "garbage"
      BY <2>2 DEF Unparsable, InRange, Represented, IsEpoch
    <2>4. \E exp \in Expiry(request) : OverCap(exp, maxTTL)
      BY <2>1, <2>2, <2>3, MintFacts DEF MintOutcome, Minted
    <2>5. PICK t : /\ Until(t) \in Int /\ maxTTL > 0 /\ Until(t) > maxTTL
                   /\ request.kind = "absent" => Until(t) = DefaultTTL
                   /\ request.kind = "duration" => Until(t) = request.value
      BY <2>3, <2>4, AskedTime
    <2>6. request.kind # "duration"
      BY <2>1, <2>5, CheckedFacts, MintFacts
    <2> QED
      BY <2>2, <2>5, <2>6
  <1>2. JudgeAnswered => PrecheckSuffices
    BY JudgeMintsNothing DEF PrecheckSuffices
  <1> QED
    BY <1>1, <1>2, CallsAnswered, PTL

\* A call without a fault gets its token unless the random source fails, one with
\* a fault gets none, and only an unmarshallable claim is a server error besides.
THEOREM AnswersFit == EndpointsSpec => []AnswerFits
  <1>1. MintAnswered => AnswerFits
    <2> SUFFICES ASSUME MintAnswered, answer # None
                 PROVE  /\ answer = "refused" => Faulty
                        /\ answer = "failed" =>
                              ~params.jtiOK \/ params.flaw = "unsignable"
                        /\ answer = "ok" =>
                              ~Faulty \/ (~InRange /\ ~Unparsable(request))
      BY DEF AnswerFits
    <2>0. endpoint \in CheckedMint \union PlainMint
      BY DEF MintAnswered, MintCalls
    <2>1. ASSUME answer = "refused", ~Faulty PROVE FALSE
      <3>1. /\ params.flaw = None /\ request.kind # "garbage" /\ InRange
            /\ params.alg # "" => params.alg \in enabled
            /\ params.alg = "" => endpoint \in CheckedMint \/ "RS256" \in enabled
            /\ endpoint \in CheckedMint /\ request.kind = "duration" =>
                  ~(request.value < 0)
            /\ maxTTL > 0 => ~\E exp \in Expiry(request) : Until(exp) > maxTTL
        BY <2>0, <2>1 DEF Faulty, Until
      <3>2. PICK t : /\ Expiry(request) = {t} /\ Until(t) \in Int
                     /\ request.kind = "duration" => Until(t) = request.value
                     /\ OverCap(t, maxTTL) <=> maxTTL > 0 /\ Until(t) > maxTTL
        BY <3>1, AskedTime
      <3>3. Precheck
        BY <3>1, <3>2 DEF Precheck, TTLRefused
      <3>4. MintOutcome /\ outcome.result # "minted"
        BY <2>1, <3>3 DEF MintAnswered, Answer, None
      <3>5. MintAlg \in enabled
        <4>1. CASE endpoint \in CheckedMint
          BY <3>3, <4>1, CheckedFacts
        <4>2. CASE endpoint \notin CheckedMint
          BY <3>1, <4>2 DEF MintAlg
        <4> QED
          BY <4>1, <4>2
      <3>6. ~Unparsable(request)
        BY <3>1 DEF Unparsable, InRange, Represented, IsEpoch, EpochSecond
      <3>7. \E exp \in Expiry(request) : OverCap(exp, maxTTL)
        <4>1. params.flaw # "unsignable"
          BY <3>1 DEF None
        <4> QED
          BY <3>4, <3>5, <3>6, <4>1 DEF MintOutcome
      <3>8. maxTTL > 0 /\ Until(t) > maxTTL
        BY <3>2, <3>7
      <3> QED
        BY <3>1, <3>2, <3>8
    <2>2. answer = "failed" => ~params.jtiOK \/ params.flaw = "unsignable"
      BY DEF MintAnswered, MintOutcome, Answer, None
    <2>3. ASSUME answer = "ok", ~(~InRange /\ ~Unparsable(request))
          PROVE  ~Faulty
      <3>1. Precheck /\ Minted
        BY <2>3 DEF MintAnswered, Answer, None, Minted
      <3>2. InRange /\ request.kind # "garbage"
        BY <2>3, <3>1, GarbageRefused
      <3>3. MintAlg \in enabled /\ params.flaw = None
        BY <3>1 DEF MintAnswered, MintOutcome, Minted, Unanswered
      <3>4. PICK t : /\ Expiry(request) = {t} /\ Until(t) \in Int
                     /\ OverCap(t, maxTTL) <=> maxTTL > 0 /\ Until(t) > maxTTL
        BY <3>2, AskedTime
      <3>5. ~OverCap(t, maxTTL)
        BY <3>1, <3>2, <3>4, MintedFacts
      <3>6. ~(maxTTL > 0 /\ \E exp \in Expiry(request) :
                               Ticks(exp) - Ticks(Now) > maxTTL)
        BY <3>4, <3>5 DEF Until
      <3>7. IF params.alg # "" THEN params.alg \in enabled
            ELSE endpoint \in PlainMint => "RS256" \in enabled
        BY <3>1, <3>3 DEF Precheck, MintAlg, CheckedMint, PlainMint
      <3>8. ~(endpoint \in CheckedMint /\ request.kind = "duration"
                 /\ request.value < 0)
        BY <3>1 DEF Precheck, TTLRefused
      <3> QED
        BY <3>2, <3>3, <3>6, <3>7, <3>8 DEF Faulty
    <2> QED
      BY <2>1, <2>2, <2>3
  <1>2. JudgeAnswered => AnswerFits
    BY JudgeMintsNothing DEF AnswerFits
  <1> QED
    BY <1>1, <1>2, CallsAnswered, PTL

\* A token from an OAuth endpoint is active from the second it was minted in
\* until it expires.
THEOREM MintedIsActive == EndpointsSpec => []MintedIntrospectsActive
  <1>1. MintAnswered => MintedIntrospectsActive
    <2> SUFFICES ASSUME MintAnswered, endpoint \in CheckedMint, Minted,
                        NEW t \in NowUnix..(outcome.exp + 1)
                 PROVE  (Reason(MintedToken, IntrospectPolicy(t)) = "valid")
                           = (t < outcome.exp)
      BY DEF MintedIntrospectsActive
    <2>1. Precheck
      BY DEF MintAnswered, Minted, Unanswered
    <2>2. MintAlg \in enabled /\ InRange /\ request.kind # "garbage"
      BY <2>1, CheckedFacts DEF InRange, Represented, IsEpoch
    <2>3. outcome.exp \in Int
      BY <2>2, MintedFacts, UntilWellFormed
    <2>4. /\ t \in Int /\ NowUnix <= t /\ t <= outcome.exp + 1
          /\ Carried(outcome.exp) /\ Carried(NowUnix) /\ NowUnix \in Int
      BY <2>3, Ranges DEF Carried, Absent
    <2> DEFINE mt == MintedToken
               ip == IntrospectPolicy(t)
    <2>5. /\ mt.decodes /\ mt.shapesOK /\ mt.sig = "good" /\ mt.kid = "active"
          /\ mt.alg = MintAlg /\ mt.exp = outcome.exp /\ mt.nbf = NowUnix
          /\ mt.iat = NowUnix /\ mt.iss = Ours
      BY DEF MintedToken
    <2>6. /\ ip.allowed = enabled /\ ip.issuer = Ours /\ ip.audience = {}
          /\ ip.leeway = 0 /\ ip.now = t /\ ip.keys
      BY DEF IntrospectPolicy
    <2> HIDE DEF mt, ip
    <2>7. ~Unverifiable(mt) /\ mt.alg \in Allowed(ip)
      BY <2>2, <2>5, <2>6, MintFacts, RingFacts
         DEF Unverifiable, Allowed
    <2>8. /\ Expired(mt, ip) <=> ~(t < outcome.exp)
          /\ ~NotYetValid(mt, ip)
      BY <2>3, <2>4, <2>5, <2>6 DEF Expired, NotYetValid, TooEarly, Leeway
    <2>9. ~IssuerMismatch(mt, ip) /\ ~AudienceMismatch(mt, ip)
      BY <2>5, <2>6 DEF IssuerMismatch, AudienceMismatch
    <2>10. Reason(mt, ip) = "valid" <=> t < outcome.exp
      BY <2>5, <2>6, <2>7, <2>8, <2>9 DEF Reason, ClaimsReason, NoKid
    <2> QED
      BY <2>10, <2>3, <2>4 DEF mt, ip
  <1>2. JudgeAnswered => MintedIntrospectsActive
    BY JudgeMintsNothing DEF MintedIntrospectsActive
  <1> QED
    BY <1>1, <1>2, CallsAnswered, PTL

-----------------------------------------------------------------------------
(* Having a token judged. *)

\* The policies of all callers.
AnyPolicy == [keys     : BOOLEAN,
              allowed  : SUBSET RegisteredAlgs,
              issuer   : Issuers \union {NoIss},
              audience : SUBSET Audiences,
              leeway   : Int,
              now      : Nat]

\* A verdict is what the classifier computes from a token and a policy.
VerdictOK ==
    verdict # Pending =>
        tok \in Token /\ pol \in AnyPolicy /\ verdict = Verify(tok, pol)

\* The parameters of POST /verify.
LEMMA VerifyParamsFacts ==
    ASSUME NEW p \in VerifyParams
    PROVE  /\ p.alg.kind \in {"absent", "list"}
           /\ p.alg.kind = "list" => p.alg.value \subseteq RegisteredAlgs
           /\ p.leeway.kind \in {"absent", "garbage", "duration"}
           /\ p.leeway.kind = "duration" => p.leeway.value \in Int
           /\ p.aud \subseteq Audiences
           /\ p.now \in Nat
  <1>1. Leeways \subseteq Int /\ Clocks \subseteq Nat
    BY TimesAssumption DEF TimesAssumption
  <1>2. p.alg \in AlgParams /\ p.leeway \in LeewayParams
    BY DEF VerifyParams, AlgParams, LeewayParams
  <1>3. p.aud \subseteq Audiences /\ p.now \in Clocks
    BY DEF VerifyParams
  <1>4. /\ p.alg.kind \in {"absent", "list"}
        /\ p.alg.kind = "list" => p.alg.value \subseteq RegisteredAlgs
    BY <1>2 DEF AlgParams
  <1>5. /\ p.leeway.kind \in {"absent", "garbage", "duration"}
        /\ p.leeway.kind = "duration" => p.leeway.value \in Leeways
    BY <1>2 DEF LeewayParams
  <1> QED
    BY <1>1, <1>3, <1>4, <1>5

\* POST /verify and POST /introspect ask with policies of that kind.
LEMMA VerifyPolicyType ==
    ASSUME NEW p \in VerifyParams PROVE VerifyPolicy(p) \in AnyPolicy
  <1>1. Ours \in Issuers
    BY FrontEndAssumption DEF FrontEndAssumption
  <1>2. (IF p.alg.kind = "list" THEN p.alg.value ELSE {}) \in SUBSET RegisteredAlgs
    BY VerifyParamsFacts
  <1>3. (IF p.leeway.kind = "duration" THEN p.leeway.value ELSE 0) \in Int
    BY VerifyParamsFacts
  <1>4. p.aud \in SUBSET Audiences /\ p.now \in Nat
    BY VerifyParamsFacts
  <1> QED
    BY <1>1, <1>2, <1>3, <1>4 DEF VerifyPolicy, AnyPolicy

LEMMA IntrospectPolicyType ==
    ASSUME enabled = SourceAlgs, NEW t \in Clocks
    PROVE  IntrospectPolicy(t) \in AnyPolicy
  <1>1. Ours \in Issuers /\ SourceAlgs \in SUBSET RegisteredAlgs /\ t \in Nat
    BY FrontEndAssumption, AlgsAssumption, TimesAssumption
       DEF FrontEndAssumption, AlgsAssumption, TimesAssumption
  <1> QED
    BY <1>1 DEF IntrospectPolicy, AnyPolicy

LEMMA PolicyType == ASSUME NEW p \in Policy PROVE p \in AnyPolicy
  <1>1. /\ AllowedSets \subseteq SUBSET RegisteredAlgs
        /\ Leeways \subseteq Int /\ Clocks \subseteq Nat
    BY AlgsAssumption, TimesAssumption DEF AlgsAssumption, TimesAssumption
  <1> QED
    BY <1>1 DEF Policy, AnyPolicy

\* The classifier computes every verdict, and never touches its input.
LEMMA VerdictInvariant == EndpointsSpec => []VerdictOK
  <1>1. MintAnswered => VerdictOK
    BY DEF MintAnswered, VerdictOK
  <1>2. JudgeAnswered => VerdictOK
    <2> SUFFICES ASSUME JudgeAnswered, verdict # Pending
                 PROVE  /\ tok \in Token /\ pol \in AnyPolicy
                        /\ verdict = Verify(tok, pol)
      BY DEF VerdictOK
    <2>1. tok \in Token /\ verdict = Verify(tok, pol) /\ JudgePolicy
             /\ enabled = SourceAlgs
      BY DEF JudgeAnswered
    <2>2. CASE endpoint = "verify.Verify"
      BY <2>1, <2>2, PolicyType DEF JudgePolicy
    <2>3. CASE endpoint = "verify"
      <3>1. params \in VerifyParams /\ pol = VerifyPolicy(params)
        BY <2>1, <2>3 DEF JudgePolicy, JudgeAnswered
      <3> QED
        BY <2>1, <3>1, VerifyPolicyType
    <2>4. CASE endpoint = "introspect"
      <3>1. params.now \in Clocks /\ pol = IntrospectPolicy(params.now)
        BY <2>1, <2>4 DEF JudgePolicy, JudgeAnswered, IntrospectParams
      <3> QED
        BY <2>1, <3>1, IntrospectPolicyType
    <2> QED
      BY <2>1, <2>2, <2>3, <2>4 DEF JudgePolicy
  <1> QED
    BY <1>1, <1>2, CallsAnswered, PTL

\* A token is one of those that the checks tell apart.
LEMMA TokenFacts ==
    ASSUME NEW t \in Token
    PROVE  /\ t.kid \in KidStatus \union {NoKid} /\ t.sig \in Signatures
           /\ t.exp \in Times \union {Absent} /\ t.exp \in Int
           /\ t.nbf \in Times \union {Absent} /\ t.nbf \in Int
           /\ t.iat \in Times \union {Absent} /\ t.iat \in Int
  <1>1. /\ t.kid \in KidStatus \union {NoKid} /\ t.sig \in Signatures
        /\ t.exp \in Times \union {Absent} /\ t.nbf \in Times \union {Absent}
        /\ t.iat \in Times \union {Absent}
    <2>1. CASE t = Garbled
      BY <2>1 DEF Garbled, Signatures
    <2>2. CASE t \in Misshapen
      BY <2>2 DEF Misshapen
    <2>3. CASE t \notin {Garbled} \union Misshapen
      BY <2>3 DEF Token
    <2> QED
      BY <2>1, <2>2, <2>3
  <1>2. Times \union {Absent} \subseteq Int
    BY TimesAssumption DEF TimesAssumption, Absent
  <1> QED
    BY <1>1, <1>2

\* Classified verdicts, without the record.
LEMMA VerdictFields ==
    ASSUME VerdictOK, verdict # Pending
    PROVE  /\ verdict.reason = Reason(tok, pol)
           /\ verdict.claims = "authenticated" =>
                 verdict.reason
                     \notin {"malformed", "error", "alg", "kid", "signature"}
           /\ verdict.reason \notin {"malformed", "error", "alg"} /\ tok.kid # NoKid =>
                 verdict.kidStatus = tok.kid
  BY DEF VerdictOK, Verify

\* Claims are presented as authenticated only after the signature verified, for
\* every token and every policy.
THEOREM Labelled == EndpointsSpec => []ClaimsLabelled
  <1>1. VerdictOK => ClaimsLabelled
    <2> SUFFICES ASSUME VerdictOK, verdict # Pending,
                        verdict.claims = "authenticated"
                 PROVE  /\ tok.decodes /\ tok.sig = "good"
                        /\ tok.kid \in {"active", "retired"}
                        /\ verdict.kidStatus = tok.kid
                        /\ tok.alg \in Allowed(pol)
      BY DEF ClaimsLabelled
    <2>1. Reason(tok, pol) \notin {"malformed", "error", "alg", "kid", "signature"}
      BY VerdictFields
    <2>2. /\ tok.decodes /\ tok.sig \notin {"bad", "undecodable"}
          /\ tok.kid \notin {NoKid, "error", "unknown"}
          /\ tok.alg \in Allowed(pol)
      BY <2>1 DEF Reason
    <2>3. tok.sig = "good" /\ tok.kid \in {"active", "retired"}
      BY <2>2, TokenFacts DEF VerdictOK, Signatures, KidStatus
    <2> QED
      BY <2>1, <2>2, <2>3, VerdictFields
  <1> QED
    BY <1>1, VerdictInvariant, PTL

\* What each check of the classifier says is what the documents make of it.
LEMMA ChecksRight ==
    ASSUME tok \in Token, pol \in AnyPolicy, tok.kid # "error", tok.exp # 0,
           tok.sig # "undecodable"
    PROVE  /\ Fails("malformed") <=> ~(tok.decodes /\ tok.shapesOK)
           /\ Fails("alg") <=> tok.alg \notin Allowed(pol)
           /\ Fails("kid") <=> tok.kid \in {NoKid, "unknown"}
           /\ Fails("signature") <=> tok.sig = "bad"
           /\ Fails("expired") <=> Expired(tok, pol)
           /\ Fails("not_yet_valid") <=> NotYetValid(tok, pol)
           /\ Fails("issuer") <=> IssuerMismatch(tok, pol)
           /\ Fails("audience") <=> AudienceMismatch(tok, pol)
  <1>1. Fails("malformed") <=> ~(tok.decodes /\ tok.shapesOK)
    BY DEF Fails
  <1>2. Fails("alg") <=> tok.alg \notin Allowed(pol)
    BY DEF Fails, Allowed
  <1>3. /\ Fails("kid") <=> tok.kid \in {NoKid, "unknown"}
        /\ Fails("signature") <=> tok.sig = "bad"
    BY TokenFacts DEF Fails, KidStatus, Signatures, NoKid
  <1>4. /\ pol.leeway \in Int /\ pol.now \in Int /\ pol.now >= 0
        /\ tok.exp \in Int /\ tok.nbf \in Int /\ tok.iat \in Int
    BY TokenFacts DEF AnyPolicy
  <1>5. Skew = Leeway(pol) /\ Skew \in Int /\ Skew >= 0
    BY <1>4 DEF Skew, Leeway
  <1>6. Fails("expired") <=> Expired(tok, pol)
    <2>1. Fails("expired") <=> Carried(tok.exp) /\ tok.exp + Skew <= pol.now
      BY DEF Fails, Carried
    <2>2. tok.exp + Skew <= pol.now <=> ~(pol.now < tok.exp + Leeway(pol))
      BY <1>4, <1>5
    <2> QED
      BY <2>1, <2>2 DEF Expired
  <1>7. Fails("not_yet_valid") <=> NotYetValid(tok, pol)
    <2>1. Fails("not_yet_valid") <=>
             \/ tok.nbf # Absent /\ pol.now + Skew < tok.nbf
             \/ tok.iat # Absent /\ pol.now + Skew < tok.iat
      BY DEF Fails
    <2>2. ASSUME NEW t \in Int
          PROVE  (t # Absent /\ pol.now + Skew < t) <=> TooEarly(t, pol)
      BY <1>4, <1>5 DEF TooEarly, Carried, Absent
    <2> QED
      BY <1>4, <2>1, <2>2 DEF NotYetValid
  <1>8. /\ Fails("issuer") <=> IssuerMismatch(tok, pol)
        /\ Fails("audience") <=> AudienceMismatch(tok, pol)
    BY DEF Fails, IssuerMismatch, AudienceMismatch
  <1> QED
    BY <1>1, <1>2, <1>3, <1>6, <1>7, <1>8

\* The verdict names the first failing check, for every policy and every token
\* but the three kinds of Undocumented.
THEOREM First == EndpointsSpec => []FirstFailure
  <1>1. VerdictOK => FirstFailure
    <2> SUFFICES ASSUME VerdictOK, verdict # Pending, ~Undocumented,
                        pol.keys, tok.kid # "error"
                 PROVE  FirstOf(verdict.reason)
      BY DEF FirstFailure, DocumentedReason
    <2>0. /\ tok.sig # "undecodable" /\ tok.exp # 0
          /\ tok.decodes /\ ~tok.shapesOK => ~Unverifiable(tok)
      BY DEF Undocumented
    <2>1. verdict.reason = Reason(tok, pol)
      BY VerdictFields
    <2>2. Unverifiable(tok) => tok.alg \notin Allowed(pol)
      BY AlgsAssumption
         DEF AlgsAssumption, Unverifiable, Allowed, VerdictOK, AnyPolicy
    <2>3. /\ Fails("malformed") <=> ~(tok.decodes /\ tok.shapesOK)
          /\ Fails("alg") <=> tok.alg \notin Allowed(pol)
          /\ Fails("kid") <=> tok.kid \in {NoKid, "unknown"}
          /\ Fails("signature") <=> tok.sig = "bad"
          /\ Fails("expired") <=> Expired(tok, pol)
          /\ Fails("not_yet_valid") <=> NotYetValid(tok, pol)
          /\ Fails("issuer") <=> IssuerMismatch(tok, pol)
          /\ Fails("audience") <=> AudienceMismatch(tok, pol)
      BY <2>0, ChecksRight DEF VerdictOK
    <2> QED
      BY <2>0, <2>1, <2>2, <2>3 DEF Reason, ClaimsReason, FirstOf, Reasons
  <1> QED
    BY <1>1, VerdictInvariant, PTL

\* Leeway only widens, for every token, policy and pair of leeways: the checks
\* before the claims do not look at it, and the time checks are monotone in it.
THEOREM Widens == EndpointsSpec => []LeewayWidens
  <1>1. VerdictOK => LeewayWidens
    <2> SUFFICES ASSUME VerdictOK, verdict # Pending,
                        NEW wider \in Leeways, wider >= pol.leeway
                 PROVE  LET relaxed == Verify(tok, [pol EXCEPT !.leeway = wider])
                        IN  /\ verdict.reason = "valid" =>
                                  relaxed.reason = "valid"
                            /\ verdict.reason \notin {"expired", "not_yet_valid"}
                                  => relaxed.reason = verdict.reason
      BY DEF LeewayWidens
    <2> DEFINE loose == [pol EXCEPT !.leeway = wider]
    <2>1. /\ Verify(tok, loose).reason = Reason(tok, loose)
          /\ verdict.reason = Reason(tok, pol)
      BY VerdictFields DEF Verify
    <2>2. /\ loose.allowed = pol.allowed /\ loose.issuer = pol.issuer
          /\ loose.audience = pol.audience /\ loose.now = pol.now
          /\ loose.leeway = wider /\ loose.keys = pol.keys
      BY DEF VerdictOK, AnyPolicy
    <2>3. /\ pol.leeway \in Int /\ wider \in Int /\ pol.now \in Int
          /\ tok.exp \in Int /\ tok.nbf \in Int /\ tok.iat \in Int
      <3>1. tok.exp \in Int /\ tok.nbf \in Int /\ tok.iat \in Int
        BY TokenFacts DEF VerdictOK
      <3>2. pol.leeway \in Int /\ pol.now \in Int
        BY DEF VerdictOK, AnyPolicy
      <3>3. Leeways \subseteq Int
        BY TimesAssumption DEF TimesAssumption
      <3> QED
        BY <3>1, <3>2, <3>3
    <2>4. Expired(tok, loose) => Expired(tok, pol)
      BY <2>2, <2>3 DEF Expired, Leeway
    <2>5. NotYetValid(tok, loose) => NotYetValid(tok, pol)
      BY <2>2, <2>3 DEF NotYetValid, TooEarly, Leeway
    <2>6. /\ IssuerMismatch(tok, loose) <=> IssuerMismatch(tok, pol)
          /\ AudienceMismatch(tok, loose) <=> AudienceMismatch(tok, pol)
          /\ Allowed(loose) = Allowed(pol)
      BY <2>2 DEF IssuerMismatch, AudienceMismatch, Allowed
    <2> HIDE DEF loose
    <2>7. /\ Reason(tok, pol) = "valid" => Reason(tok, loose) = "valid"
          /\ Reason(tok, pol) \notin {"expired", "not_yet_valid"} =>
                Reason(tok, loose) = Reason(tok, pol)
      BY <2>2, <2>4, <2>5, <2>6 DEF Reason, ClaimsReason
    <2> QED
      BY <2>1, <2>7 DEF loose
  <1> QED
    BY <1>1, VerdictInvariant, PTL

\* Narrowing the accepted algorithms can only lead to alg, for every token and
\* every policy.
THEOREM Narrows == EndpointsSpec => []NarrowingRejects
  <1>1. VerdictOK => NarrowingRejects
    <2> SUFFICES ASSUME VerdictOK, verdict # Pending, verdict.reason # "error",
                        NEW narrow \in (SUBSET Allowed(pol)) \ {{}}
                 PROVE  Reason(tok, [pol EXCEPT !.allowed = narrow])
                            \in {verdict.reason, "alg"}
      BY DEF NarrowingRejects
    <2> DEFINE strict == [pol EXCEPT !.allowed = narrow]
    <2>1. verdict.reason = Reason(tok, pol)
      BY VerdictFields
    <2>2. /\ strict.allowed = narrow /\ strict.issuer = pol.issuer
          /\ strict.audience = pol.audience /\ strict.now = pol.now
          /\ strict.leeway = pol.leeway /\ strict.keys = pol.keys
      BY DEF VerdictOK, AnyPolicy
    <2>3. Allowed(strict) \subseteq Allowed(pol)
      BY <2>2 DEF Allowed
    <2>4. ClaimsReason(tok, strict) = ClaimsReason(tok, pol)
      BY <2>2 DEF ClaimsReason, Expired, NotYetValid, TooEarly, Leeway,
                  IssuerMismatch, AudienceMismatch
    <2> HIDE DEF strict
    <2> QED
      BY <2>1, <2>2, <2>3, <2>4 DEF Reason, strict
  <1> QED
    BY <1>1, VerdictInvariant, PTL

\* A token that is valid passed every check.
LEMMA ValidFacts ==
    ASSUME NEW t, NEW p, Reason(t, p) = "valid"
    PROVE  /\ t.decodes /\ ~Unverifiable(t) /\ t.shapesOK
           /\ t.alg \in Allowed(p)
           /\ t.kid \notin {NoKid, "error", "unknown"}
           /\ t.sig \notin {"bad", "undecodable"}
           /\ ~Expired(t, p) /\ ~NotYetValid(t, p)
           /\ ~IssuerMismatch(t, p) /\ ~AudienceMismatch(t, p)
  BY DEF Reason, ClaimsReason

\* POST /verify answers valid only for a token that has all it was asked about,
\* for every token and all parameters, an exp of 0 apart.
THEOREM ValidIsEarned == EndpointsSpec => []ValidAnswerEarned
  <1>1. MintAnswered => ValidAnswerEarned
    BY DEF MintAnswered, MintCalls, ValidAnswerEarned, CheckedMint, PlainMint
  <1>2. JudgeAnswered => ValidAnswerEarned
    <2> DEFINE p == params
               leeway == IF p.leeway.kind = "duration" THEN p.leeway.value ELSE 0
    <2> SUFFICES ASSUME JudgeAnswered, endpoint = "verify", answer = "ok",
                        verdict.reason = "valid"
                 PROVE  /\ tok.sig = "good" /\ tok.kid \in {"active", "retired"}
                        /\ tok.iss = Ours /\ tok.alg \in enabled
                        /\ p.alg.kind = "list" => tok.alg \in p.alg.value
                        /\ p.aud # {} => p.aud \intersect tok.aud # {}
                        /\ tok.exp \notin {Absent, 0} => p.now < tok.exp + leeway
      BY DEF ValidAnswerEarned
    <2>1. /\ verdict = Verify(tok, pol) /\ tok \in Token /\ params \in VerifyParams
          /\ ~VerifyRefused(params) /\ pol = VerifyPolicy(params)
          /\ enabled = SourceAlgs
      BY DEF JudgeAnswered, JudgePolicy, None
    <2>2. Reason(tok, pol) = "valid"
      BY <2>1 DEF Verify
    <2>3. /\ pol.allowed = (IF p.alg.kind = "list" THEN p.alg.value ELSE {})
          /\ pol.issuer = Ours /\ pol.audience = p.aud /\ pol.now = p.now
          /\ pol.leeway = leeway
      BY <2>1 DEF VerifyPolicy
    <2>4. /\ leeway \in Int /\ leeway >= 0
      BY <2>1, VerifyParamsFacts DEF VerifyRefused
    <2>5. tok.sig = "good" /\ tok.kid \in {"active", "retired"}
      BY <2>1, <2>2, ValidFacts, TokenFacts DEF KidStatus, Signatures
    <2>6. tok.iss = Ours
      BY <2>2, <2>3, ValidFacts, FrontEndAssumption
         DEF IssuerMismatch, FrontEndAssumption
    <2>7. tok.alg \in enabled /\ (p.alg.kind = "list" => tok.alg \in p.alg.value)
      <3>1. tok.alg \in Allowed(pol)
        BY <2>2, ValidFacts
      <3>2. p.alg.kind = "list" => p.alg.value # {} /\ p.alg.value \subseteq enabled
        BY <2>1 DEF VerifyRefused
      <3> QED
        BY <2>1, <2>3, <3>1, <3>2 DEF Allowed
    <2>8. p.aud # {} => p.aud \intersect tok.aud # {}
      BY <2>2, <2>3, ValidFacts DEF AudienceMismatch
    <2>9. tok.exp \notin {Absent, 0} => p.now < tok.exp + leeway
      <3>1. ~Expired(tok, pol)
        BY <2>2, ValidFacts
      <3> HIDE DEF leeway
      <3>2. Leeway(pol) = leeway
        BY <2>3, <2>4 DEF Leeway
      <3> QED
        BY <2>3, <3>1, <3>2 DEF Expired, Carried
    <2> QED
      BY <2>5, <2>6, <2>7, <2>8, <2>9
  <1> QED
    BY <1>1, <1>2, CallsAnswered, PTL

\* Introspection and POST /verify agree, for every token and all parameters.
THEOREM IntrospectionAgrees == EndpointsSpec => []IntrospectAgrees
  <1>1. MintAnswered => IntrospectAgrees
    BY DEF MintAnswered, MintCalls, IntrospectAgrees, CheckedMint, PlainMint
  <1>2. JudgeAnswered => IntrospectAgrees
    <2> SUFFICES ASSUME JudgeAnswered, endpoint = "introspect", answer = "ok",
                        NEW p \in VerifyParams, ~VerifyRefused(p),
                        p.leeway.kind = "absent", p.now = params.now
                 PROVE  LET valid == Reason(tok, VerifyPolicy(p)) = "valid" IN
                        IF p.alg.kind = "absent" /\ p.aud = {}
                        THEN valid = IntrospectActive
                        ELSE valid => IntrospectActive
      BY DEF IntrospectAgrees
    <2> DEFINE vp == VerifyPolicy(p)
    <2>1. /\ verdict = Verify(tok, pol) /\ pol = IntrospectPolicy(params.now)
          /\ enabled = SourceAlgs
      BY DEF JudgeAnswered, JudgePolicy, None
    <2>2. IntrospectActive <=> Reason(tok, pol) = "valid"
      BY <2>1 DEF IntrospectActive, Verify
    <2>3. /\ pol.allowed = SourceAlgs /\ pol.issuer = Ours /\ pol.audience = {}
          /\ pol.leeway = 0 /\ pol.now = params.now /\ pol.keys
      BY <2>1 DEF IntrospectPolicy
    <2>4. /\ vp.allowed = (IF p.alg.kind = "list" THEN p.alg.value ELSE {})
          /\ vp.issuer = Ours /\ vp.audience = p.aud /\ vp.leeway = 0
          /\ vp.now = params.now /\ vp.keys
      BY DEF VerifyPolicy
    <2>5. p.alg.kind = "list" => p.alg.value # {} /\ p.alg.value \subseteq SourceAlgs
      BY <2>1 DEF VerifyRefused
    <2> HIDE DEF vp
    <2>6. /\ Allowed(pol) = SourceAlgs
          /\ Allowed(vp) \subseteq SourceAlgs
          /\ p.alg.kind = "absent" => Allowed(vp) = SourceAlgs
      BY <2>3, <2>4, <2>5 DEF Allowed
    <2>7. /\ Expired(tok, vp) <=> Expired(tok, pol)
          /\ NotYetValid(tok, vp) <=> NotYetValid(tok, pol)
          /\ IssuerMismatch(tok, vp) <=> IssuerMismatch(tok, pol)
          /\ ~AudienceMismatch(tok, pol)
          /\ p.aud = {} => ~AudienceMismatch(tok, vp)
      BY <2>3, <2>4 DEF Expired, NotYetValid, TooEarly, Leeway, IssuerMismatch,
                        AudienceMismatch
    <2>8. Reason(tok, vp) = "valid" => Reason(tok, pol) = "valid"
      BY <2>3, <2>4, <2>6, <2>7 DEF Reason, ClaimsReason
    <2>9. p.alg.kind = "absent" /\ p.aud = {} =>
             (Reason(tok, pol) = "valid" => Reason(tok, vp) = "valid")
      BY <2>3, <2>4, <2>6, <2>7 DEF Reason, ClaimsReason
    <2>10. IntrospectActive \in BOOLEAN
      BY DEF IntrospectActive
    <2> QED
      BY <2>2, <2>8, <2>9, <2>10 DEF vp
  <1> QED
    BY <1>1, <1>2, CallsAnswered, PTL

=============================================================================
