----------------------------- MODULE TokenTimes -----------------------------
(***************************************************************************)
(* The time arithmetic of tokenfactory.Mint: how the exp of a request is   *)
(* read (ParseTimeValue), how the lifetime is computed and capped, and     *)
(* what the response says of it.  Go's time.Time counts seconds in an      *)
(* int64 from year 1 and time.Duration nanoseconds in an int64; both are   *)
(* W-bit words here, so that every value at either end can be tried.       *)
(***************************************************************************)
EXTENDS Integers

CONSTANTS
    W,              \* the width of int64
    UnixToInternal, \* the seconds between year 1 and 1970
    Second,         \* time.Second, in units of time.Duration
    NowUnix,        \* the second in which Mint reads the clock
    DefaultTTL,     \* Factory.defaultTTL
    MaxTTLs,        \* the values of Factory.maxTTL; 0 is no cap, and neither
                    \* is the longest Duration, at which Sub clamps
    Numbers,        \* exp as a number, [unix, frac] like a date
    Numerals,       \* exp as a decimal string, without leading zeros
    Durations,      \* exp as a duration
    Dates           \* exp as an RFC 3339 date, [unix, frac]

WordCount == 2^W
MinWord == -(2^(W - 1))
MaxWord == 2^(W - 1) - 1
Word == MinWord..MaxWord

\* W bits: what 2^W and 2^(W - 1) are to each other is spelled out.
ASSUME WidthAssumption ==
    /\ W \in Nat \ {0} /\ Second \in Nat \ {0}
    /\ WordCount \in Nat \ {0}
    /\ MinWord \in Int /\ MinWord <= -1
    /\ MaxWord = -MinWord - 1 /\ WordCount = -2 * MinWord

\* The clock is after the first second of 1970, and so far from both ends of the
\* range that no duration leads there (a Duration is at most 292 years); the
\* dates are those of the years 0 to 9999.
ASSUME RangesAssumption ==
    /\ UnixToInternal \in Nat /\ NowUnix \in Nat \ {0, 1}
    /\ \A d \in Word : /\ NowUnix + (d \div Second) \in Word
                       /\ NowUnix + UnixToInternal + (d \div Second) \in Word
    /\ DefaultTTL \in Word /\ Durations \subseteq Word
    /\ MaxTTLs \subseteq 0..(MaxWord - 1)
    /\ Numerals \subseteq Int
    /\ \A v \in Numbers : v.unix \in Int /\ v.frac \in 0..(Second - 1)
    /\ \A d \in Dates : /\ d.unix \in Word /\ d.unix + UnixToInternal \in Word
                        /\ d.frac \in 0..(Second - 1)

\* Two's complement addition.
Wrap(x) == ((x - MinWord) % WordCount) + MinWord

-----------------------------------------------------------------------------
(* package time *)

\* time.Unix(sec, 0): the addition of unixToInternal is not checked.
Unix(sec) == [sec |-> Wrap(sec + UnixToInternal), frac |-> 0]

Now == Unix(NowUnix)        \* time.Now().UTC().Truncate(time.Second)

Ticks(t) == t.sec * Second + t.frac

\* t.Add(d), of a t far from both ends of the range.
Add(t, d) == [sec  |-> t.sec + ((t.frac + d) \div Second),
              frac |-> (t.frac + d) % Second]

\* t.Sub(u): what does not fit a Duration is clamped.
Sub(t, u) ==
    LET d == Ticks(t) - Ticks(u) IN
    IF d < MinWord THEN MinWord ELSE IF d > MaxWord THEN MaxWord ELSE d

\* math.Round of a duration in seconds: half away from zero.
RoundSeconds(d) ==
    IF d >= 0 THEN (2 * d + Second) \div (2 * Second)
    ELSE -((2 * (-d) + Second) \div (2 * Second))

\* How the jwt library writes a time into the token: whole seconds since 1970.
NumericDate(t) == Wrap(t.sec - UnixToInternal)

-----------------------------------------------------------------------------
(* The request, and ParseTimeValue. *)

Requests ==
    {[kind |-> "absent"], [kind |-> "garbage"]}
    \union [kind : {"number"}, value : Numbers]
    \union [kind : {"numeral"}, value : Numerals]
    \union [kind : {"duration"}, value : Durations]
    \union [kind : {"date"}, value : Dates]

\* ParseTimeValue fails: a string that is neither duration, date nor an int64,
\* or a value that is no string or number.
Unparsable(req) ==
    req.kind = "garbage" \/ (req.kind = "numeral" /\ req.value \notin Word)

\* int64(v) of a float64: the fraction is cut off, toward zero.
Truncate(v) == IF v.unix < 0 /\ v.frac > 0 THEN v.unix + 1 ELSE v.unix

\* The instant of a number.  A float64 out of range converts to what the
\* processor gives: the least or the greatest int64.
InstantsOf(v) ==
    IF Truncate(v) \in Word THEN {Unix(Truncate(v))}
    ELSE {Unix(MinWord), Unix(MaxWord)}

\* The instant of a decimal string.  time.ParseDuration, which is tried first,
\* takes "0" for a duration and wants a unit for everything else.
NumeralInstants(n) ==
    IF n = 0 THEN {Add(Now, 0)} ELSE IF n \in Word THEN {Unix(n)} ELSE {}

\* Mutation of ParseTimeValue: a duration counts from 1970.
ParseTimeValueEpoch(req) ==
    CASE req.kind = "number"   -> InstantsOf(req.value)
      [] req.kind = "numeral"  -> NumeralInstants(req.value)
      [] req.kind = "duration" -> {Add(Unix(0), req.value)}
      [] req.kind = "date"     -> {[sec  |-> req.value.unix + UnixToInternal,
                                    frac |-> req.value.frac]}
      [] OTHER                 -> {}

\* The instants an exp may stand for.
ParseTimeValue(req) ==
    CASE req.kind = "number"   -> InstantsOf(req.value)
      [] req.kind = "numeral"  -> NumeralInstants(req.value)
      [] req.kind = "duration" -> {Add(Now, req.value)}
      [] req.kind = "date"     -> {[sec  |-> req.value.unix + UnixToInternal,
                                    frac |-> req.value.frac]}
      [] OTHER                 -> {}

\* exp of the token: the request's, or the default.
Expiry(req) ==
    IF req.kind = "absent" THEN {Add(Now, DefaultTTL)} ELSE ParseTimeValue(req)

\* Mutation of Lifetime: whole seconds only.
LifetimeSeconds(exp) == (exp.sec - Now.sec) * Second

Lifetime(exp) == Sub(exp, Now)

\* Mutations of OverCap: a lifetime a unit over the cap passes; one of exactly
\* the cap does not.
OverCapByOne(exp, cap) == cap > 0 /\ Lifetime(exp) > cap + 1
OverCapInclusive(exp, cap) == cap > 0 /\ Lifetime(exp) >= cap

OverCap(exp, cap) == cap > 0 /\ Lifetime(exp) > cap

-----------------------------------------------------------------------------
VARIABLES
    request,    \* how the request gives exp
    maxTTL,     \* Factory.maxTTL
    outcome     \* of Mint

timesVars == <<request, maxTTL, outcome>>

Unanswered == [result |-> "pending"]

TimesInit ==
    /\ request \in Requests
    /\ maxTTL \in MaxTTLs
    /\ outcome = Unanswered

InvalidRequest ==
    /\ outcome = Unanswered
    /\ Unparsable(request)
    /\ outcome' = [result |-> "invalid_request"]
    /\ UNCHANGED <<request, maxTTL>>

TTLTooLong ==
    /\ outcome = Unanswered
    /\ \E exp \in Expiry(request) :
          /\ OverCap(exp, maxTTL)
          /\ outcome' = [result |-> "ttl_too_long"]
    /\ UNCHANGED <<request, maxTTL>>

Mint ==
    /\ outcome = Unanswered
    /\ \E exp \in Expiry(request) :
          /\ ~OverCap(exp, maxTTL)
          /\ outcome' = [result    |-> "minted",
                         exp       |-> NumericDate(exp),
                         expiresIn |-> RoundSeconds(Lifetime(exp))]
    /\ UNCHANGED <<request, maxTTL>>

TimesNext == InvalidRequest \/ TTLTooLong \/ Mint

TimesSpec == TimesInit /\ [][TimesNext]_timesVars

-----------------------------------------------------------------------------
(* Properties.  They are about the token, in exact arithmetic. *)

Minted == outcome.result = "minted"

\* The token's own lifetime, in units of a Duration.
TokenLifetime == (outcome.exp - NowUnix) * Second

\* The request gives exp in seconds since 1970, and which second that is.
IsEpoch(req) == req.kind \in {"number", "numeral"}
EpochSecond(req) == IF req.kind = "number" THEN Truncate(req.value) ELSE req.value

\* time.Unix represents it.
Represented(req) ==
    IsEpoch(req) => /\ EpochSecond(req) \in Word
                    /\ EpochSecond(req) + UnixToInternal \in Word
InRange == Represented(request)

\* "A requested lifetime beyond MAX_TTL (when the cap is nonzero) SHALL be
\* refused" (token-minting/spec.md): no token outlives the cap.
CapRespected == (Minted /\ maxTTL > 0) => TokenLifetime <= maxTTL

\* The same for every exp that time.Unix can represent, at both ends of the
\* range and where Sub clamps.
CapRespectedInRange == InRange => CapRespected

\* A request within the cap is not refused: the clamping and the truncation
\* turn nobody away.
OnlyLongRefused ==
    (outcome.result = "ttl_too_long" /\ InRange) =>
        \E exp \in Expiry(request) : Ticks(exp) - Ticks(Now) > maxTTL

\* expires_in is within half a second of the lifetime that was asked for, and
\* within a second of the one the token has, unless that does not fit a Duration.
ExpiresInNearest ==
    (Minted /\ InRange) =>
        \A exp \in Expiry(request) :
            LET asked == Ticks(exp) - Ticks(Now)
                given == outcome.expiresIn * Second
            IN
            asked \in Word =>
                /\ 2 * (given - asked) \in -Second..Second
                /\ given - TokenLifetime \in 0..Second

\* The instant asked for, in units of a Duration since 1970.
Asked ==
    CASE request.kind = "absent"             -> NowUnix * Second + DefaultTTL
      [] request.kind = "duration"           -> NowUnix * Second + request.value
      [] request.kind = "numeral"            -> request.value * Second
      [] request.kind \in {"number", "date"} ->
            request.value.unix * Second + request.value.frac

\* A token expires in the second that was asked for, however it was written: the
\* rest is cut off, to an earlier time unless it is a number before 1970.  Not so
\* the string "0": it means now, although a numeric string should be in epoch
\* seconds (token-minting/spec.md).
ExpAsAsked ==
    (Minted /\ InRange /\ ~(request.kind = "numeral" /\ request.value = 0)) =>
        /\ Asked - outcome.exp * Second \in (1 - Second)..(Second - 1)
        /\ request.kind # "number" \/ Asked >= 0 => outcome.exp * Second <= Asked

=============================================================================
