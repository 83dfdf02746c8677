---------------------------- MODULE MCEndpoints ----------------------------
(* Instances of Endpoints for TLC: TokenTimes with words of seven bits, and   *)
(* every token and policy of Verify over a few instants.                      *)
EXTENDS Endpoints

\* Every word, and two numbers beyond each end, with and without a fraction.
MCNumerals == -66..65
MCNumbers == [unix : MCNumerals, frac : {0, 1, 3}]
MCDurations == -64..63

\* Dates between the years 0 and 9999, with and without a fraction.
MCDates == [unix : -10..40, frac : {0, 1, 3}]

\* No cap, caps of less than, exactly and more than a second, and the longest.
MCMaxTTLs == {0, 3, 4, 6, 62}

\* Two enabled algorithms, one the library knows but the source does not offer,
\* and one the library does not know.
MCRegisteredAlgs == {"RS256", "ES256", "EdDSA"}
MCSourceAlgs     == {"RS256", "EdDSA"}
MCOtherAlgs      == {"XX"}
MCAllowedSets    == {{}, {"RS256", "ES256"}}

\* A ring with RS256, and rings without it.
MCKnownAlgs   == MCRegisteredAlgs
MCEnabledSets == {{"RS256", "EdDSA"}, {"ES256", "EdDSA"}, {"EdDSA"}}

\* A clock in the middle of the claims' instants, and leeways that are negative
\* (and so clamped or refused), zero, and enough to cross one instant.
MCTimes   == 0..3
MCClocks  == {2}
MCLeeways == {-1, 0, 1}

=============================================================================
