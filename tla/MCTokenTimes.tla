---------------------------- MODULE MCTokenTimes ----------------------------
(* Instances of TokenTimes for TLC: words of seven bits. *)
EXTENDS TokenTimes

MCWords == -64..63
MCNumbers == [unix : MCWords, frac : {0, 1, 3}]
MCDurations == -64..63

\* Dates between the years 0 and 9999, with and without a fraction.
MCDates == [unix : -10..40, frac : {0, 1, 3}]

\* No cap, caps of less than, exactly and more than a second, and the longest.
MCMaxTTLs == {0, 3, 4, 6, 62}

=============================================================================
