------------------------------ MODULE MCIssuer ------------------------------
(* Instances of Issuer for TLC. *)
EXTENDS Issuer, TLC

\* Lifetimes in the past, at the cap, and over it when MaxTTL = 1.
LifetimesAroundCap == {-1, 1, 2}

MinterSymmetry == Permutations(Minters) \union Permutations(Callers)

=============================================================================
