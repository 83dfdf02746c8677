---------------------------- MODULE MCCliVerify ----------------------------
(* Instances of CliVerify for TLC.  The algorithms are interchangeable. *)
EXTENDS CliVerify, TLC

ThreeKids == 0..2
AlgorithmSymmetry == Permutations(Algorithms)

=============================================================================
