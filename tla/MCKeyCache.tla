----------------------------- MODULE MCKeyCache -----------------------------
(* Instances of KeyCache for TLC. *)
EXTENDS KeyCache

TwoKids == 0..1

=============================================================================
