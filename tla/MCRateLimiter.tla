---------------------------- MODULE MCRateLimiter ----------------------------
(* Instances of RateLimiter for TLC. *)
EXTENDS RateLimiter, TLC

HandlerSymmetry == Permutations(Handlers)

\* A direct client and one behind a proxy that forwards its address.
TwoClients == {[ip |-> "A", port |-> 1, xff |-> NoXff],
               [ip |-> "P", port |-> 2, xff |-> "B"]}

=============================================================================
