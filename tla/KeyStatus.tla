----------------------------- MODULE KeyStatus -----------------------------
(***************************************************************************)
(* What the key ring promises to whoever holds a kid: the life of a key.   *)
(* A key is born active, there is always exactly one active key per        *)
(* algorithm, a key that was replaced stays published as retired until it  *)
(* is dropped, and nothing ever comes back.  Times, locks, goroutines and  *)
(* the grace period are left to KeyRing, which implements this module.     *)
(***************************************************************************)
EXTENDS Integers

CONSTANTS
    Algorithms, \* the enabled algorithms
    Kids        \* the key ids of an algorithm; 0 is the one New generates

VARIABLE status \* what is known of each kid of each algorithm

Status == {"unborn", "active", "retired", "gone"}

StatusInit ==
    status = [a \in Algorithms |-> [k \in Kids |->
                IF k = 0 THEN "active" ELSE "unborn"]]

\* The kids of the JWKS document.
PublishedKids ==
    {p \in Algorithms \X Kids : status[p[1]][p[2]] \in {"active", "retired"}}

\* Each algorithm in rotated gets the fresh key chosen for it.
Replace(rotated, fresh) ==
    /\ \A a \in rotated : status[a][fresh[a]] = "unborn"
    /\ status' = [a \in Algorithms |-> [k \in Kids |->
          IF a \notin rotated THEN status[a][k]
          ELSE IF k = fresh[a] THEN "active"
          ELSE IF status[a][k] = "active" THEN "retired"
          ELSE status[a][k]]]

\* The retired keys in dropped leave the JWKS document.
Drop(dropped) ==
    /\ \A p \in dropped : status[p[1]][p[2]] = "retired"
    /\ status' = [a \in Algorithms |-> [k \in Kids |->
          IF <<a, k>> \in dropped THEN "gone" ELSE status[a][k]]]

StatusNext ==
    \/ \E rotated \in SUBSET Algorithms : \E fresh \in [rotated -> Kids] :
          Replace(rotated, fresh)
    \/ \E dropped \in SUBSET (Algorithms \X Kids) : Drop(dropped)

StatusSpec == StatusInit /\ [][StatusNext]_status

=============================================================================
