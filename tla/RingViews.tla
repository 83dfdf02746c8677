----------------------------- MODULE RingViews -----------------------------
(***************************************************************************)
(* What others see of the key ring while it rotates: tester.Server.Keys,   *)
(* the health document, and the lookups of a single kid.                   *)
(*                                                                         *)
(* Keys takes the lock for the list of keys only and reads RetiredAt of    *)
(* each one without it, while RotateAt may be writing that very field: a   *)
(* data race.  RetiredAt is written once, when its key is retired, so a    *)
(* read yields the zero time, the stamp, or some words of each; and Keys   *)
(* reads it twice, for the time and for the flag.  The health document     *)
(* takes the lock once per algorithm.                                      *)
(***************************************************************************)
EXTENDS KeyRing

CONSTANT Viewers    \* goroutines that call Keys or serve GET /healthz

Torn == -2          \* a RetiredAt of which only some words were written

VARIABLES
    viewPc,     \* where each viewer is: "idle", "keys" or "health"
    since,      \* history: when its call began
    listed      \* the keys it has listed so far

viewVars == <<viewPc, since, listed>>
allVars  == <<vars, viewVars>>

ViewsInit ==
    /\ Init
    /\ viewPc = [v \in Viewers |-> "idle"]
    /\ since = [v \in Viewers |-> 0]
    /\ listed = [v \in Viewers |-> {}]

KeyInfo(a, g, at, isRetired) ==
    [alg |-> a, kid |-> g, retiredAt |-> at, retired |-> isRetired]

Call(v, pc, keys) ==
    /\ viewPc[v] = "idle"
    /\ viewPc' = [viewPc EXCEPT ![v] = pc]
    /\ since' = [since EXCEPT ![v] = now]
    /\ listed' = [listed EXCEPT ![v] = keys]
    /\ UNCHANGED vars

Return(v, pc) ==
    /\ viewPc[v] = pc
    /\ viewPc' = [viewPc EXCEPT ![v] = "idle"]
    /\ since' = [since EXCEPT ![v] = 0]
    /\ listed' = [listed EXCEPT ![v] = {}]
    /\ UNCHANGED vars

-----------------------------------------------------------------------------
(* tester.Server.Keys. *)

\* ring.Snapshot: the active and the retired keys, under the read lock.
Snapshot ==
    UNION {{KeyInfo(a, g, retiredAt[a][g], g # active[a]) : g \in Published(a)} :
           a \in Enabled}

KeysSnapshot(v) == Call(v, "keys", Snapshot)

\* What the loop may make of a key of the snapshot: the time and the flag are
\* read from RetiredAt separately, in either order, before, during or after the
\* write of a rotation that has come since.
ReadKey(k) ==
    LET stamp == retiredAt[k.alg][k.kid] IN
    IF stamp = k.retiredAt THEN {k}
    ELSE {KeyInfo(k.alg, k.kid, at, flag) :
             at \in {k.retiredAt, Torn, stamp}, flag \in BOOLEAN}

\* Mutation of KeysEntries: the keys active by now are listed as well.
KeysEntriesAppended(v) ==
    UNION {ReadKey(k) : k \in listed[v]} \union
    {KeyInfo(a, active[a], NotRetired, FALSE) : a \in Enabled}

\* The entries that the result may have.
KeysEntries(v) == UNION {ReadKey(k) : k \in listed[v]}

KeysReturn(v) == Return(v, "keys")

-----------------------------------------------------------------------------
(* GET /healthz, and the lookups by kid. *)

\* EnabledAlgorithms; what it answers never changes.
HealthBegin(v) == Call(v, "health", {})

Unread(v) == {a \in Enabled : \A k \in listed[v] : k.alg # a}

\* Mutation of ActiveKid: any key of the JWKS is taken for the active one.
ActiveKidPublished(a) == Published(a)

\* ring.ActiveKid, which cannot fail for an enabled algorithm.
ActiveKid(a) == {active[a]}

\* The next turn of the loop over the algorithms.
HealthRead(v) ==
    /\ viewPc[v] = "health"
    /\ \E a \in Unread(v) : \E g \in ActiveKid(a) :
          /\ \A b \in Unread(v) : Rank[a] <= Rank[b]
          /\ listed' = [listed EXCEPT ![v] =
                            @ \union {KeyInfo(a, g, NotRetired, FALSE)}]
    /\ UNCHANGED <<vars, viewPc, since>>

HealthReturn(v) == Unread(v) = {} /\ Return(v, "health")

\* JWKByKID and PublicKeyByKID: otherwise the answer is 404, ErrKeyNotFound.
Found(a, g) == g \in Published(a)

-----------------------------------------------------------------------------
ViewStep ==
    \E v \in Viewers :
        \/ KeysSnapshot(v) \/ KeysReturn(v)
        \/ HealthBegin(v) \/ HealthRead(v) \/ HealthReturn(v)

ViewsNext == (Next /\ UNCHANGED viewVars) \/ ViewStep

ViewsSpec == ViewsInit /\ [][ViewsNext]_allVars

-----------------------------------------------------------------------------
(* Properties. *)

\* Whatever rotations overtake its unlocked reads, a result of Keys shows no
\* more than one key per algorithm as not retired, namely the one that was
\* active at the snapshot, and shows as retired only keys that sign no more.
\* (It may show none as not retired, a stamp no rotation had, or a flag that
\* contradicts the stamp, so it is no snapshot as tester.go:208 says.)
KeysConsistent ==
    \A v \in Viewers : viewPc[v] = "keys" =>
        \A k \in KeysEntries(v) :
            IF k.retired THEN k.kid < active[k.alg]
            ELSE \A l \in listed[v] :
                    (l.alg = k.alg /\ ~l.retired) => l.kid = k.kid

\* A kid that the health document or Keys gives for an unretired one can be
\* looked up (GET /.well-known/jwks.json/{kid}, PublicKey) until Grace less the
\* lag of a rotation has passed since the call began, although the document
\* may mix keys of different generations and is old by the time it is read.
NamedKidFound ==
    \A v \in Viewers : \A k \in listed[v] :
        ~k.retired => \/ Found(k.alg, k.kid)
                      \/ horizon >= since[v] + Grace - MaxLag

=============================================================================
