-------------------------- MODULE CliVerifyProofs --------------------------
(***************************************************************************)
(* TLAPS proofs about CliVerify: what an exit code of `jwtoken-tester      *)
(* verify` means, for a file of any age and any issuer that rotates,       *)
(* prunes and restarts before and during the command, any number of times. *)
(***************************************************************************)
EXTENDS CliVerify, TLAPS

\* The kids the issuer has ever had.
Born == {p \in AllKids : status[p[1]][p[2]] # "unborn"}

\* Which key source the command has turned to.
SourceOK ==
    /\ flags.jwks \in {"none", "url", "file"}
    /\ pc \in {"discovery", "jwks"} => flags.jwks # "file"
    /\ pc = "file" => flags.jwks = "file"

\* The file holds keys the issuer once had.  What was published all the while
\* since the start still is, and is in what the command fetched; whatever it
\* fetched was published at some time since the start.
HistoryOK ==
    /\ saved \subseteq Born
    /\ pc # "before" => PublishedKids \subseteq seen /\ steady \subseteq PublishedKids
    /\ pc = "verify" => IF flags.jwks = "file" THEN keys = saved
                        ELSE steady \subseteq keys /\ keys \subseteq seen

RunningOK == pc # "done" => exit = Running /\ reason = "none"

CliInv == /\ SourceOK /\ HistoryOK /\ RunningOK
          /\ ValidMeansPublished /\ PublishedIsFound

-----------------------------------------------------------------------------
LEMMA PublishedBorn == PublishedKids \subseteq Born
  BY DEF PublishedKids, Born, AllKids

\* A kid is never taken back: not by a rotation, a pruning or a restart.
LEMMA BornStays ==
    ASSUME StatusNext \/ \E fresh \in [Algorithms -> Kids] : Restart(fresh)
    PROVE  \A a \in Algorithms, k \in Kids :
              status[a][k] # "unborn" => status'[a][k] # "unborn"
  <1>1. ASSUME NEW rotated \in SUBSET Algorithms, NEW fresh \in [rotated -> Kids],
               Replace(rotated, fresh), NEW a \in Algorithms, NEW k \in Kids,
               status[a][k] # "unborn"
        PROVE  status'[a][k] # "unborn"
    BY <1>1 DEF Replace
  <1>2. ASSUME NEW dropped \in SUBSET (Algorithms \X Kids), Drop(dropped),
               NEW a \in Algorithms, NEW k \in Kids, status[a][k] # "unborn"
        PROVE  status'[a][k] # "unborn"
    BY <1>2 DEF Drop
  <1>3. ASSUME NEW fresh \in [Algorithms -> Kids], Restart(fresh),
               NEW a \in Algorithms, NEW k \in Kids, status[a][k] # "unborn"
        PROVE  status'[a][k] # "unborn"
    BY <1>3 DEF Restart
  <1> QED
    BY <1>1, <1>2, <1>3 DEF StatusNext

-----------------------------------------------------------------------------
\* A step of the issuer: the history grows and what is steady shrinks.
LEMMA IssuerCli ==
    ASSUME CliInv, IssuerStep PROVE CliInv'
  <1>1. /\ pc # "done"
        /\ StatusNext \/ \E fresh \in [Algorithms -> Kids] : Restart(fresh)
        /\ seen' = seen \union PublishedKids'
        /\ steady' = steady \intersect PublishedKids'
        /\ UNCHANGED <<flags, token, saved, pc, keys, exit, reason>>
    BY DEF IssuerStep, inputVars
  <1>2. SourceOK' /\ RunningOK'
    BY <1>1 DEF CliInv, SourceOK, RunningOK
  <1>3. Born \subseteq Born'
    BY <1>1, BornStays DEF Born, AllKids
  <1>4. HistoryOK'
    BY <1>1, <1>3 DEF CliInv, HistoryOK
  <1>5. ValidMeansPublished' /\ PublishedIsFound'
    BY <1>1, <1>2 DEF RunningOK, ValidMeansPublished, PublishedIsFound, Running
  <1> QED
    BY <1>2, <1>4, <1>5 DEF CliInv

\* What happens before the command: a document is saved, and it is called.
LEMMA CallerCli ==
    ASSUME CliInv, SaveJWKS \/ Begin PROVE CliInv'
  <1>1. /\ pc = "before" /\ UNCHANGED <<status, exit, reason>>
        /\ pc' \in {"before", "start"}
    BY DEF SaveJWKS, Begin, envVars
  <1>2. PublishedKids' = PublishedKids /\ Born' = Born
    BY <1>1 DEF PublishedKids, Born
  <1>3. SourceOK'
    <2>1. CASE SaveJWKS
      BY <2>1 DEF SaveJWKS, CliInv, SourceOK
    <2>2. CASE Begin
      <3>1. flags' \in Flags /\ pc' = "start"
        BY <2>2 DEF Begin
      <3>2. flags'.jwks \in {"none", "url", "file"}
        <4>1. \/ flags' = NoFlags
              \/ flags' \in [jwks : {"none", "url", "file"}, issuer : Issuers \union {NoIssuer},
                             algs : {{}} \union {{a} : a \in Algorithms}, ok : {TRUE}]
          BY <3>1, Zenon DEF Flags
        <4>2. CASE flags' = NoFlags
          BY <4>2 DEF NoFlags
        <4> QED
          BY <4>1, <4>2
      <3> QED
        BY <3>1, <3>2 DEF SourceOK
    <2> QED
      BY <2>1, <2>2
  <1>4. HistoryOK'
    <2>1. saved' \subseteq Born'
      BY <1>2, PublishedBorn DEF SaveJWKS, Begin, CliInv, HistoryOK
    <2>2. pc' # "before" => seen' = PublishedKids' /\ steady' = PublishedKids'
      BY <1>1, <1>2 DEF SaveJWKS, Begin
    <2> QED
      BY <1>1, <2>1, <2>2 DEF HistoryOK
  <1>5. RunningOK' /\ ValidMeansPublished' /\ PublishedIsFound'
    BY <1>1 DEF CliInv, RunningOK, ValidMeansPublished, PublishedIsFound, Running
  <1> QED
    BY <1>3, <1>4, <1>5 DEF CliInv

\* A step of the command.
LEMMA CommandCli ==
    ASSUME CliInv, CommandStep PROVE CliInv'
  <1>1. UNCHANGED <<flags, saved, status, seen, steady>> /\ pc # "before"
    BY DEF CommandStep, UsageError, LoadKeySource, FetchDiscovery, FetchJWKS,
           ReadFile, FetchFails, Judge, inputVars, envVars
  <1>2. PublishedKids' = PublishedKids /\ Born' = Born
    BY <1>1 DEF PublishedKids, Born
  <1>3. ASSUME pc # "done", pc' # "done", UNCHANGED <<exit, reason>>,
               SourceOK', HistoryOK'
        PROVE  CliInv'
    BY <1>3 DEF CliInv, RunningOK, ValidMeansPublished, PublishedIsFound, Running
  <1>4. ASSUME pc' = "done",
               exit' = 0 => IF flags.jwks = "file"
                            THEN token'.kid \in AllKids \intersect saved
                            ELSE token'.kid \in seen,
               (reason' = "kid" \/ (reason' = "alg" /\ flags.algs = {})) =>
                   token'.kid \notin IF flags.jwks = "file" THEN saved ELSE steady
        PROVE  CliInv'
    <2>1. SourceOK' /\ HistoryOK' /\ RunningOK'
      BY <1>1, <1>2, <1>4 DEF CliInv, SourceOK, HistoryOK, RunningOK
    <2>2. ValidMeansPublished'
      <3>1. \A p \in saved : status[p[1]][p[2]] # "unborn"
        BY DEF CliInv, HistoryOK, Born
      <3> QED
        BY <1>1, <1>4, <3>1 DEF ValidMeansPublished
    <2>3. PublishedIsFound'
      BY <1>1, <1>4 DEF PublishedIsFound
    <2> QED
      BY <2>1, <2>2, <2>3 DEF CliInv
  <1>5. CASE UsageError \/ FetchFails
    BY <1>4, <1>5 DEF UsageError, FetchFails, Exit
  <1>6. CASE LoadKeySource
    <2>1. /\ pc = "start" /\ UNCHANGED <<keys, exit, reason>>
          /\ pc' \in {"discovery", "jwks", "file"}
      BY <1>6 DEF LoadKeySource
    <2>2. SourceOK'
      BY <1>1, <1>6 DEF LoadKeySource, Usable, CliInv, SourceOK
    <2>3. HistoryOK'
      BY <1>1, <1>2, <2>1 DEF CliInv, HistoryOK
    <2> QED
      BY <1>3, <2>1, <2>2, <2>3
  <1>7. CASE FetchDiscovery
    <2>1. pc = "discovery" /\ UNCHANGED keys
      BY <1>7 DEF FetchDiscovery
    <2>2. CASE pc' = "jwks" /\ UNCHANGED <<exit, reason>>
      <3>1. SourceOK' /\ HistoryOK'
        BY <1>1, <1>2, <2>1, <2>2 DEF CliInv, SourceOK, HistoryOK
      <3> QED
        BY <1>3, <2>1, <2>2, <3>1
    <2>3. CASE Exit(2, "operational")
      BY <1>4, <2>3 DEF Exit
    <2> QED
      BY <1>7, <2>2, <2>3 DEF FetchDiscovery
  <1>8. CASE FetchJWKS \/ ReadFile
    <2>1. /\ pc \in {"jwks", "file"} /\ pc' = "verify"
          /\ keys' = IF flags.jwks = "file" THEN saved ELSE PublishedKids
          /\ UNCHANGED <<exit, reason>>
      BY <1>8 DEF FetchJWKS, ReadFile, CliInv, SourceOK
    <2>2. SourceOK'
      BY <1>1, <2>1 DEF CliInv, SourceOK
    <2>3. HistoryOK'
      BY <1>1, <1>2, <2>1 DEF CliInv, HistoryOK
    <2> QED
      BY <1>3, <2>1, <2>2, <2>3
  <1>9. CASE Judge
    <2>1. pc = "verify" /\ pc' = "done" /\ token' \in Token
      BY <1>9 DEF Judge, Exit
    <2>2. IF flags.jwks = "file" THEN keys = saved
          ELSE steady \subseteq keys /\ keys \subseteq seen
      BY <2>1 DEF CliInv, HistoryOK
    <2>3. token'.kid \in AllKids
      BY <2>1 DEF Token
    <2>4. exit' = 0 => token'.kid \in keys
      BY <1>9 DEF Judge, Exit, KidFound
    <2>5. reason' = "kid" => token'.kid \notin keys
      BY <1>9 DEF Judge, Exit, KidFound
    <2>6. (reason' = "alg" /\ flags.algs = {}) => token'.kid \notin keys
      BY <1>9 DEF Judge, Exit, AlgAllowed
    <2> QED
      BY <1>4, <2>1, <2>2, <2>3, <2>4, <2>5, <2>6
  <1> QED
    BY <1>5, <1>6, <1>7, <1>8, <1>9 DEF CommandStep

\* The inductive invariant of the command, its caller and the issuer.
THEOREM CliInvariant == CliSpec => []CliInv
  <1>1. CliInit => CliInv
    <2> SUFFICES ASSUME CliInit PROVE CliInv
      OBVIOUS
    <2>1. SourceOK
      BY DEF CliInit, SourceOK, NoFlags
    <2>2. HistoryOK
      BY PublishedBorn DEF CliInit, HistoryOK
    <2> QED
      BY <2>1, <2>2 DEF CliInit, CliInv, RunningOK, ValidMeansPublished,
                        PublishedIsFound, Running
  <1>2. CliInv /\ [CliNext]_cliVars => CliInv'
    <2> SUFFICES ASSUME CliInv, [CliNext]_cliVars PROVE CliInv'
      OBVIOUS
    <2>1. CASE UNCHANGED cliVars
      BY <2>1 DEF cliVars, inputVars, envVars, CliInv, SourceOK, HistoryOK, Born,
                  RunningOK, ValidMeansPublished, PublishedIsFound, PublishedKids
    <2> QED
      BY <2>1, IssuerCli, CallerCli, CommandCli DEF CliNext, Done
  <1> QED
    BY <1>1, <1>2, PTL DEF CliSpec

\* Exit code 0 is about a key that was published during the command or, for a
\* file of any age, a key of the file that the issuer once had.
THEOREM ValidIsPublished == CliSpec => []ValidMeansPublished
  <1>1. CliInv => ValidMeansPublished
    BY DEF CliInv
  <1> QED
    BY <1>1, CliInvariant, PTL

\* No rotation, pruning or restart during the command makes it miss a key that
\* is published all the while or, when it reads a file, is in the file.
THEOREM SteadyIsFound == CliSpec => []PublishedIsFound
  <1>1. CliInv => PublishedIsFound
    BY DEF CliInv
  <1> QED
    BY <1>1, CliInvariant, PTL

=============================================================================
