-------------------------- MODULE MCProviderPermits --------------------------
(***************************************************************************)
(* Instances of ProviderPermits for TLC.                                   *)
(***************************************************************************)
EXTENDS ProviderPermits, TLC

\* Unequal weights, small enough for a round to end within a few grants.
MCWeight == [l \in Lanes |-> IF l = "public_chat" THEN 2 ELSE 1]

\* One opportunity each, for the liveness run.
MCEqualWeight == [l \in Lanes |-> 1]

ThreadSymmetry == Permutations(Threads)
=============================================================================
