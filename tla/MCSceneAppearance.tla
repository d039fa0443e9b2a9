-------------------------- MODULE MCSceneAppearance --------------------------
(***************************************************************************)
(* SceneAppearance for TLC.  The two bundles at hand are two builds of the *)
(* same draft, from before its first appearance.  What an owner saves is   *)
(* told apart by its revision.                                             *)
(***************************************************************************)
EXTENDS SceneAppearance, TLC

TwoBuilds == <<[rev |-> 1, bg |-> None], [rev |-> 1, bg |-> None]>>

\* Crashes with a write that fails while bundles are built and activated; an
\* owner who saves while bundles are built, and while they are activated.
ScenariosAtWork ==
  {[events |-> {"crash", "build", "switch"}, faults |-> 1],
   [events |-> {"save", "build"}, faults |-> 0],
   [events |-> {"save", "switch"}, faults |-> 0]}

Symmetry == Permutations(Clients) \cup Permutations(Images)
=============================================================================
