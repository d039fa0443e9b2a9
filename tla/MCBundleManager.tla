--------------------------- MODULE MCBundleManager ---------------------------
(***************************************************************************)
(* Instances of BundleManager for TLC.                                     *)
(***************************************************************************)
EXTENDS BundleManager, TLC

\* Crashes and calls that raise, with and without pins; and pins by the CLI.
ScenariosAtWork ==
  {[events |-> {"pin", "crash"}, faults |-> 2], [events |-> {"crash"}, faults |-> 2],
   [events |-> {"cli"}, faults |-> 1]}
ScenarioCalm == {[events |-> {}, faults |-> 0]}

ReaderSymmetry == Permutations(Readers)
=============================================================================
