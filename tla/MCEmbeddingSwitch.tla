-------------------------- MODULE MCEmbeddingSwitch --------------------------
(***************************************************************************)
(* Instances of EmbeddingSwitch for TLC: pa and pb have the same identity, *)
(* as one model on two connections has, and pc has another.                *)
(***************************************************************************)
EXTENDS EmbeddingSwitch, TLC

CONSTANTS pa, pb, pc, same, other

ThreeProfiles == {pa, pb, pc}
IdentityOfThree == [x \in ThreeProfiles |-> IF x = pc THEN other ELSE same]

\* What may interrupt a switch; and, with fewer profiles, a shutdown, an owner who edits
\* meanwhile and a rollback that raises.
ScenariosAtWork ==
  {[profiles |-> Profiles, events |-> {"crash", "cancel"}, faults |-> 1]}
  \cup {[profiles |-> {x, pc}, events |-> {"crash", "cancel", "probe"}, faults |-> 1] : x \in {pa, pb}}
  \cup {[profiles |-> {x, pc}, events |-> {"cancel", "shutdown", "edit", "norollback"}, faults |-> 1] : x \in {pa, pb}}

ProfileSymmetry == Permutations({pa, pb})
=============================================================================
