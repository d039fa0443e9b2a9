------------------------- MODULE MCLocalPublication -------------------------
(***************************************************************************)
(* Instances of LocalPublication for TLC.                                  *)
(***************************************************************************)
EXTENDS LocalPublication, TLC

CONSTANTS a, b, p, q

\* A crash at any point, with writes that raise: those the job can live with,
\* and all of them.
ScenariosAtWork ==
  {[events |-> {"crash", "pointer"}, faults |-> 1],
   [events |-> {"crash", "receipt", "row", "outcome", "pointer"}, faults |-> 2]}

=============================================================================
