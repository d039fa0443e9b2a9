--------------------------- MODULE MCPagesSharing ---------------------------
(* The owner's two windows, two bundles and two addresses for the pages.   *)
EXTENDS PagesSharing, TLC

CONSTANTS ba, bb, ca, cb, ta, pa, pb

\* Bundles, windows and addresses are interchangeable.
Interchangeable == Permutations({ba, bb}) \cup Permutations({ca, cb}) \cup Permutations({pa, pb})
=============================================================================
