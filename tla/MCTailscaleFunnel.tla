-------------------------- MODULE MCTailscaleFunnel --------------------------
(* Two requests of the owner over one restore of a backup.                 *)
EXTENDS TailscaleFunnel

CONSTANTS ca, cb
=============================================================================
