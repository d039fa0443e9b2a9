--------------------------- MODULE MCChatRuntime ---------------------------
(* Two requests of the owner and a publication, two profiles, two models   *)
(* of which one answers.                                                   *)
EXTENDS ChatRuntime

CONSTANTS ca, cb, pa, pb, ma, mb
=============================================================================
