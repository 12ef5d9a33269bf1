--------------------------- MODULE MCRequestRetry ---------------------------
(***************************************************************************)
(* Small instances of RequestRetry for TLC.  The cfg declares no symmetry, *)
(* for it checks liveness.                                                 *)
(***************************************************************************)
EXTENDS RequestInvariant
=============================================================================
