----------------------------- MODULE MCRowLocks -----------------------------
(* An instance of RowLocks for TLC; the run's bounds are in RowLocks.cfg *)
EXTENDS RowLocks
=============================================================================
