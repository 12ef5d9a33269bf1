--------------------------- MODULE MCWalletSystem ---------------------------
(***************************************************************************)
(* Small instances of WalletSystem for TLC.                                *)
(***************************************************************************)
EXTENDS WalletClaims, WalletContract, TLC

Symmetry ==
  Permutations(References) \cup Permutations(Workers) \cup Permutations(Handlers)
    \cup Permutations(WalletOwners)
=============================================================================
