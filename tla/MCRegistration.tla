--------------------------- MODULE MCRegistration ---------------------------
(***************************************************************************)
(* Model values may be permuted: clients, emails, numbers and ids are      *)
(* compared for equality only.                                             *)
(***************************************************************************)
EXTENDS Registration, TLC

Symmetry ==
  Permutations(Clients) \cup Permutations(Emails) \cup Permutations(Phones)
    \cup Permutations(Ids)
=============================================================================
