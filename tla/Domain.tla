------------------------------- MODULE Domain -------------------------------
(***************************************************************************)
(* The identifiers and amounts every module of the project speaks of.      *)
(***************************************************************************)
EXTENDS Integers, FiniteSets

CONSTANTS
  Users,         \* rows of the users table
  WalletOwners,  \* the users that have a row in the wallets table
  References,    \* what Helper.randString(6, 4, 4) may return
  NoReference,   \* the reference of a request that has not drawn one yet
  Amounts,       \* the amounts a request may name, in naira
  MaxAmount      \* a bound on Amounts

ASSUME OwnersAssumption == WalletOwners \subseteq Users
(* rows of a table, and strings of a fixed length *)
ASSUME FiniteAssumption == IsFiniteSet(Users) /\ IsFiniteSet(References)
ASSUME ReferenceAssumption == NoReference \notin References
ASSUME AmountsAssumption == MaxAmount \in Nat /\ Amounts \subseteq 1..MaxAmount
=============================================================================
