------------------------------- MODULE Ledger -------------------------------
(***************************************************************************)
(* The part of the MySQL database that money moves through: the wallets    *)
(* and transactions tables of                                              *)
(* src/database/migrations/20230828102636_init.ts, and the statements the  *)
(* services issue on them.  A statement is one operator; an action of a    *)
(* service that commits a knex transaction uses several of them at once.   *)
(*                                                                         *)
(* Amounts are whole naira.  What an UPDATE does to a wallet is WalletRow. *)
(***************************************************************************)
EXTENDS WalletRow, FiniteSets

VARIABLES
  balance,       \* wallets.balance, by wallets.userId
  transactions,  \* the rows of the transactions table
  credits,       \* history: how often a webhook credited a wallet for a reference
  debited        \* history: the naira a withdrawal took from a wallet, by reference

ledgerVars == <<balance, transactions, credits, debited>>

Statuses == {"pending", "successful", "cancelled", "failed"}
Operations == {"credit", "debit"}
Types == {"withdrawal", "deposit", "transfer"}

(* A row of transactions.  A transfer inserts two rows with one reference; *)
(* they differ in operation, so reference and operation stand for the id.  *)
Row == [reference : References, operation : Operations, userId : Users,
        amount : Amounts, type : Types, status : Statuses]

SameId(s, t) == s.reference = t.reference /\ s.operation = t.operation

(* UPDATE transactions SET <every column of row> WHERE id = row.id *)
SaveRow(row) == {t \in transactions : ~SameId(t, row)} \cup {row}

(* INSERT INTO transactions: amount is a FLOAT column too *)
CanInsert(amount) == Fits(amount)

LedgerTypeOK ==
  /\ balance \in [WalletOwners -> -MaxBalance..MaxBalance]
  /\ transactions \subseteq Row
  /\ credits \in [References -> Nat]
  /\ debited \in [References -> Nat]

LedgerInit ==
  /\ balance = [u \in WalletOwners |-> OpeningBalance]
  /\ transactions = {}
  /\ credits = [r \in References |-> 0]
  /\ debited = [r \in References |-> 0]
=============================================================================
