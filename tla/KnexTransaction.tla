-------------------------- MODULE KnexTransaction --------------------------
(***************************************************************************)
(* What the services take knex.transaction to be: all its statements take  *)
(* effect at one moment, or none does and the caller gets an error.  This  *)
(* is how WalletService!TransferCommit and WebhooksService!Commit are      *)
(* written; RowLocks shows that statements, row locks, deadlock victims    *)
(* and rollbacks add up to it.                                             *)
(***************************************************************************)
EXTENDS WalletRow

CONSTANT Clients

VARIABLES
  balance,  \* the committed balances
  job       \* the transaction a client asked for, and how it ended

Kinds == {"transfer",  \* transferFunds
          "debit",     \* withdrawFund
          "credit"}    \* handleChargeSuccess, handleTransferFailed, ...Reversed

Rest(step) == [step |-> step]  \* nothing runs: "idle", "committed", "failed"
Job == [kind : Kinds, user : WalletOwners, receiver : Users,
        amount : Amounts, step : {"open"}]

Init ==
  /\ balance = [u \in WalletOwners |-> OpeningBalance]
  /\ job = [c \in Clients |-> Rest("idle")]

(* What the first statement adds to the wallet of job.user *)
Change(j) == IF j.kind = "credit" THEN j.amount ELSE -j.amount

AfterFirst(j, b) == Increment(b, j.user, Change(j))
AfterAll(j, b) ==
  IF j.kind = "transfer" THEN Increment(AfterFirst(j, b), j.receiver, j.amount)
                         ELSE AfterFirst(j, b)
Allowed(j, b) ==
  /\ CanIncrement(b, j.user, Change(j))
  /\ j.kind = "transfer" => CanIncrement(AfterFirst(j, b), j.receiver, j.amount)

Ask(c) ==
  /\ job[c].step # "open"
  /\ \E j \in Job : job' = [job EXCEPT ![c] = j]
  /\ UNCHANGED balance

Commit(c) ==
  /\ job[c].step = "open"
  /\ Allowed(job[c], balance)
  /\ balance' = AfterAll(job[c], balance)
  /\ job' = [job EXCEPT ![c] = Rest("committed")]

Fail(c) ==
  /\ job[c].step = "open"
  /\ job' = [job EXCEPT ![c] = Rest("failed")]
  /\ UNCHANGED balance

(* The process stops, with all that it had open *)
Crash ==
  /\ job' = [c \in Clients |-> IF job[c].step = "open" THEN Rest("failed") ELSE job[c]]
  /\ UNCHANGED balance

Next == Crash \/ \E c \in Clients : Ask(c) \/ Commit(c) \/ Fail(c)

Spec == Init /\ [][Next]_<<balance, job>>
=============================================================================
