---------------------------- MODULE WalletProofs ----------------------------
(***************************************************************************)
(* Proofs about WalletSystem, for every value of its constants.            *)
(***************************************************************************)
EXTENDS WalletInvariant, FiniteSetTheorems, TLAPS

(* A statement the columns have room for keeps every balance in range.     *)
LEMMA IncrementType ==
  ASSUME NEW b \in [WalletOwners -> -MaxBalance..MaxBalance],
         NEW u \in Users, NEW n \in Int, CanIncrement(b, u, n)
  PROVE  Increment(b, u, n) \in [WalletOwners -> -MaxBalance..MaxBalance]
BY BalanceAssumption DEF CanIncrement, Increment, Fits

LEMMA SaveRowType ==
  ASSUME transactions \subseteq Row, NEW row \in Row
  PROVE  SaveRow(row) \subseteq Row
BY DEF SaveRow

LEMMA InitType == Init => TypeOK
BY BalanceAssumption DEF Init, TypeOK, LedgerInit, PaystackInit, ServiceInit,
   WebhooksInit, LedgerTypeOK, PaystackTypeOK, ServiceTypeOK, WebhooksTypeOK

(* What a request in progress is *)
LEMMA TaskType ==
  ASSUME TypeOK, NEW w \in Workers, ~At(w, "idle")
  PROVE  worker[w] \in Task
BY DEF TypeOK, ServiceTypeOK, At, Idle

LEMMA TaskFields ==
  ASSUME NEW task \in Task
  PROVE  /\ task.user \in WalletOwners /\ task.user \in Users
         /\ task.receiver \in Users
         /\ task.amount \in Amounts /\ task.amount \in Nat \ {0}
         /\ task.step \in EarlySteps \cup LateSteps
         /\ task.step \in LateSteps => task.reference \in References
<1>1. \/ task \in Tasks(EarlySteps, {NoReference})
      \/ task \in Tasks(LateSteps, References)
  BY DEF Task
<1>2. /\ task.user \in WalletOwners
      /\ task.receiver \in Users
      /\ task.amount \in Amounts
      /\ task.step \in EarlySteps \cup LateSteps
  BY <1>1 DEF Tasks
<1>3. task.step \in LateSteps => task.reference \in References
  BY <1>1 DEF Tasks, EarlySteps, LateSteps
<1>4. task.user \in Users
  BY <1>2, OwnersAssumption
<1>5. task.amount \in Nat \ {0}
  <2>1. task.amount \in 1..MaxAmount
    BY <1>2, AmountsAssumption
  <2> QED BY <2>1, AmountsAssumption
<1> QED
  BY <1>2, <1>3, <1>4, <1>5

LEMMA NewRowsType ==
  ASSUME NEW task \in Task, NEW r \in References
  PROVE  NewTransaction(task, r) \in Row /\ NewTransfer(task, r) \subseteq Row
BY TaskFields DEF NewTransaction, NewTransfer, Row, Operations, Types, Statuses

LEMMA ServiceStepType ==
  ASSUME TypeOK, NEW w \in Workers, ServiceStep(w)
  PROVE  LedgerTypeOK' /\ PaystackTypeOK' /\ ServiceTypeOK'
<1> USE DEF TypeOK, LedgerTypeOK, PaystackTypeOK, ServiceTypeOK, ledgerVars, paystackVars
<1>1. ASSUME NEW u \in WalletOwners, NEW a \in Amounts, NEW r \in References,
             FundInitialize(w, u, a, r)
      PROVE  LedgerTypeOK' /\ PaystackTypeOK' /\ ServiceTypeOK'
  BY <1>1, OwnersAssumption, AmountsAssumption
     DEF FundInitialize, AcceptCharge, Begin, Task, Tasks, EarlySteps, LateSteps
<1>2. ASSUME NEW a \in Amounts, NEW r \in References, FundTimesOut(w, a, r)
      PROVE  LedgerTypeOK' /\ PaystackTypeOK' /\ ServiceTypeOK'
  BY <1>2, AmountsAssumption DEF FundTimesOut, AcceptCharge, Fault
<1>3. ASSUME FundRecord(w)
      PROVE  LedgerTypeOK' /\ PaystackTypeOK' /\ ServiceTypeOK'
  <2>1. worker[w] \in Task /\ worker[w].step = "initialized"
    BY <1>3, TaskType DEF FundRecord, At
  <2>2. worker[w].reference \in References
    BY <2>1, TaskFields DEF LateSteps
  <2>3. NewTransaction(worker[w], worker[w].reference) \in Row
    BY <2>1, <2>2, NewRowsType
  <2> QED
    BY <1>3, <2>2, <2>3 DEF FundRecord, Finish
<1>4. ASSUME NEW u \in WalletOwners, NEW v \in Users, NEW a \in Amounts,
             TransferCheck(w, u, v, a)
      PROVE  LedgerTypeOK' /\ PaystackTypeOK' /\ ServiceTypeOK'
  BY <1>4 DEF TransferCheck, Begin, Task, Tasks, EarlySteps, LateSteps
<1>5. ASSUME NEW r \in References, TransferCommit(w, r)
      PROVE  LedgerTypeOK' /\ PaystackTypeOK' /\ ServiceTypeOK'
  <2>1. worker[w] \in Task
    BY <1>5, TaskType DEF TransferCommit, At
  <2> DEFINE t == worker[w]
             taken == Increment(balance, t.user, -t.amount)
  <2>2. t.user \in Users /\ t.receiver \in Users /\ t.amount \in Int /\ -t.amount \in Int
    BY <2>1, TaskFields
  <2>3. /\ CanIncrement(balance, t.user, -t.amount)
        /\ CanIncrement(taken, t.receiver, t.amount)
        /\ balance' = Increment(taken, t.receiver, t.amount)
    BY <1>5 DEF TransferCommit
  <2> HIDE DEF t
  <2>4. taken \in [WalletOwners -> -MaxBalance..MaxBalance]
    BY <2>2, <2>3, IncrementType
  <2> HIDE DEF taken
  <2>5. balance' \in [WalletOwners -> -MaxBalance..MaxBalance]
    BY <2>2, <2>3, <2>4, IncrementType
  <2>6. NewTransfer(worker[w], r) \subseteq Row
    BY <2>1, NewRowsType
  <2> QED
    BY <1>5, <2>5, <2>6 DEF TransferCommit, Finish
<1>6. ASSUME NEW u \in WalletOwners, NEW a \in Amounts, WithdrawCheck(w, u, a)
      PROVE  LedgerTypeOK' /\ PaystackTypeOK' /\ ServiceTypeOK'
  BY <1>6, OwnersAssumption DEF WithdrawCheck, Begin, Task, Tasks, EarlySteps, LateSteps
<1>7. ASSUME NEW r \in References, WithdrawSend(w, r)
      PROVE  LedgerTypeOK' /\ PaystackTypeOK' /\ ServiceTypeOK'
  <2>1. worker[w] \in Task
    BY <1>7, TaskType DEF WithdrawSend, At
  <2>2. PayoutKobo(worker[w].amount) \in Nat
    BY <2>1, TaskFields DEF PayoutKobo
  <2>3. worker' \in [Workers -> Task \cup {Idle}]
    BY <1>7, <2>1 DEF WithdrawSend, Task, Tasks, EarlySteps, LateSteps
  <2> QED
    BY <1>7, <2>2, <2>3 DEF WithdrawSend, AcceptPayout
<1>8. ASSUME NEW r \in References, WithdrawTimesOut(w, r)
      PROVE  LedgerTypeOK' /\ PaystackTypeOK' /\ ServiceTypeOK'
  <2>1. worker[w] \in Task
    BY <1>8, TaskType DEF WithdrawTimesOut, At
  <2>2. PayoutKobo(worker[w].amount) \in Nat
    BY <2>1, TaskFields DEF PayoutKobo
  <2> QED
    BY <1>8, <2>2 DEF WithdrawTimesOut, AcceptPayout, Finish, Fault
<1>9. ASSUME WithdrawDebit(w)
      PROVE  LedgerTypeOK' /\ PaystackTypeOK' /\ ServiceTypeOK'
  <2> DEFINE t == worker[w]
  <2>1. t \in Task /\ t.step = "sent"
    BY <1>9, TaskType DEF WithdrawDebit, At
  <2>2. t.user \in Users /\ t.amount \in Nat /\ -t.amount \in Int
    BY <2>1, TaskFields
  <2>3. CanIncrement(balance, t.user, -t.amount)
    BY <1>9 DEF WithdrawDebit
  <2>4. Increment(balance, t.user, -t.amount) \in [WalletOwners -> -MaxBalance..MaxBalance]
    <3> HIDE DEF t
    <3> QED BY <2>2, <2>3, IncrementType
  <2>5. worker' \in [Workers -> Task \cup {Idle}]
    BY <1>9, <2>1 DEF WithdrawDebit, Task, Tasks, EarlySteps, LateSteps
  <2>6. debited' \in [References -> Nat]
    BY <1>9, <2>2 DEF WithdrawDebit
  <2> QED
    BY <1>9, <2>4, <2>5, <2>6 DEF WithdrawDebit
<1>10. ASSUME WithdrawRecord(w)
      PROVE  LedgerTypeOK' /\ PaystackTypeOK' /\ ServiceTypeOK'
  <2>1. worker[w] \in Task /\ worker[w].step = "debited"
    BY <1>10, TaskType DEF WithdrawRecord, At
  <2>2. worker[w].reference \in References
    BY <2>1, TaskFields DEF LateSteps
  <2>3. NewTransaction(worker[w], worker[w].reference) \in Row
    BY <2>1, <2>2, NewRowsType
  <2> QED
    BY <1>10, <2>3 DEF WithdrawRecord, Finish
<1>11. ASSUME RejectRequest(w) \/ RequestFails(w)
      PROVE  LedgerTypeOK' /\ PaystackTypeOK' /\ ServiceTypeOK'
  BY <1>11 DEF RejectRequest, RequestFails, Finish, Fault
<1> QED
  BY <1>1, <1>2, <1>3, <1>4, <1>5, <1>6, <1>7, <1>8, <1>9, <1>10, <1>11 DEF ServiceStep

LEMMA ProviderType ==
  ASSUME TypeOK, Provider
  PROVE  TypeOK'
<1>1. PICK r \in References :
        CustomerPays(r) \/ PayoutSucceeds(r) \/ PayoutFails(r) \/ PayoutReversed(r)
  BY DEF Provider
<1>2. PaystackTypeOK'
  <2>1. CASE CustomerPays(r)
    BY <2>1 DEF CustomerPays, TypeOK, PaystackTypeOK, Event, PaystackEvents
  <2>2. CASE PayoutSucceeds(r)
    BY <2>2 DEF PayoutSucceeds, PayoutMoves, TypeOK, PaystackTypeOK, Event, PaystackEvents
  <2>3. CASE PayoutFails(r)
    BY <2>3 DEF PayoutFails, PayoutMoves, TypeOK, PaystackTypeOK, Event, PaystackEvents
  <2>4. CASE PayoutReversed(r)
    BY <2>4 DEF PayoutReversed, PayoutMoves, TypeOK, PaystackTypeOK, Event, PaystackEvents
  <2> QED BY <1>1, <2>1, <2>2, <2>3, <2>4
<1> QED
  BY <1>2 DEF Provider, TypeOK, LedgerTypeOK, ServiceTypeOK, WebhooksTypeOK,
     ledgerVars, serviceVars

(* No webhook is ever answered with a 2xx, so no event goes away *)
LEMMA ReplyKeepsEvents ==
  ASSUME NEW e, NEW result \in {"returned", "unknown", "thrown"}, Reply(e, result)
  PROVE  UNCHANGED paystackVars
<1>1. UNCHANGED <<charge, payout, kobo>>
  BY DEF Reply
<1>2. events' = events
  <2>1. CASE result = "returned"
    BY <2>1 DEF Reply, Acknowledge, HttpStatus
  <2>2. CASE result = "unknown"
    BY <2>2 DEF Reply, Acknowledge, HttpStatus
  <2>3. CASE result = "thrown"
    BY <2>3 DEF Reply, Acknowledge, HttpStatus
  <2> QED BY <2>1, <2>2, <2>3
<1> QED
  BY <1>1, <1>2 DEF paystackVars

LEMMA DeliveryType ==
  ASSUME TypeOK, NEW h \in Handlers, handler[h] # Waiting
  PROVE  /\ handler[h] \in Delivery
         /\ handler[h].event \in PaystackEvents
         /\ handler[h].row \in Row
         /\ handler[h].row.userId \in Users
         /\ handler[h].row.amount \in Nat \ {0}
         /\ handler[h].row.reference \in References
         /\ Target[handler[h].event] \in Statuses
<1>1. handler[h] \in Delivery
  BY DEF TypeOK, WebhooksTypeOK
<1>2. handler[h].event \in PaystackEvents /\ handler[h].row \in Row
  BY <1>1 DEF Delivery
<1>3. /\ handler[h].row.userId \in Users
      /\ handler[h].row.amount \in 1..MaxAmount
      /\ handler[h].row.reference \in References
  BY <1>2, AmountsAssumption DEF Row
<1>4. Target[handler[h].event] \in Statuses
  BY <1>2 DEF Target, PaystackEvents, Statuses
<1> QED
  BY <1>1, <1>2, <1>3, <1>4, AmountsAssumption

(* What every commit of a handler has in common *)
LEMMA CommitEffect ==
  ASSUME TypeOK, NEW h \in Handlers, Commit(h)
  PROVE  /\ handler[h] # Waiting
         /\ \/ /\ handler[h].event # "transfer.success"
               /\ CreditWallet(handler[h].row)
            \/ /\ handler[h].event = "transfer.success"
               /\ UNCHANGED <<balance, credits>>
         /\ transactions' =
              SaveRow([handler[h].row EXCEPT !.status = Target[handler[h].event]])
         /\ handler' = [handler EXCEPT ![h] = Waiting]
         /\ UNCHANGED <<debited, paystackVars>>
<1>1. UpdateTransaction(h) /\ Return(h)
  BY DEF Commit, HandleChargeSuccess, HandleTransferSuccess, HandleTransferFailed,
     HandleTransferReversed
<1>2. UNCHANGED paystackVars
  BY <1>1, ReplyKeepsEvents DEF Return
<1>3. handler[h].event \in PaystackEvents
  BY DEF Commit, HandleChargeSuccess, HandleTransferSuccess, HandleTransferFailed,
     HandleTransferReversed, PaystackEvents
<1>4. handler[h] # Waiting
  BY <1>3 DEF Waiting, PaystackEvents
<1>5. \/ /\ handler[h].event # "transfer.success"
         /\ CreditWallet(handler[h].row)
      \/ /\ handler[h].event = "transfer.success"
         /\ UNCHANGED <<balance, credits>>
  BY DEF Commit, HandleChargeSuccess, HandleTransferSuccess, HandleTransferFailed,
     HandleTransferReversed
<1> QED
  BY <1>1, <1>2, <1>4, <1>5 DEF UpdateTransaction, Return

LEMMA WebhookType ==
  ASSUME TypeOK, Webhook \/ WebhookError \/ Crash
  PROVE  TypeOK'
<1> USE DEF TypeOK, LedgerTypeOK, PaystackTypeOK, ServiceTypeOK, WebhooksTypeOK,
        ledgerVars, paystackVars, serviceVars
<1>1. ASSUME NEW e \in events, NEW h \in Handlers, LoadWebhook(h, e), UNCHANGED serviceVars
      PROVE  TypeOK'
  BY <1>1 DEF LoadWebhook, Delivery
<1>2. ASSUME AnswerAtOnce PROVE TypeOK'
  BY <1>2, ReplyKeepsEvents DEF AnswerAtOnce, NotFound, AnswerRepeated
<1>3. ASSUME NEW h \in Handlers, WebhookFails(h), UNCHANGED <<worker, urls>>, faults' \in Nat
      PROVE  TypeOK'
  BY <1>3, ReplyKeepsEvents DEF WebhookFails
<1>4. ASSUME NEW h \in Handlers, Commit(h), UNCHANGED serviceVars PROVE TypeOK'
  <2>1. handler[h] # Waiting
    BY <1>4, CommitEffect
  <2>2. [handler[h].row EXCEPT !.status = Target[handler[h].event]] \in Row
    BY <2>1, DeliveryType DEF Row
  <2>3. transactions' \subseteq Row
    BY <1>4, <2>2, CommitEffect, SaveRowType
  <2>4. balance' \in [WalletOwners -> -MaxBalance..MaxBalance] /\ credits' \in [References -> Nat]
    <3> DEFINE row == handler[h].row
    <3>1. row.userId \in Users /\ row.amount \in Int /\ row.reference \in References
      BY <2>1, DeliveryType
    <3> HIDE DEF row
    <3>2. CASE UNCHANGED <<balance, credits>>
      BY <3>2
    <3>3. CASE CreditWallet(row)
      <4>1. Increment(balance, row.userId, row.amount) \in [WalletOwners -> -MaxBalance..MaxBalance]
        BY <3>1, <3>3, IncrementType DEF CreditWallet
      <4> QED BY <3>1, <3>3, <4>1 DEF CreditWallet
    <3> QED
      BY <1>4, <3>2, <3>3, CommitEffect DEF row
  <2> QED
    BY <1>4, <2>3, <2>4, CommitEffect
<1>5. ASSUME Crash PROVE TypeOK'
  BY <1>5 DEF Crash, Fault
<1>6. ASSUME WebhookError PROVE TypeOK'
  BY <1>3, <1>6 DEF WebhookError, Fault
<1>7. ASSUME Webhook PROVE TypeOK'
  BY <1>1, <1>2, <1>3, <1>4, <1>7 DEF Webhook, Deliver, Handle
<1> QED
  BY <1>5, <1>6, <1>7

LEMMA StepType == TypeOK /\ [Next]_vars => TypeOK'
<1> SUFFICES ASSUME TypeOK, [Next]_vars PROVE TypeOK'
  OBVIOUS
<1>1. CASE Request
  BY <1>1, ServiceStepType DEF Request, TypeOK, WebhooksTypeOK
<1>2. CASE Provider
  BY <1>2, ProviderType
<1>3. CASE Webhook \/ WebhookError \/ Crash
  BY <1>3, WebhookType
<1>4. CASE UNCHANGED vars
  BY <1>4 DEF vars, ledgerVars, paystackVars, serviceVars, TypeOK, LedgerTypeOK,
     PaystackTypeOK, ServiceTypeOK, WebhooksTypeOK
<1> QED
  BY <1>1, <1>2, <1>3, <1>4 DEF Next

(* Every state the system reaches is made of the rows, balances, requests  *)
(* and deliveries the code can hold; no balance leaves its column.         *)
THEOREM TypeCorrect == Spec => []TypeOK
BY InitType, StepType, PTL DEF Spec
=============================================================================
