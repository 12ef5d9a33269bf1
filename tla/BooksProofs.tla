---------------------------- MODULE BooksProofs ----------------------------
(***************************************************************************)
(* What handlers, requests and Paystack agree on: proofs that BooksInv is  *)
(* inductive, and of the safety properties that follow from it.            *)
(***************************************************************************)
EXTENDS WalletProofs

(* The parts of BooksInv but for the requests in progress *)
SharedInv ==
  /\ OnePurpose
  /\ EventsHappened
  /\ RowsOK
  /\ CheckoutOK
  /\ CreditsHaveRow
  /\ HandlersOK
  /\ WebhookRowUnique

LEMMA InitBooks == Init => BooksInv
BY DEF Init, LedgerInit, PaystackInit, ServiceInit, WebhooksInit, BooksInv,
   OnePurpose, EventsHappened, OwingOK, RowsOK, CheckoutOK, CreditsHaveRow,
   HandlersOK, HoldsCopy, WebhookRowUnique, Owing, RowToCome, LateSteps, Idle, Charged, PaidOut, Loaded

(* What has happened at Paystack is not undone by what happens next *)
Forward ==
  \A r \in References :
    /\ charge[r] = "paid" => charge'[r] = "paid"
    /\ payout[r] = "success" => payout'[r] \in {"success", "reversed"}
    /\ payout[r] = "failed" => payout'[r] = "failed"
    /\ payout[r] = "reversed" => payout'[r] = "reversed"

LEMMA HappenedForward ==
  ASSUME Forward, NEW e \in PaystackEvents, NEW r \in References, Happened(e, r)
  PROVE  Happened(e, r)'
BY DEF Forward, Happened, PaystackEvents

(* A fresh reference has no row, hence no credit *)
LEMMA FreshUnused ==
  ASSUME TypeOK, BooksInv, NEW r \in References, Fresh(r)
  PROVE  /\ ~Charged(r) /\ ~PaidOut(r)
         /\ RowsOf(r) = {}
         /\ credits[r] = 0
         /\ \A w \in Owing : worker[w].reference # r
         /\ r \notin urls
         /\ \A h \in Handlers : Loaded(h) => handler[h].row.reference # r
<1>1. ~Charged(r) /\ ~PaidOut(r) /\ RowsOf(r) = {}
  BY DEF Fresh, Unknown, Charged, PaidOut, RowsOf
<1>2. credits[r] = 0
  BY <1>1 DEF BooksInv, CreditsHaveRow, TypeOK, LedgerTypeOK
<1>3. r \notin urls
  BY <1>1 DEF BooksInv, CheckoutOK
<1>4. ASSUME NEW w \in Owing, worker[w].reference = r PROVE FALSE
  BY <1>1, <1>4 DEF BooksInv, OwingOK, RowToCome, Owing, LateSteps
<1>5. ASSUME NEW h \in Handlers, Loaded(h), handler[h].row.reference = r PROVE FALSE
  BY <1>1, <1>5 DEF BooksInv, HandlersOK, HoldsCopy, RowsOf, SameId
<1> QED
  BY <1>1, <1>2, <1>3, <1>4, <1>5

(* FundInitialize, FundTimesOut: Paystack learns a fresh reference *)
LEMMA AcceptChargeShared ==
  ASSUME TypeOK, BooksInv, NEW r \in References, Fresh(r), NEW k \in Nat,
         AcceptCharge(r, k), UNCHANGED <<ledgerVars, urls, handler>>
  PROVE  SharedInv'
<1> USE DEF TypeOK, PaystackTypeOK, AcceptCharge, ledgerVars
<1>1. Forward
  BY DEF Forward, Unknown
<1>2. OnePurpose'
  BY DEF BooksInv, OnePurpose, Charged, PaidOut, Unknown
<1>3. EventsHappened'
  BY <1>1, HappenedForward DEF BooksInv, EventsHappened
<1>4. RowsOK'
  BY FreshUnused DEF BooksInv, RowsOK, Charged, PaidOut, RowsOf, LedgerTypeOK, Row
<1>5. CheckoutOK'
  BY DEF BooksInv, CheckoutOK, Charged, RowsOf, ServiceTypeOK
<1>6. CreditsHaveRow'
  BY DEF BooksInv, CreditsHaveRow, RowsOf
<1>7. HandlersOK'
  BY <1>1, HappenedForward, DeliveryType DEF BooksInv, HandlersOK, HoldsCopy, Loaded
<1>8. WebhookRowUnique'
  BY FreshUnused DEF BooksInv, WebhookRowUnique, Charged, PaidOut, RowsOf, LedgerTypeOK, Row
<1> QED
  BY <1>2, <1>3, <1>4, <1>5, <1>6, <1>7, <1>8 DEF SharedInv

(* WithdrawSend, WithdrawTimesOut: the same for a payout *)
LEMMA AcceptPayoutShared ==
  ASSUME TypeOK, BooksInv, NEW r \in References, Fresh(r), NEW k \in Nat,
         AcceptPayout(r, k), UNCHANGED <<ledgerVars, urls, handler>>
  PROVE  SharedInv'
<1> USE DEF TypeOK, PaystackTypeOK, AcceptPayout, ledgerVars
<1>1. Forward
  BY DEF Forward, Unknown
<1>2. OnePurpose'
  BY DEF BooksInv, OnePurpose, Charged, PaidOut, Unknown
<1>3. EventsHappened'
  BY <1>1, HappenedForward DEF BooksInv, EventsHappened
<1>4. RowsOK'
  BY FreshUnused DEF BooksInv, RowsOK, Charged, PaidOut, RowsOf, LedgerTypeOK, Row
<1>5. CheckoutOK'
  BY DEF BooksInv, CheckoutOK, Charged, RowsOf, ServiceTypeOK
<1>6. CreditsHaveRow'
  BY DEF BooksInv, CreditsHaveRow, RowsOf
<1>7. HandlersOK'
  BY <1>1, HappenedForward, DeliveryType DEF BooksInv, HandlersOK, HoldsCopy, Loaded
<1>8. WebhookRowUnique'
  BY FreshUnused DEF BooksInv, WebhookRowUnique, Charged, PaidOut, RowsOf, LedgerTypeOK, Row
<1> QED
  BY <1>2, <1>3, <1>4, <1>5, <1>6, <1>7, <1>8 DEF SharedInv

(* New rows of one reference, that had none.  If Paystack knows it there   *)
(* is one row, and it is what Paystack was asked for.                      *)
LEMMA InsertShared ==
  ASSUME TypeOK, BooksInv, NEW r \in References, RowsOf(r) = {},
         NEW rows \in SUBSET Row,
         \A t \in rows : t.reference = r,
         Charged(r) \/ PaidOut(r) => \A s, t \in rows : s = t,
         Charged(r) => \A t \in rows : t.amount * 100 = kobo[r],
         PaidOut(r) => debited[r] > 0,
         transactions' = transactions \cup rows,
         \/ urls' = urls
         \/ urls' = urls \cup {r} /\ Charged(r) /\ rows # {},
         UNCHANGED <<balance, credits, debited, paystackVars, handler>>
  PROVE  SharedInv'
<1> USE DEF TypeOK, paystackVars
<1>1. OnePurpose' /\ EventsHappened'
  BY DEF BooksInv, OnePurpose, EventsHappened, Happened, Charged, PaidOut
<1>2. RowsOK'
  BY DEF BooksInv, RowsOK, Charged, PaidOut
<1>3. CheckoutOK'
  BY DEF BooksInv, CheckoutOK, Charged, RowsOf
<1>4. CreditsHaveRow'
  BY DEF BooksInv, CreditsHaveRow, RowsOf
<1>5. HandlersOK'
  BY DEF BooksInv, HandlersOK, HoldsCopy, Loaded, Happened
<1>6. WebhookRowUnique'
  BY DEF BooksInv, WebhookRowUnique, Charged, PaidOut, RowsOf
<1> QED
  BY <1>1, <1>2, <1>3, <1>4, <1>5, <1>6 DEF SharedInv

(* A request that owes a row is a task with a reference *)
LEMMA OwingTask ==
  ASSUME TypeOK, NEW w \in Owing
  PROVE  /\ w \in Workers /\ worker[w] \in Task
         /\ worker[w].step \in LateSteps
         /\ worker[w].reference \in References
<1>1. w \in Workers /\ worker[w].step \in LateSteps
  BY DEF Owing
<1>2. worker[w] \in Task
  BY <1>1, TaskType DEF At, LateSteps
<1> QED
  BY <1>1, <1>2, TaskFields

(* The requests in progress: one of them may leave, and what Paystack and  *)
(* the ledger hold of the references of the others stays                   *)
LEMMA OwingShrinks ==
  ASSUME TypeOK, OwingOK,
         \A x \in Owing' : x \in Owing /\ worker'[x] = worker[x],
         \A x \in Owing' :
           LET r == worker[x].reference IN
           /\ RowsOf(r)' = RowsOf(r)
           /\ Charged(r) => Charged(r)' /\ kobo'[r] = kobo[r]
           /\ PaidOut(r) => PaidOut(r)'
           /\ debited'[r] = debited[r]
  PROVE  OwingOK'
<1>1. ASSUME NEW w \in Owing' PROVE RowToCome(worker[w])'
  <2>1. w \in Owing /\ worker'[w] = worker[w] /\ RowToCome(worker[w])
    BY DEF OwingOK
  <2>2. RowsOf(worker[w].reference)' = {}
    BY <2>1 DEF RowToCome, RowsOf
  <2> QED
    BY <2>1, <2>2 DEF RowToCome, Charged, PaidOut, RowsOf
<1>2. ASSUME NEW w \in Owing', NEW x \in Owing', worker'[w].reference = worker'[x].reference
      PROVE  w = x
  BY <1>2 DEF OwingOK
<1> QED
  BY <1>1, <1>2 DEF OwingOK

LEMMA OwingGrows ==
  ASSUME TypeOK, OwingOK, NEW w \in Workers, w \notin Owing,
         NEW t \in Task, worker' = [worker EXCEPT ![w] = t],
         NEW r \in References, t.reference = r,
         \A x \in Owing : worker[x].reference # r,
         RowsOf(r) = {},
         \/ t.step = "initialized" /\ AcceptCharge(r, t.amount * 100)
         \/ t.step = "sent" /\ AcceptPayout(r, PayoutKobo(t.amount)),
         UNCHANGED <<transactions, debited>>
  PROVE  OwingOK'
<1>1. worker'[w] = t /\ \A x \in Owing' : x # w => x \in Owing /\ worker'[x] = worker[x]
  BY DEF Owing, TypeOK, ServiceTypeOK
<1>2. \A q : RowsOf(q)' = RowsOf(q)
  BY DEF RowsOf
<1>3. RowToCome(t)'
  BY <1>2 DEF RowToCome, AcceptCharge, AcceptPayout, Charged, PaidOut, TypeOK, PaystackTypeOK
<1>4. ASSUME NEW x \in Owing', x # w PROVE RowToCome(worker[x])'
  <2>1. x \in Owing /\ worker'[x] = worker[x] /\ RowToCome(worker[x])
        /\ worker[x].reference # r /\ worker[x].reference \in References
    BY <1>1, <1>4, OwingTask DEF OwingOK
  <2> QED
    BY <2>1, <1>2 DEF RowToCome, AcceptCharge, AcceptPayout, Charged, PaidOut, TypeOK, PaystackTypeOK
<1>5. ASSUME NEW x \in Owing', NEW y \in Owing', worker'[x].reference = worker'[y].reference
      PROVE  x = y
  BY <1>1, <1>5 DEF OwingOK
<1> QED
  BY <1>1, <1>3, <1>4, <1>5 DEF OwingOK

(* A request that has no row to come ends, or moves on without one *)
LEMMA BystanderBooks ==
  ASSUME TypeOK, BooksInv, NEW w \in Workers,
         \A x \in Workers : x # w => worker'[x] = worker[x],
         worker'[w].step \notin LateSteps,
         UNCHANGED <<ledgerVars, paystackVars, urls, handler>>
  PROVE  BooksInv'
<1>1. OwingOK'
  <2>1. \A x \in Owing' : x \in Owing /\ worker'[x] = worker[x]
    BY DEF Owing
  <2> QED
    BY <2>1, OwingShrinks DEF BooksInv, RowsOf, Charged, PaidOut, ledgerVars, paystackVars
<1>2. SharedInv'
  BY DEF SharedInv, BooksInv, OnePurpose, EventsHappened, Happened, RowsOK, CheckoutOK,
     CreditsHaveRow, HandlersOK, HoldsCopy, Loaded, WebhookRowUnique, Charged, PaidOut, RowsOf,
     ledgerVars, paystackVars
<1> QED
  BY <1>1, <1>2 DEF BooksInv, SharedInv

LEMMA FundBooks ==
  ASSUME TypeOK, TypeOK', BooksInv, NEW w \in Workers,
         \/ \E u \in WalletOwners, a \in Amounts, r \in References : FundInitialize(w, u, a, r)
         \/ \E a \in Amounts, r \in References : FundTimesOut(w, a, r)
         \/ FundRecord(w),
         UNCHANGED handler
  PROVE  BooksInv'
<1>1. ASSUME NEW u \in WalletOwners, NEW a \in Amounts, NEW r \in References,
             FundInitialize(w, u, a, r)
      PROVE  BooksInv'
  <2> DEFINE t == [step |-> "initialized", user |-> u, receiver |-> u,
                   amount |-> a, reference |-> r]
  <2>1. a * 100 \in Nat
    BY AmountsAssumption
  <2>2. SharedInv'
    BY <1>1, <2>1, AcceptChargeShared DEF FundInitialize
  <2>3. t \in Task /\ t.step = "initialized" /\ t.reference = r /\ t.amount = a
    BY OwnersAssumption DEF Task, Tasks, LateSteps
  <2>4. worker' = [worker EXCEPT ![w] = t]
    BY <1>1 DEF FundInitialize, Begin
  <2>5. w \notin Owing
    BY <1>1 DEF FundInitialize, At, Owing, LateSteps
  <2>6. AcceptCharge(r, a * 100) /\ Fresh(r) /\ UNCHANGED <<transactions, debited>>
    BY <1>1 DEF FundInitialize, ledgerVars
  <2>7. RowsOf(r) = {} /\ \A x \in Owing : worker[x].reference # r
    BY <2>6, FreshUnused
  <2> HIDE DEF t
  <2>8. OwingOK'
    BY <2>3, <2>4, <2>5, <2>6, <2>7, OwingGrows DEF BooksInv
  <2> QED
    BY <2>2, <2>8 DEF BooksInv, SharedInv
<1>2. ASSUME NEW a \in Amounts, NEW r \in References, FundTimesOut(w, a, r)
      PROVE  BooksInv'
  <2>1. a * 100 \in Nat
    BY AmountsAssumption
  <2>2. SharedInv'
    BY <1>2, <2>1, AcceptChargeShared DEF FundTimesOut
  <2>3. \A x \in Owing' : x \in Owing /\ worker'[x] = worker[x]
    BY <1>2 DEF FundTimesOut, Owing
  <2>4. \A x \in Owing : worker[x].reference # r
    BY <1>2, FreshUnused DEF FundTimesOut
  <2>5. OwingOK'
    BY <1>2, <2>3, <2>4, OwingShrinks, OwingTask
       DEF BooksInv, FundTimesOut, AcceptCharge, Charged, PaidOut, RowsOf, ledgerVars,
           TypeOK, PaystackTypeOK
  <2> QED
    BY <2>2, <2>5 DEF BooksInv, SharedInv
<1>3. ASSUME FundRecord(w) PROVE BooksInv'
  <2> DEFINE r == worker[w].reference
             row == NewTransaction(worker[w], r)
  <2>1. w \in Owing /\ worker[w].step = "initialized"
    BY <1>3 DEF FundRecord, At, Owing, LateSteps
  <2>2. r \in References /\ worker[w] \in Task
    BY <2>1, OwingTask
  <2>3. RowsOf(r) = {} /\ Charged(r) /\ worker[w].amount * 100 = kobo[r] /\ ~PaidOut(r)
    BY <2>1, <2>2 DEF BooksInv, OwingOK, RowToCome, OnePurpose
  <2>4. row \in Row /\ row.reference = r /\ row.amount = worker[w].amount
    BY <2>2, NewRowsType DEF NewTransaction
  <2>5. SharedInv'
    <3>1. transactions' = transactions \cup {row} /\ urls' = urls \cup {r}
          /\ UNCHANGED <<balance, credits, debited, paystackVars, handler>>
      BY <1>3 DEF FundRecord
    <3> HIDE DEF r, row
    <3>2. {row} \in SUBSET Row /\ {row} # {} /\ \A t \in {row} : t = row
      BY <2>4
    <3>3. \A t \in {row} : t.reference = r /\ t.amount * 100 = kobo[r]
      BY <2>3, <2>4
    <3> QED BY <2>2, <2>3, <3>1, <3>2, <3>3, InsertShared
  <2>6. \A x \in Owing' : x \in Owing /\ x # w /\ worker'[x] = worker[x]
    BY <1>3 DEF FundRecord, Finish, Owing, Idle, LateSteps, TypeOK, ServiceTypeOK
  <2>7. \A x \in Owing' : worker[x].reference # r
    BY <2>1, <2>6 DEF BooksInv, OwingOK
  <2>8. OwingOK'
    BY <1>3, <2>4, <2>6, <2>7, OwingShrinks
       DEF BooksInv, FundRecord, Charged, PaidOut, RowsOf, paystackVars
  <2> QED
    BY <2>5, <2>8 DEF BooksInv, SharedInv
<1> QED
  BY <1>1, <1>2, <1>3

LEMMA TransferBooks ==
  ASSUME TypeOK, BooksInv, NEW w \in Workers,
         \/ \E u \in WalletOwners, v \in Users, a \in Amounts : TransferCheck(w, u, v, a)
         \/ \E r \in References : TransferCommit(w, r),
         UNCHANGED handler
  PROVE  BooksInv'
<1>1. ASSUME NEW u \in WalletOwners, NEW v \in Users, NEW a \in Amounts,
             TransferCheck(w, u, v, a)
      PROVE  BooksInv'
  BY <1>1, BystanderBooks DEF TransferCheck, Begin, LateSteps, TypeOK, ServiceTypeOK
<1>2. ASSUME NEW r \in References, TransferCommit(w, r) PROVE BooksInv'
  <2> DEFINE rows == NewTransfer(worker[w], r)
  <2>1. w \notin Owing /\ worker[w] \in Task
    BY <1>2, TaskType DEF TransferCommit, At, Owing, LateSteps
  <2>2. rows \in SUBSET Row /\ \A t \in rows : t.reference = r
    BY <2>1, NewRowsType DEF NewTransfer
  <2>3. ~Charged(r) /\ ~PaidOut(r) /\ RowsOf(r) = {} /\ \A x \in Owing : worker[x].reference # r
    BY <1>2, FreshUnused DEF TransferCommit
  <2>4. /\ transactions' = transactions \cup rows
        /\ UNCHANGED <<credits, debited, paystackVars, urls, handler>>
    BY <1>2 DEF TransferCommit
  <2> HIDE DEF rows
  <2>5. SharedInv'
    <3>1. OnePurpose' /\ EventsHappened' /\ CreditsHaveRow'
      BY <2>4 DEF BooksInv, OnePurpose, EventsHappened, Happened, CreditsHaveRow, Charged,
         PaidOut, RowsOf, paystackVars
    <3>2. RowsOK' /\ CheckoutOK'
      BY <2>2, <2>3, <2>4 DEF BooksInv, RowsOK, CheckoutOK, Charged, PaidOut, RowsOf, paystackVars
    <3>3. HandlersOK'
      BY <2>4 DEF BooksInv, HandlersOK, HoldsCopy, Loaded, Happened, paystackVars
    <3>4. WebhookRowUnique'
      BY <2>2, <2>3, <2>4 DEF BooksInv, WebhookRowUnique, Charged, PaidOut, RowsOf, paystackVars
    <3> QED BY <3>1, <3>2, <3>3, <3>4 DEF SharedInv
  <2>6. \A x \in Owing' : x \in Owing /\ worker'[x] = worker[x]
    BY <1>2 DEF TransferCommit, Finish, Owing, Idle, LateSteps, TypeOK, ServiceTypeOK
  <2>7. OwingOK'
    BY <2>2, <2>3, <2>4, <2>6, OwingShrinks
       DEF BooksInv, Charged, PaidOut, RowsOf, paystackVars
  <2> QED
    BY <2>5, <2>7 DEF BooksInv, SharedInv
<1> QED
  BY <1>1, <1>2

LEMMA WithdrawBooks ==
  ASSUME TypeOK, BooksInv, NEW w \in Workers,
         \/ \E u \in WalletOwners, a \in Amounts : WithdrawCheck(w, u, a)
         \/ \E r \in References : WithdrawSend(w, r)
         \/ \E r \in References : WithdrawTimesOut(w, r)
         \/ WithdrawDebit(w)
         \/ WithdrawRecord(w),
         UNCHANGED handler
  PROVE  BooksInv'
<1>1. ASSUME NEW u \in WalletOwners, NEW a \in Amounts, WithdrawCheck(w, u, a)
      PROVE  BooksInv'
  BY <1>1, BystanderBooks DEF WithdrawCheck, Begin, LateSteps, TypeOK, ServiceTypeOK
<1>2. ASSUME NEW r \in References, WithdrawSend(w, r) PROVE BooksInv'
  <2> DEFINE t == [worker[w] EXCEPT !.step = "sent", !.reference = r]
  <2>1. worker[w] \in Task /\ w \notin Owing
    BY <1>2, TaskType DEF WithdrawSend, At, Owing, LateSteps
  <2>2. t \in Task /\ t.step = "sent" /\ t.reference = r /\ t.amount = worker[w].amount
    BY <2>1 DEF Task, Tasks, LateSteps, EarlySteps
  <2>3. PayoutKobo(worker[w].amount) \in Nat
    BY <2>1, TaskFields DEF PayoutKobo
  <2>4. /\ worker' = [worker EXCEPT ![w] = t]
        /\ AcceptPayout(r, PayoutKobo(worker[w].amount)) /\ Fresh(r)
        /\ UNCHANGED <<ledgerVars, urls>>
    BY <1>2 DEF WithdrawSend
  <2>5. UNCHANGED <<transactions, debited>>
    BY <2>4 DEF ledgerVars
  <2> HIDE DEF t
  <2>6. SharedInv'
    BY <2>3, <2>4, AcceptPayoutShared
  <2>7. OwingOK'
    BY <2>1, <2>2, <2>4, <2>5, FreshUnused, OwingGrows DEF BooksInv
  <2> QED
    BY <2>6, <2>7 DEF BooksInv, SharedInv
<1>3. ASSUME NEW r \in References, WithdrawTimesOut(w, r) PROVE BooksInv'
  <2>1. worker[w] \in Task
    BY <1>3, TaskType DEF WithdrawTimesOut, At
  <2>2. PayoutKobo(worker[w].amount) \in Nat
    BY <2>1, TaskFields DEF PayoutKobo
  <2>3. SharedInv'
    BY <1>3, <2>2, AcceptPayoutShared DEF WithdrawTimesOut
  <2>4. \A x \in Owing' : x \in Owing /\ worker'[x] = worker[x]
    BY <1>3 DEF WithdrawTimesOut, Finish, Owing, Idle, LateSteps, TypeOK, ServiceTypeOK
  <2>5. \A x \in Owing : worker[x].reference # r
    BY <1>3, FreshUnused DEF WithdrawTimesOut
  <2>6. OwingOK'
    BY <1>3, <2>4, <2>5, OwingShrinks, OwingTask
       DEF BooksInv, WithdrawTimesOut, AcceptPayout, Charged, PaidOut, RowsOf, ledgerVars,
           TypeOK, PaystackTypeOK
  <2> QED
    BY <2>3, <2>6 DEF BooksInv, SharedInv
<1>4. ASSUME WithdrawDebit(w) PROVE BooksInv'
  <2> DEFINE r == worker[w].reference
             a == worker[w].amount
  <2>1. w \in Owing /\ worker[w].step = "sent"
    BY <1>4 DEF WithdrawDebit, At, Owing, LateSteps
  <2>2. r \in References /\ a \in Nat \ {0} /\ worker[w] \in Task
    BY <2>1, OwingTask, TaskFields
  <2>3. RowsOf(r) = {} /\ PaidOut(r)
    BY <2>1 DEF BooksInv, OwingOK, RowToCome
  <2>4. /\ worker' = [worker EXCEPT ![w].step = "debited"]
        /\ debited' = [debited EXCEPT ![r] = a]
        /\ UNCHANGED <<transactions, credits, paystackVars, urls, handler>>
    BY <1>4 DEF WithdrawDebit
  <2>5. debited'[r] > 0 /\ \A q \in References : q # r => debited'[q] = debited[q]
    BY <2>2, <2>4 DEF TypeOK, LedgerTypeOK
  <2>6. worker'[w].step = "debited" /\ worker'[w].reference = r
    BY <2>2, <2>4 DEF TypeOK, ServiceTypeOK, Task, Tasks
  <2>7. \A x \in Owing' : x \in Owing /\ (x # w => worker'[x] = worker[x])
    BY <2>1, <2>4 DEF Owing, TypeOK, ServiceTypeOK
  <2> HIDE DEF a
  <2>8. RowsOK'
    BY <2>3, <2>4, <2>5 DEF BooksInv, RowsOK, Charged, PaidOut, RowsOf, paystackVars, TypeOK,
       LedgerTypeOK, Row
  <2>9. SharedInv'
    <3>1. OnePurpose' /\ EventsHappened' /\ CheckoutOK' /\ CreditsHaveRow'
      BY <2>4 DEF BooksInv, OnePurpose, EventsHappened, Happened, CheckoutOK, CreditsHaveRow,
         Charged, PaidOut, RowsOf, paystackVars
    <3>2. HandlersOK'
      BY <2>4 DEF BooksInv, HandlersOK, HoldsCopy, Loaded, Happened, paystackVars
    <3>3. WebhookRowUnique'
      BY <2>4 DEF BooksInv, WebhookRowUnique, Charged, PaidOut, paystackVars
    <3> QED BY <2>8, <3>1, <3>2, <3>3 DEF SharedInv
  <2>10. ASSUME NEW x \in Owing' PROVE RowToCome(worker[x])'
    <3>1. CASE x = w
      BY <2>3, <2>4, <2>5, <2>6, <3>1 DEF RowToCome, RowsOf, Charged, PaidOut, paystackVars
    <3>2. CASE x # w
      <4>1. x \in Owing /\ worker'[x] = worker[x] /\ worker[x].reference # r
            /\ worker[x].reference \in References
        BY <2>1, <2>7, <3>2, OwingTask DEF BooksInv, OwingOK
      <4> QED
        BY <2>4, <2>5, <4>1 DEF BooksInv, OwingOK, RowToCome, RowsOf, Charged, PaidOut, paystackVars
    <3> QED BY <3>1, <3>2
  <2>11. \A x, y \in Owing' : worker'[x].reference = worker'[y].reference => x = y
    BY <2>1, <2>6, <2>7 DEF BooksInv, OwingOK
  <2> QED
    BY <2>9, <2>10, <2>11 DEF BooksInv, SharedInv, OwingOK
<1>5. ASSUME WithdrawRecord(w) PROVE BooksInv'
  <2> DEFINE r == worker[w].reference
             row == NewTransaction(worker[w], r)
  <2>1. w \in Owing /\ worker[w].step = "debited"
    BY <1>5 DEF WithdrawRecord, At, Owing, LateSteps
  <2>2. r \in References /\ worker[w] \in Task
    BY <2>1, OwingTask
  <2>3. RowsOf(r) = {} /\ PaidOut(r) /\ debited[r] > 0 /\ ~Charged(r)
    BY <2>1, <2>2 DEF BooksInv, OwingOK, RowToCome, OnePurpose
  <2>4. row \in Row /\ row.reference = r
    BY <2>2, NewRowsType DEF NewTransaction
  <2>5. /\ transactions' = transactions \cup {row}
        /\ UNCHANGED <<balance, credits, debited, paystackVars, urls, handler>>
    BY <1>5 DEF WithdrawRecord
  <2>6. SharedInv'
    <3> HIDE DEF r, row
    <3>1. {row} \in SUBSET Row /\ {row} # {} /\ \A t \in {row} : t = row /\ t.reference = r
      BY <2>4
    <3> QED BY <2>2, <2>3, <2>5, <3>1, InsertShared
  <2>7. \A x \in Owing' : x \in Owing /\ x # w /\ worker'[x] = worker[x]
    BY <1>5 DEF WithdrawRecord, Finish, Owing, Idle, LateSteps, TypeOK, ServiceTypeOK
  <2>8. \A x \in Owing' : worker[x].reference # r
    BY <2>1, <2>7 DEF BooksInv, OwingOK
  <2>9. OwingOK'
    BY <2>4, <2>5, <2>7, <2>8, OwingShrinks
       DEF BooksInv, Charged, PaidOut, RowsOf, paystackVars
  <2> QED
    BY <2>6, <2>9 DEF BooksInv, SharedInv
<1> QED
  BY <1>1, <1>2, <1>3, <1>4, <1>5

(* A request fails: the row it owes is never inserted *)
LEMMA FailureBooks ==
  ASSUME TypeOK, BooksInv, NEW w \in Workers, RejectRequest(w) \/ RequestFails(w),
         UNCHANGED handler
  PROVE  BooksInv'
BY BystanderBooks DEF RejectRequest, RequestFails, Finish, Idle, LateSteps, TypeOK, ServiceTypeOK

LEMMA ProviderBooks ==
  ASSUME TypeOK, BooksInv, Provider
  PROVE  BooksInv'
<1> USE DEF TypeOK, PaystackTypeOK
<1>1. PICK r \in References :
        \/ r \in urls /\ CustomerPays(r)
        \/ PayoutSucceeds(r) \/ PayoutFails(r) \/ PayoutReversed(r)
  BY DEF Provider
<1>2. UNCHANGED <<ledgerVars, serviceVars, handler, kobo>>
  BY <1>1 DEF Provider, CustomerPays, PayoutSucceeds, PayoutFails, PayoutReversed, PayoutMoves
<1>3. UNCHANGED <<balance, transactions, credits, debited, worker, urls>>
  BY <1>2 DEF ledgerVars, serviceVars
<1>4. Forward
  BY <1>1 DEF Forward, CustomerPays, PayoutSucceeds, PayoutFails, PayoutReversed, PayoutMoves
<1>5. \A q \in References : (Charged(q)' <=> Charged(q)) /\ (PaidOut(q)' <=> PaidOut(q))
  BY <1>1 DEF Charged, PaidOut, CustomerPays, PayoutSucceeds, PayoutFails, PayoutReversed,
     PayoutMoves
<1>6. EventsHappened'
  <2>1. ASSUME NEW e \in events' PROVE Happened(e.event, e.reference)'
    <3>1. CASE e \in events
      BY <1>4, <3>1, HappenedForward DEF BooksInv, EventsHappened
    <3>2. CASE e \notin events
      <4>1. \/ e = Event("charge.success", r) /\ charge'[r] = "paid"
            \/ e = Event("transfer.success", r) /\ payout'[r] = "success"
            \/ e = Event("transfer.failed", r) /\ payout'[r] = "failed"
            \/ e = Event("transfer.reversed", r) /\ payout'[r] = "reversed"
        BY <1>1, <3>2 DEF CustomerPays, PayoutSucceeds, PayoutFails, PayoutReversed, PayoutMoves
      <4>2. CASE e = Event("charge.success", r) /\ charge'[r] = "paid"
        BY <4>2 DEF Event, Happened
      <4>3. CASE e = Event("transfer.success", r) /\ payout'[r] = "success"
        BY <4>3 DEF Event, Happened
      <4>4. CASE e = Event("transfer.failed", r) /\ payout'[r] = "failed"
        BY <4>4 DEF Event, Happened
      <4>5. CASE e = Event("transfer.reversed", r) /\ payout'[r] = "reversed"
        BY <4>5 DEF Event, Happened
      <4> QED
        BY <4>1, <4>2, <4>3, <4>4, <4>5
    <3> QED BY <3>1, <3>2
  <2> QED BY <2>1 DEF EventsHappened
<1>7. OnePurpose'
  BY <1>5 DEF BooksInv, OnePurpose
<1>8. RowsOK'
  BY <1>2, <1>3, <1>5 DEF BooksInv, RowsOK, LedgerTypeOK, Row
<1>9. CheckoutOK'
  BY <1>1, <1>3, <1>5 DEF BooksInv, CheckoutOK, RowsOf, ServiceTypeOK, CustomerPays,
     PayoutSucceeds, PayoutFails, PayoutReversed, PayoutMoves
<1>10. CreditsHaveRow'
  BY <1>3 DEF BooksInv, CreditsHaveRow, RowsOf
<1>11. HandlersOK'
  BY <1>2, <1>3, <1>4, HappenedForward, DeliveryType DEF BooksInv, HandlersOK, HoldsCopy, Loaded
<1>12. WebhookRowUnique'
  BY <1>3, <1>5 DEF BooksInv, WebhookRowUnique, LedgerTypeOK, Row
<1>13. OwingOK'
  <2>1. \A x \in Owing' : x \in Owing /\ worker'[x] = worker[x]
    BY <1>3 DEF Owing
  <2> QED
    BY <1>2, <1>3, <1>5, <2>1, OwingShrinks, OwingTask DEF BooksInv, RowsOf
<1> QED
  BY <1>6, <1>7, <1>8, <1>9, <1>10, <1>11, <1>12, <1>13 DEF BooksInv

LEMMA LoadBooks ==
  ASSUME TypeOK, BooksInv, NEW h \in Handlers, NEW e \in events, LoadWebhook(h, e),
         UNCHANGED serviceVars
  PROVE  BooksInv'
<1>1. UNCHANGED <<ledgerVars, paystackVars, serviceVars>>
  BY DEF LoadWebhook
<1>2. PICK t \in transactions :
        /\ t.reference = e.reference
        /\ handler' = [handler EXCEPT ![h] = [event |-> e.event, row |-> t]]
  BY DEF LoadWebhook
<1>3. HandlersOK'
  <2>1. ASSUME NEW g \in Handlers, Loaded(g)' PROVE HoldsCopy(handler[g])'
    <3>1. CASE g = h
      <4>1. handler'[g] = [event |-> e.event, row |-> t]
        BY <1>2, <3>1 DEF TypeOK, WebhooksTypeOK
      <4>2. handler'[g].event = e.event /\ handler'[g].row = t
        BY <4>1
      <4>3. Happened(e.event, t.reference)
        BY <1>2 DEF BooksInv, EventsHappened
      <4> QED
        BY <1>1, <4>2, <4>3 DEF HoldsCopy, Happened, SameId, ledgerVars, paystackVars
    <3>2. CASE g # h
      <4>1. handler'[g] = handler[g]
        BY <1>2, <3>2 DEF TypeOK, WebhooksTypeOK
      <4> QED
        BY <1>1, <2>1, <4>1 DEF BooksInv, HandlersOK, HoldsCopy, Loaded, Happened, ledgerVars, paystackVars
    <3> QED BY <3>1, <3>2
  <2> QED BY <2>1 DEF HandlersOK
<1>4. OnePurpose' /\ EventsHappened' /\ RowsOK' /\ CheckoutOK' /\ CreditsHaveRow'
  BY <1>1 DEF BooksInv, OnePurpose, EventsHappened, Happened, RowsOK, CheckoutOK,
     CreditsHaveRow, Charged, PaidOut, RowsOf, ledgerVars, paystackVars, serviceVars
<1>5. WebhookRowUnique' /\ OwingOK'
  BY <1>1 DEF BooksInv, WebhookRowUnique, OwingOK, Owing, RowToCome, Charged, PaidOut, RowsOf,
     ledgerVars, paystackVars, serviceVars
<1> QED
  BY <1>3, <1>4, <1>5 DEF BooksInv

(* Handlers drop what they hold: a failure, a crash *)
LEMMA DropBooks ==
  ASSUME TypeOK, BooksInv, UNCHANGED <<ledgerVars, paystackVars, urls>>,
         \A h \in Handlers : Loaded(h)' => handler'[h] = handler[h],
         \A x \in Owing' : x \in Owing /\ worker'[x] = worker[x]
  PROVE  BooksInv'
<1>1. HandlersOK'
  <2>1. ASSUME NEW h \in Handlers, Loaded(h)' PROVE HoldsCopy(handler[h])'
    <3>1. handler'[h] = handler[h] /\ Loaded(h)
      BY <2>1 DEF Loaded
    <3>2. HoldsCopy(handler[h])
      BY <3>1 DEF BooksInv, HandlersOK
    <3> QED
      BY <3>1, <3>2 DEF HoldsCopy, Happened, ledgerVars, paystackVars
  <2> QED BY <2>1 DEF HandlersOK
<1>2. OnePurpose' /\ EventsHappened' /\ RowsOK' /\ CheckoutOK' /\ CreditsHaveRow'
  BY DEF BooksInv, OnePurpose, EventsHappened, Happened, RowsOK, CheckoutOK,
     CreditsHaveRow, Charged, PaidOut, RowsOf, ledgerVars, paystackVars
<1>3. WebhookRowUnique'
  BY DEF BooksInv, WebhookRowUnique, Charged, PaidOut, ledgerVars, paystackVars
<1>4. OwingOK'
  BY OwingShrinks DEF BooksInv, RowsOf, Charged, PaidOut, ledgerVars, paystackVars
<1> QED
  BY <1>1, <1>2, <1>3, <1>4 DEF BooksInv

(* A handler commits: it writes over the row it read, and may credit       *)
LEMMA CommitBooks ==
  ASSUME TypeOK, BooksInv, NEW h \in Handlers, Commit(h), UNCHANGED serviceVars
  PROVE  BooksInv'
<1> DEFINE row == handler[h].row
           new == [row EXCEPT !.status = Target[handler[h].event]]
<1>1. /\ Loaded(h)
      /\ transactions' = SaveRow(new)
      /\ handler' = [handler EXCEPT ![h] = Waiting]
      /\ UNCHANGED <<debited, paystackVars, serviceVars>>
  BY CommitEffect DEF Loaded
<1>2. row \in Row /\ new \in Row /\ row.reference \in References
  BY <1>1, DeliveryType DEF Loaded, Row
<1>3. /\ new.reference = row.reference /\ new.operation = row.operation
      /\ new.amount = row.amount /\ new.userId = row.userId /\ new.type = row.type
  BY <1>2 DEF Row
<1>4. PICK old \in transactions :
        SameId(old, row) /\ old.amount = row.amount /\ old.userId = row.userId /\ old.type = row.type
  BY <1>1 DEF BooksInv, HandlersOK, HoldsCopy
<1>5. Charged(row.reference) \/ PaidOut(row.reference)
  BY <1>1, DeliveryType DEF BooksInv, HandlersOK, HoldsCopy, Happened, Charged, PaidOut,
     PaystackEvents, Loaded
<1>6. \A q \in References : q # row.reference => credits'[q] = credits[q]
  BY <1>1, CommitEffect DEF CreditWallet, TypeOK, LedgerTypeOK
<1> HIDE DEF row, new
<1>7. \A t \in transactions : t.reference = row.reference => SameId(t, new)
  BY <1>3, <1>4, <1>5 DEF BooksInv, WebhookRowUnique, SameId
<1>8. /\ new \in transactions'
      /\ \A t \in transactions' : t = new \/ (t \in transactions /\ t.reference # row.reference)
      /\ \A t \in transactions : t.reference # row.reference => t \in transactions'
  BY <1>1, <1>3, <1>7 DEF SaveRow, SameId
<1>9. \A q \in References : RowsOf(q) = {} => q # row.reference /\ RowsOf(q)' = {}
  BY <1>4, <1>3, <1>8 DEF RowsOf, SameId
<1>10. \A q \in References : RowsOf(q) # {} => RowsOf(q)' # {}
  <2> SUFFICES ASSUME NEW q \in References, NEW t \in transactions, t.reference = q
               PROVE  \E s \in transactions' : s.reference = q
    BY DEF RowsOf
  <2> QED BY <1>3, <1>8
<1>11. OnePurpose' /\ EventsHappened'
  BY <1>1 DEF BooksInv, OnePurpose, EventsHappened, Happened, Charged, PaidOut, paystackVars
<1>12. RowsOK'
  BY <1>1, <1>3, <1>4, <1>8 DEF BooksInv, RowsOK, Charged, PaidOut, SameId, paystackVars
<1>13. CheckoutOK'
  BY <1>1, <1>10 DEF BooksInv, CheckoutOK, Charged, paystackVars, serviceVars, TypeOK, ServiceTypeOK
<1>14. CreditsHaveRow'
  BY <1>3, <1>6, <1>8, <1>10 DEF BooksInv, CreditsHaveRow, RowsOf
<1>15. HandlersOK'
  <2>1. ASSUME NEW g \in Handlers, Loaded(g)' PROVE HoldsCopy(handler[g])'
    <3>1. g # h /\ handler'[g] = handler[g] /\ Loaded(g)
      BY <1>1, <2>1 DEF Loaded, TypeOK, WebhooksTypeOK
    <3>2. HoldsCopy(handler[g])
      BY <3>1 DEF BooksInv, HandlersOK
    <3>3. PICK t \in transactions :
            /\ SameId(t, handler[g].row) /\ t.amount = handler[g].row.amount
            /\ t.userId = handler[g].row.userId /\ t.type = handler[g].row.type
      BY <3>2 DEF HoldsCopy
    <3>4. \E s \in transactions' :
            /\ SameId(s, handler[g].row) /\ s.amount = handler[g].row.amount
            /\ s.userId = handler[g].row.userId /\ s.type = handler[g].row.type
      <4>1. CASE t.reference # row.reference
        BY <1>8, <3>3, <4>1
      <4>2. CASE t.reference = row.reference
        <5>1. t = old
          BY <1>4, <1>5, <4>2 DEF BooksInv, WebhookRowUnique, SameId
        <5> QED
          BY <1>3, <1>4, <1>8, <3>3, <5>1 DEF SameId
      <4> QED BY <4>1, <4>2
    <3> QED
      BY <1>1, <3>1, <3>2, <3>4 DEF HoldsCopy, Happened, paystackVars
  <2> QED BY <2>1 DEF HandlersOK
<1>16. WebhookRowUnique'
  BY <1>1, <1>3, <1>8 DEF BooksInv, WebhookRowUnique, Charged, PaidOut, paystackVars
<1>17. OwingOK'
  <2>1. \A x \in Owing' : x \in Owing /\ worker'[x] = worker[x] /\ worker[x].reference \in References
    BY <1>1, OwingTask DEF Owing, serviceVars
  <2>2. \A x \in Owing' : RowsOf(worker[x].reference) = {}
    BY <2>1 DEF BooksInv, OwingOK, RowToCome
  <2>3. \A x \in Owing' : RowsOf(worker[x].reference)' = RowsOf(worker[x].reference)
    BY <1>9, <2>1, <2>2
  <2> QED
    BY <1>1, <2>1, <2>3, OwingShrinks DEF BooksInv, Charged, PaidOut, paystackVars
<1> QED
  BY <1>11, <1>12, <1>13, <1>14, <1>15, <1>16, <1>17 DEF BooksInv

LEMMA StepBooks == TypeOK /\ TypeOK' /\ BooksInv /\ [Next]_vars => BooksInv'
<1> SUFFICES ASSUME TypeOK, TypeOK', BooksInv, [Next]_vars PROVE BooksInv'
  OBVIOUS
<1>1. CASE Request
  BY <1>1, FundBooks, TransferBooks, WithdrawBooks, FailureBooks DEF Request, ServiceStep
<1>2. CASE Provider
  BY <1>2, ProviderBooks
<1>3. ASSUME NEW h \in Handlers, WebhookFails(h), UNCHANGED <<worker, urls>> PROVE BooksInv'
  <2>1. UNCHANGED <<ledgerVars, paystackVars, urls>>
    BY <1>3, ReplyKeepsEvents DEF WebhookFails
  <2>2. \A g \in Handlers : Loaded(g)' => handler'[g] = handler[g]
    BY <1>3 DEF WebhookFails, Loaded, TypeOK, WebhooksTypeOK
  <2>3. \A x \in Owing' : x \in Owing /\ worker'[x] = worker[x]
    BY <1>3 DEF Owing
  <2> QED BY <2>1, <2>2, <2>3, DropBooks
<1>4. CASE Webhook
  <2>1. ASSUME NEW e \in events, Deliver(e) PROVE BooksInv'
    BY <2>1, LoadBooks DEF Deliver
  <2>2. CASE AnswerAtOnce
    <3>1. UNCHANGED <<ledgerVars, paystackVars, serviceVars, handler>>
      BY <2>2, ReplyKeepsEvents DEF AnswerAtOnce, NotFound, AnswerRepeated
    <3> QED
      BY <3>1, DropBooks DEF serviceVars, Loaded, Owing
  <2>3. ASSUME NEW h \in Handlers, Handle(h) PROVE BooksInv'
    BY <1>3, <2>3, CommitBooks DEF Handle, serviceVars
  <2> QED BY <1>4, <2>1, <2>2, <2>3 DEF Webhook
<1>5. CASE WebhookError
  BY <1>3, <1>5 DEF WebhookError
<1>6. CASE Crash
  <2>1. UNCHANGED <<ledgerVars, paystackVars, urls>> /\ \A h \in Handlers : ~Loaded(h)'
    BY <1>6 DEF Crash, Loaded
  <2>2. \A x : x \notin Owing'
    BY <1>6 DEF Crash, Owing, Idle, LateSteps
  <2> QED BY <2>1, <2>2, DropBooks
<1>7. CASE UNCHANGED vars
  BY <1>7, DropBooks DEF vars, serviceVars, Loaded, Owing
<1> QED
  BY <1>1, <1>2, <1>4, <1>5, <1>6, <1>7 DEF Next

(* Requests, handlers, ledger and Paystack agree in every reachable state  *)
THEOREM BooksCorrect == Spec => [](TypeOK /\ BooksInv)
<1>1. Init => TypeOK /\ BooksInv
  BY InitType, InitBooks
<1>2. TypeOK /\ BooksInv /\ [Next]_vars => TypeOK' /\ BooksInv'
  BY StepType, StepBooks
<1> QED
  BY <1>1, <1>2, PTL DEF Spec

(* A charge that Paystack reports as paid has its row in the ledger, with  *)
(* the amount paid, however requests, webhooks and crashes interleave.     *)
THEOREM ChargesRecorded == Spec => []ChargeRecorded
<1>1. TypeOK /\ BooksInv => ChargeRecorded
  BY DEF BooksInv, CheckoutOK, RowsOK, ChargeRecorded, RowsOf
<1> QED
  BY <1>1, BooksCorrect, PTL

(* A webhook's reference names one row                                     *)
THEOREM WebhookRowsUnique == Spec => []WebhookRowUnique
<1>1. BooksInv => WebhookRowUnique
  BY DEF BooksInv
<1> QED
  BY <1>1, BooksCorrect, PTL
=============================================================================
