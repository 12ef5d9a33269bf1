-------------------------- MODULE SettlementProofs --------------------------
(***************************************************************************)
(* What webhooks may do to the wallets: credits are justified, deposits    *)
(* are settled with their row, the race of the guards is bounded, and the  *)
(* sum of the wallets is what was booked.  Together: the wallet implements *)
(* PaymentContract.                                                        *)
(***************************************************************************)
EXTENDS BooksProofs, WalletContract

(* A step that is no commit of a handler.  It may insert rows of a         *)
(* reference that had none, tell Paystack a reference without rows, and    *)
(* let a delivery past its guard or drop one.                              *)
NewRowsPending ==
  /\ transactions \subseteq transactions'
  /\ \A t \in transactions' \ transactions :
       t.status = "pending" /\ t.reference \in References /\ RowsOf(t.reference) = {}
NewChargesFresh == \A r \in References : Charged(r)' => Charged(r) \/ RowsOf(r) = {}
Passed(h) ==
  \E e \in events, t \in transactions :
    /\ t.reference = e.reference
    /\ ~AlreadyHandled(e.event, t)
    /\ handler'[h] = [event |-> e.event, row |-> t]
HandlersMove ==
  \E h \in Handlers :
    /\ \A g \in Handlers : g # h => handler'[g] = handler[g] \/ ~Loaded(g)'
    /\ handler'[h] = handler[h] \/ ~Loaded(h)' \/ Passed(h)
Ordinary ==
  /\ credits' = credits
  /\ NewRowsPending
  /\ NewChargesFresh
  /\ Forward
  /\ Handlers # {} => HandlersMove

LEMMA RequestOrdinary ==
  ASSUME TypeOK, BooksInv, Request
  PROVE  Ordinary
<1>1. PICK w \in Workers : ServiceStep(w)
  BY DEF Request
<1>2. handler' = handler
  BY DEF Request
<1>3. credits' = credits
  BY <1>1 DEF ServiceStep, FundInitialize, FundTimesOut, FundRecord, TransferCheck,
     TransferCommit, WithdrawCheck, WithdrawSend, WithdrawTimesOut, WithdrawDebit,
     WithdrawRecord, RejectRequest, RequestFails, ledgerVars
<1>4. NewRowsPending
  <2>1. ASSUME FundRecord(w) \/ WithdrawRecord(w) PROVE NewRowsPending
    <3>1. w \in Owing
      BY <2>1 DEF FundRecord, WithdrawRecord, At, Owing, LateSteps
    <3>2. worker[w].reference \in References /\ RowsOf(worker[w].reference) = {}
      BY <3>1, OwingTask DEF BooksInv, OwingOK, RowToCome
    <3> QED
      BY <2>1, <3>2 DEF FundRecord, WithdrawRecord, NewTransaction, NewRowsPending
  <2>2. ASSUME NEW r \in References, TransferCommit(w, r) PROVE NewRowsPending
    <3>1. RowsOf(r) = {}
      BY <2>2, FreshUnused DEF TransferCommit
    <3> QED
      BY <2>2, <3>1 DEF TransferCommit, NewTransfer, NewRowsPending
  <2>3. CASE transactions' = transactions
    BY <2>3 DEF NewRowsPending
  <2>4. transactions' = transactions \/ FundRecord(w) \/ WithdrawRecord(w)
          \/ \E r \in References : TransferCommit(w, r)
    BY <1>1 DEF ServiceStep, FundInitialize, FundTimesOut, TransferCheck, WithdrawCheck,
       WithdrawSend, WithdrawTimesOut, WithdrawDebit, RejectRequest, RequestFails, ledgerVars
  <2> QED BY <2>1, <2>2, <2>3, <2>4
<1>5. NewChargesFresh /\ Forward
  <2>1. \/ UNCHANGED paystackVars
        \/ \E r \in References, k \in Nat : Fresh(r) /\ AcceptCharge(r, k)
        \/ \E r \in References, k \in Nat : Fresh(r) /\ AcceptPayout(r, k)
    <3>1. \A a \in Amounts : a * 100 \in Nat
      BY AmountsAssumption
    <3>2. ~At(w, "idle") => PayoutKobo(worker[w].amount) \in Nat
      BY TaskType, TaskFields DEF PayoutKobo
    <3>3. CASE \E r \in References : WithdrawSend(w, r) \/ WithdrawTimesOut(w, r)
      BY <3>2, <3>3 DEF WithdrawSend, WithdrawTimesOut, At
    <3> QED
      BY <1>1, <3>1, <3>3 DEF ServiceStep, FundInitialize, FundTimesOut, FundRecord, TransferCheck,
         TransferCommit, WithdrawCheck, WithdrawDebit, WithdrawRecord, RejectRequest, RequestFails
  <2>2. CASE UNCHANGED paystackVars
    BY <2>2 DEF NewChargesFresh, Forward, Charged, paystackVars, TypeOK, PaystackTypeOK
  <2>3. ASSUME NEW r \in References, NEW k \in Nat, Fresh(r), AcceptCharge(r, k) \/ AcceptPayout(r, k)
        PROVE  NewChargesFresh /\ Forward
    <3>1. RowsOf(r) = {}
      BY <2>3, FreshUnused
    <3> QED
      BY <2>3, <3>1 DEF AcceptCharge, AcceptPayout, NewChargesFresh, Forward, Charged, Unknown,
         TypeOK, PaystackTypeOK
  <2> QED BY <2>1, <2>2, <2>3
<1> QED
  BY <1>2, <1>3, <1>4, <1>5 DEF Ordinary, HandlersMove

LEMMA StepKinds ==
  ASSUME TypeOK, BooksInv, [Next]_vars
  PROVE  \/ Ordinary
         \/ \E h \in Handlers : Commit(h) /\ UNCHANGED serviceVars
<1>1. ASSUME UNCHANGED <<ledgerVars, paystackVars>>,
             Handlers # {} => HandlersMove
      PROVE  Ordinary
  BY <1>1 DEF Ordinary, NewRowsPending, NewChargesFresh, Forward, Charged, ledgerVars, paystackVars,
     TypeOK, PaystackTypeOK
<1>2. CASE Request
  BY <1>2, RequestOrdinary
<1>3. CASE Provider
  <2>1. UNCHANGED <<transactions, credits, handler>>
    BY <1>3 DEF Provider, ledgerVars
  <2>2. NewChargesFresh /\ Forward
    BY <1>3 DEF Provider, CustomerPays, PayoutSucceeds, PayoutFails, PayoutReversed,
       PayoutMoves, NewChargesFresh, Forward, Charged, TypeOK, PaystackTypeOK
  <2> QED BY <2>1, <2>2 DEF Ordinary, NewRowsPending, HandlersMove
<1>4. ASSUME NEW h \in Handlers, WebhookFails(h) PROVE Ordinary
  <2>1. UNCHANGED <<ledgerVars, paystackVars>>
    BY <1>4, ReplyKeepsEvents DEF WebhookFails
  <2>2. HandlersMove
    BY <1>4 DEF WebhookFails, HandlersMove, Loaded, TypeOK, WebhooksTypeOK
  <2> QED BY <1>1, <2>1, <2>2
<1>5. ASSUME NEW e \in events, NEW h \in Handlers, LoadWebhook(h, e) PROVE Ordinary
  <2>1. UNCHANGED <<ledgerVars, paystackVars>>
    BY <1>5 DEF LoadWebhook
  <2>2. Passed(h) /\ \A g \in Handlers : g # h => handler'[g] = handler[g]
    BY <1>5 DEF LoadWebhook, Passed, TypeOK, WebhooksTypeOK
  <2> QED BY <1>1, <2>1, <2>2 DEF HandlersMove
<1>6. CASE AnswerAtOnce
  <2>1. UNCHANGED <<ledgerVars, paystackVars, handler>>
    BY <1>6, ReplyKeepsEvents DEF AnswerAtOnce, NotFound, AnswerRepeated
  <2> QED BY <1>1, <2>1 DEF HandlersMove
<1>7. CASE Crash
  BY <1>1, <1>7 DEF Crash, HandlersMove, Loaded
<1>8. CASE UNCHANGED vars
  BY <1>1, <1>8 DEF vars, HandlersMove
<1> QED
  BY <1>2, <1>3, <1>4, <1>5, <1>6, <1>7, <1>8
     DEF Next, Webhook, WebhookError, Deliver, Handle

-----------------------------------------------------------------------------
(* A commit credits the wallet for the row's reference, or is a payout's   *)
(* success                                                                 *)
LEMMA CommitCredits ==
  ASSUME TypeOK, BooksInv, NEW h \in Handlers, Commit(h)
  PROVE  LET row == handler[h].row IN
         /\ Loaded(h) /\ row.reference \in References
         /\ Happened(handler[h].event, row.reference)
         /\ \/ /\ handler[h].event = "transfer.success"
               /\ credits' = credits
            \/ /\ handler[h].event \in {"charge.success", "transfer.failed", "transfer.reversed"}
               /\ credits' = [credits EXCEPT ![row.reference] = @ + 1]
BY CommitEffect, DeliveryType
   DEF Loaded, CreditWallet, BooksInv, HandlersOK, HoldsCopy, PaystackEvents

LEMMA CreditJustifiedStep ==
  ASSUME TypeOK, BooksInv, CreditJustified, [Next]_vars
  PROVE  CreditJustified'
<1>1. CASE Ordinary
  BY <1>1 DEF Ordinary, Forward, CreditJustified, TypeOK, PaystackTypeOK
<1>2. ASSUME NEW h \in Handlers, Commit(h) PROVE CreditJustified'
  <2>1. UNCHANGED <<charge, payout>>
    BY <1>2, CommitEffect DEF paystackVars
  <2> QED
    BY <1>2, <2>1, CommitCredits DEF CreditJustified, Happened, TypeOK, LedgerTypeOK
<1> QED
  BY <1>1, <1>2, StepKinds

(* A handler that holds a charge's row saves it as successful              *)
LEMMA ChargeCommit ==
  ASSUME TypeOK, BooksInv, NEW h \in Handlers, Commit(h), Charged(handler[h].row.reference)
  PROVE  handler[h].event = "charge.success"
BY CommitCredits DEF BooksInv, OnePurpose, Happened, Charged, PaidOut

LEMMA DepositSettledStep ==
  ASSUME TypeOK, BooksInv, DepositSettled, [Next]_vars
  PROVE  DepositSettled'
<1>1. CASE Ordinary
  <2> SUFFICES ASSUME NEW t \in transactions', Charged(t.reference)'
               PROVE  t.status = "successful" <=> credits'[t.reference] > 0
    BY DEF DepositSettled
  <2>1. CASE t \in transactions
    <3>1. t.reference \in References /\ RowsOf(t.reference) # {}
      BY <2>1 DEF RowsOf, TypeOK, LedgerTypeOK, Row
    <3>2. Charged(t.reference)
      BY <1>1, <3>1 DEF Ordinary, NewChargesFresh
    <3> QED
      BY <1>1, <2>1, <3>2 DEF Ordinary, DepositSettled
  <2>2. CASE t \notin transactions
    <3>1. t.status = "pending" /\ t.reference \in References /\ RowsOf(t.reference) = {}
      BY <1>1, <2>2 DEF Ordinary, NewRowsPending
    <3>2. ~(credits[t.reference] > 0)
      BY <3>1 DEF BooksInv, CreditsHaveRow
    <3> QED
      BY <1>1, <3>1, <3>2 DEF Ordinary
  <2> QED BY <2>1, <2>2
<1>2. ASSUME NEW h \in Handlers, Commit(h) PROVE DepositSettled'
  <2> DEFINE row == handler[h].row
             new == [row EXCEPT !.status = Target[handler[h].event]]
  <2>1. row \in Row /\ row.reference \in References /\ Loaded(h)
    BY <1>2, CommitEffect, DeliveryType DEF Loaded
  <2>2. /\ transactions' = SaveRow(new)
        /\ UNCHANGED <<charge, payout>>
    BY <1>2, CommitEffect DEF paystackVars
  <2>3. new.reference = row.reference /\ new.operation = row.operation
        /\ new.status = Target[handler[h].event]
    BY <2>1 DEF Row
  <2>4. \E old \in transactions : SameId(old, row)
    BY <2>1 DEF BooksInv, HandlersOK, HoldsCopy
  <2>5. Charged(row.reference) \/ PaidOut(row.reference)
    BY <1>2, <2>1, CommitCredits, DeliveryType
       DEF Happened, Charged, PaidOut, PaystackEvents, Loaded
  <2>6. \A t \in transactions' : t = new \/ (t \in transactions /\ t.reference # row.reference)
    BY <2>2, <2>3, <2>4, <2>5 DEF SaveRow, SameId, BooksInv, WebhookRowUnique
  <2>7. ASSUME Charged(row.reference)
        PROVE  new.status = "successful" /\ credits'[row.reference] > 0
    <3>1. handler[h].event = "charge.success"
      BY <1>2, <2>7, ChargeCommit
    <3>2. Target["charge.success"] = "successful"
      BY DEF Target, PaystackEvents
    <3>3. credits'[row.reference] = credits[row.reference] + 1
      BY <1>2, <2>1, <3>1, CommitCredits DEF TypeOK, LedgerTypeOK
    <3> QED
      BY <2>1, <2>3, <3>1, <3>2, <3>3 DEF TypeOK, LedgerTypeOK
  <2>8. \A r \in References : r # row.reference => credits'[r] = credits[r]
    BY <1>2, CommitCredits DEF TypeOK, LedgerTypeOK
  <2> HIDE DEF row, new
  <2> SUFFICES ASSUME NEW t \in transactions', Charged(t.reference)'
               PROVE  t.status = "successful" <=> credits'[t.reference] > 0
    BY DEF DepositSettled
  <2>9. CASE t = new
    BY <2>2, <2>3, <2>7, <2>9 DEF Charged
  <2>10. CASE t # new
    <3>1. t \in transactions /\ t.reference # row.reference /\ t.reference \in References
      BY <2>6, <2>10 DEF TypeOK, LedgerTypeOK, Row
    <3> QED
      BY <2>2, <2>8, <3>1 DEF DepositSettled, Charged
  <2> QED BY <2>9, <2>10
<1> QED
  BY <1>1, <1>2, StepKinds

LEMMA InFlightFinite ==
  ASSUME NEW r
  PROVE  /\ IsFiniteSet(InFlight(r))
         /\ Cardinality(InFlight(r)) \in Nat
         /\ Cardinality(InFlight(r)) <= Cardinality(Handlers)
         /\ Cardinality(Handlers) \in Nat
<1>1. InFlight(r) \subseteq Handlers
  BY DEF InFlight
<1> QED
  BY <1>1, HandlersAssumption, FS_Subset, FS_CardinalityType

LEMMA CreditsInFlightStep ==
  ASSUME TypeOK, TypeOK', BooksInv, DepositSettled, CreditsInFlight, [Next]_vars
  PROVE  CreditsInFlight'
<1> SUFFICES ASSUME NEW r \in References, Charged(r)', credits'[r] > 0
             PROVE  credits'[r] + Cardinality(InFlight(r)') <= Cardinality(Handlers)
  BY DEF CreditsInFlight
<1>1. /\ IsFiniteSet(InFlight(r)) /\ Cardinality(InFlight(r)) \in Nat
      /\ Cardinality(InFlight(r)) <= Cardinality(Handlers) /\ Cardinality(Handlers) \in Nat
  BY InFlightFinite
<1>2. credits[r] \in Nat /\ credits'[r] \in Nat
  BY DEF TypeOK, LedgerTypeOK
<1>3. CASE Ordinary
  <2>1. credits'[r] = credits[r] /\ Charged(r)
    BY <1>3 DEF Ordinary, NewChargesFresh, BooksInv, CreditsHaveRow
  <2>2. InFlight(r)' \subseteq InFlight(r)
    <3> SUFFICES ASSUME NEW g \in InFlight(r)' PROVE g \in InFlight(r)
      OBVIOUS
    <3>1. g \in Handlers /\ Loaded(g)' /\ handler'[g].row.reference = r
      BY DEF InFlight
    <3>2. handler'[g] = handler[g] \/ Passed(g)
      BY <1>3, <3>1 DEF Ordinary, HandlersMove
    <3>3. ASSUME Passed(g) PROVE FALSE
      <4>1. PICK e \in events, t \in transactions :
              /\ t.reference = e.reference
              /\ ~AlreadyHandled(e.event, t)
              /\ handler'[g] = [event |-> e.event, row |-> t]
        BY <3>3 DEF Passed
      <4>2. t.reference = r
        BY <3>1, <4>1
      <4>3. Happened(e.event, r) /\ e.event \in PaystackEvents
        BY <4>1, <4>2 DEF BooksInv, EventsHappened, TypeOK, PaystackTypeOK
      <4>4. e.event = "charge.success"
        BY <2>1, <4>3 DEF BooksInv, OnePurpose, Happened, PaystackEvents, Charged, PaidOut
      <4>5. t.status = "successful"
        BY <2>1, <4>2 DEF DepositSettled
      <4> QED
        BY <4>1, <4>4, <4>5 DEF AlreadyHandled, Target, PaystackEvents
    <3> QED
      BY <3>1, <3>2, <3>3 DEF InFlight, Loaded
  <2>3. Cardinality(InFlight(r)') <= Cardinality(InFlight(r))
    BY <1>1, <2>2, FS_Subset
  <2>4. Cardinality(InFlight(r)') \in Nat
    BY <1>1, <2>2, FS_Subset, FS_CardinalityType
  <2>5. credits[r] + Cardinality(InFlight(r)) <= Cardinality(Handlers)
    BY <1>2, <2>1 DEF CreditsInFlight
  <2> HIDE DEF InFlight
  <2> QED
    BY <1>1, <1>2, <2>1, <2>3, <2>4, <2>5
<1>4. ASSUME NEW h \in Handlers, Commit(h)
      PROVE  credits'[r] + Cardinality(InFlight(r)') <= Cardinality(Handlers)
  <2>1. handler' = [handler EXCEPT ![h] = Waiting] /\ Charged(r)
    BY <1>4, CommitEffect DEF Charged, paystackVars
  <2>2. CASE handler[h].row.reference # r
    <3>1. credits'[r] = credits[r]
      BY <1>4, <2>2, CommitCredits DEF TypeOK, LedgerTypeOK
    <3>2. InFlight(r)' = InFlight(r)
      BY <2>1, <2>2 DEF InFlight, Loaded, TypeOK, WebhooksTypeOK
    <3> QED
      BY <2>1, <3>1, <3>2 DEF CreditsInFlight
  <2>3. CASE handler[h].row.reference = r
    <3>1. h \in InFlight(r)
      BY <1>4, <2>3, CommitCredits DEF InFlight
    <3>2. credits'[r] = credits[r] + 1
      BY <1>4, <2>1, <2>3, ChargeCommit, CommitCredits DEF TypeOK, LedgerTypeOK
    <3>3. InFlight(r)' = InFlight(r) \ {h}
      BY <2>1, <2>3 DEF InFlight, Loaded, TypeOK, WebhooksTypeOK
    <3>4. Cardinality(InFlight(r)') = Cardinality(InFlight(r)) - 1
      BY <1>1, <3>1, <3>3, FS_RemoveElement
    <3>5. CASE credits[r] > 0
      <4>1. credits[r] + Cardinality(InFlight(r)) <= Cardinality(Handlers)
        BY <2>1, <3>5 DEF CreditsInFlight
      <4> QED
        BY <1>1, <1>2, <3>2, <3>4, <4>1
    <3>6. CASE ~(credits[r] > 0)
      BY <1>1, <1>2, <3>2, <3>4, <3>6
    <3> QED BY <3>5, <3>6
  <2> QED BY <2>2, <2>3
<1> QED
  BY <1>3, <1>4, StepKinds

SettledInv ==
  TypeOK /\ BooksInv /\ CreditJustified /\ DepositSettled /\ CreditsInFlight

LEMMA SettledInductive == Spec => []SettledInv
<1>1. Init => SettledInv
  <2> SUFFICES ASSUME Init PROVE SettledInv
    OBVIOUS
  <2>1. TypeOK /\ BooksInv
    BY InitType, InitBooks
  <2>2. transactions = {} /\ \A r \in References : credits[r] = 0
    BY DEF Init, LedgerInit
  <2>3. CreditJustified /\ DepositSettled /\ CreditsInFlight
    BY <2>2 DEF CreditJustified, DepositSettled, CreditsInFlight
  <2> QED BY <2>1, <2>3 DEF SettledInv
<1>2. SettledInv /\ [Next]_vars => SettledInv'
  BY StepType, StepBooks, CreditJustifiedStep, DepositSettledStep, CreditsInFlightStep
     DEF SettledInv
<1> QED
  BY <1>1, <1>2, PTL DEF Spec

(* No wallet is credited for a reference Paystack does not owe it          *)
THEOREM CreditsJustified == Spec => []CreditJustified
<1>1. SettledInv => CreditJustified
  BY DEF SettledInv
<1> QED BY <1>1, SettledInductive, PTL

(* A deposit is marked successful exactly when it has been credited        *)
THEOREM DepositsSettled == Spec => []DepositSettled
<1>1. SettledInv => DepositSettled
  BY DEF SettledInv
<1> QED BY <1>1, SettledInductive, PTL

(* A payout is refunded only after its withdrawal was debited              *)
THEOREM RefundsDebited == Spec => []RefundOnlyDebited
<1>1. BooksInv => RefundOnlyDebited
  BY DEF BooksInv, CreditsHaveRow, RowsOK, RowsOf, RefundOnlyDebited
<1>2. SettledInv => RefundOnlyDebited
  BY <1>1 DEF SettledInv
<1> QED BY <1>2, SettledInductive, PTL

(* One payment is credited at most once for every delivery that can be in  *)
(* flight at the same time                                                 *)
THEOREM DepositCreditsBounded == Spec => []DepositCreditBounded
<1>1. SettledInv => DepositCreditBounded
  <2> SUFFICES ASSUME SettledInv, NEW r \in References, Charged(r)
               PROVE  credits[r] <= Cardinality(Handlers)
    BY DEF DepositCreditBounded
  <2>1. credits[r] \in Nat
    BY DEF SettledInv, TypeOK, LedgerTypeOK
  <2>2. Cardinality(InFlight(r)) \in Nat /\ Cardinality(Handlers) \in Nat
    BY InFlightFinite
  <2>3. credits[r] > 0 => credits[r] + Cardinality(InFlight(r)) <= Cardinality(Handlers)
    BY DEF SettledInv, CreditsInFlight
  <2> HIDE DEF InFlight
  <2> QED BY <2>1, <2>2, <2>3
<1> QED BY <1>1, SettledInductive, PTL
-----------------------------------------------------------------------------
(* What holds of a set if it holds of all smaller ones, holds of S.  Good  *)
(* is a set and not a predicate, so that it can be instantiated.           *)
LEMMA SubsetInduction ==
  ASSUME NEW S, IsFiniteSet(S), NEW Good,
         \A T \in SUBSET S : (\A U \in SUBSET T : U # T => U \in Good) => T \in Good
  PROVE  \A T \in SUBSET S : T \in Good
<1> DEFINE Bad == {T \in SUBSET S : T \notin Good}
<1> SUFFICES ASSUME Bad # {} PROVE FALSE
  OBVIOUS
<1>1. IsWellFoundedOn(StrictSubsetOrdering(S), SUBSET S)
  <2>1. FiniteSubsetsOf(S) = SUBSET S
    BY FS_FiniteSubsetsOfFinite, Zenon
  <2>2. IsWellFoundedOn(StrictSubsetOrdering(S), FiniteSubsetsOf(S))
    BY FS_StrictSubsetOrderingWellFounded, Zenon
  <2> QED BY <2>1, <2>2, Zenon
<1>2. PICK T \in Bad : \A U \in Bad : <<U, T>> \notin StrictSubsetOrdering(S)
  <2>1. Bad \subseteq SUBSET S
    OBVIOUS
  <2> HIDE DEF Bad
  <2>2. ASSUME NEW R, IsWellFoundedOn(R, SUBSET S)
        PROVE  \E T \in Bad : \A U \in Bad : ~(<<U, T>> \in R)
    <3> DEFINE Sets == SUBSET S
    <3>1. Bad \subseteq Sets /\ IsWellFoundedOn(R, Sets)
      BY <2>1, <2>2
    <3> HIDE DEF Sets
    <3> QED BY <3>1, WFMin
  <2> QED BY <1>1, <2>2
<1>3. \A U \in SUBSET T : U # T => U \in Good
  BY <1>2 DEF StrictSubsetOrdering
<1> QED
  BY <1>2, <1>3

Pick(s) == CHOOSE x \in s : TRUE
Adds(g, f, S) ==
  g = [s \in SUBSET S |-> IF s = {} THEN 0 ELSE f[Pick(s)] + g[s \ {Pick(s)}]]
LEMMA SumIsAdds ==
  ASSUME NEW f, NEW S
  PROVE SumFunctionOnSet(f, S) = (CHOOSE g : Adds(g, f, S))[S]
BY DEF SumFunctionOnSet, FoldFunctionOnSet, MapThenFoldSet, Adds, Pick

LEMMA PickIn == \A s : s # {} => Pick(s) \in s
BY DEF Pick

LEMMA AddsUnique ==
  ASSUME NEW f, NEW S, IsFiniteSet(S), NEW T \in SUBSET S,
         NEW g, Adds(g, f, T), NEW h, Adds(h, f, S)
  PROVE  \A s \in SUBSET T : g[s] = h[s]
<1> DEFINE Good == {s \in SUBSET T : g[s] = h[s]}
<1>1. IsFiniteSet(T)
  BY FS_Subset
<1>2. ASSUME NEW s \in SUBSET T, \A u \in SUBSET s : u # s => u \in Good
      PROVE  s \in Good
  <2>1. /\ g[s] = IF s = {} THEN 0 ELSE f[Pick(s)] + g[s \ {Pick(s)}]
        /\ h[s] = IF s = {} THEN 0 ELSE f[Pick(s)] + h[s \ {Pick(s)}]
    BY DEF Adds
  <2>2. s # {} => s \ {Pick(s)} \in Good
    BY <1>2, PickIn
  <2> QED BY <2>1, <2>2
<1>3. \A s \in SUBSET T : s \in Good
  <2> HIDE DEF Good
  <2> QED BY <1>1, <1>2, SubsetInduction
<1> QED BY <1>3

LEMMA AddsExists ==
  ASSUME NEW f, NEW S, IsFiniteSet(S)
  PROVE  \E g : Adds(g, f, S)
<1> DEFINE Good == {T \in SUBSET S : \E g : Adds(g, f, T)}
           Sum(T) == (CHOOSE g : Adds(g, f, T))[T]
<1>1. ASSUME NEW T \in SUBSET S, \A U \in SUBSET T : U # T => U \in Good
      PROVE  T \in Good
  <2> DEFINE H == [s \in SUBSET T |-> IF s = {} THEN 0 ELSE f[Pick(s)] + Sum(s \ {Pick(s)})]
  <2>1. ASSUME NEW u \in SUBSET T, u # T PROVE H[u] = Sum(u)
    <3>1. PICK g : g = (CHOOSE k : Adds(k, f, u)) /\ Adds(g, f, u)
      BY <1>1, <2>1
    <3>2. CASE u = {}
      BY <3>1, <3>2 DEF Adds
    <3>3. CASE u # {}
      <4> DEFINE v == u \ {Pick(u)}
      <4>1. v \in SUBSET u /\ v # u
        BY <3>3, PickIn
      <4>2. PICK h : h = (CHOOSE k : Adds(k, f, v)) /\ Adds(h, f, v)
        BY <1>1, <4>1
      <4>3. IsFiniteSet(u)
        BY FS_Subset
      <4>4. h[v] = g[v]
        <5> HIDE DEF v
        <5>1. Adds(g, f, u) /\ Adds(h, f, v) /\ v \in SUBSET u
          BY <3>1, <4>1, <4>2
        <5>2. \A s \in SUBSET v : h[s] = g[s]
          BY <5>1, <4>3, AddsUnique
        <5> QED BY <5>2
      <4>5. g[u] = f[Pick(u)] + g[v]
        BY <3>1, <3>3 DEF Adds
      <4>6. H[u] = f[Pick(u)] + Sum(v)
        BY <3>3
      <4> QED BY <3>1, <4>2, <4>4, <4>5, <4>6
    <3> QED BY <3>2, <3>3
  <2>2. ASSUME NEW s \in SUBSET T, s # {}
        PROVE  H[s] = f[Pick(s)] + H[s \ {Pick(s)}]
    <3>1. s \ {Pick(s)} \in SUBSET T /\ s \ {Pick(s)} # T
      BY <2>2, PickIn
    <3> QED BY <2>1, <2>2, <3>1
  <2>3. H = [s \in SUBSET T |-> IF s = {} THEN 0 ELSE f[Pick(s)] + H[s \ {Pick(s)}]]
    <3>1. \A s \in SUBSET T : H[s] = IF s = {} THEN 0 ELSE f[Pick(s)] + H[s \ {Pick(s)}]
      <4>1. {} \in SUBSET T /\ H[{}] = 0
        OBVIOUS
      <4> HIDE DEF H
      <4> QED BY <2>2, <4>1
    <3>2. H = [s \in SUBSET T |-> H[s]]
      OBVIOUS
    <3> HIDE DEF H
    <3> QED BY <3>1, <3>2
  <2> HIDE DEF H
  <2> QED BY <2>3 DEF Adds
<1>2. \A T \in SUBSET S : T \in Good
  <2> HIDE DEF Good
  <2> QED BY <1>1, SubsetInduction
<1> QED BY <1>2

(* A sum is made of the summand that CHOOSE takes first and the rest *)
LEMMA SumPicks ==
  ASSUME NEW f, NEW S, IsFiniteSet(S)
  PROVE  /\ SumFunctionOnSet(f, {}) = 0
         /\ S # {} => SumFunctionOnSet(f, S) =
                        f[Pick(S)] + SumFunctionOnSet(f, S \ {Pick(S)})
<1>1. ASSUME NEW T \in SUBSET S
      PROVE  \E g : Adds(g, f, T) /\ SumFunctionOnSet(f, T) = g[T]
  <2>1. IsFiniteSet(T)
    BY FS_Subset
  <2> QED BY <2>1, AddsExists, SumIsAdds
<1>2. SumFunctionOnSet(f, {}) = 0
  BY <1>1 DEF Adds
<1>3. ASSUME S # {}
      PROVE  SumFunctionOnSet(f, S) = f[Pick(S)] + SumFunctionOnSet(f, S \ {Pick(S)})
  <2> DEFINE R == S \ {Pick(S)}
  <2>1. PICK g : Adds(g, f, S) /\ SumFunctionOnSet(f, S) = g[S]
    BY <1>1
  <2>2. PICK h : Adds(h, f, R) /\ SumFunctionOnSet(f, R) = h[R]
    BY <1>1
  <2>3. h[R] = g[R]
    BY <2>1, <2>2, AddsUnique
  <2>4. g[S] = f[Pick(S)] + g[R]
    BY <1>3, <2>1 DEF Adds
  <2> QED BY <2>1, <2>2, <2>3, <2>4
<1> QED BY <1>2, <1>3

(* which one it takes does not matter *)
LEMMA SumTakesOut ==
  ASSUME NEW f, NEW S, IsFiniteSet(S), \A s \in S : f[s] \in Int
  PROVE  /\ SumFunctionOnSet(f, S) \in Int
         /\ \A x \in S : SumFunctionOnSet(f, S) = f[x] + SumFunctionOnSet(f, S \ {x})
<1> DEFINE Sum(T) == SumFunctionOnSet(f, T)
           Good == {T \in SUBSET S : Sum(T) \in Int /\ \A x \in T : Sum(T) = f[x] + Sum(T \ {x})}
<1>1. ASSUME NEW T \in SUBSET S, \A U \in SUBSET T : U # T => U \in Good
      PROVE  T \in Good
  <2>0. IsFiniteSet(T)
    BY FS_Subset
  <2>1. CASE T = {}
    BY <2>1, <2>0, SumPicks
  <2>2. CASE T # {}
    <3>1. PICK y \in T : y = Pick(T)
      BY <2>2, PickIn
    <3>2. Sum(T) = f[y] + Sum(T \ {y})
      BY <2>0, <2>2, <3>1, SumPicks
    <3> HIDE DEF Sum
    <3>3. \A x \in T : T \ {x} \in Good /\ f[x] \in Int
      BY <1>1
    <3>4. Sum(T) \in Int
      BY <3>2, <3>3
    <3>5. ASSUME NEW x \in T PROVE Sum(T) = f[x] + Sum(T \ {x})
      <4>1. CASE x = y
        BY <3>2, <4>1
      <4>2. CASE x # y
        <5>1. x \in T \ {y} /\ y \in T \ {x}
          BY <4>2
        <5>2. Sum(T \ {y}) = f[x] + Sum((T \ {y}) \ {x})
          BY <3>3, <5>1
        <5>3. Sum(T \ {x}) = f[y] + Sum((T \ {x}) \ {y})
          BY <3>3, <5>1
        <5>4. (T \ {y}) \ {x} = (T \ {x}) \ {y} /\ T \ {x, y} = (T \ {x}) \ {y}
          OBVIOUS
        <5>5. T \ {x, y} \in Good
          BY <1>1, <5>1
        <5>6. Sum(T \ {x, y}) \in Int /\ f[x] \in Int /\ f[y] \in Int
          BY <3>3, <5>5
        <5> HIDE DEF Good
        <5> QED BY <3>2, <5>2, <5>3, <5>4, <5>6
      <4> QED BY <4>1, <4>2
    <3> QED BY <3>4, <3>5
  <2> QED BY <2>1, <2>2
<1>2. \A T \in SUBSET S : T \in Good
  <2> HIDE DEF Good
  <2> QED BY <1>1, SubsetInduction
<1> QED BY <1>2

(* Sums of the same summands are equal *)
LEMMA SumSame ==
  ASSUME NEW f, NEW g, NEW S, IsFiniteSet(S), \A s \in S : f[s] = g[s]
  PROVE  SumFunctionOnSet(f, S) = SumFunctionOnSet(g, S)
<1> DEFINE Good == {T \in SUBSET S : SumFunctionOnSet(f, T) = SumFunctionOnSet(g, T)}
<1>1. ASSUME NEW T \in SUBSET S, \A U \in SUBSET T : U # T => U \in Good
      PROVE  T \in Good
  <2>0. IsFiniteSet(T)
    BY FS_Subset
  <2>1. CASE T = {}
    BY <2>1, <2>0, SumPicks
  <2>2. CASE T # {}
    <3>1. T \ {Pick(T)} \in Good /\ f[Pick(T)] = g[Pick(T)]
      BY <1>1, <2>2, PickIn
    <3> QED BY <2>0, <2>2, <3>1, SumPicks
  <2> QED BY <2>1, <2>2
<1>2. \A T \in SUBSET S : T \in Good
  <2> HIDE DEF Good
  <2> QED BY <1>1, SubsetInduction
<1> QED BY <1>2

(* When one summand changes, the sum changes by as much *)
LEMMA SumChanges ==
  ASSUME NEW f, NEW g, NEW S, IsFiniteSet(S), \A s \in S : f[s] \in Int,
         NEW x \in S, g[x] \in Int, \A s \in S \ {x} : g[s] = f[s]
  PROVE  /\ SumFunctionOnSet(f, S) \in Int
         /\ SumFunctionOnSet(g, S) = SumFunctionOnSet(f, S) + (g[x] - f[x])
<1>1. /\ SumFunctionOnSet(f, S) \in Int
      /\ SumFunctionOnSet(f, S) = f[x] + SumFunctionOnSet(f, S \ {x})
  BY SumTakesOut
<1>2. SumFunctionOnSet(g, S) = g[x] + SumFunctionOnSet(g, S \ {x})
  BY SumTakesOut
<1>3. SumFunctionOnSet(g, S \ {x}) = SumFunctionOnSet(f, S \ {x})
  BY FS_Subset, SumSame
<1>4. SumFunctionOnSet(f, S \ {x}) \in Int
  BY FS_Subset, SumTakesOut
<1> QED BY <1>1, <1>2, <1>3, <1>4

(* The sum of equal summands is a product *)
LEMMA SumConstant ==
  ASSUME NEW f, NEW S, IsFiniteSet(S), NEW c \in Int, \A s \in S : f[s] = c
  PROVE  SumFunctionOnSet(f, S) = Cardinality(S) * c
<1> DEFINE Good == {T \in SUBSET S : SumFunctionOnSet(f, T) = Cardinality(T) * c}
<1>1. ASSUME NEW T \in SUBSET S, \A U \in SUBSET T : U # T => U \in Good
      PROVE  T \in Good
  <2>0. IsFiniteSet(T) /\ Cardinality(T) \in Nat
    BY FS_Subset, FS_CardinalityType
  <2>1. CASE T = {}
    <3>1. SumFunctionOnSet(f, T) = 0 /\ Cardinality(T) = 0
      BY <2>1, <2>0, SumPicks, FS_EmptySet
    <3> QED BY <3>1
  <2>2. CASE T # {}
    <3> DEFINE R == T \ {Pick(T)}
    <3>1. R \in Good /\ f[Pick(T)] = c
      BY <1>1, <2>2, PickIn
    <3>2. Cardinality(R) = Cardinality(T) - 1
      BY <2>0, <2>2, PickIn, FS_RemoveElement
    <3>3. SumFunctionOnSet(f, T) = c + Cardinality(R) * c
      BY <2>0, <2>2, <3>1, SumPicks
    <3>4. \A n \in Nat : c + (n - 1) * c = n * c
      OBVIOUS
    <3> QED BY <2>0, <3>2, <3>3, <3>4
  <2> QED BY <2>1, <2>2
<1>2. \A T \in SUBSET S : T \in Good
  <2> HIDE DEF Good
  <2> QED BY <1>1, SubsetInduction
<1> QED BY <1>2

-----------------------------------------------------------------------------
(* The sum of a function changes by what it changes at one point           *)
LEMMA FunctionSumChanges ==
  ASSUME NEW S, IsFiniteSet(S), NEW f \in [S -> Int],
         NEW g, DOMAIN g = S,
         NEW x \in S, NEW n \in Int, g[x] = f[x] + n, \A s \in S \ {x} : g[s] = f[s]
  PROVE  SumFunction(f) \in Int /\ SumFunction(g) = SumFunction(f) + n
<1>1. /\ SumFunctionOnSet(f, S) \in Int
      /\ SumFunctionOnSet(g, S) = SumFunctionOnSet(f, S) + (g[x] - f[x])
  BY SumChanges
<1>2. g[x] - f[x] = n /\ DOMAIN f = S
  OBVIOUS
<1> QED
  BY <1>1, <1>2 DEF SumFunction

-----------------------------------------------------------------------------
LEMMA OwnersFinite == IsFiniteSet(WalletOwners) /\ Cardinality(WalletOwners) \in Nat
BY FiniteAssumption, OwnersAssumption, FS_Subset, FS_CardinalityType

(* An increment adds its amount to the sum of the wallets, and nothing for *)
(* a user without a wallet                                                 *)
LEMMA IncrementSum ==
  ASSUME NEW b \in [WalletOwners -> Int], NEW u, NEW n \in Int
  PROVE  /\ SumFunction(b) \in Int
         /\ SumFunction(Increment(b, u, n)) =
              SumFunction(b) + IF u \in WalletOwners THEN n ELSE 0
         /\ Increment(b, u, n) \in [WalletOwners -> Int]
<1> DEFINE c == Increment(b, u, n)
<1>1. c \in [WalletOwners -> Int] /\ DOMAIN c = WalletOwners
  BY DEF Increment
<1>2. SumFunction(b) \in Int
  BY OwnersFinite, SumTakesOut DEF SumFunction
<1>3. CASE u \in WalletOwners
  <2>1. c[u] = b[u] + n /\ \A v \in WalletOwners \ {u} : c[v] = b[v]
    BY <1>3 DEF Increment
  <2> HIDE DEF c
  <2>2. SumFunction(c) = SumFunction(b) + n
    BY <1>1, <1>3, <2>1, OwnersFinite, FunctionSumChanges
  <2> QED BY <1>1, <1>2, <1>3, <2>2 DEF c
<1>4. CASE u \notin WalletOwners
  <2>1. c = b
    BY <1>4 DEF Increment
  <2> QED BY <1>1, <1>2, <1>4, <2>1
<1> QED BY <1>3, <1>4

LEMMA AmountOfType ==
  ASSUME TypeOK, BooksInv, NEW r \in References, credits[r] > 0
  PROVE  AmountOf(r) \in Int
<1>1. RowsOf(r) # {}
  BY DEF BooksInv, CreditsHaveRow
<1>2. \A t \in Row : t.amount \in Int
  <2>1. \A a \in Amounts : a \in Int
    BY AmountsAssumption
  <2>2. \A t \in Row : t.amount \in Amounts
    BY DEF Row
  <2> QED BY <2>1, <2>2
<1>3. \A t \in RowsOf(r) : t \in Row
  BY DEF RowsOf, TypeOK, LedgerTypeOK
<1> QED BY <1>1, <1>2, <1>3 DEF AmountOf

(* What is booked for a reference is a number                              *)
LEMMA NetCreditType ==
  ASSUME TypeOK, BooksInv
  PROVE  /\ NetCredit \in [References -> Int]
         /\ balance \in [WalletOwners -> Int]
         /\ Money \in Int /\ MoneyBooked \in Int
<1>1. ASSUME NEW r \in References PROVE Credited(r) \in Int /\ debited[r] \in Int
  <2>1. credits[r] \in Nat /\ debited[r] \in Nat
    BY DEF TypeOK, LedgerTypeOK
  <2> QED BY <2>1, AmountOfType DEF Credited
<1>2. NetCredit \in [References -> Int]
  BY <1>1 DEF NetCredit
<1>3. balance \in [WalletOwners -> Int]
  BY DEF TypeOK, LedgerTypeOK
<1>4. SumFunction(NetCredit) \in Int
  BY <1>2, FiniteAssumption, SumTakesOut DEF SumFunction
<1>5. SumFunction(balance) \in Int
  BY <1>3, OwnersFinite, SumTakesOut DEF SumFunction
<1>6. Cardinality(WalletOwners) * OpeningBalance \in Int
  BY OwnersFinite, BalanceAssumption
<1> QED BY <1>2, <1>3, <1>4, <1>5, <1>6 DEF Money, MoneyBooked

(* The bookings of one reference change: so do the books, by as much       *)
LEMMA BooksChange ==
  ASSUME TypeOK, BooksInv, NEW r \in References, NEW n \in Int,
         NetCredit'[r] = NetCredit[r] + n,
         \A q \in References \ {r} : NetCredit'[q] = NetCredit[q]
  PROVE  MoneyBooked' = MoneyBooked + n
<1>1. NetCredit \in [References -> Int] /\ DOMAIN NetCredit' = References
  BY NetCreditType DEF NetCredit
<1>2. SumFunction(NetCredit) \in Int /\ SumFunction(NetCredit') = SumFunction(NetCredit) + n
  BY <1>1, FiniteAssumption, FunctionSumChanges
<1>3. Cardinality(WalletOwners) * OpeningBalance \in Int
  BY OwnersFinite, BalanceAssumption
<1> QED BY <1>2, <1>3 DEF MoneyBooked

-----------------------------------------------------------------------------
(* The sum of the wallets and the books, step by step.  First: a request   *)
(* is debited once, because nobody else holds its reference                *)
LEMMA DebitedKept ==
  ASSUME DebitedOnce, debited' = debited,
         \A r \in References : PaidOut(r) => PaidOut(r)',
         \A x \in Workers : At(x, "sent")' =>
           \/ At(x, "sent") /\ worker'[x].reference = worker[x].reference
           \/ debited[worker'[x].reference] = 0
  PROVE  DebitedOnce'
BY DEF DebitedOnce

LEMMA PaidOutStays ==
  ASSUME TypeOK, [Next]_vars, NEW r \in References, PaidOut(r)
  PROVE  PaidOut(r)'
<1> USE DEF TypeOK, PaystackTypeOK, PaidOut
<1>1. CASE payout' = payout
  BY <1>1
<1>2. CASE Request
  <2>1. PICK w \in Workers : ServiceStep(w)
    BY <1>2 DEF Request
  <2>2. \/ payout' = payout
        \/ \E q \in References : \E k : AcceptCharge(q, k) \/ AcceptPayout(q, k)
    BY <2>1 DEF ServiceStep, FundInitialize, FundTimesOut, FundRecord, TransferCheck,
       TransferCommit, WithdrawCheck, WithdrawSend, WithdrawTimesOut, WithdrawDebit,
       WithdrawRecord, RejectRequest, RequestFails, paystackVars
  <2> QED BY <2>2 DEF AcceptCharge, AcceptPayout
<1>3. CASE Provider
  BY <1>3 DEF Provider, CustomerPays, PayoutSucceeds, PayoutFails, PayoutReversed, PayoutMoves
<1>4. CASE Webhook \/ WebhookError \/ Crash \/ UNCHANGED vars
  <2>1. payout' = payout
    BY <1>4, CommitEffect DEF Webhook, WebhookError, Deliver, Handle, AnswerAtOnce, LoadWebhook,
       NotFound, AnswerRepeated, WebhookFails, Reply, Crash, vars, paystackVars
  <2> QED BY <1>1, <2>1
<1> QED BY <1>2, <1>3, <1>4 DEF Next

LEMMA DebitedOnceStep ==
  ASSUME TypeOK, BooksInv, DebitedOnce, [Next]_vars
  PROVE  DebitedOnce'
<1> USE DEF TypeOK, ServiceTypeOK, LedgerTypeOK
<1>1. \A r \in References : PaidOut(r) => PaidOut(r)'
  BY PaidOutStays
<1>2. ASSUME debited' = debited, \A x \in Workers : worker'[x] = worker[x] \/ worker'[x].step # "sent"
      PROVE  DebitedOnce'
  BY <1>1, <1>2, DebitedKept DEF At
<1>3. ASSUME NEW w \in Workers, NEW r \in References, WithdrawSend(w, r) PROVE DebitedOnce'
  <2>1. \A x \in Workers : x # w => worker'[x] = worker[x]
    BY <1>3 DEF WithdrawSend
  <2>2. worker[w] \in Task
    BY <1>3, TaskType DEF WithdrawSend, At
  <2>3. worker'[w].reference = r
    BY <1>3, <2>2 DEF WithdrawSend, Task, Tasks
  <2>4. debited[r] = 0 /\ debited' = debited
    BY <1>3, FreshUnused DEF WithdrawSend, DebitedOnce, ledgerVars
  <2> QED BY <1>1, <2>1, <2>3, <2>4, DebitedKept DEF At
<1>4. ASSUME NEW w \in Workers, WithdrawDebit(w) PROVE DebitedOnce'
  <2>1. w \in Owing
    BY <1>4 DEF WithdrawDebit, At, Owing, LateSteps
  <2>2. PICK r \in References : worker[w].reference = r
    BY <2>1, OwingTask
  <2>3. PaidOut(r) /\ payout' = payout
    BY <1>4, <2>1, <2>2 DEF BooksInv, OwingOK, RowToCome, WithdrawDebit, At, paystackVars
  <2>4. \A q \in References : q # r => debited'[q] = debited[q]
    BY <1>4, <2>2 DEF WithdrawDebit
  <2>5. worker'[w].step = "debited" /\ \A x \in Workers : x # w => worker'[x] = worker[x]
    BY <1>4, <2>1, OwingTask DEF WithdrawDebit, Task, Tasks
  <2>6. ASSUME NEW x \in Workers, At(x, "sent")'
        PROVE  debited'[worker'[x].reference] = 0
    <3>1. x # w /\ worker'[x] = worker[x] /\ At(x, "sent") /\ x \in Owing
      BY <2>5, <2>6 DEF At, Owing, LateSteps
    <3>2. worker[x].reference # r /\ worker[x].reference \in References
      BY <2>1, <2>2, <3>1, OwingTask DEF BooksInv, OwingOK
    <3> QED BY <2>4, <3>1, <3>2 DEF DebitedOnce
  <2>7. \A q \in References : debited'[q] > 0 => PaidOut(q)'
    BY <2>3, <2>4 DEF DebitedOnce, PaidOut
  <2> QED BY <2>6, <2>7 DEF DebitedOnce
<1>5. CASE Request
  <2>1. PICK w \in Workers : ServiceStep(w)
    BY <1>5 DEF Request
  <2>2. \/ \E r \in References : WithdrawSend(w, r)
        \/ WithdrawDebit(w)
        \/ debited' = debited /\ \A x \in Workers : worker'[x] = worker[x] \/ worker'[x].step # "sent"
    BY <2>1 DEF ServiceStep, FundInitialize, FundTimesOut, FundRecord, TransferCheck,
       TransferCommit, WithdrawCheck, WithdrawTimesOut, WithdrawRecord, RejectRequest,
       RequestFails, Begin, Finish, Idle, ledgerVars
  <2> QED BY <1>2, <1>3, <1>4, <2>1, <2>2
<1>6. CASE ~Request
  <2>1. debited' = debited /\ (worker' = worker \/ worker' = [x \in Workers |-> Idle])
    BY <1>6, CommitEffect DEF Next, Provider, Webhook, WebhookError, Deliver, Handle, AnswerAtOnce,
       LoadWebhook, NotFound, AnswerRepeated, WebhookFails, Crash, vars, ledgerVars, serviceVars
  <2> QED BY <1>2, <2>1 DEF Idle
<1> QED BY <1>5, <1>6

(* What was credited is read off rows that have a webhook, and those stay  *)
LEMMA OrdinaryCredits ==
  ASSUME TypeOK, BooksInv, Ordinary, NEW r \in References
  PROVE  Credited(r)' = Credited(r)
<1>1. credits' = credits
  BY DEF Ordinary
<1>2. CASE credits[r] > 0
  <2>1. RowsOf(r) # {}
    BY <1>2 DEF BooksInv, CreditsHaveRow
  <2>2. RowsOf(r)' = RowsOf(r)
    BY <2>1 DEF Ordinary, NewRowsPending, RowsOf
  <2> QED BY <1>1, <2>2 DEF Credited, AmountOf
<1>3. CASE ~(credits[r] > 0)
  BY <1>1, <1>3 DEF Credited
<1> QED BY <1>2, <1>3

LEMMA QuietBooks ==
  ASSUME TypeOK, BooksInv, Ordinary, debited' = debited
  PROVE  MoneyBooked' = MoneyBooked
<1>1. NetCredit' = NetCredit
  BY OrdinaryCredits DEF NetCredit
<1> QED BY <1>1 DEF MoneyBooked

(* The money of the wallets and the money in the books move together: what *)
(* is lost went to a user without a wallet                                 *)
MoneyMoves ==
  /\ Money' - Money <= MoneyBooked' - MoneyBooked
  /\ Users = WalletOwners => Money' - Money = MoneyBooked' - MoneyBooked

LEMMA TransferMoney ==
  ASSUME TypeOK, BooksInv, Ordinary, NEW w \in Workers, NEW r \in References, TransferCommit(w, r)
  PROVE  MoneyMoves
<1> DEFINE t == worker[w]
           taken == Increment(balance, t.user, -t.amount)
<1>1. t \in Task
  BY TaskType DEF TransferCommit, At
<1>2. t.amount \in Nat /\ -t.amount \in Int /\ t.user \in WalletOwners /\ t.receiver \in Users
  BY <1>1, TaskFields
<1>3. balance \in [WalletOwners -> Int] /\ Money \in Int /\ MoneyBooked \in Int
  BY NetCreditType
<1>4. balance' = Increment(taken, t.receiver, t.amount) /\ debited' = debited
  BY DEF TransferCommit
<1> HIDE DEF t
<1>5. SumFunction(taken) = SumFunction(balance) - t.amount /\ taken \in [WalletOwners -> Int]
  BY <1>2, <1>3, IncrementSum
<1> HIDE DEF taken
<1>6. SumFunction(balance') =
        SumFunction(taken) + IF t.receiver \in WalletOwners THEN t.amount ELSE 0
  BY <1>2, <1>4, <1>5, IncrementSum
<1>7. MoneyBooked' = MoneyBooked
  BY <1>4, QuietBooks
<1> QED
  BY <1>2, <1>3, <1>5, <1>6, <1>7 DEF MoneyMoves, Money

LEMMA DebitMoney ==
  ASSUME TypeOK, BooksInv, DebitedOnce, Ordinary, NEW w \in Workers, WithdrawDebit(w)
  PROVE  MoneyMoves
<1> DEFINE a == worker[w].amount
<1>1. w \in Owing
  BY DEF WithdrawDebit, At, Owing, LateSteps
<1>2. PICK r \in References : worker[w].reference = r
  BY <1>1, OwingTask
<1>3. a \in Nat /\ -a \in Int /\ worker[w].user \in WalletOwners
  BY <1>1, OwingTask, TaskFields
<1>4. debited[r] = 0
  BY <1>2 DEF WithdrawDebit, DebitedOnce
<1>5. debited'[r] = a /\ \A q \in References : q # r => debited'[q] = debited[q]
  BY <1>2 DEF WithdrawDebit, TypeOK, LedgerTypeOK
<1>6. /\ balance \in [WalletOwners -> Int] /\ Money \in Int /\ MoneyBooked \in Int
      /\ NetCredit \in [References -> Int]
  BY NetCreditType
<1>7. SumFunction(balance') = SumFunction(balance) - a
  <2>1. balance' = Increment(balance, worker[w].user, -a)
    BY DEF WithdrawDebit
  <2> HIDE DEF a
  <2> QED BY <1>3, <1>6, <2>1, IncrementSum
<1> HIDE DEF a
<1>8. /\ NetCredit'[r] = NetCredit[r] + (-a)
      /\ \A q \in References \ {r} : NetCredit'[q] = NetCredit[q]
  <2>1. \A q \in References : /\ Credited(q)' = Credited(q)
                              /\ NetCredit[q] = Credited(q) - debited[q]
                              /\ NetCredit'[q] = Credited(q)' - debited'[q]
    BY OrdinaryCredits DEF NetCredit
  <2>2. Credited(r) = NetCredit[r]
    <3>1. Credited(r) \in Int
      <4>1. credits[r] \in Nat /\ (credits[r] > 0 => AmountOf(r) \in Int)
        BY AmountOfType DEF TypeOK, LedgerTypeOK
      <4> QED BY <4>1 DEF Credited
    <3> QED BY <1>4, <2>1, <3>1
  <2> QED BY <1>3, <1>5, <1>6, <2>1, <2>2
<1>9. MoneyBooked' = MoneyBooked + (-a)
  BY <1>3, <1>8, BooksChange
<1> QED
  BY <1>3, <1>6, <1>7, <1>9 DEF MoneyMoves, Money

(* A commit saves the only row of a reference Paystack knows, and changes  *)
(* neither its amount nor its user                                         *)
SavedAs(row, t) == t.amount = row.amount /\ t.userId = row.userId

LEMMA CommitSavesRow ==
  ASSUME TypeOK, BooksInv, NEW h \in Handlers, Commit(h),
         NEW r \in References, handler[h].row.reference = r
  PROVE  /\ Known(r)
         /\ \E t : RowsOf(r) = {t} /\ SavedAs(handler[h].row, t)
         /\ \E t : RowsOf(r)' = {t} /\ SavedAs(handler[h].row, t)
         /\ \A q : q # r => RowsOf(q)' = RowsOf(q)
<1> DEFINE row == handler[h].row
           new == [row EXCEPT !.status = Target[handler[h].event]]
<1>1. Loaded(h) /\ row \in Row
  BY CommitEffect, DeliveryType DEF Loaded
<1>2. transactions' = SaveRow(new)
  BY CommitEffect
<1>3. new.reference = r /\ new.operation = row.operation /\ SavedAs(row, new)
  BY <1>1 DEF Row, SavedAs
<1>4. PICK old \in transactions :
        old.reference = r /\ old.operation = row.operation /\ SavedAs(row, old)
  BY <1>1 DEF BooksInv, HandlersOK, HoldsCopy, SameId, SavedAs
<1>5. Known(r)
  BY <1>1, CommitCredits, DeliveryType
     DEF Happened, Known, Charged, PaidOut, PaystackEvents, Loaded
<1> HIDE DEF row, new
<1>6. RowsOf(r) = {old}
  BY <1>4, <1>5 DEF RowsOf, BooksInv, WebhookRowUnique, Known
<1>7. RowsOf(r)' = {new}
  BY <1>2, <1>3, <1>4, <1>6 DEF SaveRow, SameId, RowsOf
<1>8. \A q : q # r => RowsOf(q)' = RowsOf(q)
  BY <1>2, <1>3 DEF RowsOf, SaveRow, SameId
<1> QED BY <1>3, <1>4, <1>5, <1>6, <1>7, <1>8 DEF row

LEMMA CommitRows ==
  ASSUME TypeOK, BooksInv, NEW h \in Handlers, Commit(h),
         NEW r \in References, handler[h].row.reference = r
  PROVE  /\ AmountOf(r) = handler[h].row.amount
         /\ AmountOf(r)' = handler[h].row.amount
         /\ \A q : q # r => RowsOf(q)' = RowsOf(q)
BY CommitSavesRow DEF AmountOf, SavedAs

LEMMA CommitMoney ==
  ASSUME TypeOK, BooksInv, NEW h \in Handlers, Commit(h)
  PROVE  MoneyMoves
<1>1. PICK r \in References : handler[h].row.reference = r
  BY CommitCredits
<1>2. PICK a \in Nat, u \in Users : a = handler[h].row.amount /\ u = handler[h].row.userId
  BY CommitEffect, DeliveryType
<1>3. /\ balance \in [WalletOwners -> Int] /\ Money \in Int /\ MoneyBooked \in Int
      /\ NetCredit \in [References -> Int]
  BY NetCreditType
<1>4. debited' = debited
  BY CommitEffect
<1>5. /\ AmountOf(r) = a /\ AmountOf(r)' = a
      /\ \A q \in References : q # r => RowsOf(q)' = RowsOf(q)
  BY <1>1, <1>2, CommitRows
<1>6. ASSUME NEW q \in References, q # r PROVE AmountOf(q)' = AmountOf(q)
  BY <1>5, <1>6 DEF AmountOf
<1>7. ASSUME credits' = credits, balance' = balance PROVE MoneyMoves
  <2>1. ASSUME NEW q \in References PROVE Credited(q)' = Credited(q)
    <3>1. AmountOf(q)' = AmountOf(q)
      BY <1>5, <1>6
    <3> QED BY <1>7, <3>1 DEF Credited
  <2>2. MoneyBooked' = MoneyBooked
    BY <1>4, <2>1 DEF MoneyBooked, NetCredit
  <2> QED BY <1>3, <1>7, <2>2 DEF MoneyMoves, Money
<1>8. ASSUME CreditWallet(handler[h].row) PROVE MoneyMoves
  <2>1. balance' = Increment(balance, u, a)
    BY <1>2, <1>8 DEF CreditWallet
  <2>2. SumFunction(balance') = SumFunction(balance) + IF u \in WalletOwners THEN a ELSE 0
    BY <1>3, <2>1, IncrementSum
  <2>3. /\ credits[r] \in Nat /\ debited[r] \in Nat /\ credits'[r] = credits[r] + 1
        /\ \A q \in References : q # r => credits'[q] = credits[q]
    BY <1>1, <1>8 DEF CreditWallet, TypeOK, LedgerTypeOK
  <2>4. Credited(r)' = Credited(r) + a /\ Credited(r) \in Int
    <3>1. \A c \in Nat : (c + 1) * a = c * a + a /\ c * a \in Int
      OBVIOUS
    <3>2. Credited(r) = credits[r] * a
      BY <1>2, <1>5, <2>3 DEF Credited
    <3>3. Credited(r)' = credits'[r] * a
      BY <1>5, <2>3 DEF Credited
    <3> QED BY <2>3, <3>1, <3>2, <3>3
  <2>5. ASSUME NEW q \in References, q # r PROVE Credited(q)' = Credited(q)
    BY <1>6, <2>3, <2>5 DEF Credited
  <2>6. NetCredit'[r] = NetCredit[r] + a /\ \A q \in References \ {r} : NetCredit'[q] = NetCredit[q]
    BY <1>2, <1>4, <2>3, <2>4, <2>5 DEF NetCredit
  <2>7. MoneyBooked' = MoneyBooked + a
    BY <1>2, <2>6, BooksChange
  <2> QED BY <1>2, <1>3, <2>2, <2>7 DEF MoneyMoves, Money
<1> QED BY <1>7, <1>8, CommitEffect

LEMMA MoneyStep ==
  ASSUME TypeOK, BooksInv, DebitedOnce, [Next]_vars
  PROVE  MoneyMoves
<1>1. ASSUME NEW h \in Handlers, Commit(h) PROVE MoneyMoves
  BY <1>1, CommitMoney
<1>2. ASSUME Ordinary PROVE MoneyMoves
  <2>1. CASE UNCHANGED <<balance, debited>>
    <3>1. MoneyBooked' = MoneyBooked
      BY <1>2, <2>1, QuietBooks
    <3>2. Money \in Int /\ MoneyBooked \in Int
      BY NetCreditType
    <3> QED BY <2>1, <3>1, <3>2 DEF MoneyMoves, Money
  <2>2. CASE Request
    <3>1. PICK w \in Workers : ServiceStep(w)
      BY <2>2 DEF Request
    <3>2. \/ \E r \in References : TransferCommit(w, r)
          \/ WithdrawDebit(w)
          \/ UNCHANGED <<balance, debited>>
      BY <3>1 DEF ServiceStep, FundInitialize, FundTimesOut, FundRecord, TransferCheck,
         WithdrawCheck, WithdrawSend, WithdrawTimesOut, WithdrawRecord, RejectRequest,
         RequestFails, ledgerVars
    <3> QED BY <1>2, <2>1, <3>1, <3>2, TransferMoney, DebitMoney
  <2>3. CASE ~Request
    <3>1. UNCHANGED <<balance, debited>> \/ \E h \in Handlers : Commit(h)
      BY <2>3 DEF Next, Provider, Webhook, WebhookError, Deliver, Handle, AnswerAtOnce,
         LoadWebhook, NotFound, AnswerRepeated, WebhookFails, Crash, vars, ledgerVars
    <3> QED BY <1>1, <2>1, <3>1
  <2> QED BY <2>2, <2>3
<1> QED BY <1>1, <1>2, StepKinds

LEMMA InitMoney == Init => MoneyOK
<1> SUFFICES ASSUME Init PROVE MoneyOK
  OBVIOUS
<1>1. /\ balance = [u \in WalletOwners |-> OpeningBalance]
      /\ credits = [r \in References |-> 0] /\ debited = [r \in References |-> 0]
  BY DEF Init, LedgerInit
<1>2. DebitedOnce
  BY <1>1 DEF DebitedOnce, Init, ServiceInit, Idle, At
<1>3. SumFunctionOnSet(balance, WalletOwners) = Cardinality(WalletOwners) * OpeningBalance
  BY <1>1, OwnersFinite, BalanceAssumption, SumConstant
<1>4. \A r \in References : NetCredit[r] = 0
  BY <1>1 DEF NetCredit, Credited
<1>5. SumFunctionOnSet(NetCredit, References) = Cardinality(References) * 0
  BY <1>4, FiniteAssumption, SumConstant
<1>6. Cardinality(References) * 0 = 0 /\ Cardinality(WalletOwners) * OpeningBalance \in Int
  BY FiniteAssumption, FS_CardinalityType, OwnersFinite, BalanceAssumption
<1>7. DOMAIN balance = WalletOwners /\ DOMAIN NetCredit = References
  BY <1>1 DEF NetCredit
<1>8. Money = MoneyBooked /\ Money \in Int
  BY <1>3, <1>5, <1>6, <1>7 DEF Money, MoneyBooked, SumFunction
<1> QED BY <1>2, <1>8 DEF MoneyOK, NoMoneyCreated, ConservationOfMoney

MoneyType == Money \in Int /\ MoneyBooked \in Int

LEMMA StepMoney ==
  ASSUME TypeOK, BooksInv, MoneyOK, [Next]_vars,
         MoneyType'
  PROVE  MoneyOK'
<1>1. MoneyMoves /\ DebitedOnce'
  BY MoneyStep, DebitedOnceStep DEF MoneyOK
<1>2. /\ Money \in Int /\ MoneyBooked \in Int
      /\ Money' \in Int /\ MoneyBooked' \in Int
  BY NetCreditType DEF MoneyType
<1>3. NoMoneyCreated'
  <2>1. Money <= MoneyBooked
    BY DEF MoneyOK, NoMoneyCreated
  <2>2. Money' - Money <= MoneyBooked' - MoneyBooked
    BY <1>1 DEF MoneyMoves
  <2>3. \A m, n, x, y \in Int : m <= n /\ x - m <= y - n => x <= y
    OBVIOUS
  <2>4. Money' <= MoneyBooked'
    BY <1>2, <2>1, <2>2, <2>3
  <2> QED BY <2>4 DEF NoMoneyCreated
<1>4. ASSUME Users = WalletOwners PROVE ConservationOfMoney'
  BY <1>1, <1>2, <1>4 DEF MoneyOK, MoneyMoves, ConservationOfMoney
<1> QED BY <1>1, <1>3, <1>4 DEF MoneyOK

LEMMA MoneyInductive == Spec => []MoneyOK
<1>1. TypeOK /\ BooksInv => MoneyType
  BY NetCreditType DEF MoneyType
<1>2. TypeOK /\ BooksInv /\ MoneyOK /\ [Next]_vars /\ MoneyType' => MoneyOK'
  BY StepMoney
<1> QED BY <1>1, <1>2, InitMoney, BooksCorrect, PTL DEF Spec

(* Transfers, withdrawals, webhooks, crashes and failures in any order     *)
(* never leave more in the wallets than the opening balances and what      *)
(* webhooks credited, less what withdrawals took.                          *)
THEOREM MoneyIsNotCreated == Spec => []NoMoneyCreated
<1>1. MoneyOK => NoMoneyCreated
  BY DEF MoneyOK
<1> QED BY <1>1, MoneyInductive, PTL

(* They leave exactly that when every user owns a wallet.  Without that,   *)
(* a transfer to a user without one takes the money and gives it to no row *)
(* of the wallets table.                                                   *)
THEOREM MoneyIsConserved ==
  ASSUME Users = WalletOwners
  PROVE  Spec => []ConservationOfMoney
<1>1. MoneyOK => ConservationOfMoney
  BY DEF MoneyOK
<1> QED BY <1>1, MoneyInductive, PTL

-----------------------------------------------------------------------------
(* The wallet as an implementation of PaymentContract.  A claim is read    *)
(* off one row or one request; first, which.                               *)
LEMMA ClaimForms ==
  /\ \A t, tasks : ClaimFrom({t}, tasks) = ClaimOf("booked", t.userId, t.amount)
  /\ \A t : ClaimFrom({}, {t}) = ClaimOf("open", t.user, t.amount)
  /\ ClaimFrom({}, {}) = NoClaim
<1>1. \A t : (CHOOSE x \in {t} : TRUE) = t
  OBVIOUS
<1> QED BY <1>1 DEF ClaimFrom

LEMMA ClaimStates ==
  \A u, a : /\ ClaimOf("open", u, a).state = "open" /\ ClaimOf("open", u, a).user = u
            /\ ClaimOf("open", u, a).amount = a
            /\ ClaimOf("booked", u, a).state = "booked" /\ ClaimOf("booked", u, a).user = u
            /\ ClaimOf("booked", u, a).amount = a
BY DEF ClaimOf

LEMMA TaskOpens ==
  ASSUME TypeOK, BooksInv, NEW w \in Owing, NEW r \in References, worker[w].reference = r
  PROVE  /\ BookedRows(r) = {} /\ OpenTasks(r) = {worker[w]}
         /\ Claim(r) = ClaimOf("open", worker[w].user, worker[w].amount)
<1>1. BookedRows(r) = {}
  BY DEF BookedRows, BooksInv, OwingOK, RowToCome
<1>2. \A x \in Owing : worker[x].reference = r => x = w
  BY DEF BooksInv, OwingOK
<1>3. OpenTasks(r) = {worker[w]}
  BY <1>2 DEF OpenTasks
<1> QED BY <1>1, <1>3, ClaimForms DEF Claim

LEMMA RowBooks ==
  ASSUME WebhookRowUnique, NEW r \in References, Known(r), NEW t \in RowsOf(r)
  PROVE  /\ BookedRows(r) = {t}
         /\ Claim(r) = ClaimOf("booked", t.userId, t.amount)
<1>1. \A s \in RowsOf(r) : s = t
  BY DEF WebhookRowUnique, Known, RowsOf
<1>2. BookedRows(r) = {t}
  BY <1>1 DEF BookedRows
<1> QED BY <1>2, ClaimForms DEF Claim

(* What a step of one request leaves alone *)
LEMMA OthersKeepTasks ==
  ASSUME NEW w \in Workers, \A x \in Workers : x # w => worker'[x] = worker[x],
         NEW q,
         w \in Owing => worker[w].reference # q,
         w \in Owing' => worker'[w].reference # q
  PROVE  OpenTasks(q)' = OpenTasks(q)
<1>1. \A x : x \in Owing' /\ worker'[x].reference = q <=> x \in Owing /\ worker[x].reference = q
  BY DEF Owing
<1>2. \A x \in Owing : worker[x].reference = q => worker'[x] = worker[x]
  BY DEF Owing
<1> QED BY <1>1, <1>2 DEF OpenTasks

LEMMA ClaimKept ==
  ASSUME NEW r, BookedRows(r)' = BookedRows(r), OpenTasks(r)' = OpenTasks(r)
  PROVE  Claim(r)' = Claim(r)
BY DEF Claim

(* Paystack learns of r, or of nothing *)
LEMMA PaystackKept ==
  ASSUME UNCHANGED <<charge, payout, kobo>>
  PROVE  /\ \A r : Known(r)' = Known(r)
         /\ Purposes' = Purposes /\ Asks' = Asks /\ Dues' = Dues
BY DEF Known, Purposes, Purpose, Asks, Asked, Dues, CameBack, Charged, PaidOut

LEMMA DebitedInFullStep ==
  ASSUME TypeOK, BooksInv, DebitedInFull, [Next]_vars
  PROVE  DebitedInFull'
<1> USE DEF TypeOK, ServiceTypeOK, LedgerTypeOK
<1>1. ASSUME debited' = debited,
             \A x \in Workers : worker'[x] = worker[x] \/ worker'[x].step # "debited"
      PROVE  DebitedInFull'
  BY <1>1 DEF DebitedInFull, At
<1>2. ASSUME NEW w \in Workers, WithdrawDebit(w) PROVE DebitedInFull'
  <2>1. w \in Owing
    BY <1>2 DEF WithdrawDebit, At, Owing, LateSteps
  <2>2. PICK r \in References : worker[w].reference = r
    BY <2>1, OwingTask
  <2>3. debited'[r] = worker[w].amount /\ \A q \in References : q # r => debited'[q] = debited[q]
    BY <1>2, <2>2 DEF WithdrawDebit
  <2>4. /\ worker'[w].reference = r /\ worker'[w].amount = worker[w].amount
        /\ \A x \in Workers : x # w => worker'[x] = worker[x]
    BY <1>2, <2>1, <2>2, OwingTask DEF WithdrawDebit, Task, Tasks
  <2>5. ASSUME NEW x \in Workers, x # w, At(x, "debited")'
        PROVE  debited'[worker'[x].reference] = worker'[x].amount
    <3>1. worker'[x] = worker[x] /\ At(x, "debited") /\ x \in Owing
      BY <2>4, <2>5 DEF At, Owing, LateSteps
    <3>2. worker[x].reference # r /\ worker[x].reference \in References
      BY <2>1, <2>2, <2>5, <3>1, OwingTask DEF BooksInv, OwingOK
    <3> QED BY <2>3, <3>1, <3>2 DEF DebitedInFull
  <2> QED BY <2>3, <2>4, <2>5 DEF DebitedInFull
<1>3. CASE Request
  <2>1. PICK w \in Workers : ServiceStep(w)
    BY <1>3 DEF Request
  <2>2. \/ WithdrawDebit(w)
        \/ debited' = debited /\ \A x \in Workers : worker'[x] = worker[x] \/ worker'[x].step # "debited"
    <3>1. CASE \E r \in References : WithdrawSend(w, r)
      BY <3>1, TaskType DEF WithdrawSend, At, Task, Tasks, ledgerVars
    <3>2. CASE ~\E r \in References : WithdrawSend(w, r)
      BY <2>1, <3>2 DEF ServiceStep, FundInitialize, FundTimesOut, FundRecord, TransferCheck,
         TransferCommit, WithdrawCheck, WithdrawTimesOut, WithdrawRecord, RejectRequest,
         RequestFails, Begin, Finish, Idle, ledgerVars
    <3> QED BY <3>1, <3>2
  <2> QED BY <1>1, <1>2, <2>1, <2>2
<1>4. CASE ~Request
  <2>1. debited' = debited /\ (worker' = worker \/ worker' = [x \in Workers |-> Idle])
    BY <1>4, CommitEffect DEF Next, Provider, Webhook, WebhookError, Deliver, Handle, AnswerAtOnce,
       LoadWebhook, NotFound, AnswerRepeated, WebhookFails, Crash, vars, ledgerVars, serviceVars
  <2> QED BY <1>1, <2>1 DEF Idle
<1> QED BY <1>3, <1>4

-----------------------------------------------------------------------------
(* FundInitialize, FundTimesOut, WithdrawSend, WithdrawTimesOut: the POST. *)
(* The reference had no row and no request, and has no row now.            *)
LEMMA FreshClaim ==
  ASSUME TypeOK, BooksInv, NEW r \in References, Fresh(r), transactions' = transactions
  PROVE  /\ Claim(r) = NoClaim /\ BookedRows(r)' = {}
         /\ \A w \in Owing : worker[w].reference # r
<1>1. RowsOf(r) = {} /\ ~Known(r) /\ \A w \in Owing : worker[w].reference # r
  BY FreshUnused DEF Known
<1>2. OpenTasks(r) = {} /\ BookedRows(r) = {}
  BY <1>1 DEF OpenTasks, BookedRows
<1>3. BookedRows(r)' = {}
  BY <1>1 DEF BookedRows, RowsOf
<1> QED BY <1>1, <1>2, <1>3, ClaimForms DEF Claim

LEMMA AskedClaims ==
  ASSUME TypeOK, BooksInv, NEW w \in Workers, w \notin Owing, NEW r \in References, Fresh(r),
         transactions' = transactions,
         \A x \in Workers : x # w => worker'[x] = worker[x],
         \A q \in References \ {r} : Known(q)' = Known(q),
         \/ w \notin Owing'
         \/ w \in Owing' /\ worker'[w].reference = r /\ worker'[w].user \in WalletOwners
  PROVE  /\ w \notin Owing' => Claims' = Claims
         /\ w \in Owing' => \E u \in WalletOwners :
              Claims' = [Claims EXCEPT ![r] = ClaimOf("open", u, worker'[w].amount)]
<1>1. /\ Claim(r) = NoClaim /\ BookedRows(r)' = {}
      /\ \A x \in Owing : worker[x].reference # r
  BY FreshClaim
<1>2. ASSUME NEW q \in References \ {r} PROVE Claim(q)' = Claim(q)
  <2>1. BookedRows(q)' = BookedRows(q)
    BY <1>2 DEF BookedRows, RowsOf
  <2>2. OpenTasks(q)' = OpenTasks(q)
    BY OthersKeepTasks
  <2> QED BY <2>1, <2>2, ClaimKept
<1>3. CASE w \notin Owing'
  <2>1. OpenTasks(r)' = {}
    BY <1>1, <1>3 DEF OpenTasks, Owing
  <2>2. Claim(r)' = NoClaim
    BY <1>1, <2>1, ClaimForms DEF Claim
  <2>3. \A q \in References : Claim(q)' = Claim(q)
    BY <1>1, <1>2, <2>2
  <2> QED BY <1>3, <2>3 DEF Claims
<1>4. CASE w \in Owing' /\ worker'[w].reference = r /\ worker'[w].user \in WalletOwners
  <2>1. \A x : x \in Owing' /\ worker'[x].reference = r <=> x = w
    BY <1>1, <1>4 DEF Owing
  <2>2. OpenTasks(r)' = {worker'[w]}
    BY <2>1 DEF OpenTasks
  <2>3. Claim(r)' = ClaimOf("open", worker'[w].user, worker'[w].amount)
    BY <1>1, <2>2, ClaimForms DEF Claim
  <2>4. Claims' = [Claims EXCEPT ![r] = ClaimOf("open", worker'[w].user, worker'[w].amount)]
    BY <1>2, <2>3 DEF Claims
  <2> QED BY <1>4, <2>4
<1> QED BY <1>3, <1>4

LEMMA ChargeAsked ==
  ASSUME TypeOK, NEW r \in References, NEW k \in Nat, AcceptCharge(r, k)
  PROVE  /\ Purposes[r] = "none" /\ Purposes' = [Purposes EXCEPT ![r] = "charge"]
         /\ Asks' = [Asks EXCEPT ![r] = k]
         /\ Dues' = Dues
         /\ \A q \in References \ {r} : Known(q)' = Known(q)
BY DEF AcceptCharge, Unknown, Purposes, Purpose, Asks, Asked, Dues, CameBack, Known, Charged,
   PaidOut, TypeOK, PaystackTypeOK

LEMMA PayoutAsked ==
  ASSUME TypeOK, NEW r \in References, NEW k \in Nat, AcceptPayout(r, k)
  PROVE  /\ Purposes[r] = "none" /\ Purposes' = [Purposes EXCEPT ![r] = "payout"]
         /\ Asks' = Asks
         /\ Dues' = Dues
         /\ \A q \in References \ {r} : Known(q)' = Known(q)
BY DEF AcceptPayout, Unknown, Purposes, Purpose, Asks, Asked, Dues, CameBack, Known, Charged,
   PaidOut, TypeOK, PaystackTypeOK

LEMMA PostAsks ==
  ASSUME TypeOK, BooksInv, NEW w \in Workers, NEW r \in References,
         \/ \E u \in WalletOwners, a \in Amounts : FundInitialize(w, u, a, r)
         \/ \E a \in Amounts : FundTimesOut(w, a, r)
         \/ WithdrawSend(w, r)
         \/ WithdrawTimesOut(w, r)
  PROVE  \E a \in Amounts : Contract!AskCharge(r, a) \/ Contract!AskPayout(r, a)
<1> USE DEF TypeOK, ServiceTypeOK
<1>1. /\ Fresh(r) /\ UNCHANGED <<balance, transactions, credits, debited>>
      /\ w \notin Owing
      /\ \A x \in Workers : x # w => worker'[x] = worker[x]
  BY DEF FundInitialize, FundTimesOut, WithdrawSend, WithdrawTimesOut, Begin, Finish, At, Owing,
     LateSteps, ledgerVars
<1>2. \A a \in Amounts : a * 100 \in Nat /\ PayoutKobo(a) \in Nat
  BY AmountsAssumption DEF PayoutKobo
<1>3. ASSUME NEW a \in Amounts, AcceptCharge(r, a * 100),
             \/ w \notin Owing'
             \/ w \in Owing' /\ worker'[w].reference = r /\ worker'[w].user \in WalletOwners
                             /\ worker'[w].amount = a
      PROVE  Contract!AskCharge(r, a)
  <2>1. /\ Purposes[r] = "none" /\ Purposes' = [Purposes EXCEPT ![r] = "charge"]
        /\ Asks' = [Asks EXCEPT ![r] = a * 100] /\ Dues' = Dues
        /\ \A q \in References \ {r} : Known(q)' = Known(q)
    BY <1>2, <1>3, ChargeAsked
  <2>2. \/ Claims' = Claims
        \/ \E u \in WalletOwners : Claims' = [Claims EXCEPT ![r] = ClaimOf("open", u, a)]
    <3>1. CASE w \notin Owing'
      BY <1>1, <2>1, <3>1, AskedClaims
    <3>2. CASE w \in Owing'
      BY <1>1, <1>3, <2>1, <3>2, AskedClaims
    <3> QED BY <3>1, <3>2
  <2> QED BY <1>1, <2>1, <2>2 DEF Contract!AskCharge, Contract!Opened, Contract!ClaimOf, ClaimOf
<1>4. ASSUME NEW a \in Amounts, AcceptPayout(r, PayoutKobo(a)),
             \/ w \notin Owing'
             \/ w \in Owing' /\ worker'[w].reference = r /\ worker'[w].user \in WalletOwners
                             /\ worker'[w].amount = a
      PROVE  Contract!AskPayout(r, a)
  <2>1. /\ Purposes[r] = "none" /\ Purposes' = [Purposes EXCEPT ![r] = "payout"]
        /\ Asks' = Asks /\ Dues' = Dues
        /\ \A q \in References \ {r} : Known(q)' = Known(q)
    BY <1>2, <1>4, PayoutAsked
  <2>2. \/ Claims' = Claims
        \/ \E u \in WalletOwners : Claims' = [Claims EXCEPT ![r] = ClaimOf("open", u, a)]
    <3>1. CASE w \notin Owing'
      BY <1>1, <2>1, <3>1, AskedClaims
    <3>2. CASE w \in Owing'
      BY <1>1, <1>4, <2>1, <3>2, AskedClaims
    <3> QED BY <3>1, <3>2
  <2> QED BY <1>1, <2>1, <2>2 DEF Contract!AskPayout, Contract!Opened, Contract!ClaimOf, ClaimOf
<1>5. ASSUME NEW u \in WalletOwners, NEW a \in Amounts, FundInitialize(w, u, a, r)
      PROVE  Contract!AskCharge(r, a)
  <2>1. AcceptCharge(r, a * 100) /\ worker'[w].reference = r /\ worker'[w].user = u
        /\ worker'[w].amount = a /\ worker'[w].step = "initialized"
    BY <1>5 DEF FundInitialize, Begin
  <2> QED BY <1>3, <2>1 DEF Owing, LateSteps
<1>6. ASSUME NEW a \in Amounts, FundTimesOut(w, a, r)
      PROVE  Contract!AskCharge(r, a)
  <2>1. AcceptCharge(r, a * 100) /\ w \notin Owing'
    BY <1>1, <1>6 DEF FundTimesOut, Owing
  <2> QED BY <1>3, <2>1
<1>7. ASSUME WithdrawSend(w, r) \/ WithdrawTimesOut(w, r)
      PROVE  \E a \in Amounts : Contract!AskPayout(r, a)
  <2>1. worker[w] \in Task
    BY <1>7, TaskType DEF WithdrawSend, WithdrawTimesOut, At
  <2>2. worker[w].amount \in Amounts /\ worker[w].user \in WalletOwners
    BY <2>1, TaskFields
  <2>3. AcceptPayout(r, PayoutKobo(worker[w].amount))
    BY <1>7 DEF WithdrawSend, WithdrawTimesOut
  <2>4. CASE WithdrawSend(w, r)
    <3>1. /\ worker'[w].reference = r /\ worker'[w].step = "sent"
          /\ worker'[w].user = worker[w].user /\ worker'[w].amount = worker[w].amount
      BY <2>1, <2>4 DEF WithdrawSend, Task, Tasks
    <3> QED BY <1>4, <2>2, <2>3, <3>1 DEF Owing, LateSteps
  <2>5. CASE WithdrawTimesOut(w, r)
    <3>1. w \notin Owing'
      BY <2>5 DEF WithdrawTimesOut, Finish, Idle, Owing, LateSteps
    <3> QED BY <1>4, <2>2, <2>3, <3>1
  <2> QED BY <1>7, <2>4, <2>5
<1> QED BY <1>5, <1>6, <1>7

(* FundRecord, WithdrawRecord: the request's claim becomes that of the row *)
LEMMA RecordBooks ==
  ASSUME TypeOK, BooksInv, DebitedInFull, NEW w \in Workers, FundRecord(w) \/ WithdrawRecord(w)
  PROVE  \E r \in References : Contract!Book(r)
<1> USE DEF TypeOK, ServiceTypeOK, LedgerTypeOK
<1>1. w \in Owing /\ (At(w, "initialized") \/ At(w, "debited"))
  BY DEF FundRecord, WithdrawRecord, At, Owing, LateSteps
<1>2. PICK r \in References : worker[w].reference = r
  BY <1>1, OwingTask
<1> DEFINE t == NewTransaction(worker[w], r)
<1>3. /\ transactions' = transactions \cup {t}
      /\ worker' = [worker EXCEPT ![w] = Idle]
      /\ UNCHANGED <<balance, credits, debited, charge, payout, kobo>>
  BY <1>2 DEF FundRecord, WithdrawRecord, Finish, paystackVars
<1>4. t.reference = r /\ t.userId = worker[w].user /\ t.amount = worker[w].amount
  BY DEF NewTransaction
<1> HIDE DEF t
<1>5. /\ BookedRows(r) = {} /\ OpenTasks(r) = {worker[w]}
      /\ Claim(r) = ClaimOf("open", worker[w].user, worker[w].amount)
  BY <1>1, <1>2, TaskOpens
<1>6. Known(r) /\ RowsOf(r) = {}
  BY <1>1, <1>2 DEF BooksInv, OwingOK, RowToCome, Known, At
<1>7. BookedRows(r)' = {t}
  BY <1>3, <1>4, <1>6, PaystackKept DEF BookedRows, RowsOf
<1>8. Claim(r)' = ClaimOf("booked", worker[w].user, worker[w].amount)
  BY <1>4, <1>7, ClaimForms DEF Claim
<1>9. ASSUME NEW q \in References \ {r} PROVE Claim(q)' = Claim(q)
  <2>1. BookedRows(q)' = BookedRows(q)
    BY <1>3, <1>4, PaystackKept DEF BookedRows, RowsOf
  <2>2. w \notin Owing' /\ \A x \in Workers : x # w => worker'[x] = worker[x]
    BY <1>3 DEF Owing, Idle, LateSteps
  <2>3. OpenTasks(q)' = OpenTasks(q)
    BY <1>2, <2>2, OthersKeepTasks
  <2> QED BY <2>1, <2>3, ClaimKept
<1>10. Claims' = [Claims EXCEPT ![r] = ClaimOf("booked", worker[w].user, worker[w].amount)]
  BY <1>8, <1>9 DEF Claims
<1>11. Claims[r] = ClaimOf("open", worker[w].user, worker[w].amount)
  BY <1>5 DEF Claims
<1>12. Purposes[r] = "payout" => debited[r] = worker[w].amount
  <2>1. CASE At(w, "initialized")
    BY <1>1, <1>2, <2>1 DEF BooksInv, OwingOK, RowToCome, Purposes, Purpose, At
  <2>2. CASE At(w, "debited")
    BY <1>2, <2>2 DEF DebitedInFull
  <2> QED BY <1>1, <2>1, <2>2
<1>13. Purposes' = Purposes /\ Asks' = Asks /\ Dues' = Dues
  BY <1>3, PaystackKept
<1>14. /\ Claims[r].state = "open" /\ Claims[r].amount = worker[w].amount
       /\ Claims' = [Claims EXCEPT ![r] = ClaimOf("booked", @.user, @.amount)]
  <2>1. /\ Claims[r].state = "open" /\ Claims[r].amount = worker[w].amount
        /\ Claims[r].user = worker[w].user
    BY <1>11 DEF ClaimOf
  <2> QED BY <1>10, <2>1, Zenon
<1> QED BY <1>3, <1>12, <1>13, <1>14 DEF Contract!Book, Contract!ClaimOf, ClaimOf

(* WithdrawDebit: the claim stays with the request *)
LEMMA DebitTakes ==
  ASSUME TypeOK, BooksInv, DebitedOnce, NEW w \in Workers, WithdrawDebit(w)
  PROVE  \E r \in References : Contract!Debit(r)
<1> USE DEF TypeOK, ServiceTypeOK, LedgerTypeOK
<1> DEFINE u == worker[w].user
           a == worker[w].amount
<1>1. w \in Owing /\ At(w, "sent")
  BY DEF WithdrawDebit, At, Owing, LateSteps
<1>2. PICK r \in References : worker[w].reference = r
  BY <1>1, OwingTask
<1>3. /\ balance' = Increment(balance, u, -a)
      /\ debited' = [debited EXCEPT ![r] = a]
      /\ worker' = [worker EXCEPT ![w].step = "debited"]
      /\ UNCHANGED <<transactions, credits, charge, payout, kobo>>
  BY <1>2 DEF WithdrawDebit, paystackVars
<1>4. /\ worker'[w].step = "debited" /\ worker'[w].reference = r
      /\ worker'[w].user = u /\ worker'[w].amount = a
      /\ \A x \in Workers : x # w => worker'[x] = worker[x]
  BY <1>1, <1>2, <1>3, OwingTask DEF Task, Tasks
<1>5. BookedRows(r) = {} /\ OpenTasks(r) = {worker[w]} /\ Claim(r) = ClaimOf("open", u, a)
  BY <1>1, <1>2, TaskOpens
<1>6. Claim(r)' = ClaimOf("open", u, a)
  <2>1. BookedRows(r)' = {}
    BY <1>3, <1>5, PaystackKept DEF BookedRows, RowsOf
  <2>2. \A x : x \in Owing' /\ worker'[x].reference = r <=> x = w
    BY <1>1, <1>2, <1>4 DEF Owing, LateSteps, BooksInv, OwingOK
  <2>3. OpenTasks(r)' = {worker'[w]}
    BY <2>2 DEF OpenTasks
  <2> QED BY <1>4, <2>1, <2>3, ClaimForms DEF Claim
<1>7. ASSUME NEW q \in References \ {r} PROVE Claim(q)' = Claim(q)
  <2>1. BookedRows(q)' = BookedRows(q)
    BY <1>3, PaystackKept DEF BookedRows, RowsOf
  <2>2. OpenTasks(q)' = OpenTasks(q)
    BY <1>2, <1>4, OthersKeepTasks
  <2> QED BY <2>1, <2>2, ClaimKept
<1>8. Claims' = Claims
  BY <1>5, <1>6, <1>7 DEF Claims
<1>9. Purposes' = Purposes /\ Asks' = Asks /\ Dues' = Dues
  BY <1>3, PaystackKept
<1>10. Purposes[r] = "payout"
  BY <1>1, <1>2 DEF BooksInv, OwingOK, OnePurpose, RowToCome, Purposes, Purpose, At
<1>11. debited[r] = 0
  BY <1>1, <1>2 DEF DebitedOnce
<1>12. Claims[r].state = "open" /\ Claims[r].user = u /\ Claims[r].amount = a
  BY <1>5, ClaimStates DEF Claims
<1> HIDE DEF u, a
<1>13. /\ balance' = Increment(balance, Claims[r].user, -Claims[r].amount)
       /\ debited' = [debited EXCEPT ![r] = Claims[r].amount]
  BY <1>3, <1>12
<1>14. \A b, v, n : Contract!Increment(b, v, n) = Increment(b, v, n)
  BY DEF Contract!Increment, Increment
<1> QED BY <1>3, <1>8, <1>9, <1>10, <1>11, <1>12, <1>13, <1>14 DEF Contract!Debit

(* TransferCommit: Paystack does not know the reference of its rows, and   *)
(* its request owes Paystack none                                          *)
LEMMA TransferMoves ==
  ASSUME TypeOK, BooksInv, NEW w \in Workers, NEW r \in References, TransferCommit(w, r)
  PROVE  \E u \in WalletOwners, v \in Users, a \in Amounts : Contract!Transfer(u, v, a)
<1> USE DEF TypeOK, ServiceTypeOK, LedgerTypeOK
<1> DEFINE t == worker[w]
<1>1. t \in Task /\ w \notin Owing
  BY TaskType DEF TransferCommit, At, Owing, LateSteps
<1>2. t.user \in WalletOwners /\ t.receiver \in Users /\ t.amount \in Amounts
  BY <1>1, TaskFields
<1>3. /\ balance' = Increment(Increment(balance, t.user, -t.amount), t.receiver, t.amount)
      /\ Fresh(r)
      /\ transactions' = transactions \cup NewTransfer(t, r)
      /\ worker' = [worker EXCEPT ![w] = Idle]
      /\ UNCHANGED <<credits, debited, charge, payout, kobo>>
  BY DEF TransferCommit, Finish, paystackVars
<1>4. \A s \in NewTransfer(t, r) : s.reference = r
  BY DEF NewTransfer
<1> HIDE DEF t
<1>5. ~Known(r)
  BY <1>3, FreshUnused DEF Known
<1>6. w \notin Owing' /\ \A x \in Workers : x # w => worker'[x] = worker[x]
  BY <1>3 DEF Owing, Idle, LateSteps
<1>7. ASSUME NEW q \in References PROVE Claim(q)' = Claim(q)
  <2>1. Known(q)' = Known(q)
    BY <1>3, PaystackKept
  <2>2. q # r => RowsOf(q)' = RowsOf(q)
    BY <1>3, <1>4 DEF RowsOf
  <2>3. BookedRows(q)' = BookedRows(q)
    BY <1>5, <2>1, <2>2 DEF BookedRows
  <2>4. OpenTasks(q)' = OpenTasks(q)
    BY <1>1, <1>6, OthersKeepTasks
  <2> QED BY <2>3, <2>4, ClaimKept
<1>8. Claims' = Claims
  BY <1>7 DEF Claims
<1>9. Purposes' = Purposes /\ Asks' = Asks /\ Dues' = Dues
  BY <1>3, PaystackKept
<1>10. \A b, v, n : Contract!Increment(b, v, n) = Increment(b, v, n)
  BY DEF Contract!Increment, Increment
<1>11. Contract!Transfer(t.user, t.receiver, t.amount)
  BY <1>3, <1>8, <1>9, <1>10 DEF Contract!Transfer
<1> QED BY <1>2, <1>11

(* RequestFails, Crash: the requests in W end, and their claims are lost   *)
LEMMA EndLoses ==
  ASSUME TypeOK, BooksInv, NEW W \in SUBSET Workers,
         worker' = [x \in Workers |-> IF x \in W THEN Idle ELSE worker[x]],
         UNCHANGED <<ledgerVars, charge, payout, kobo>>
  PROVE  \E R \in SUBSET References : Contract!Lose(R)
<1> DEFINE R == {worker[x].reference : x \in W \cap Owing}
<1>1. R \in SUBSET References
  BY OwingTask
<1>2. \A x : x \in Owing' <=> x \in Owing /\ x \notin W
  BY DEF Owing, Idle, LateSteps
<1>3. \A q : BookedRows(q)' = BookedRows(q)
  BY PaystackKept DEF BookedRows, RowsOf, ledgerVars
<1>4. ASSUME NEW q \in R PROVE Claim(q).state = "open" /\ Claim(q)' = NoClaim
  <2>1. PICK x \in W \cap Owing : worker[x].reference = q
    OBVIOUS
  <2>2. BookedRows(q) = {} /\ Claim(q).state = "open"
    BY <1>1, <2>1, TaskOpens, ClaimStates
  <2>3. \A y \in Owing' : worker'[y].reference # q
    BY <1>2, <2>1 DEF BooksInv, OwingOK, Owing
  <2>4. OpenTasks(q)' = {}
    BY <2>3 DEF OpenTasks
  <2> QED BY <1>3, <2>2, <2>4, ClaimForms DEF Claim
<1>5. ASSUME NEW q \in References \ R PROVE Claim(q)' = Claim(q)
  <2>1. \A x : x \in Owing /\ worker[x].reference = q => x \notin W
    OBVIOUS
  <2>2. \A x \in Owing' : worker'[x] = worker[x]
    BY <1>2 DEF Owing
  <2>3. OpenTasks(q)' = OpenTasks(q)
    BY <1>2, <2>1, <2>2 DEF OpenTasks
  <2> QED BY <1>3, <2>3, ClaimKept
<1> HIDE DEF R
<1>6. Claims' = [q \in References |-> IF q \in R THEN NoClaim ELSE Claims[q]]
  BY <1>4, <1>5 DEF Claims
<1>7. \A q \in R : Claims[q].state = "open"
  BY <1>1, <1>4 DEF Claims
<1>8. Purposes' = Purposes /\ Asks' = Asks /\ Dues' = Dues
  BY PaystackKept
<1>9. Contract!Lose(R)
  BY <1>6, <1>7, <1>8 DEF Contract!Lose, Contract!NoClaim, NoClaim, ledgerVars
<1> QED BY <1>1, <1>9

(* The customer pays, or a payout moves *)
LEMMA ProviderComesDue ==
  ASSUME TypeOK, BooksInv, Provider
  PROVE  \/ \E r \in References : Contract!ComeDue(r)
         \/ UNCHANGED Contract!contractVars
<1> USE DEF TypeOK, PaystackTypeOK
<1>1. UNCHANGED <<balance, transactions, credits, debited, kobo, worker>>
  BY DEF Provider, CustomerPays, PayoutSucceeds, PayoutFails, PayoutReversed, PayoutMoves,
     ledgerVars, serviceVars
<1>2. ASSUME \A r \in References : (Charged(r)' <=> Charged(r)) /\ (PaidOut(r)' <=> PaidOut(r))
      PROVE  Purposes' = Purposes /\ Asks' = Asks /\ Claims' = Claims
  <2>1. Purposes' = Purposes /\ Asks' = Asks
    BY <1>1, <1>2 DEF Purposes, Purpose, Asks, Asked
  <2>2. ASSUME NEW r \in References PROVE Claim(r)' = Claim(r)
    <3>1. BookedRows(r)' = BookedRows(r)
      BY <1>1, <1>2 DEF BookedRows, RowsOf, Known
    <3>2. OpenTasks(r)' = OpenTasks(r)
      BY <1>1 DEF OpenTasks, Owing
    <3> QED BY <3>1, <3>2, ClaimKept
  <2> QED BY <2>1, <2>2 DEF Claims
<1>3. ASSUME NEW r \in References, r \in urls, CustomerPays(r) PROVE Contract!ComeDue(r)
  <2>1. /\ charge[r] = "initialized" /\ payout[r] = "none"
        /\ charge' = [charge EXCEPT ![r] = "paid"] /\ payout' = payout
    BY <1>3 DEF CustomerPays, BooksInv, OnePurpose, Charged, PaidOut
  <2>2. Purposes' = Purposes /\ Asks' = Asks /\ Claims' = Claims
    BY <1>2, <2>1 DEF Charged, PaidOut
  <2>3. r \notin Dues /\ Dues' = Dues \cup {r}
    BY <2>1 DEF Dues, CameBack
  <2>4. Known(r) /\ Purposes[r] = "charge" /\ Asks[r] = kobo[r]
    BY <2>1 DEF Known, Purposes, Purpose, Asks, Asked, Charged
  <2>5. PICK t : t \in RowsOf(r) /\ t.amount * 100 = kobo[r]
    BY <1>3, <2>1 DEF BooksInv, CheckoutOK, RowsOK, RowsOf, Charged
  <2>6. Claims[r].state = "booked" /\ Claims[r].amount = t.amount
    <3>1. WebhookRowUnique
      BY DEF BooksInv
    <3> QED BY <2>4, <2>5, <3>1, RowBooks, ClaimStates DEF Claims
  <2> QED BY <1>1, <2>2, <2>3, <2>4, <2>5, <2>6 DEF Contract!ComeDue
<1>4. ASSUME NEW r \in References, PayoutFails(r) \/ PayoutReversed(r) PROVE Contract!ComeDue(r)
  <2>1. PICK to \in {"failed", "reversed"} :
          /\ payout[r] \in {"pending", "success"} /\ charge[r] = "none"
          /\ payout' = [payout EXCEPT ![r] = to] /\ charge' = charge
    BY <1>4 DEF PayoutFails, PayoutReversed, PayoutMoves, BooksInv, OnePurpose, Charged, PaidOut
  <2>2. Purposes' = Purposes /\ Asks' = Asks /\ Claims' = Claims
    BY <1>2, <2>1 DEF Charged, PaidOut
  <2>3. r \notin Dues /\ Dues' = Dues \cup {r}
    BY <2>1 DEF Dues, CameBack
  <2>4. Purposes[r] = "payout"
    BY <2>1 DEF Purposes, Purpose, Charged, PaidOut
  <2> QED BY <1>1, <2>2, <2>3, <2>4 DEF Contract!ComeDue
<1>5. ASSUME NEW r \in References, PayoutSucceeds(r) PROVE UNCHANGED Contract!contractVars
  <2>1. /\ payout[r] = "pending"
        /\ payout' = [payout EXCEPT ![r] = "success"] /\ charge' = charge
    BY <1>5 DEF PayoutSucceeds, PayoutMoves
  <2>2. Purposes' = Purposes /\ Asks' = Asks /\ Claims' = Claims
    BY <1>2, <2>1 DEF Charged, PaidOut
  <2>3. Dues' = Dues
    BY <2>1 DEF Dues, CameBack
  <2> QED BY <1>1, <2>2, <2>3 DEF Contract!contractVars
<1> QED BY <1>3, <1>4, <1>5 DEF Provider

(* A commit credits the claim that was booked, which the row it saves      *)
(* still is                                                                *)
LEMMA CommitCreditsClaim ==
  ASSUME TypeOK, BooksInv, CreditsInFlight, NEW h \in Handlers, Commit(h), UNCHANGED serviceVars
  PROVE  \/ \E r \in References : Contract!Credit(r)
         \/ UNCHANGED Contract!contractVars
<1> USE DEF TypeOK, LedgerTypeOK
<1> DEFINE row == handler[h].row
<1>1. PICK r \in References : row.reference = r
  BY CommitCredits
<1>2. Loaded(h) /\ Happened(handler[h].event, r) /\ UNCHANGED <<debited, charge, payout, kobo>>
  BY <1>1, CommitCredits, CommitEffect DEF paystackVars
<1>3. Purposes' = Purposes /\ Asks' = Asks /\ Dues' = Dues
  BY <1>2, PaystackKept
<1>4. /\ Known(r)
      /\ \E t : RowsOf(r) = {t} /\ SavedAs(row, t)
      /\ \E t : RowsOf(r)' = {t} /\ SavedAs(row, t)
      /\ \A q : q # r => RowsOf(q)' = RowsOf(q)
  BY <1>1, CommitSavesRow
<1> HIDE DEF row
<1>5. Claim(r) = ClaimOf("booked", row.userId, row.amount) /\ Claim(r)' = Claim(r)
  <2>1. PICK t : RowsOf(r) = {t} /\ SavedAs(row, t)
    BY <1>4
  <2>2. PICK s : RowsOf(r)' = {s} /\ SavedAs(row, s)
    BY <1>4
  <2>3. BookedRows(r) = {t} /\ BookedRows(r)' = {s}
    BY <1>2, <1>4, <2>1, <2>2, PaystackKept DEF BookedRows
  <2> QED BY <2>1, <2>2, <2>3, ClaimForms DEF Claim, SavedAs
<1>6. ASSUME NEW q \in References \ {r} PROVE Claim(q)' = Claim(q)
  <2>1. BookedRows(q)' = BookedRows(q)
    BY <1>2, <1>4, PaystackKept DEF BookedRows
  <2>2. OpenTasks(q)' = OpenTasks(q)
    BY DEF OpenTasks, Owing, serviceVars
  <2> QED BY <2>1, <2>2, ClaimKept
<1>7. Claims' = Claims
  BY <1>5, <1>6 DEF Claims
<1>8. CASE handler[h].event = "transfer.success"
  <2>1. UNCHANGED <<balance, credits>>
    BY <1>8, CommitEffect
  <2> QED BY <1>2, <1>3, <1>7, <2>1 DEF Contract!contractVars
<1>9. CASE handler[h].event # "transfer.success"
  <2>1. /\ balance' = Increment(balance, row.userId, row.amount)
        /\ credits' = [credits EXCEPT ![r] = @ + 1]
    BY <1>1, <1>9, CommitEffect DEF CreditWallet, row
  <2>2. r \in Dues
    <3>1. handler[h].event \in PaystackEvents
      BY <1>2, DeliveryType DEF Loaded
    <3> QED BY <1>2, <1>9, <3>1 DEF Dues, CameBack, Happened, PaystackEvents
  <2>3. Purposes[r] = "charge" => credits[r] < Cardinality(Handlers)
    <3> SUFFICES ASSUME Charged(r) PROVE credits[r] < Cardinality(Handlers)
      BY DEF Purposes, Purpose
    <3>1. /\ IsFiniteSet(InFlight(r)) /\ Cardinality(InFlight(r)) \in Nat
          /\ Cardinality(InFlight(r)) <= Cardinality(Handlers) /\ Cardinality(Handlers) \in Nat
      BY InFlightFinite
    <3>2. h \in InFlight(r)
      BY <1>1, <1>2 DEF InFlight, row
    <3>3. Cardinality(InFlight(r)) # 0
      BY <3>1, <3>2, FS_EmptySet
    <3>4. credits[r] > 0 => credits[r] + Cardinality(InFlight(r)) <= Cardinality(Handlers)
      BY DEF CreditsInFlight
    <3> QED BY <3>1, <3>3, <3>4
  <2>4. Claims[r].state = "booked" /\ Claims[r].user = row.userId /\ Claims[r].amount = row.amount
    BY <1>5, ClaimStates DEF Claims
  <2>5. \A b, v, n : Contract!Increment(b, v, n) = Increment(b, v, n)
    BY DEF Contract!Increment, Increment
  <2>6. balance' = Contract!Increment(balance, Claims[r].user, Claims[r].amount)
    BY <2>1, <2>4, <2>5
  <2>7. Contract!Credit(r)
    BY <1>2, <1>3, <1>7, <2>1, <2>2, <2>3, <2>4, <2>6 DEF Contract!Credit
  <2> QED BY <2>7
<1> QED BY <1>8, <1>9

LEMMA RequestHonors ==
  ASSUME TypeOK, BooksInv, DebitedOnce, DebitedInFull, Request
  PROVE  Contract!Next \/ UNCHANGED Contract!contractVars
<1> USE DEF TypeOK, ServiceTypeOK
<1>1. PICK w \in Workers : ServiceStep(w)
  BY DEF Request
<1>2. ASSUME NEW r \in References,
             \/ \E u \in WalletOwners, a \in Amounts : FundInitialize(w, u, a, r)
             \/ \E a \in Amounts : FundTimesOut(w, a, r)
             \/ WithdrawSend(w, r)
             \/ WithdrawTimesOut(w, r)
      PROVE  Contract!Next
  <2>1. \E a \in Amounts : Contract!AskCharge(r, a) \/ Contract!AskPayout(r, a)
    BY <1>2, PostAsks
  <2> QED BY <2>1 DEF Contract!Next, Contract!Reference
<1>3. ASSUME FundRecord(w) \/ WithdrawRecord(w) PROVE Contract!Next
  <2>1. \E r \in References : Contract!Book(r)
    BY <1>3, RecordBooks
  <2> QED BY <2>1 DEF Contract!Next, Contract!Reference
<1>4. ASSUME WithdrawDebit(w) PROVE Contract!Next
  <2>1. \E r \in References : Contract!Debit(r)
    BY <1>4, DebitTakes
  <2> QED BY <2>1 DEF Contract!Next, Contract!Reference
<1>5. ASSUME NEW r \in References, TransferCommit(w, r) PROVE Contract!Next
  <2>1. \E u \in WalletOwners, v \in Users, a \in Amounts : Contract!Transfer(u, v, a)
    BY <1>5, TransferMoves
  <2> QED BY <2>1 DEF Contract!Next
<1>6. ASSUME RejectRequest(w) \/ RequestFails(w) PROVE Contract!Next
  <2>1. /\ UNCHANGED <<ledgerVars, charge, payout, kobo>>
        /\ worker' = [x \in Workers |-> IF x \in {w} THEN Idle ELSE worker[x]]
    BY <1>6 DEF RejectRequest, RequestFails, Finish, paystackVars
  <2>2. \E R \in SUBSET References : Contract!Lose(R)
    BY <2>1, EndLoses
  <2> QED BY <2>2 DEF Contract!Next
<1>7. ASSUME \/ \E u \in WalletOwners, v \in Users, a \in Amounts : TransferCheck(w, u, v, a)
             \/ \E u \in WalletOwners, a \in Amounts : WithdrawCheck(w, u, a)
      PROVE  UNCHANGED Contract!contractVars
  <2>1. /\ UNCHANGED <<ledgerVars, charge, payout, kobo>>
        /\ w \notin Owing /\ w \notin Owing' /\ \A x \in Workers : x # w => worker'[x] = worker[x]
    BY <1>7 DEF TransferCheck, WithdrawCheck, Begin, At, Owing, LateSteps, paystackVars
  <2>2. Purposes' = Purposes /\ Asks' = Asks /\ Dues' = Dues
    BY <2>1, PaystackKept
  <2>3. ASSUME NEW r \in References PROVE Claim(r)' = Claim(r)
    <3>1. BookedRows(r)' = BookedRows(r)
      BY <2>1, PaystackKept DEF BookedRows, RowsOf, ledgerVars
    <3>2. OpenTasks(r)' = OpenTasks(r)
      BY <2>1, OthersKeepTasks
    <3> QED BY <3>1, <3>2, ClaimKept
  <2>4. Claims' = Claims
    BY <2>3 DEF Claims
  <2> QED BY <2>1, <2>2, <2>4 DEF Contract!contractVars, ledgerVars
<1> QED BY <1>1, <1>2, <1>3, <1>4, <1>5, <1>6, <1>7 DEF ServiceStep

LEMMA OtherStepsHonor ==
  ASSUME TypeOK, BooksInv, CreditsInFlight, [Next]_vars, ~Request
  PROVE  Contract!Next \/ UNCHANGED Contract!contractVars
<1>1. CASE Provider
  BY <1>1, ProviderComesDue DEF Contract!Next, Contract!Reference
<1>2. ASSUME NEW h \in Handlers, Commit(h), UNCHANGED serviceVars
      PROVE  Contract!Next \/ UNCHANGED Contract!contractVars
  BY <1>2, CommitCreditsClaim DEF Contract!Next, Contract!Reference
<1>3. ASSUME UNCHANGED <<ledgerVars, charge, payout, kobo, worker>>
      PROVE  UNCHANGED Contract!contractVars
  <2>1. Purposes' = Purposes /\ Asks' = Asks /\ Dues' = Dues
    BY <1>3, PaystackKept
  <2>2. Claims' = Claims
    BY <1>3, PaystackKept DEF Claims, Claim, BookedRows, RowsOf, OpenTasks, Owing, ledgerVars
  <2> QED BY <1>3, <2>1, <2>2 DEF Contract!contractVars, ledgerVars
<1>4. CASE Crash
  <2>1. /\ UNCHANGED <<ledgerVars, charge, payout, kobo>>
        /\ worker' = [x \in Workers |-> IF x \in Workers THEN Idle ELSE worker[x]]
    BY <1>4 DEF Crash, paystackVars
  <2>2. \E R \in SUBSET References : Contract!Lose(R)
    BY <2>1, EndLoses
  <2> QED BY <2>2 DEF Contract!Next
<1>5. CASE UNCHANGED vars
  BY <1>3, <1>5 DEF vars, paystackVars, serviceVars
<1>6. ASSUME ~Provider, ~Crash, ~UNCHANGED vars,
             ~\E h \in Handlers : Commit(h) /\ UNCHANGED serviceVars
      PROVE  UNCHANGED <<ledgerVars, charge, payout, kobo, worker>>
  BY <1>6 DEF Next, Webhook, WebhookError, Deliver, Handle, AnswerAtOnce, LoadWebhook, NotFound,
     AnswerRepeated, WebhookFails, Reply, serviceVars, paystackVars
<1> QED BY <1>1, <1>2, <1>3, <1>4, <1>5, <1>6

LEMMA InitHonors == Init => Contract!Init /\ DebitedInFull
<1> SUFFICES ASSUME Init PROVE Contract!Init /\ DebitedInFull
  OBVIOUS
<1> USE DEF Init, LedgerInit, PaystackInit, ServiceInit
<1>1. Owing = {} /\ DebitedInFull
  BY DEF Owing, LateSteps, Idle, DebitedInFull, At
<1>2. ASSUME NEW r \in References
      PROVE  Purpose(r) = "none" /\ Asked(r) = 0 /\ Claim(r) = NoClaim /\ ~CameBack(r)
  <2>1. ~Charged(r) /\ ~PaidOut(r) /\ ~CameBack(r)
    BY DEF Charged, PaidOut, CameBack
  <2>2. BookedRows(r) = {} /\ OpenTasks(r) = {}
    BY <1>1, <2>1 DEF BookedRows, Known, OpenTasks
  <2> QED BY <2>1, <2>2, ClaimForms DEF Purpose, Asked, Claim
<1> QED
  BY <1>1, <1>2 DEF Contract!Init, Contract!NoClaim, NoClaim, Purposes, Asks, Claims, Dues

(* Whatever happens between the first POST and the last webhook, the money *)
(* of a reference goes to the user who asked for it or was debited, in the *)
(* amount he was asked for or debited: the wallet does what PaymentContract *)
(* allows, with any number of requests, deliveries, errors and crashes.    *)
THEOREM WalletHonorsContract == Spec => HonorsContract
<1>1. Init => Contract!Init
  BY InitHonors
<1>2. Init => DebitedInFull
  BY InitHonors
<1>3. TypeOK /\ BooksInv /\ DebitedInFull /\ [Next]_vars => DebitedInFull'
  BY DebitedInFullStep
<1>4. TypeOK /\ BooksInv /\ CreditsInFlight /\ DebitedOnce /\ DebitedInFull /\ [Next]_vars
        => [Contract!Next]_(Contract!contractVars)
  BY RequestHonors, OtherStepsHonor
<1>5. SettledInv => TypeOK /\ BooksInv /\ CreditsInFlight
  BY DEF SettledInv
<1>6. MoneyOK => DebitedOnce
  BY DEF MoneyOK
<1> QED
  BY <1>1, <1>2, <1>3, <1>4, <1>5, <1>6, SettledInductive, MoneyInductive, PTL
     DEF Spec, HonorsContract, Contract!Spec
=============================================================================
