--------------------------- MODULE PaymentsProofs ---------------------------
(***************************************************************************)
(* What the payment handlers guarantee for every set of payments, of        *)
(* handlers, every schedule and every number of faults: refunds stay within *)
(* the payment, a status is never ahead of the journal, an allocation adds  *)
(* up to its payment, a CLOSED loan is clear, and a payment handled by one  *)
(* request at a time is journaled once and, refunded in full, shown so.     *)
(* What the waterfall computes comes from PaymentWaterfallProofs.           *)
(***************************************************************************)
EXTENDS Payments, PaymentWaterfallProofs

\* What a payment's status claims of its records.
PaymentBacked(p) ==
  /\ refunded[p] <= Amount[p]
  /\ payment[p] = "REFUNDED" => refunded[p] = Amount[p]
  /\ p \notin Direct /\ payment[p] \in {"SUCCESS", "REFUNDED"} => journals[p] > 0

\* What a request in flight knows of its payment, and what it is about to write
\* relies on: a refund was admitted on SUCCESS, a full one is on record already,
\* and a confirmation is in the journal before it is marked.
RequestBacked(r) ==
  /\ r.pc = "markFull" => refunded[r.pay] = Amount[r.pay]
  /\ r.pc = "mark" => journals[r.pay] > 0
  /\ r.pc \in {"refund", "markFull", "markPartial"} =>
       r.pay \in Direct \/ journals[r.pay] > 0
  /\ r.pc = "capture" => r.pay \in Direct

Typed ==
  /\ handler \in [Handlers -> Request]
  /\ payment \in [Payments -> Status]
  /\ refunded \in [Payments -> Nat]
  /\ journals \in [Payments -> Nat]

IInv ==
  /\ Typed
  /\ \A p \in Payments : PaymentBacked(p)
  /\ \A h \in Handlers : RequestBacked(handler[h])

LEMMA AmountType == \A p \in Payments : Amount[p] \in Nat
  BY PaymentsAssumption

LEMMA InitIInv == Init => IInv
  <1> SUFFICES ASSUME Init PROVE IInv
    OBVIOUS
  <1>1. AnyPayment \in Payments
    BY PaymentsAssumption DEF AnyPayment
  <1>2. handler \in [Handlers -> Request] /\ \A h \in Handlers : handler[h].pc = "idle"
    BY <1>1 DEF Init, Request
  <1>3. /\ payment \in [Payments -> {"NONE", "PENDING"}]
        /\ refunded = [p \in Payments |-> 0] /\ journals = [p \in Payments |-> 0]
    BY DEF Init
  <1>4. QED
    BY <1>2, <1>3, AmountType DEF IInv, Typed, PaymentBacked, RequestBacked, Status

\* One request moves on, the records of the payments only grow, and both the
\* payments and the request are still backed: then all are.
LEMMA StepKeeps ==
  ASSUME IInv, NEW h \in Handlers, NEW r \in Request,
         handler' = [handler EXCEPT ![h] = r],
         payment' \in [Payments -> Status],
         refunded' \in [Payments -> Nat], journals' \in [Payments -> Nat],
         \A p \in Payments : refunded[p] <= refunded'[p] /\ journals[p] <= journals'[p],
         \A p \in Payments : PaymentBacked(p)',
         /\ r.pc = "markFull" => refunded'[r.pay] = Amount[r.pay]
         /\ r.pc = "mark" => journals'[r.pay] > 0
         /\ r.pc \in {"refund", "markFull", "markPartial"} =>
              r.pay \in Direct \/ journals'[r.pay] > 0
         /\ r.pc = "capture" => r.pay \in Direct
  PROVE  IInv'
  <1>1. Typed'
    BY DEF IInv, Typed
  <1>2. ASSUME NEW g \in Handlers PROVE RequestBacked(handler[g])'
    <2>1. CASE g = h
      <3>1. handler'[g] = r
        BY <2>1 DEF IInv, Typed
      <3>2. QED BY <3>1 DEF RequestBacked
    <2>2. CASE g # h
      <3>1. handler'[g] = handler[g] /\ handler[g] \in Request
        BY <2>2 DEF IInv, Typed
      <3>2. handler[g].pay \in Payments
        BY <3>1 DEF Request
      <3>3. /\ refunded[handler[g].pay] \in Nat /\ journals[handler[g].pay] \in Nat
            /\ refunded'[handler[g].pay] \in Nat /\ journals'[handler[g].pay] \in Nat
            /\ refunded[handler[g].pay] <= refunded'[handler[g].pay]
            /\ journals[handler[g].pay] <= journals'[handler[g].pay]
            /\ refunded'[handler[g].pay] <= Amount[handler[g].pay]
            /\ Amount[handler[g].pay] \in Nat
        BY <3>2, AmountType DEF IInv, Typed, PaymentBacked
      <3>4. RequestBacked(handler[g])
        BY DEF IInv
      <3>5. QED BY <3>1, <3>3, <3>4 DEF RequestBacked
    <2>3. QED BY <2>1, <2>2
  <1>3. QED BY <1>1, <1>2 DEF IInv

\* A request moving on is the same request at another place.
LEMMA GoToType ==
  ASSUME Typed, NEW h \in Handlers, NEW pc, GoTo(h, pc),
         pc \in {"idle", "order", "verify", "decline", "capture", "read",
                 "allocate", "rows", "mark", "refund", "markFull",
                 "markPartial", "reverse", "rollback", "postReversal"}
  PROVE  \E r \in Request : /\ handler' = [handler EXCEPT ![h] = r]
                            /\ r.pc = pc /\ r.pay = handler[h].pay
  <1> DEFINE r == [handler[h] EXCEPT !.pc = pc]
  <1>1. handler[h] \in Request
    BY DEF Typed
  <1>2. r \in Request /\ r.pc = pc /\ r.pay = handler[h].pay
    BY <1>1 DEF Request
  <1>3. handler' = [handler EXCEPT ![h] = r]
    BY DEF GoTo
  <1>4. QED BY <1>2, <1>3

\* A step that touches none of the records the statuses claim, to a place where
\* nothing is relied on.
Unbacked == {"idle", "order", "verify", "decline", "read", "allocate", "rows",
             "reverse", "rollback", "postReversal"}

LEMMA QuietStepKeeps ==
  ASSUME IInv, NEW h \in Handlers, NEW pc \in Unbacked, GoTo(h, pc),
         UNCHANGED <<payment, refunded, journals>>
  PROVE  IInv'
  <1>1. PICK r \in Request : handler' = [handler EXCEPT ![h] = r] /\ r.pc = pc
    BY GoToType DEF IInv, Unbacked
  <1>2. /\ payment' \in [Payments -> Status]
        /\ refunded' \in [Payments -> Nat] /\ journals' \in [Payments -> Nat]
        /\ \A p \in Payments : refunded[p] <= refunded'[p] /\ journals[p] <= journals'[p]
        /\ \A p \in Payments : PaymentBacked(p)'
    BY DEF IInv, Typed, PaymentBacked
  <1>3. QED BY <1>1, <1>2, StepKeeps DEF Unbacked

\* A request is taken up: what is relied on there must hold already.
LEMMA BeginKeeps ==
  ASSUME IInv, NEW h \in Handlers, NEW p \in Payments, NEW a \in Nat,
         NEW kind \in {"initiate", "confirm", "webhook", "capture", "refund", "reverse"},
         NEW pc \in {"order", "verify", "read", "capture", "refund", "reverse"},
         Begin(h, kind, p, a, pc),
         pc = "refund" => payment[p] = "SUCCESS",
         pc = "capture" => p \in Direct,
         UNCHANGED <<payment, refunded, journals>>
  PROVE  IInv'
  <1> DEFINE r == [pc |-> pc, kind |-> kind, pay |-> p, amount |-> a]
  <1>1. r \in Request
    BY DEF Request
  <1>2. handler' = [handler EXCEPT ![h] = r]
    BY DEF Begin
  <1>3. /\ payment' \in [Payments -> Status]
        /\ refunded' \in [Payments -> Nat] /\ journals' \in [Payments -> Nat]
        /\ \A q \in Payments : refunded[q] <= refunded'[q] /\ journals[q] <= journals'[q]
        /\ \A q \in Payments : PaymentBacked(q)'
    BY DEF IInv, Typed, PaymentBacked
  <1>4. pc = "refund" => p \in Direct \/ journals'[p] > 0
    BY DEF IInv, PaymentBacked
  <1>5. r.pc = pc /\ r.pay = p
    OBVIOUS
  <1> HIDE DEF r
  <1>6. QED BY <1>1, <1>2, <1>3, <1>4, <1>5, StepKeeps

\* A status is written by a request that is then done with it, to the status
\* its records back.
LEMMA SetKeeps ==
  ASSUME IInv, NEW h \in Handlers, NEW pc \in Unbacked, GoTo(h, pc),
         NEW status \in Status, SetPayment(Pay(h), status),
         UNCHANGED <<refunded, journals>>,
         status = "REFUNDED" => refunded[Pay(h)] = Amount[Pay(h)],
         status \in {"SUCCESS", "REFUNDED"} =>
           Pay(h) \in Direct \/ journals[Pay(h)] > 0
  PROVE  IInv'
  <1>1. PICK r \in Request : handler' = [handler EXCEPT ![h] = r] /\ r.pc = pc
    BY GoToType DEF IInv, Unbacked
  <1>2. Pay(h) \in Payments
    BY DEF IInv, Typed, Pay, Request
  <1>3. /\ payment' \in [Payments -> Status]
        /\ refunded' \in [Payments -> Nat] /\ journals' \in [Payments -> Nat]
        /\ \A p \in Payments : refunded[p] <= refunded'[p] /\ journals[p] <= journals'[p]
    BY <1>2 DEF IInv, Typed, SetPayment
  <1>4. ASSUME NEW p \in Payments PROVE PaymentBacked(p)'
    <2>1. CASE p = Pay(h)
      <3>1. payment'[p] = status
        BY <2>1 DEF IInv, Typed, SetPayment
      <3>2. QED BY <2>1, <3>1 DEF IInv, PaymentBacked
    <2>2. CASE p # Pay(h)
      <3>1. payment'[p] = payment[p]
        BY <1>2, <2>2 DEF IInv, Typed, SetPayment
      <3>2. QED BY <3>1 DEF IInv, PaymentBacked
    <2>3. QED BY <2>1, <2>2
  <1>5. QED BY <1>1, <1>3, <1>4, StepKeeps DEF Unbacked

\* The journal entry is posted before the payment is marked.
LEMMA JournalKeeps ==
  ASSUME IInv, NEW h \in Handlers, PostJournal(h)
  PROVE  IInv'
  <1>1. CASE ~Balanced(h)
    <2>1. GoTo(h, "idle") /\ UNCHANGED <<payment, refunded, journals>>
      BY <1>1 DEF PostJournal, Finish
    <2>2. QED BY <2>1, QuietStepKeeps DEF Unbacked
  <1>2. CASE Balanced(h)
    <2>1. /\ journals' = [journals EXCEPT ![Pay(h)] = journals[Pay(h)] + 1]
          /\ payment' = payment /\ refunded' = refunded
          /\ \/ GoTo(h, "idle")
             \/ GoTo(h, "mark")
      BY <1>2 DEF PostJournal, Finish
    <2>2. PICK r \in Request : /\ handler' = [handler EXCEPT ![h] = r]
                               /\ r.pc \in {"idle", "mark"} /\ r.pay = Pay(h)
      BY <2>1, GoToType DEF IInv, Pay
    <2>3. Pay(h) \in Payments
      BY DEF IInv, Typed, Pay, Request
    <2>4. /\ payment' \in [Payments -> Status]
          /\ refunded' \in [Payments -> Nat] /\ journals' \in [Payments -> Nat]
          /\ journals'[Pay(h)] > 0
          /\ \A p \in Payments : refunded[p] <= refunded'[p] /\ journals[p] <= journals'[p]
      BY <2>1, <2>3 DEF IInv, Typed
    <2>5. \A p \in Payments : PaymentBacked(p)'
      BY <2>1, <2>3, <2>4 DEF IInv, Typed, PaymentBacked
    <2>6. QED BY <2>2, <2>4, <2>5, StepKeeps
  <1>3. QED BY <1>1, <1>2

\* A refund is recorded only within what is left, so a full one leaves nothing.
LEMMA RefundKeeps ==
  ASSUME IInv, NEW h \in Handlers, PostRefund(h)
  PROVE  IInv'
  <1> DEFINE p == Pay(h)
             a == handler[h].amount
             pc == IF a = Amount[p] - refunded[p] THEN "markFull" ELSE "markPartial"
  <1>1. /\ p \in Payments /\ a \in Nat /\ Amount[p] \in Nat /\ refunded[p] \in Nat
        /\ handler[h].pay = p
    BY AmountType DEF IInv, Typed, Pay, Request
  <1>2. /\ a <= Amount[p] - refunded[p]
        /\ refunded' = [refunded EXCEPT ![p] = refunded[p] + a]
        /\ GoTo(h, pc) /\ UNCHANGED <<payment, journals>>
    BY DEF PostRefund
  <1>3. PICK r \in Request : /\ handler' = [handler EXCEPT ![h] = r]
                             /\ r.pc = pc /\ r.pay = p
    BY <1>1, <1>2, GoToType DEF IInv
  <1>4. p \in Direct \/ journals[p] > 0
    BY <1>1 DEF IInv, RequestBacked, PostRefund, At
  <1> HIDE DEF p, a
  <1>5. /\ payment' \in [Payments -> Status]
        /\ refunded' \in [Payments -> Nat] /\ journals' \in [Payments -> Nat]
        /\ refunded'[p] = refunded[p] + a
        /\ \A q \in Payments : refunded[q] <= refunded'[q] /\ journals[q] <= journals'[q]
    BY <1>1, <1>2 DEF IInv, Typed
  <1>6. ASSUME NEW q \in Payments PROVE PaymentBacked(q)'
    <2>1. CASE q = p
      BY <1>1, <1>2, <1>5, <2>1 DEF IInv, PaymentBacked
    <2>2. CASE q # p
      <3>1. refunded'[q] = refunded[q]
        BY <1>1, <1>2, <2>2 DEF IInv, Typed
      <3>2. QED BY <1>2, <3>1 DEF IInv, PaymentBacked
    <2>3. QED BY <2>1, <2>2
  <1>7. r.pc = "markFull" => refunded'[p] = Amount[p]
    BY <1>1, <1>3, <1>5
  <1>8. r.pc \in {"markFull", "markPartial"}
    BY <1>3
  <1>9. QED BY <1>2, <1>3, <1>4, <1>5, <1>6, <1>7, <1>8, StepKeeps

LEMMA NextKeeps == IInv /\ [Next]_vars => IInv'
  <1> SUFFICES ASSUME IInv, [Next]_vars PROVE IInv'
    OBVIOUS
  <1>1. ASSUME NEW h \in Handlers, NEW p \in Payments,
               \/ StartInitiate(h, p) \/ StartConfirm(h, p) \/ StartReverse(h, p)
        PROVE  IInv'
    <2>1. UNCHANGED <<payment, refunded, journals>>
      BY <1>1 DEF StartInitiate, StartConfirm, StartReverse, books
    <2>2. \/ Begin(h, "initiate", p, 0, "order")
          \/ Begin(h, "confirm", p, 0, "verify")
          \/ Begin(h, "reverse", p, 0, "reverse")
      BY <1>1 DEF StartInitiate, StartConfirm, StartReverse
    <2>3. QED BY <2>1, <2>2, BeginKeeps
  <1>2. ASSUME NEW h \in Handlers, NEW p \in Payments, StartWebhook(h, p) PROVE IInv'
    <2>1. UNCHANGED <<payment, refunded, journals>>
      BY <1>2 DEF StartWebhook, books
    <2>2. \/ handler' = handler
          \/ Begin(h, "webhook", p, 0, "read")
          \/ p \in Direct /\ Begin(h, "capture", p, 0, "capture")
      BY <1>2 DEF StartWebhook
    <2>3. CASE handler' = handler
      BY <2>1, <2>3 DEF IInv, Typed, PaymentBacked, RequestBacked
    <2>4. QED BY <2>1, <2>2, <2>3, BeginKeeps
  <1>3. ASSUME NEW h \in Handlers, NEW p \in Payments, NEW a \in 1..Amount[p],
               StartRefund(h, p, a)
        PROVE  IInv'
    <2>1. a \in Nat
      BY AmountType
    <2>2. QED BY <1>3, <2>1, BeginKeeps DEF StartRefund, books
  <1>4. ASSUME NEW h \in Handlers,
               \/ GatewayPending(h) \/ GatewayAnswers(h) \/ ReadLoan(h)
               \/ WriteLoan(h) \/ RefuseRefund(h) \/ ReadPaidRows(h)
               \/ PostReversal(h) \/ Abort(h)
        PROVE  IInv'
    <2>1. UNCHANGED <<payment, refunded, journals>>
      BY <1>4 DEF GatewayPending, GatewayAnswers, ReadLoan, WriteLoan,
                  RefuseRefund, ReadPaidRows, PostReversal, Abort, books
    <2>2. \E pc \in Unbacked : GoTo(h, pc)
      BY <1>4 DEF GatewayPending, GatewayAnswers, ReadLoan, WriteLoan,
                  RefuseRefund, ReadPaidRows, PostReversal, Abort, Finish, Unbacked
    <2>3. QED BY <2>1, <2>2, QuietStepKeeps
  <1>5. ASSUME NEW h \in Handlers, WriteInstalment(h) \/ StoreRows(h) PROVE IInv'
    <2>1. UNCHANGED <<handler, payment, refunded, journals>>
      BY <1>5 DEF WriteInstalment, StoreRows, books
    <2>2. QED BY <2>1 DEF IInv, Typed, PaymentBacked, RequestBacked
  <1>6. ASSUME NEW h \in Handlers, PostJournal(h) PROVE IInv'
    BY <1>6, JournalKeeps
  <1>7. ASSUME NEW h \in Handlers, PostRefund(h) PROVE IInv'
    BY <1>7, RefundKeeps
  <1>8. ASSUME NEW h \in Handlers,
               CreatePayment(h) \/ MarkFailed(h) \/ ReverseTransaction(h)
        PROVE  IInv'
    <2>1. UNCHANGED <<refunded, journals>>
      BY <1>8 DEF CreatePayment, MarkFailed, ReverseTransaction, books
    <2>2. \E pc \in Unbacked : GoTo(h, pc)
      BY <1>8 DEF CreatePayment, MarkFailed, ReverseTransaction, Finish, Unbacked
    <2>3. \E s \in {"PENDING", "FAILED", "REVERSED"} : SetPayment(Pay(h), s)
      BY <1>8 DEF CreatePayment, MarkFailed, ReverseTransaction
    <2>4. QED BY <2>1, <2>2, <2>3, SetKeeps DEF Status
  <1>9. ASSUME NEW h \in Handlers, CreateCaptured(h) PROVE IInv'
    <2>1. UNCHANGED <<refunded, journals>> /\ Pay(h) \in Direct
      BY <1>9 DEF CreateCaptured, books, IInv, RequestBacked, At, Pay
    <2>2. \/ GoTo(h, "read") /\ SetPayment(Pay(h), "SUCCESS")
          \/ GoTo(h, "idle") /\ UNCHANGED payment
      BY <1>9 DEF CreateCaptured, Finish
    <2>3. QED BY <2>1, <2>2, SetKeeps, QuietStepKeeps DEF Unbacked, Status
  <1>10. ASSUME NEW h \in Handlers, MarkSuccess(h) \/ MarkRefund(h) PROVE IInv'
    <2>1. UNCHANGED <<refunded, journals>> /\ GoTo(h, "idle")
      BY <1>10 DEF MarkSuccess, MarkRefund, Finish, books
    <2>2. RequestBacked(handler[h])
      BY DEF IInv
    <2>3. \/ SetPayment(Pay(h), "SUCCESS")
          \/ SetPayment(Pay(h), "REFUNDED") /\ refunded[Pay(h)] = Amount[Pay(h)]
      BY <1>10, <2>2 DEF MarkSuccess, MarkRefund, RequestBacked, At, Pay
    <2>4. Pay(h) \in Direct \/ journals[Pay(h)] > 0
      BY <1>10, <2>2 DEF MarkSuccess, MarkRefund, RequestBacked, At, Pay
    <2>5. QED BY <2>1, <2>3, <2>4, SetKeeps DEF Unbacked, Status
  <1>11. CASE UNCHANGED vars
    BY <1>11 DEF vars, IInv, Typed, PaymentBacked, RequestBacked
  <1>12. QED
    BY <1>1, <1>2, <1>3, <1>4, <1>5, <1>6, <1>7, <1>8, <1>9, <1>10, <1>11
       DEF Next, Start, Confirmation

LEMMA IInvParts == IInv => RefundsWithinPayment /\ SuccessIsJournaled
  BY DEF IInv, PaymentBacked, RefundsWithinPayment, SuccessIsJournaled

\* However requests overlap and whichever database calls fail, no payment is
\* refunded beyond its amount, and none is shown REFUNDED short of it.
THEOREM RefundsAreSafe == Spec => []RefundsWithinPayment
  <1>1. Spec => []IInv
    BY InitIInv, NextKeeps, PTL DEF Spec
  <1>2. QED BY <1>1, IInvParts, PTL

\* However requests overlap, a payment that was initiated is SUCCESS or REFUNDED
\* only if its repayment is in the journal.
THEOREM StatusFollowsJournal == Spec => []SuccessIsJournaled
  <1>1. Spec => []IInv
    BY InitIInv, NextKeeps, PTL DEF Spec
  <1>2. QED BY <1>1, IInvParts, PTL

-----------------------------------------------------------------------------
\* Types, and what a request's plan is while it is being written.

\* What is left to write is written from a whole schedule, and a reversal has
\* read a whole one; until the journal is
\* posted the plan accounts for the payment; a loan about to be written CLOSED
\* is clear, and one read CLOSED is written CLOSED.
PlanSound(h) ==
  /\ plan[h].touched # <<>> \/ At(h, "rollback") => plan[h].items \in [Instalments -> Item]
  /\ handler[h].pc \in {"allocate", "rows", "mark"} => Balanced(h)
  /\ At(h, "allocate") => plan[h].total = Totals(plan[h].shares)
  /\ At(h, "allocate") => Clear(plan[h].loan)
  /\ At(h, "allocate") /\ plan[h].seen = "CLOSED" => plan[h].loan.status = "CLOSED"

PInv ==
  /\ TypeOK
  /\ Clear(loan)
  /\ \A h \in Handlers : PlanSound(h)

LEMMA NoPlanType ==
  /\ NoPlan \in Plan
  /\ NoPlan.touched = <<>>
  /\ NoPlan.shares = <<>>
<1>1. /\ <<>> \in Seq(Item) /\ <<>> \in Seq(Instalments) /\ <<>> \in Seq(Allocation)
      /\ NothingAllocated \in Allocation
  BY NothingType
<1>2. NoPlan.loan \in Loan
  BY DEF NoPlan, Loan
<1> QED
  BY <1>1, <1>2 DEF NoPlan, Plan

\* What the schedule charges is a number.
LEMMA ScheduledType ==
  ASSUME NEW field \in {"fees", "penalty", "interest", "principal"}
  PROVE  Scheduled(field) \in Nat
<1> DEFINE N == Len(Dues)
           Add(x, n) == x + Dues[n][field]
           G == [x \in Nat \X (1..N) |-> Add(x[1], x[2])]
           Eq(sum) == sum = [n \in 0..N |-> IF n = 0 THEN 0 ELSE Add(sum[n - 1], n)]
<1>1. N \in Nat /\ \A n \in 1..N : Dues[n][field] \in Nat
  BY DuesAssumption, DuesType DEF Instalments, Due
<1>2. \A x \in Nat, n \in 1..N : Add(x, n) \in Nat
  BY <1>1
<1> HIDE DEF Add, N
<1>3. G \in [Nat \X (1..N) -> Nat]
  BY <1>2
<1>4. \A x \in Nat, n \in 1..N : G[<<x, n>>] = Add(x, n)
  OBVIOUS
<1> HIDE DEF G
<1>5. PICK v \in [0..N -> Nat] : Steps(v, G, 0, N)
  BY <1>1, <1>3, Iterated
<1>6. ASSUME NEW n \in 1..N PROVE v[n] = Add(v[n - 1], n)
  <2>1. n - 1 \in 0..N
    BY <1>1
  <2> QED
    BY <1>4, <1>5, <2>1 DEF Steps
<1>7. Eq(v)
  BY <1>1, <1>5, <1>6 DEF Steps
<1>8. PICK sum : Eq(sum) /\ Scheduled(field) = sum[N]
  <2> DEFINE chosen == CHOOSE sum : Eq(sum)
  <2>1. Scheduled(field) = chosen[N]
    BY DEF Scheduled, Add, N
  <2> HIDE DEF Eq
  <2> QED
    BY <1>7, <2>1, Zenon
<1>9. sum[0] = 0
  BY <1>1, <1>8
<1>10. \A n \in 1..N : sum[n] = Add(sum[n - 1], n)
  BY <1>1, <1>8
<1>11. \A n \in 1..N : sum[n - 1] \in Nat => sum[n] \in Nat
  BY <1>2, <1>10
<1>12. \A n \in 0..N : sum[n] \in Nat
  <2>1. sum[0] \in Nat
    BY <1>9
  <2> QED
    BY <1>1, <1>11, <2>1, Stays
<1> QED
  BY <1>1, <1>8, <1>12

\* What is read is planned soundly.
LEMMA AllocateType ==
  ASSUME TypeOK, NEW p \in Payments
  PROVE  Allocate(loan, items, Amount[p]) \in Plan
<1> DEFINE a == Allocate(loan, items, Amount[p])
<1>1. loan \in Loan /\ items \in [Instalments -> Item] /\ Amount[p] \in Nat
  BY AmountType DEF TypeOK
<1>2. /\ a.items \in [Instalments -> Item] /\ a.touched \in Seq(Instalments)
      /\ a.shares \in Seq(Allocation) /\ a.total = Totals(a.shares)
      /\ a.excess \in Nat /\ a.seen = loan.status /\ a.loan = Reduced(loan, a.total)
  BY <1>1, AllocateAddsUp
<1>3. a = [items |-> a.items, touched |-> a.touched, shares |-> a.shares,
           total |-> a.total, excess |-> a.excess, seen |-> a.seen, loan |-> a.loan]
  BY DEF Allocate
<1> HIDE DEF a
<1>4. a.total \in Allocation /\ a.loan \in Loan
  BY <1>1, <1>2, TotalsType, ReducedType
<1>5. a.items \in Seq(Item)
  <2>1. Len(Dues) \in Nat
    BY DuesAssumption
  <2>2. a.items \in [1..Len(Dues) -> Item]
    BY <1>2 DEF Instalments
  <2> QED
    BY <2>1, <2>2
<1>6. a.seen \in {"ACTIVE", "CLOSED"}
  BY <1>1, <1>2 DEF Loan
<1>7. a \in Plan
  BY <1>2, <1>3, <1>4, <1>5, <1>6 DEF Plan
<1> QED
  BY <1>7 DEF a

LEMMA InitPInv == Init => PInv
<1> SUFFICES ASSUME Init PROVE PInv
  OBVIOUS
<1>1. loan \in Loan /\ Clear(loan)
  <2>1. /\ Scheduled("principal") \in Nat /\ Scheduled("fees") \in Nat
        /\ Scheduled("penalty") \in Nat
    BY ScheduledType
  <2> QED
    BY <2>1 DEF Init, Loan, Clear
<1>2. items \in [Instalments -> Item]
  <2>1. ASSUME NEW i \in Instalments PROVE TotalDue(Dues[i]) + Dues[i].penalty \in Nat
    <3>1. Dues[i] \in Due
      BY DuesType
    <3> QED
      BY <3>1 DEF Due, TotalDue
  <2> QED
    BY <2>1 DEF Init, Item
<1>3. AnyPayment \in Payments
  BY PaymentsAssumption DEF AnyPayment
<1>4. /\ handler \in [Handlers -> Request]
      /\ \A h \in Handlers : handler[h].pc = "idle"
  BY <1>3 DEF Init, Request
<1>5. plan \in [Handlers -> Plan] /\ \A h \in Handlers : plan[h] = NoPlan
  BY NoPlanType DEF Init
<1>6. rows \in [Payments -> Allocation]
  BY NothingType DEF Init
<1>7. /\ payment \in [Payments -> Status]
      /\ {journals, reversals, refunded, credited} \subseteq [Payments -> Nat]
      /\ event \in [Payments -> {"new", "processed", "failed"}]
      /\ starts \in 0..MaxStarts /\ faults \in 0..MaxFaults
      /\ disturbed \subseteq Payments
  BY PaymentsAssumption DEF Init, Status
<1>8. TypeOK
  BY <1>1, <1>2, <1>4, <1>5, <1>6, <1>7 DEF TypeOK
<1>9. ASSUME NEW h \in Handlers PROVE PlanSound(h)
  BY <1>4, <1>5, NoPlanType DEF PlanSound, At
<1> QED
  BY <1>1, <1>8, <1>9 DEF PInv

\* How the pieces every handler is made of keep the types.

LEMMA GoToTypes ==
  ASSUME TypeOK, NEW h \in Handlers, NEW pc, GoTo(h, pc),
         pc \in {"idle", "order", "verify", "decline", "capture", "read",
                 "allocate", "rows", "mark", "refund", "markFull",
                 "markPartial", "reverse", "rollback", "postReversal"}
  PROVE  /\ handler' \in [Handlers -> Request]
         /\ handler'[h].pc = pc /\ handler'[h].pay = handler[h].pay
         /\ handler'[h].kind = handler[h].kind
         /\ \A g \in Handlers : g # h => handler'[g] = handler[g]
<1> DEFINE r == [handler[h] EXCEPT !.pc = pc]
<1>1. handler[h] \in Request /\ handler \in [Handlers -> Request]
  BY DEF TypeOK
<1>2. r \in Request /\ r.pc = pc /\ r.pay = handler[h].pay /\ r.kind = handler[h].kind
  BY <1>1 DEF Request
<1> HIDE DEF r
<1>3. handler' = [handler EXCEPT ![h] = r]
  BY DEF GoTo, r
<1> QED
  BY <1>1, <1>2, <1>3

LEMMA PayType ==
  ASSUME TypeOK, NEW h \in Handlers
  PROVE  Pay(h) \in Payments /\ Amount[Pay(h)] \in Nat
BY AmountType DEF TypeOK, Pay, Request

LEMMA FinishTypes ==
  ASSUME TypeOK, NEW h \in Handlers, NEW outcome \in {"processed", "failed"},
         Finish(h, outcome)
  PROVE  /\ handler' \in [Handlers -> Request]
         /\ handler'[h].pc = "idle" /\ handler'[h].pay = handler[h].pay
         /\ \A g \in Handlers : g # h => handler'[g] = handler[g] /\ plan'[g] = plan[g]
         /\ plan' \in [Handlers -> Plan] /\ plan'[h] = NoPlan
         /\ event' \in [Payments -> {"new", "processed", "failed"}]
<1>1. GoTo(h, "idle")
  BY DEF Finish
<1>2. plan \in [Handlers -> Plan] /\ plan' = [plan EXCEPT ![h] = NoPlan]
  BY DEF TypeOK, Finish
<1>3. event' \in [Payments -> {"new", "processed", "failed"}]
  BY PayType DEF TypeOK, Finish
<1> QED
  BY <1>1, <1>2, <1>3, GoToTypes, NoPlanType

LEMMA BeginTypes ==
  ASSUME TypeOK, NEW h \in Handlers, NEW p \in Payments, NEW a \in Nat,
         NEW kind \in {"initiate", "confirm", "webhook", "capture", "refund", "reverse"},
         NEW pc \in {"order", "verify", "read", "capture", "refund", "reverse"},
         Begin(h, kind, p, a, pc)
  PROVE  /\ handler' \in [Handlers -> Request]
         /\ handler'[h].pc = pc /\ handler'[h].pay = p /\ handler'[h].kind = kind
         /\ \A g \in Handlers : g # h => handler'[g] = handler[g]
         /\ starts' \in 0..MaxStarts /\ faults' \in 0..MaxFaults
         /\ disturbed' \subseteq Payments /\ disturbed \subseteq disturbed'
<1> DEFINE r == [pc |-> pc, kind |-> kind, pay |-> p, amount |-> a]
<1>1. r \in Request
  BY DEF Request
<1>2. r.pc = pc /\ r.pay = p /\ r.kind = kind
  OBVIOUS
<1> HIDE DEF r
<1>3. handler' = [handler EXCEPT ![h] = r] /\ handler \in [Handlers -> Request]
  BY DEF Begin, r, TypeOK
<1>4. starts' \in 0..MaxStarts /\ faults' \in 0..MaxFaults
  BY PaymentsAssumption DEF Begin, TypeOK
<1>5. disturbed' \subseteq Payments /\ disturbed \subseteq disturbed'
  BY DEF Begin, TypeOK
<1> QED
  BY <1>1, <1>2, <1>3, <1>4, <1>5

LEMMA SetPaymentTypes ==
  ASSUME TypeOK, NEW p \in Payments, NEW status \in Status, SetPayment(p, status)
  PROVE  /\ payment' \in [Payments -> Status] /\ payment'[p] = status
         /\ \A q \in Payments : q # p => payment'[q] = payment[q]
BY DEF TypeOK, SetPayment

LEMMA LostTypes ==
  ASSUME TypeOK, Lost
  PROVE  faults' \in 0..MaxFaults
BY PaymentsAssumption DEF TypeOK, Lost

\* The plans of the other requests stay sound.
LEMMA PlansKeep ==
  ASSUME PInv, NEW h \in Handlers, TypeOK', Clear(loan)', PlanSound(h)',
         \A g \in Handlers : g # h => handler'[g] = handler[g] /\ plan'[g] = plan[g]
  PROVE  PInv'
<1>1. ASSUME NEW g \in Handlers, g # h PROVE PlanSound(g)'
  <2>1. PlanSound(g) /\ handler'[g] = handler[g] /\ plan'[g] = plan[g]
    BY <1>1 DEF PInv
  <2> QED
    BY <2>1 DEF PlanSound, Balanced, At, Pay
<1> QED
  BY <1>1 DEF PInv

\* A request that is neither allocating nor reversing has a plan that is sound
\* as long as nothing is left to write.
LEMMA OtherPlacesSound ==
  ASSUME PInv, NEW h \in Handlers,
         handler'[h].pc \notin {"allocate", "rows", "mark", "rollback"},
         plan'[h] = plan[h] \/ plan'[h].touched = <<>>
  PROVE  PlanSound(h)'
<1>1. PlanSound(h)
  BY DEF PInv
<1> QED
  BY <1>1 DEF PlanSound, At

LEMMA StartKeepsPlans ==
  ASSUME PInv, NEW h \in Handlers, NEW p \in Payments, NEW a \in 1..Amount[p],
         \/ StartInitiate(h, p) \/ StartConfirm(h, p) \/ StartWebhook(h, p)
         \/ StartRefund(h, p, a) \/ StartReverse(h, p)
  PROVE  PInv'
<1>1. TypeOK /\ Clear(loan) /\ a \in Nat
  BY AmountType DEF PInv
<1>2. UNCHANGED <<loan, items, payment, rows, books>> /\ Clear(loan)'
  BY <1>1 DEF StartInitiate, StartConfirm, StartWebhook, StartRefund, StartReverse, books, Clear
<1>3. CASE handler' = handler
  <2>1. /\ UNCHANGED <<plan, tally>> /\ At(h, "idle")
        /\ event' \in [Payments -> {"new", "processed", "failed"}]
    <3>1. \/ /\ At(h, "idle") /\ UNCHANGED <<tally, plan>>
             /\ event' = [event EXCEPT ![p] = "processed"]
          \/ Begin(h, "initiate", p, 0, "order") \/ Begin(h, "confirm", p, 0, "verify")
          \/ Begin(h, "webhook", p, 0, "read") \/ Begin(h, "capture", p, 0, "capture")
          \/ Begin(h, "refund", p, a, "refund") \/ Begin(h, "reverse", p, 0, "reverse")
      BY DEF StartInitiate, StartConfirm, StartWebhook, StartRefund, StartReverse
    <3>2. ASSUME NEW k \in {"initiate", "confirm", "webhook", "capture", "refund", "reverse"},
                 NEW b \in {0, a},
                 NEW pc \in {"order", "verify", "read", "capture", "refund", "reverse"},
                 Begin(h, k, p, b, pc)
          PROVE  FALSE
      <4>1. handler'[h].pc = pc
        BY <1>1, <3>2, BeginTypes
      <4>2. handler[h].pc = "idle"
        BY <3>2 DEF Begin, At
      <4> QED
        BY <1>3, <4>1, <4>2
    <3>3. At(h, "idle") /\ UNCHANGED <<tally, plan>> /\ event' = [event EXCEPT ![p] = "processed"]
      BY <3>1, <3>2
    <3> QED
      BY <1>1, <3>3 DEF TypeOK
  <2>2. TypeOK'
    BY <1>1, <1>2, <1>3, <2>1 DEF TypeOK, books, tally
  <2> QED
    BY <1>2, <1>3, <2>1, <2>2 DEF PInv, PlanSound, Balanced, At, Pay
<1>4. CASE ~(handler' = handler)
  <2>1. \/ Begin(h, "initiate", p, 0, "order") /\ plan' = plan
        \/ Begin(h, "confirm", p, 0, "verify") /\ plan' = plan
        \/ Begin(h, "webhook", p, 0, "read") /\ plan' = plan
        \/ Begin(h, "capture", p, 0, "capture") /\ plan' = plan
        \/ Begin(h, "refund", p, a, "refund") /\ plan' = plan
        \/ Begin(h, "reverse", p, 0, "reverse")
           /\ plan' = [plan EXCEPT ![h] = [NoPlan EXCEPT !.loan = loan, !.total = rows[p]]]
    BY <1>4 DEF StartInitiate, StartConfirm, StartWebhook, StartRefund, StartReverse
  <2>2. UNCHANGED event
    BY <1>4 DEF StartInitiate, StartConfirm, StartWebhook, StartRefund, StartReverse
  <2>3. /\ handler' \in [Handlers -> Request]
        /\ handler'[h].pc \notin {"allocate", "rows", "mark", "rollback"}
        /\ \A g \in Handlers : g # h => handler'[g] = handler[g]
        /\ starts' \in 0..MaxStarts /\ faults' \in 0..MaxFaults /\ disturbed' \subseteq Payments
    BY <1>1, <2>1, BeginTypes
  <2> DEFINE seen == [NoPlan EXCEPT !.loan = loan, !.total = rows[p]]
  <2>4. seen \in Plan /\ seen.touched = <<>>
    <3>1. loan \in Loan /\ rows[p] \in Allocation
      BY <1>1 DEF TypeOK
    <3> QED
      BY <3>1, NoPlanType DEF Plan
  <2> HIDE DEF seen
  <2>5. plan' = plan \/ plan' = [plan EXCEPT ![h] = seen]
    BY <2>1 DEF seen
  <2>6. /\ plan' \in [Handlers -> Plan]
        /\ plan'[h] = plan[h] \/ plan'[h].touched = <<>>
        /\ \A g \in Handlers : g # h => plan'[g] = plan[g]
    BY <1>1, <2>4, <2>5 DEF TypeOK
  <2>7. TypeOK'
    BY <1>1, <1>2, <2>2, <2>3, <2>6 DEF TypeOK, books
  <2> QED
    BY <1>2, <2>3, <2>6, <2>7, OtherPlacesSound, PlansKeep
<1> QED
  BY <1>3, <1>4

\* A step that only moves the request on, sets its status or loses a call.
LEMMA PlainStepKeepsPlans ==
  ASSUME PInv, NEW h \in Handlers,
         \/ CreatePayment(h) \/ GatewayPending(h) \/ GatewayAnswers(h) \/ MarkFailed(h)
         \/ CreateCaptured(h) \/ MarkSuccess(h) \/ RefuseRefund(h) \/ MarkRefund(h)
         \/ Abort(h)
  PROVE  PInv'
<1>1. TypeOK /\ Clear(loan) /\ Pay(h) \in Payments
  BY PayType DEF PInv
<1>2. UNCHANGED <<loan, items, rows, books>> /\ Clear(loan)'
  BY <1>1 DEF CreatePayment, GatewayPending, GatewayAnswers, MarkFailed, CreateCaptured,
              MarkSuccess, RefuseRefund, MarkRefund, Abort, books, Clear
<1>3. payment' \in [Payments -> Status]
  <2>1. \/ payment' = payment
        \/ \E s \in {"PENDING", "FAILED", "SUCCESS", "REFUNDED"} : SetPayment(Pay(h), s)
    BY DEF CreatePayment, GatewayPending, GatewayAnswers, MarkFailed, CreateCaptured,
           MarkSuccess, RefuseRefund, MarkRefund, Abort
  <2>2. CASE payment' = payment
    BY <1>1, <2>2 DEF TypeOK
  <2> QED
    BY <1>1, <2>1, <2>2, SetPaymentTypes DEF Status
<1>4. starts' = starts /\ faults' \in 0..MaxFaults /\ disturbed' \subseteq Payments
  <2>1. \/ UNCHANGED tally
        \/ starts' = starts /\ Lost /\ disturbed' = disturbed \cup {Pay(h)}
    BY DEF CreatePayment, GatewayPending, GatewayAnswers, MarkFailed, CreateCaptured,
           MarkSuccess, RefuseRefund, MarkRefund, Abort
  <2> QED
    BY <1>1, <2>1, LostTypes DEF TypeOK, tally
<1>5. /\ handler' \in [Handlers -> Request] /\ plan' \in [Handlers -> Plan]
      /\ event' \in [Payments -> {"new", "processed", "failed"}]
      /\ handler'[h].pc \notin {"allocate", "rows", "mark", "rollback"}
      /\ plan'[h] = plan[h] \/ plan'[h].touched = <<>>
      /\ \A g \in Handlers : g # h => handler'[g] = handler[g] /\ plan'[g] = plan[g]
  <2>1. \/ \E o \in {"processed", "failed"} : Finish(h, o)
        \/ (GoTo(h, "read") \/ GoTo(h, "decline")) /\ UNCHANGED <<event, plan>>
    BY DEF CreatePayment, GatewayPending, GatewayAnswers, MarkFailed, CreateCaptured,
           MarkSuccess, RefuseRefund, MarkRefund, Abort
  <2>2. CASE \E o \in {"processed", "failed"} : Finish(h, o)
    BY <1>1, <2>2, FinishTypes, NoPlanType
  <2>3. CASE (GoTo(h, "read") \/ GoTo(h, "decline")) /\ UNCHANGED <<event, plan>>
    <3>1. plan' \in [Handlers -> Plan] /\ event' \in [Payments -> {"new", "processed", "failed"}]
      BY <1>1, <2>3 DEF TypeOK
    <3> QED
      BY <1>1, <2>3, <3>1, GoToTypes
  <2> QED
    BY <2>1, <2>2, <2>3
<1>6. TypeOK'
  BY <1>1, <1>2, <1>3, <1>4, <1>5 DEF TypeOK, books
<1> QED
  BY <1>2, <1>5, <1>6, OtherPlacesSound, PlansKeep

LEMMA ReadLoanKeepsPlans ==
  ASSUME PInv, NEW h \in Handlers, ReadLoan(h)
  PROVE  PInv'
<1> DEFINE a == Allocate(loan, items, Amount[Pay(h)])
<1>1. TypeOK /\ Clear(loan) /\ Pay(h) \in Payments /\ Amount[Pay(h)] \in Nat
  BY PayType DEF PInv
<1>2. /\ loan \in Loan /\ items \in [Instalments -> Item]
      /\ a \in Plan
  BY <1>1, AllocateType DEF TypeOK
<1>3. /\ a.items \in [Instalments -> Item] /\ a.total = Totals(a.shares)
      /\ Allotted(a.total) + a.excess = Amount[Pay(h)]
      /\ a.seen = loan.status /\ a.loan = Reduced(loan, a.total)
  BY <1>1, <1>2, AllocateAddsUp
<1>4. Clear(a.loan) /\ (a.seen = "CLOSED" => a.loan.status = "CLOSED")
  <2>1. a.total \in Allocation
    BY <1>2 DEF Plan
  <2> QED
    BY <1>1, <1>2, <1>3, <2>1, ReducedType
<1> HIDE DEF a
<1>5. plan' = [plan EXCEPT ![h] = a] /\ GoTo(h, "allocate")
  BY DEF ReadLoan, a
<1>6. /\ handler' \in [Handlers -> Request]
      /\ handler'[h].pc = "allocate" /\ handler'[h].pay = Pay(h)
      /\ \A g \in Handlers : g # h => handler'[g] = handler[g]
  BY <1>1, <1>5, GoToTypes DEF Pay
<1>7. /\ plan' \in [Handlers -> Plan] /\ plan'[h] = a
      /\ \A g \in Handlers : g # h => plan'[g] = plan[g]
  BY <1>1, <1>2, <1>5 DEF TypeOK
<1>8. UNCHANGED <<loan, items, payment, rows, books, event, tally>>
  BY DEF ReadLoan
<1>9. TypeOK'
  BY <1>1, <1>6, <1>7, <1>8 DEF TypeOK, books, tally
<1>10. PlanSound(h)'
  BY <1>3, <1>4, <1>6, <1>7 DEF PlanSound, Balanced, At, Pay
<1>11. Clear(loan)'
  BY <1>1, <1>8 DEF Clear
<1> QED
  BY <1>6, <1>7, <1>9, <1>10, <1>11, PlansKeep

\* The parts of a plan a request in place has.
LEMMA PlanType ==
  ASSUME TypeOK, NEW h \in Handlers
  PROVE  /\ plan[h] \in Plan /\ plan[h].items \in Seq(Item)
         /\ plan[h].touched \in Seq(Instalments) /\ plan[h].shares \in Seq(Allocation)
         /\ plan[h].total \in Allocation /\ plan[h].excess \in Nat
         /\ plan[h].loan \in Loan
BY DEF TypeOK, Plan

LEMMA WriteInstalmentKeepsPlans ==
  ASSUME PInv, NEW h \in Handlers, WriteInstalment(h)
  PROVE  PInv'
<1> DEFINE todo == plan[h].touched
           q == [plan[h] EXCEPT !.touched = Tail(todo)]
<1>1. TypeOK /\ Clear(loan) /\ Pay(h) \in Payments /\ PlanSound(h)
  BY PayType DEF PInv
<1>2. /\ At(h, "allocate") /\ todo # <<>> /\ plan' = [plan EXCEPT ![h] = q]
      /\ UNCHANGED <<loan, payment, rows, books, event, handler, starts>>
  BY DEF WriteInstalment
<1>3. Head(todo) \in Instalments /\ Tail(todo) \in Seq(Instalments)
  BY <1>1, <1>2, PlanType, HeadTailProperties
<1>4. /\ q \in Plan /\ q.items = plan[h].items /\ q.shares = plan[h].shares
      /\ q.total = plan[h].total /\ q.excess = plan[h].excess
      /\ q.loan = plan[h].loan /\ q.seen = plan[h].seen
  BY <1>1, <1>3, PlanType DEF Plan
<1>5. plan[h].items \in [Instalments -> Item]
  BY <1>1, <1>2 DEF PlanSound
<1> HIDE DEF q
<1>6. /\ plan' \in [Handlers -> Plan] /\ plan'[h] = q
      /\ \A g \in Handlers : g # h => plan'[g] = plan[g]
  BY <1>1, <1>2, <1>4 DEF TypeOK
<1>7. items' \in [Instalments -> Item]
  <2>1. plan[h].items[Head(todo)] \in Item /\ items \in [Instalments -> Item]
    BY <1>1, <1>3, <1>5 DEF TypeOK
  <2>2. items' = items \/ items' = [items EXCEPT ![Head(todo)] = plan[h].items[Head(todo)]]
    BY DEF WriteInstalment
  <2> HIDE DEF todo
  <2> QED
    BY <1>3, <2>1, <2>2
<1>8. faults' \in 0..MaxFaults /\ disturbed' \subseteq Payments
  <2>1. \/ UNCHANGED <<faults, disturbed>>
        \/ Lost /\ disturbed' = disturbed \cup {Pay(h)}
    BY DEF WriteInstalment
  <2> QED
    BY <1>1, <2>1, LostTypes DEF TypeOK
<1>9. TypeOK'
  BY <1>1, <1>2, <1>6, <1>7, <1>8 DEF TypeOK, books
<1>10. PlanSound(h)'
  BY <1>1, <1>2, <1>4, <1>5, <1>6 DEF PlanSound, Balanced, At, Pay
<1>11. Clear(loan)'
  BY <1>1, <1>2 DEF Clear
<1> QED
  BY <1>2, <1>6, <1>9, <1>10, <1>11, PlansKeep

LEMMA CountType ==
  ASSUME NEW f \in [Payments -> Nat], NEW p \in Payments, NEW n \in Nat
  PROVE  [f EXCEPT ![p] = @ + n] \in [Payments -> Nat]
OBVIOUS

LEMMA WriteLoanKeepsPlans ==
  ASSUME PInv, NEW h \in Handlers, WriteLoan(h)
  PROVE  PInv'
<1>1. TypeOK /\ Clear(loan) /\ Pay(h) \in Payments /\ PlanSound(h)
  BY PayType DEF PInv
<1>2. /\ At(h, "allocate") /\ plan[h].touched = <<>> /\ GoTo(h, "rows")
      /\ credited' = [credited EXCEPT ![Pay(h)] = @ + plan[h].total.PRINCIPAL]
      /\ UNCHANGED <<items, payment, rows, journals, reversals, refunded, event, plan, starts>>
  BY DEF WriteLoan
<1>3. loan' \in Loan /\ Clear(loan)'
  <2>1. loan' = plan[h].loan \/ loan' = loan
    BY DEF WriteLoan
  <2>2. plan[h].loan \in Loan /\ loan \in Loan /\ Clear(plan[h].loan)
    BY <1>1, <1>2, PlanType DEF PlanSound, TypeOK
  <2> QED
    BY <1>1, <2>1, <2>2 DEF Clear
<1>4. faults' \in 0..MaxFaults /\ disturbed' \subseteq Payments
  <2>1. \/ UNCHANGED <<faults, disturbed>>
        \/ Lost /\ disturbed' = disturbed \cup {Pay(h)}
    BY DEF WriteLoan
  <2> QED
    BY <1>1, <2>1, LostTypes DEF TypeOK
<1>5. credited' \in [Payments -> Nat]
  <2>1. plan[h].total.PRINCIPAL \in Nat /\ credited \in [Payments -> Nat]
    BY <1>1, PlanType DEF TypeOK, Allocation
  <2> QED
    BY <1>1, <1>2, <2>1, CountType
<1>6. /\ handler' \in [Handlers -> Request]
      /\ handler'[h].pc = "rows" /\ handler'[h].pay = Pay(h)
      /\ \A g \in Handlers : g # h => handler'[g] = handler[g]
  BY <1>1, <1>2, GoToTypes DEF Pay
<1>7. TypeOK'
  BY <1>1, <1>2, <1>3, <1>4, <1>5, <1>6 DEF TypeOK
<1>8. PlanSound(h)'
  BY <1>1, <1>2, <1>6 DEF PlanSound, Balanced, At, Pay
<1> QED
  BY <1>2, <1>3, <1>6, <1>7, <1>8, PlansKeep

LEMMA StoreRowsKeepsPlans ==
  ASSUME PInv, NEW h \in Handlers, StoreRows(h)
  PROVE  PInv'
<1> DEFINE shares == plan[h].shares
           p == Pay(h)
           q(left) == [plan[h] EXCEPT !.shares = left]
<1>1. TypeOK /\ Clear(loan) /\ p \in Payments /\ PlanSound(h)
  BY PayType DEF PInv
<1>2. /\ At(h, "rows") /\ shares # <<>>
      /\ UNCHANGED <<loan, items, payment, books, event, handler, starts>>
  BY DEF StoreRows
<1>3. Head(shares) \in Allocation /\ Tail(shares) \in Seq(Allocation)
  BY <1>1, <1>2, PlanType, TotalsHead
<1>4. PICK left \in Seq(Allocation) : plan' = [plan EXCEPT ![h] = q(left)]
  <2>1. <<>> \in Seq(Allocation)
    OBVIOUS
  <2>2. plan' = [plan EXCEPT ![h] = q(Tail(shares))] \/ plan' = [plan EXCEPT ![h] = q(<<>>)]
    BY DEF StoreRows
  <2> HIDE DEF q, shares
  <2> QED
    BY <1>3, <2>1, <2>2
<1>5. /\ q(left) \in Plan /\ q(left).items = plan[h].items
      /\ q(left).touched = plan[h].touched
      /\ q(left).total = plan[h].total /\ q(left).excess = plan[h].excess
  BY <1>1, PlanType DEF Plan
<1> HIDE DEF q
<1>6. /\ plan' \in [Handlers -> Plan] /\ plan'[h] = q(left)
      /\ \A g \in Handlers : g # h => plan'[g] = plan[g]
  BY <1>1, <1>4, <1>5 DEF TypeOK
<1>7. rows' \in [Payments -> Allocation]
  <2>1. rows' = rows \/ rows' = [rows EXCEPT ![p] = Plus(rows[p], Head(shares))]
    BY DEF StoreRows
  <2>2. rows \in [Payments -> Allocation] /\ Plus(rows[p], Head(shares)) \in Allocation
    BY <1>1, <1>3, PlusType DEF TypeOK
  <2> HIDE DEF shares, p
  <2> QED
    BY <1>1, <2>1, <2>2
<1>8. faults' \in 0..MaxFaults /\ disturbed' \subseteq Payments
  <2>1. \/ UNCHANGED <<faults, disturbed>>
        \/ Lost /\ disturbed' = disturbed \cup {Pay(h)}
    BY DEF StoreRows
  <2> QED
    BY <1>1, <2>1, LostTypes DEF TypeOK
<1>9. TypeOK'
  BY <1>1, <1>2, <1>6, <1>7, <1>8 DEF TypeOK, books
<1>10. PlanSound(h)'
  BY <1>1, <1>2, <1>5, <1>6 DEF PlanSound, Balanced, At, Pay
<1>11. Clear(loan)'
  BY <1>1, <1>2 DEF Clear
<1> QED
  BY <1>2, <1>6, <1>9, <1>10, <1>11, PlansKeep

LEMMA PostJournalKeepsPlans ==
  ASSUME PInv, NEW h \in Handlers, PostJournal(h)
  PROVE  PInv'
<1> DEFINE p == Pay(h)
<1>1. TypeOK /\ Clear(loan) /\ p \in Payments /\ PlanSound(h) /\ Balanced(h)
  BY PayType DEF PInv, PlanSound, PostJournal, At
<1>2. /\ UNCHANGED <<loan, items, payment, rows, reversals, refunded, tally>>
      /\ journals' = [journals EXCEPT ![p] = @ + 1]
      /\ \/ credited' = credited
         \/ credited' = [credited EXCEPT ![p] = @ + plan[h].total.PRINCIPAL]
      /\ \/ Finish(h, "processed")
         \/ GoTo(h, "mark") /\ UNCHANGED <<plan, event>>
  BY <1>1 DEF PostJournal
<1>3. journals' \in [Payments -> Nat] /\ credited' \in [Payments -> Nat]
  <2>1. plan[h].total.PRINCIPAL \in Nat /\ {credited, journals} \subseteq [Payments -> Nat]
    BY <1>1, PlanType DEF TypeOK, Allocation
  <2> HIDE DEF p
  <2> QED
    BY <1>1, <1>2, <2>1, CountType
<1>4. /\ handler' \in [Handlers -> Request] /\ plan' \in [Handlers -> Plan]
      /\ event' \in [Payments -> {"new", "processed", "failed"}]
      /\ \A g \in Handlers : g # h => handler'[g] = handler[g] /\ plan'[g] = plan[g]
      /\ \/ handler'[h].pc = "idle" /\ plan'[h] = NoPlan
         \/ handler'[h].pc = "mark" /\ handler'[h].pay = p /\ plan' = plan
  <2>1. CASE Finish(h, "processed")
    BY <1>1, <2>1, FinishTypes
  <2>2. CASE GoTo(h, "mark") /\ UNCHANGED <<plan, event>>
    <3>1. plan \in [Handlers -> Plan] /\ event \in [Payments -> {"new", "processed", "failed"}]
      BY <1>1 DEF TypeOK
    <3> QED
      BY <1>1, <2>2, <3>1, GoToTypes DEF Pay
  <2> QED
    BY <1>2, <2>1, <2>2
<1>5. TypeOK'
  BY <1>1, <1>2, <1>3, <1>4 DEF TypeOK, tally
<1>6. PlanSound(h)'
  BY <1>1, <1>4, NoPlanType DEF PlanSound, Balanced, At, Pay
<1>7. Clear(loan)'
  BY <1>1, <1>2 DEF Clear
<1> QED
  BY <1>4, <1>5, <1>6, <1>7, PlansKeep

LEMMA PostRefundKeepsPlans ==
  ASSUME PInv, NEW h \in Handlers, PostRefund(h)
  PROVE  PInv'
<1>1. TypeOK /\ Clear(loan) /\ Pay(h) \in Payments
  BY PayType DEF PInv
<1>2. /\ UNCHANGED <<loan, items, payment, rows, journals, reversals, credited,
                      event, plan, tally>>
      /\ refunded' = [refunded EXCEPT ![Pay(h)] = @ + handler[h].amount]
      /\ GoTo(h, "markFull") \/ GoTo(h, "markPartial")
  BY DEF PostRefund
<1>3. refunded' \in [Payments -> Nat]
  <2>1. refunded \in [Payments -> Nat] /\ handler[h].amount \in Nat
    BY <1>1 DEF TypeOK, Request
  <2> QED
    BY <1>1, <1>2, <2>1, CountType
<1>4. /\ handler' \in [Handlers -> Request]
      /\ handler'[h].pc \notin {"allocate", "rows", "mark", "rollback"}
      /\ \A g \in Handlers : g # h => handler'[g] = handler[g]
  BY <1>1, <1>2, GoToTypes
<1>5. TypeOK'
  BY <1>1, <1>2, <1>3, <1>4 DEF TypeOK, tally
<1>6. Clear(loan)'
  BY <1>1, <1>2 DEF Clear
<1> QED
  BY <1>2, <1>4, <1>5, <1>6, OtherPlacesSound, PlansKeep

\* A reversal remembers the schedule as its transaction reads it.
LEMMA ReadPaidRowsKeepsPlans ==
  ASSUME PInv, NEW h \in Handlers, ReadPaidRows(h)
  PROVE  PInv'
<1>1. TypeOK /\ Clear(loan) /\ PlanSound(h)
  BY DEF PInv
<1>2. /\ handler' \in [Handlers -> Request] /\ handler'[h].pc = "rollback"
      /\ \A g \in Handlers : g # h => handler'[g] = handler[g]
  BY <1>1, GoToTypes DEF ReadPaidRows
<1>3. items \in Seq(Item) /\ items \in [Instalments -> Item]
  <2>1. Len(Dues) \in Nat
    BY DuesAssumption
  <2>2. items \in [1..Len(Dues) -> Item]
    BY <1>1 DEF TypeOK, Instalments
  <2> QED
    BY <2>1, <2>2 DEF Instalments
<1>4. plan[h] \in Plan /\ plan \in [Handlers -> Plan]
  BY <1>1 DEF TypeOK
<1> DEFINE seen == [plan[h] EXCEPT !.items = items]
<1>5. seen \in Plan /\ seen.items = items
  BY <1>3, <1>4 DEF Plan
<1>6. plan' = [plan EXCEPT ![h] = seen]
  BY DEF ReadPaidRows
<1> HIDE DEF seen
<1>7. /\ plan' \in [Handlers -> Plan] /\ plan'[h].items = items
      /\ \A g \in Handlers : g # h => plan'[g] = plan[g]
  BY <1>4, <1>5, <1>6
<1>8. UNCHANGED <<loan, items, payment, rows, books, event, tally>>
  BY DEF ReadPaidRows
<1>9. TypeOK'
  BY <1>1, <1>2, <1>7, <1>8 DEF TypeOK, books, tally
<1>10. PlanSound(h)'
  BY <1>2, <1>3, <1>7 DEF PlanSound, At
<1>11. Clear(loan)'
  BY <1>1, <1>8 DEF Clear
<1> QED
  BY <1>2, <1>7, <1>9, <1>10, <1>11, PlansKeep

LEMMA ReversalKeepsPlans ==
  ASSUME PInv, NEW h \in Handlers, ReverseTransaction(h) \/ PostReversal(h)
  PROVE  PInv'
<1>1. /\ TypeOK /\ Clear(loan) /\ Pay(h) \in Payments /\ Amount[Pay(h)] \in Nat
      /\ PlanSound(h)
  BY PayType DEF PInv
<1>2. CASE ReverseTransaction(h)
  <2>1. /\ items' = WithRollback(plan[h].items, Amount[Pay(h)]) /\ At(h, "rollback")
        /\ SetPayment(Pay(h), "REVERSED") /\ GoTo(h, "postReversal")
        /\ UNCHANGED <<rows, books, event, plan, tally>>
    BY <1>2 DEF ReverseTransaction
  <2>2. loan' \in Loan /\ Clear(loan)'
    <3>1. plan[h].loan \in Loan /\ plan[h].total \in Allocation
      BY <1>1, PlanType
    <3>2. /\ plan[h].loan.principal \in Nat /\ plan[h].loan.interest \in Nat
          /\ plan[h].loan.charges \in Nat /\ plan[h].total.PRINCIPAL \in Nat
          /\ plan[h].total.INTEREST \in Nat /\ plan[h].total.FEES \in Nat
          /\ plan[h].total.PENALTY \in Nat
      BY <3>1 DEF Loan, Allocation
    <3> DEFINE principal == plan[h].loan.principal + plan[h].total.PRINCIPAL
               interest == plan[h].loan.interest + plan[h].total.INTEREST
               charges == plan[h].loan.charges + plan[h].total.FEES + plan[h].total.PENALTY
    <3>3. loan' = [principal |-> principal, interest |-> interest, charges |-> charges,
                   status |-> "ACTIVE"]
      BY <1>2 DEF ReverseTransaction
    <3>4. principal \in Nat /\ interest \in Nat /\ charges \in Nat
      BY <3>2
    <3> HIDE DEF principal, interest, charges
    <3> QED
      BY <3>3, <3>4 DEF Loan, Clear
  <2>3. items' \in [Instalments -> Item]
    <3>1. plan[h].items \in [Instalments -> Item]
      BY <1>1, <2>1 DEF PlanSound
    <3>2. RolledBack(plan[h].items, Amount[Pay(h)]) \in [Instalments -> Item]
      BY <1>1, <3>1, RolledBackType
    <3> QED
      BY <1>1, <2>1, <3>2 DEF WithRollback, TypeOK
  <2>4. payment' \in [Payments -> Status]
    BY <1>1, <2>1, SetPaymentTypes DEF Status
  <2>5. /\ handler' \in [Handlers -> Request]
        /\ handler'[h].pc \notin {"allocate", "rows", "mark", "rollback"}
        /\ \A g \in Handlers : g # h => handler'[g] = handler[g]
    BY <1>1, <2>1, GoToTypes
  <2>6. TypeOK'
    BY <1>1, <2>1, <2>2, <2>3, <2>4, <2>5 DEF TypeOK, books, tally
  <2> QED
    BY <2>1, <2>2, <2>5, <2>6, OtherPlacesSound, PlansKeep
<1>3. CASE PostReversal(h)
  <2>1. /\ reversals' = reversals \/ reversals' = [reversals EXCEPT ![Pay(h)] = @ + 1]
        /\ Finish(h, "processed")
        /\ UNCHANGED <<loan, items, payment, rows, journals, refunded, credited, tally>>
    BY <1>3 DEF PostReversal
  <2>2. reversals' \in [Payments -> Nat]
    <3>1. reversals \in [Payments -> Nat]
      BY <1>1 DEF TypeOK
    <3> QED
      BY <1>1, <2>1, <3>1, CountType
  <2>3. /\ handler' \in [Handlers -> Request] /\ plan' \in [Handlers -> Plan]
        /\ event' \in [Payments -> {"new", "processed", "failed"}]
        /\ handler'[h].pc \notin {"allocate", "rows", "mark", "rollback"} /\ plan'[h].touched = <<>>
        /\ \A g \in Handlers : g # h => handler'[g] = handler[g] /\ plan'[g] = plan[g]
    BY <1>1, <2>1, FinishTypes, NoPlanType
  <2>4. TypeOK'
    BY <1>1, <2>1, <2>2, <2>3 DEF TypeOK, tally
  <2>5. Clear(loan)'
    BY <1>1, <2>1 DEF Clear
  <2> QED
    BY <2>3, <2>4, <2>5, OtherPlacesSound, PlansKeep
<1> QED
  BY <1>2, <1>3

LEMMA NextKeepsPlans == PInv /\ [Next]_vars => PInv'
<1> SUFFICES ASSUME PInv, [Next]_vars PROVE PInv'
  OBVIOUS
<1>1. ASSUME NEW h \in Handlers, Start(h) PROVE PInv'
  <2>1. PICK p \in Payments :
          \/ StartInitiate(h, p) \/ StartConfirm(h, p) \/ StartWebhook(h, p)
          \/ (\E a \in 1..Amount[p] : StartRefund(h, p, a)) \/ StartReverse(h, p)
    BY <1>1 DEF Start
  <2>2. 1 \in 1..Amount[p]
    BY PaymentsAssumption
  <2> QED
    BY <2>1, <2>2, StartKeepsPlans
<1>2. ASSUME NEW h \in Handlers,
             \/ CreatePayment(h) \/ GatewayPending(h) \/ GatewayAnswers(h) \/ MarkFailed(h)
             \/ CreateCaptured(h) \/ MarkSuccess(h) \/ RefuseRefund(h) \/ MarkRefund(h)
             \/ Abort(h)
      PROVE  PInv'
  BY <1>2, PlainStepKeepsPlans
<1>3. ASSUME NEW h \in Handlers,
             \/ ReadLoan(h) \/ WriteInstalment(h) \/ WriteLoan(h) \/ StoreRows(h)
             \/ PostJournal(h) \/ PostRefund(h) \/ ReadPaidRows(h) \/ ReverseTransaction(h)
             \/ PostReversal(h)
      PROVE  PInv'
  BY <1>3, ReadLoanKeepsPlans, WriteInstalmentKeepsPlans, WriteLoanKeepsPlans,
     StoreRowsKeepsPlans, PostJournalKeepsPlans, PostRefundKeepsPlans,
     ReadPaidRowsKeepsPlans, ReversalKeepsPlans
<1>4. CASE UNCHANGED vars
  <2>1. TypeOK'
    BY <1>4 DEF vars, PInv, TypeOK
  <2> QED
    BY <1>4, <2>1 DEF vars, PInv, PlanSound, Balanced, At, Pay, Clear
<1> QED
  BY <1>1, <1>2, <1>3, <1>4 DEF Next, Confirmation

LEMMA PlansAreSound == Spec => []PInv
  BY InitPInv, NextKeepsPlans, PTL DEF Spec

\* However requests overlap, every row, balance and count stays a number its
\* column can hold: no instalment and no loan owes less than nothing.
THEOREM TypeCorrect == Spec => []TypeOK
<1>1. PInv => TypeOK
  BY DEF PInv
<1> QED
  BY <1>1, PlansAreSound, PTL

\* On whatever schedule a payment is allocated, its buckets and its excess add
\* up to it, so that no journal entry is refused after the loan was written.
THEOREM AllocationsBalance == Spec => []AllocationsAddUp
<1>1. PInv => AllocationsAddUp
  BY DEF PInv, PlanSound, AllocationsAddUp
<1> QED
  BY <1>1, PlansAreSound, PTL

\* A CLOSED loan owes neither principal nor interest.
THEOREM ClosedLoansAreClear == Spec => []ClosedMeansClear
<1>1. PInv => ClosedMeansClear
  BY DEF PInv, Clear, ClosedMeansClear
<1> QED
  BY <1>1, PlansAreSound, PTL

\* A CLOSED loan is reopened by a reversal, or by a reading older than its
\* closing, and by nothing else.
THEOREM ReopeningsExplained == Spec => ReopenedByStaleReading
<1> DEFINE Explained ==
      loan.status = "CLOSED" /\ loan'.status # "CLOSED" =>
        \E h \in Handlers :
          \/ At(h, "rollback") /\ handler'[h].pc = "postReversal"
          \/ /\ At(h, "allocate") /\ handler'[h].pc = "rows"
             /\ plan[h].seen # "CLOSED"
<1>1. PInv /\ [Next]_vars => [Explained]_vars
  <2> SUFFICES ASSUME PInv, Next, loan' # loan PROVE Explained
    BY DEF vars
  <2>1. PICK h \in Handlers : WriteLoan(h) \/ ReverseTransaction(h)
    BY DEF Next, Start, Confirmation, StartInitiate, StartConfirm, StartWebhook,
           StartRefund, StartReverse, CreatePayment, GatewayPending, GatewayAnswers,
           MarkFailed, CreateCaptured, ReadLoan, WriteInstalment, StoreRows, PostJournal,
           MarkSuccess, PostRefund, RefuseRefund, MarkRefund, ReadPaidRows, PostReversal,
           Abort
  <2>2. TypeOK /\ PlanSound(h)
    BY DEF PInv
  <2>3. CASE WriteLoan(h)
    <3>1. At(h, "allocate") /\ GoTo(h, "rows") /\ loan' = plan[h].loan
      BY <2>3 DEF WriteLoan
    <3>2. handler'[h].pc = "rows"
      BY <2>2, <3>1, GoToTypes
    <3> QED
      BY <2>2, <3>1, <3>2 DEF PlanSound
  <2>4. CASE ReverseTransaction(h)
    <3>1. At(h, "rollback") /\ GoTo(h, "postReversal")
      BY <2>4 DEF ReverseTransaction
    <3>2. handler'[h].pc = "postReversal"
      BY <2>2, <3>1, GoToTypes
    <3> QED
      BY <3>1, <3>2
  <2> QED
    BY <2>1, <2>3, <2>4
<1>2. [][Explained]_vars <=> ReopenedByStaleReading
  BY DEF ReopenedByStaleReading
<1> HIDE DEF Explained
<1> QED
  BY <1>1, <1>2, PlansAreSound, PTL DEF Spec

-----------------------------------------------------------------------------
\* What holds of a payment that was handled by one request at a time.

Done == {"SUCCESS", "REFUNDED", "REVERSED"}
Clean(p) == journals[p] = 0 /\ rows[p] = NothingAllocated

\* What the one request in flight knows of its payment: nothing is on record
\* before the allocation is written, the rows stored and those left are the
\* allocation, and a request that will not set the status finds it set.
Known(h) ==
  /\ handler[h].pc \in {"order", "verify", "decline", "capture", "read", "allocate"}
       => Clean(Pay(h))
  /\ handler[h].pc = "rows"
       => journals[Pay(h)] = 0
          /\ Plus(rows[Pay(h)], Totals(plan[h].shares)) = plan[h].total
  /\ handler[h].pc = "verify" => handler[h].kind # "capture"
  /\ handler[h].pc \in {"read", "allocate", "rows"} /\ handler[h].kind = "capture"
       => payment[Pay(h)] \in Done
  /\ handler[h].pc \in {"refund", "markFull", "markPartial", "postReversal"}
       => payment[Pay(h)] \in Done

Bounded(p) == journals[p] <= 1 /\ Allotted(rows[p]) <= Amount[p]

Orderly(p) ==
  p \notin disturbed =>
    /\ \A g, h \in InFlight(p) : g = h
    /\ \A h \in InFlight(p) : Known(h)
    /\ InFlight(p) = {} /\ payment[p] \notin Done => Clean(p)
    /\ Bounded(p)

OInv == PInv /\ \A p \in Payments : Orderly(p)

LEMMA CleanBounded ==
  ASSUME NEW p \in Payments, Clean(p)
  PROVE  Bounded(p)
BY AmountType, NothingType DEF Clean, Bounded

\* A request h about p moves on.  What it does to the records of p is orderly,
\* it was alone or p is disturbed, and it touches no other payment: all stay so.
LEMMA OrderKeeps ==
  ASSUME OInv, PInv', NEW h \in Handlers, NEW p \in Payments,
         handler'[h].pay = p, ~At(h, "idle") => Pay(h) = p,
         \A g \in Handlers : g # h => handler'[g] = handler[g] /\ plan'[g] = plan[g],
         \A q \in Payments : q # p => /\ payment'[q] = payment[q]
                                     /\ journals'[q] = journals[q] /\ rows'[q] = rows[q],
         \A q \in Payments : q # p /\ q \in disturbed => q \in disturbed',
         p \notin disturbed' =>
           /\ InFlight(p) \subseteq {h}
           /\ Bounded(p)'
           /\ handler'[h].pc # "idle" => Known(h)'
           /\ handler'[h].pc = "idle" /\ payment'[p] \notin Done => Clean(p)'
  PROVE  OInv'
<1>1. ASSUME NEW q \in Payments, q # p PROVE Orderly(q)'
  <2>1. Orderly(q)
    BY DEF OInv
  <2>2. /\ payment'[q] = payment[q] /\ journals'[q] = journals[q] /\ rows'[q] = rows[q]
        /\ q \in disturbed => q \in disturbed'
    BY <1>1
  <2>3. InFlight(q)' = InFlight(q)
    BY <1>1 DEF InFlight, At, Pay
  <2>4. \A g \in InFlight(q) : /\ g \in Handlers /\ handler'[g] = handler[g]
                               /\ plan'[g] = plan[g] /\ Pay(g) = q
    BY <1>1 DEF InFlight, At, Pay
  <2>5. ASSUME q \notin disturbed', NEW g \in InFlight(q) PROVE Known(g)'
    <3>1. Known(g)
      BY <2>1, <2>2, <2>5 DEF Orderly
    <3> QED
      BY <2>2, <2>4, <3>1 DEF Known, Clean, Pay
  <2>6. Clean(q)' <=> Clean(q)
    BY <2>2 DEF Clean
  <2>7. Bounded(q)' <=> Bounded(q)
    BY <2>2 DEF Bounded
  <2> QED
    BY <2>1, <2>2, <2>3, <2>5, <2>6, <2>7 DEF Orderly
<1>2. ASSUME p \notin disturbed' PROVE Orderly(p)'
  <2>1. \A g \in InFlight(p)' : g = h /\ handler'[h].pc # "idle"
    BY <1>2 DEF InFlight, At, Pay
  <2>2. InFlight(p)' = {} => handler'[h].pc = "idle"
    BY DEF InFlight, At, Pay
  <2> QED
    BY <1>2, <2>1, <2>2 DEF Orderly
<1>3. Orderly(p)'
  BY <1>2 DEF Orderly
<1> QED
  BY <1>1, <1>3 DEF OInv

\* A request in flight about an undisturbed payment is the only one.
LEMMA AloneInFlight ==
  ASSUME OInv, NEW h \in Handlers, ~At(h, "idle"), Pay(h) \notin disturbed
  PROVE  /\ Pay(h) \in Payments /\ InFlight(Pay(h)) \subseteq {h}
         /\ Known(h) /\ Bounded(Pay(h))
<1>1. Pay(h) \in Payments /\ Orderly(Pay(h))
  BY PayType DEF OInv, PInv
<1>2. h \in InFlight(Pay(h))
  BY DEF InFlight
<1> QED
  BY <1>1, <1>2 DEF Orderly

\* A request taken up about a payment it leaves undisturbed finds it at rest.
LEMMA BeginsAlone ==
  ASSUME OInv, NEW h \in Handlers, NEW p \in Payments, NEW kind, NEW a, NEW pc,
         Begin(h, kind, p, a, pc), p \notin disturbed'
  PROVE  /\ p \notin disturbed /\ InFlight(p) = {}
         /\ payment[p] \notin {"REFUNDED", "REVERSED"}
         /\ payment[p] \notin Done => Clean(p)
         /\ Bounded(p)
<1>1. /\ p \notin disturbed /\ InFlight(p) = {}
      /\ payment[p] \notin {"REFUNDED", "REVERSED"}
  BY DEF Begin
<1>2. Orderly(p)
  BY DEF OInv
<1> QED
  BY <1>1, <1>2 DEF Orderly

LEMMA StartKeepsOrder ==
  ASSUME OInv, PInv', NEW h \in Handlers, NEW p \in Payments, NEW a \in 1..Amount[p],
         \/ StartInitiate(h, p) \/ StartConfirm(h, p) \/ StartWebhook(h, p)
         \/ StartRefund(h, p, a) \/ StartReverse(h, p)
  PROVE  OInv'
<1>1. TypeOK /\ a \in Nat
  BY AmountType DEF OInv, PInv
<1>2. /\ UNCHANGED <<payment, rows, journals>>
      /\ \A g \in Handlers : g # h => plan'[g] = plan[g]
  BY <1>1 DEF StartInitiate, StartConfirm, StartWebhook, StartRefund, StartReverse, books, TypeOK
<1>3. ASSUME NEW kind \in {"initiate", "confirm", "webhook", "capture", "refund", "reverse"},
             NEW b \in Nat,
             NEW pc \in {"order", "verify", "read", "capture", "refund", "reverse"},
             Begin(h, kind, p, b, pc),
             pc \in {"order", "verify", "read", "capture"}
               => payment[p] \notin Done \/ payment[p] \in {"REFUNDED", "REVERSED"},
             pc \in {"verify", "read"} => kind # "capture",
             pc = "refund" => payment[p] = "SUCCESS"
      PROVE  OInv'
  <2>1. /\ handler'[h].pc = pc /\ handler'[h].pay = p /\ handler'[h].kind = kind
        /\ \A g \in Handlers : g # h => handler'[g] = handler[g]
        /\ disturbed \subseteq disturbed'
    BY <1>1, <1>3, BeginTypes
  <2>2. At(h, "idle")
    BY <1>3 DEF Begin
  <2>3. ASSUME p \notin disturbed'
        PROVE  /\ InFlight(p) \subseteq {h} /\ Bounded(p)' /\ Known(h)'
    <3>1. /\ InFlight(p) = {} /\ payment[p] \notin {"REFUNDED", "REVERSED"}
          /\ payment[p] \notin Done => Clean(p)
          /\ Bounded(p)
      BY <1>3, <2>3, BeginsAlone
    <3>2. Bounded(p)'
      BY <1>2, <3>1 DEF Bounded
    <3>3. pc \in {"order", "verify", "read", "capture"} => Clean(p)'
      BY <1>2, <1>3, <3>1 DEF Clean
    <3>4. Known(h)'
      BY <1>2, <1>3, <2>1, <3>3 DEF Known, Pay, Done
    <3> QED
      BY <3>1, <3>2, <3>4
  <2> QED
    BY <1>2, <1>3, <2>1, <2>2, <2>3, OrderKeeps
<1>4. \/ Begin(h, "initiate", p, 0, "order") /\ payment[p] = "NONE"
      \/ Begin(h, "confirm", p, 0, "verify") /\ payment[p] \notin {"NONE", "SUCCESS"}
      \/ Begin(h, "webhook", p, 0, "read") /\ payment[p] \notin {"NONE", "SUCCESS"}
      \/ Begin(h, "capture", p, 0, "capture") /\ payment[p] = "NONE"
      \/ Begin(h, "refund", p, a, "refund") /\ payment[p] = "SUCCESS"
      \/ Begin(h, "reverse", p, 0, "reverse")
      \/ UNCHANGED <<handler, plan, disturbed>>
  BY DEF StartInitiate, StartConfirm, StartWebhook, StartRefund, StartReverse, tally
<1>5. CASE UNCHANGED <<handler, plan, disturbed>>
  BY <1>2, <1>5 DEF OInv, Orderly, Known, Clean, Bounded, InFlight, At, Pay
<1> QED
  BY <1>1, <1>3, <1>4, <1>5 DEF Done

\* An awaited call fails and its payment is disturbed: nothing more is claimed.
LEMMA FaultKeepsOrder ==
  ASSUME OInv, PInv', NEW h \in Handlers, ~At(h, "idle"), handler'[h].pay = Pay(h),
         disturbed' = disturbed \cup {Pay(h)},
         \A g \in Handlers : g # h => handler'[g] = handler[g] /\ plan'[g] = plan[g],
         \A q \in Payments : q # Pay(h) =>
           payment'[q] = payment[q] /\ journals'[q] = journals[q] /\ rows'[q] = rows[q]
  PROVE  OInv'
<1>1. Pay(h) \in Payments
  BY PayType DEF OInv, PInv
<1>2. PICK p \in Payments : p = Pay(h)
  BY <1>1
<1> QED
  BY <1>2, OrderKeeps

\* A request that only sets the status of its payment.
LEMMA StatusStepKeepsOrder ==
  ASSUME OInv, PInv', NEW h \in Handlers,
         \/ CreatePayment(h) \/ GatewayPending(h) \/ GatewayAnswers(h) \/ MarkFailed(h)
         \/ CreateCaptured(h) \/ MarkSuccess(h) \/ RefuseRefund(h) \/ MarkRefund(h)
  PROVE  OInv'
<1>1. TypeOK /\ Pay(h) \in Payments
  BY PayType DEF OInv, PInv
<1>2. PICK p \in Payments : p = Pay(h)
  BY <1>1
<1>3. UNCHANGED <<rows, journals, disturbed>> /\ ~At(h, "idle")
  BY DEF CreatePayment, GatewayPending, GatewayAnswers, MarkFailed, CreateCaptured,
         MarkSuccess, RefuseRefund, MarkRefund, books, tally, At
<1>4. /\ \/ payment' = payment
         \/ \E s \in Status : SetPayment(p, s)
      /\ \/ \E o \in {"processed", "failed"} : Finish(h, o)
         \/ (GoTo(h, "read") \/ GoTo(h, "decline")) /\ UNCHANGED plan
  BY <1>2 DEF CreatePayment, GatewayPending, GatewayAnswers, MarkFailed, CreateCaptured,
              MarkSuccess, RefuseRefund, MarkRefund, Status
<1>5. \A q \in Payments : q # p => payment'[q] = payment[q]
  BY <1>1, <1>4, SetPaymentTypes
<1>6. /\ handler'[h].pay = p
      /\ \A g \in Handlers : g # h => handler'[g] = handler[g] /\ plan'[g] = plan[g]
  BY <1>1, <1>2, <1>4, FinishTypes, GoToTypes DEF Pay
<1>7. /\ p \in disturbed => p \in disturbed'
      /\ Bounded(p) => Bounded(p)'
      /\ Clean(p) => Clean(p)'
  BY <1>3 DEF Bounded, Clean
<1>8. ASSUME p \notin disturbed'
      PROVE  /\ InFlight(p) \subseteq {h} /\ Bounded(p)'
             /\ handler'[h].pc # "idle" => Known(h)'
             /\ handler'[h].pc = "idle" /\ payment'[p] \notin Done => Clean(p)'
  <2>1. InFlight(p) \subseteq {h} /\ Known(h) /\ Bounded(p)
    BY <1>2, <1>3, <1>8, AloneInFlight
  <2>2. CASE CreatePayment(h) \/ GatewayPending(h) \/ MarkFailed(h)
    <3>1. Clean(p) /\ handler'[h].pc = "idle"
      BY <1>1, <1>2, <2>1, <2>2, FinishTypes
         DEF Known, CreatePayment, GatewayPending, MarkFailed, At
    <3> QED
      BY <1>7, <2>1, <3>1
  <2>3. CASE GatewayAnswers(h)
    <3>1. Clean(p) /\ handler[h].kind # "capture" /\ plan' = plan
      BY <1>2, <2>1, <2>3 DEF Known, GatewayAnswers, At
    <3>2. /\ handler'[h].pc \in {"decline", "read"}
          /\ handler'[h].kind = handler[h].kind
      BY <1>1, <2>3, GoToTypes DEF GatewayAnswers
    <3>3. Clean(p)' /\ Pay(h)' = p
      BY <1>6, <1>7, <3>1 DEF Pay
    <3> QED
      BY <1>7, <2>1, <3>1, <3>2, <3>3 DEF Known
  <2>4. CASE CreateCaptured(h)
    <3>1. Clean(p) /\ Clean(p)' /\ Pay(h)' = p
      BY <1>2, <1>6, <1>7, <2>1, <2>4 DEF Known, CreateCaptured, At, Pay
    <3>2. \/ handler'[h].pc = "idle"
          \/ handler'[h].pc = "read" /\ payment'[p] = "SUCCESS"
      <4>1. CASE Finish(h, "failed")
        BY <1>1, <4>1, FinishTypes
      <4>2. CASE GoTo(h, "read") /\ SetPayment(p, "SUCCESS")
        BY <1>1, <4>2, GoToTypes, SetPaymentTypes DEF Status
      <4> QED
        BY <1>2, <2>4, <4>1, <4>2 DEF CreateCaptured
    <3> QED
      BY <1>7, <2>1, <3>1, <3>2 DEF Known, Done
  <2>5. CASE MarkSuccess(h) \/ RefuseRefund(h) \/ MarkRefund(h)
    <3>1. handler'[h].pc = "idle"
      BY <1>1, <2>5, FinishTypes DEF MarkSuccess, RefuseRefund, MarkRefund
    <3>2. payment'[p] \in Done
      <4>1. CASE RefuseRefund(h)
        BY <1>2, <2>1, <4>1 DEF Known, RefuseRefund, At
      <4>2. CASE MarkSuccess(h) \/ MarkRefund(h)
        <5>1. SetPayment(p, "SUCCESS") \/ SetPayment(p, "REFUNDED")
          BY <1>2, <4>2 DEF MarkSuccess, MarkRefund
        <5> QED
          BY <1>1, <5>1, SetPaymentTypes DEF Status, Done
      <4> QED
        BY <2>5, <4>1, <4>2
    <3> QED
      BY <1>7, <2>1, <3>1, <3>2
  <2> QED
    BY <2>2, <2>3, <2>4, <2>5
<1> QED
  BY <1>2, <1>3, <1>5, <1>6, <1>8, OrderKeeps

LEMMA AllocatingKeepsOrder ==
  ASSUME OInv, PInv', NEW h \in Handlers,
         ReadLoan(h) \/ WriteInstalment(h) \/ WriteLoan(h)
  PROVE  OInv'
<1>1. TypeOK /\ PlanSound(h) /\ PlanSound(h)'
  BY DEF OInv, PInv
<1>2. PICK p \in Payments : p = Pay(h)
  BY <1>1, PayType
<1>3. UNCHANGED <<payment, rows, journals>> /\ ~At(h, "idle")
  BY DEF ReadLoan, WriteInstalment, WriteLoan, books, At
<1>4. disturbed' = disturbed \/ disturbed' = disturbed \cup {p}
  BY <1>2 DEF ReadLoan, WriteInstalment, WriteLoan, tally
<1>5. /\ handler'[h].pay = p /\ handler'[h].kind = handler[h].kind
      /\ \A g \in Handlers : g # h => handler'[g] = handler[g]
      /\ \/ At(h, "read") /\ handler'[h].pc = "allocate"
         \/ At(h, "allocate") /\ handler'[h].pc = "allocate"
         \/ At(h, "allocate") /\ handler'[h].pc = "rows" /\ plan' = plan
  <2>1. \/ At(h, "read") /\ GoTo(h, "allocate")
        \/ At(h, "allocate") /\ handler' = handler
        \/ At(h, "allocate") /\ GoTo(h, "rows") /\ plan' = plan
    BY DEF ReadLoan, WriteInstalment, WriteLoan
  <2> QED
    BY <1>1, <1>2, <2>1, GoToTypes DEF Pay, At
<1>6. \A g \in Handlers : g # h => plan'[g] = plan[g]
  BY <1>1 DEF ReadLoan, WriteInstalment, WriteLoan, TypeOK
<1>7. ASSUME p \notin disturbed'
      PROVE  InFlight(p) \subseteq {h} /\ Bounded(p)' /\ Known(h)'
  <2>1. InFlight(p) \subseteq {h} /\ Known(h) /\ Bounded(p)
    BY <1>2, <1>3, <1>4, <1>7, AloneInFlight
  <2>2. Clean(p) /\ Clean(p)'
    BY <1>2, <1>3, <1>5, <2>1 DEF Known, At, Clean
  <2>3. Bounded(p)'
    BY <1>3, <2>1 DEF Bounded
  <2>4. ASSUME handler'[h].pc = "rows"
        PROVE  Plus(rows'[p], Totals(plan'[h].shares)) = plan'[h].total
    <3>1. plan[h].total = Totals(plan[h].shares) /\ plan' = plan
      BY <1>1, <1>5, <2>4 DEF PlanSound
    <3>2. plan[h].total \in Allocation
      BY <1>1, PlanType
    <3>3. rows'[p] = NothingAllocated
      BY <2>2 DEF Clean
    <3>4. \A a \in Allocation : Plus(NothingAllocated, a) = a
      BY DEF Plus, NothingAllocated, Allocation
    <3> QED
      BY <3>1, <3>2, <3>3, <3>4
  <2>5. handler'[h].kind = "capture" => payment'[p] \in Done
    BY <1>2, <1>3, <1>5, <2>1 DEF Known, At
  <2>6. Pay(h)' = p /\ journals'[p] = 0
    BY <1>5, <2>2 DEF Pay, Clean
  <2>7. Known(h)'
    BY <1>5, <2>2, <2>4, <2>5, <2>6 DEF Known
  <2> QED
    BY <2>1, <2>3, <2>7
<1>8. handler'[h].pc # "idle"
  BY <1>5
<1> QED
  BY <1>2, <1>3, <1>4, <1>5, <1>6, <1>7, <1>8, OrderKeeps

LEMMA StoreRowsKeepsOrder ==
  ASSUME OInv, PInv', NEW h \in Handlers, StoreRows(h)
  PROVE  OInv'
<1> DEFINE shares == plan[h].shares
<1>1. TypeOK /\ PlanSound(h)
  BY DEF OInv, PInv
<1>2. PICK p \in Payments : p = Pay(h)
  BY <1>1, PayType
<1>3. /\ UNCHANGED <<payment, journals, handler>> /\ handler[h].pc = "rows" /\ shares # <<>>
      /\ \/ /\ rows' = [rows EXCEPT ![p] = Plus(rows[p], Head(shares))]
            /\ plan' = [plan EXCEPT ![h].shares = Tail(shares)]
            /\ disturbed' = disturbed
         \/ /\ rows' = rows
            /\ plan' = [plan EXCEPT ![h].shares = <<>>]
            /\ disturbed' = disturbed \cup {p}
  BY <1>2 DEF StoreRows, books, At
<1>4. /\ \A g \in Handlers : g # h => plan'[g] = plan[g]
      /\ \A q \in Payments : q # p => rows'[q] = rows[q]
  BY <1>1, <1>3 DEF TypeOK
<1>5. ~At(h, "idle") /\ handler'[h].pay = p /\ handler'[h].pc = "rows"
  BY <1>2, <1>3 DEF At, Pay
<1>6. ASSUME p \notin disturbed'
      PROVE  InFlight(p) \subseteq {h} /\ Bounded(p)' /\ Known(h)'
  <2>1. InFlight(p) \subseteq {h} /\ Known(h) /\ Bounded(p)
    BY <1>2, <1>3, <1>5, <1>6, AloneInFlight
  <2>2. /\ shares \in Seq(Allocation) /\ rows \in [Payments -> Allocation]
        /\ plan[h].total \in Allocation /\ plan[h].excess \in Nat
        /\ plan \in [Handlers -> Plan]
    BY <1>1, PlanType DEF TypeOK
  <2>3. /\ Head(shares) \in Allocation /\ Totals(Tail(shares)) \in Allocation
        /\ Totals(shares) = Plus(Head(shares), Totals(Tail(shares)))
    BY <1>3, <2>2, TotalsHead, TotalsType
  <2>4. rows'[p] = Plus(rows[p], Head(shares)) /\ rows[p] \in Allocation
    BY <1>3, <1>6, <2>2
  <2>5. plan'[h].shares = Tail(shares) /\ plan'[h].total = plan[h].total
    BY <1>3, <1>6, <2>2 DEF Plan
  <2>6. journals[p] = 0 /\ Plus(rows[p], Totals(shares)) = plan[h].total
    BY <1>2, <1>3, <2>1 DEF Known
  <2> HIDE DEF shares
  <2>7. Plus(rows'[p], Totals(Tail(shares))) = plan[h].total
    BY <2>3, <2>4, <2>6, PlusAssociates
  <2>8. Allotted(rows'[p]) <= Amount[p]
    <3>1. rows'[p] \in Allocation
      BY <2>3, <2>4, PlusType
    <3>2. /\ Allotted(plan[h].total) = Allotted(rows'[p]) + Allotted(Totals(Tail(shares)))
          /\ Allotted(rows'[p]) \in Nat /\ Allotted(Totals(Tail(shares))) \in Nat
      BY <2>3, <2>7, <3>1, PlusType
    <3>3. Allotted(plan[h].total) + plan[h].excess = Amount[p]
      BY <1>1, <1>2, <1>3 DEF PlanSound, Balanced
    <3>4. Amount[p] \in Nat
      BY AmountType
    <3> QED
      BY <2>2, <3>2, <3>3, <3>4
  <2>9. Bounded(p)'
    BY <1>3, <2>6, <2>8 DEF Bounded
  <2>10. handler'[h].kind = "capture" => payment'[p] \in Done
    BY <1>2, <1>3, <2>1 DEF Known
  <2>11. Pay(h)' = p
    BY <1>5 DEF Pay
  <2>12. Known(h)'
    BY <1>3, <1>5, <2>5, <2>6, <2>7, <2>10, <2>11 DEF Known
  <2> QED
    BY <2>1, <2>9, <2>12
<1>7. \A q \in Payments : q # p /\ q \in disturbed => q \in disturbed'
  BY <1>3
<1>8. \A g \in Handlers : g # h => handler'[g] = handler[g]
  BY <1>3
<1>9. \A q \in Payments : payment'[q] = payment[q] /\ journals'[q] = journals[q]
  BY <1>3
<1> QED
  BY <1>2, <1>4, <1>5, <1>6, <1>7, <1>8, <1>9, OrderKeeps

LEMMA PostJournalKeepsOrder ==
  ASSUME OInv, PInv', NEW h \in Handlers, PostJournal(h)
  PROVE  OInv'
<1>1. TypeOK /\ Balanced(h)
  BY DEF OInv, PInv, PlanSound, PostJournal, At
<1>2. PICK p \in Payments : p = Pay(h)
  BY <1>1, PayType
<1>3. /\ UNCHANGED <<payment, rows, disturbed>> /\ handler[h].pc = "rows"
      /\ journals' = [journals EXCEPT ![p] = journals[p] + 1]
      /\ \/ Finish(h, "processed") /\ handler[h].kind = "capture"
         \/ GoTo(h, "mark") /\ UNCHANGED plan
  BY <1>1, <1>2 DEF PostJournal, At, tally
<1>4. journals \in [Payments -> Nat] /\ ~At(h, "idle")
  BY <1>1, <1>3 DEF TypeOK, At
<1>5. /\ handler'[h].pay = p
      /\ \A g \in Handlers : g # h => handler'[g] = handler[g] /\ plan'[g] = plan[g]
      /\ \/ handler'[h].pc = "idle" /\ handler[h].kind = "capture"
         \/ handler'[h].pc = "mark"
  BY <1>1, <1>2, <1>3, FinishTypes, GoToTypes DEF Pay
<1>6. ASSUME p \notin disturbed'
      PROVE  /\ InFlight(p) \subseteq {h} /\ Bounded(p)'
             /\ handler'[h].pc # "idle" => Known(h)'
             /\ handler'[h].pc = "idle" => payment'[p] \in Done
  <2>1. InFlight(p) \subseteq {h} /\ Known(h) /\ Bounded(p)
    BY <1>2, <1>3, <1>4, <1>6, AloneInFlight
  <2>2. journals'[p] = 1
    BY <1>2, <1>3, <1>4, <2>1 DEF Known
  <2>3. Bounded(p)'
    BY <1>3, <2>1, <2>2 DEF Bounded
  <2>4. handler'[h].pc = "idle" => payment'[p] \in Done
    BY <1>2, <1>3, <1>5, <2>1 DEF Known
  <2>5. handler'[h].pc # "idle" => Known(h)'
    BY <1>5 DEF Known
  <2> QED
    BY <2>1, <2>3, <2>4, <2>5
<1>7. \A q \in Payments : q # p => journals'[q] = journals[q]
  BY <1>3, <1>4
<1> QED
  BY <1>2, <1>3, <1>4, <1>5, <1>6, <1>7, OrderKeeps

LEMMA RefundAndReversalKeepOrder ==
  ASSUME OInv, PInv', NEW h \in Handlers,
         PostRefund(h) \/ ReadPaidRows(h) \/ ReverseTransaction(h) \/ PostReversal(h)
  PROVE  OInv'
<1>1. TypeOK
  BY DEF OInv, PInv
<1>2. PICK p \in Payments : p = Pay(h)
  BY <1>1, PayType
<1>3. /\ UNCHANGED <<rows, journals, disturbed>> /\ ~At(h, "idle")
      /\ \/ /\ handler[h].pc = "refund" /\ payment' = payment /\ plan' = plan
            /\ GoTo(h, "markFull") \/ GoTo(h, "markPartial")
         \/ /\ handler[h].pc = "reverse" /\ payment' = payment /\ GoTo(h, "rollback")
            /\ plan' = [plan EXCEPT ![h].items = items]
         \/ /\ handler[h].pc = "rollback" /\ SetPayment(p, "REVERSED") /\ plan' = plan
            /\ GoTo(h, "postReversal")
         \/ /\ handler[h].pc = "postReversal" /\ payment' = payment
            /\ Finish(h, "processed")
  BY <1>2 DEF PostRefund, ReadPaidRows, ReverseTransaction, PostReversal, books, tally, At
<1>4. /\ handler'[h].pay = p
      /\ \A g \in Handlers : g # h => handler'[g] = handler[g] /\ plan'[g] = plan[g]
      /\ \/ handler'[h].pc \in {"markFull", "markPartial", "postReversal", "idle"}
            /\ handler[h].pc # "reverse"
         \/ handler'[h].pc = "rollback"
  <2>1. plan \in [Handlers -> Plan]
    BY <1>1 DEF TypeOK
  <2> QED
    BY <1>1, <1>2, <1>3, <2>1, FinishTypes, GoToTypes DEF Pay
<1>5. \A q \in Payments : q # p => payment'[q] = payment[q]
  BY <1>1, <1>3, SetPaymentTypes DEF Status
<1>6. ASSUME p \notin disturbed'
      PROVE  /\ InFlight(p) \subseteq {h} /\ Bounded(p)' /\ Known(h)'
             /\ handler'[h].pc = "idle" => payment'[p] \in Done
  <2>1. InFlight(p) \subseteq {h} /\ Known(h) /\ Bounded(p)
    BY <1>2, <1>3, <1>6, AloneInFlight
  <2>2. Bounded(p)'
    BY <1>3, <2>1 DEF Bounded
  <2>3. handler[h].pc # "reverse" => payment'[p] \in Done
    <3>1. CASE SetPayment(p, "REVERSED")
      BY <1>1, <3>1, SetPaymentTypes DEF Status, Done
    <3>2. CASE payment' = payment
      BY <1>2, <1>3, <2>1, <3>1, <3>2 DEF Known
    <3> QED
      BY <1>3, <3>1, <3>2
  <2>4. Known(h)'
    BY <1>4, <2>3 DEF Known, Pay
  <2> QED
    BY <1>4, <2>1, <2>2, <2>3, <2>4
<1> QED
  BY <1>2, <1>3, <1>4, <1>5, <1>6, OrderKeeps

LEMMA AbortKeepsOrder ==
  ASSUME OInv, PInv', NEW h \in Handlers, Abort(h)
  PROVE  OInv'
<1>1. TypeOK
  BY DEF OInv, PInv
<1>2. /\ ~At(h, "idle") /\ disturbed' = disturbed \cup {Pay(h)} /\ Finish(h, "failed")
      /\ UNCHANGED <<payment, rows, journals>>
  BY DEF Abort, At, books
<1> QED
  BY <1>1, <1>2, FinishTypes, FaultKeepsOrder DEF Pay

LEMMA NextKeepsOrder == OInv /\ [Next]_vars => OInv'
<1> SUFFICES ASSUME OInv, [Next]_vars PROVE OInv'
  OBVIOUS
<1>1. PInv'
  BY NextKeepsPlans DEF OInv
<1>2. ASSUME NEW h \in Handlers, Start(h) PROVE OInv'
  <2>1. PICK p \in Payments :
          \/ StartInitiate(h, p) \/ StartConfirm(h, p) \/ StartWebhook(h, p)
          \/ (\E a \in 1..Amount[p] : StartRefund(h, p, a)) \/ StartReverse(h, p)
    BY <1>2 DEF Start
  <2>2. 1 \in 1..Amount[p]
    BY PaymentsAssumption
  <2> QED
    BY <1>1, <2>1, <2>2, StartKeepsOrder
<1>3. ASSUME NEW h \in Handlers,
             \/ CreatePayment(h) \/ GatewayPending(h) \/ GatewayAnswers(h) \/ MarkFailed(h)
             \/ CreateCaptured(h) \/ MarkSuccess(h) \/ RefuseRefund(h) \/ MarkRefund(h)
             \/ Abort(h)
      PROVE  OInv'
  BY <1>1, <1>3, StatusStepKeepsOrder, AbortKeepsOrder
<1>4. ASSUME NEW h \in Handlers,
             \/ ReadLoan(h) \/ WriteInstalment(h) \/ WriteLoan(h) \/ StoreRows(h)
             \/ PostJournal(h) \/ PostRefund(h) \/ ReadPaidRows(h) \/ ReverseTransaction(h)
             \/ PostReversal(h)
      PROVE  OInv'
  BY <1>1, <1>4, AllocatingKeepsOrder, StoreRowsKeepsOrder, PostJournalKeepsOrder,
     RefundAndReversalKeepOrder
<1>5. CASE UNCHANGED vars
  BY <1>1, <1>5 DEF vars, OInv, Orderly, Known, Clean, Bounded, InFlight, At, Pay
<1> QED
  BY <1>2, <1>3, <1>4, <1>5 DEF Next, Confirmation

LEMMA InitOInv == Init => OInv
<1> SUFFICES ASSUME Init PROVE OInv
  OBVIOUS
<1>1. \A p \in Payments : Clean(p) /\ InFlight(p) = {}
  BY DEF Init, Clean, InFlight, At
<1>2. ASSUME NEW p \in Payments PROVE Orderly(p)
  BY <1>1, CleanBounded DEF Orderly
<1> QED
  BY <1>2, InitPInv DEF OInv

LEMMA RequestsAreOrderly == Spec => []OInv
  BY InitOInv, NextKeepsOrder, PTL DEF Spec

\* An undisturbed payment refunded in full is REFUNDED, or its one request is
\* about to mark it: nothing else in flight could write another status over it.
RefundShown(p) ==
  p \notin disturbed /\ refunded[p] = Amount[p] =>
    \/ InFlight(p) = {} /\ payment[p] = "REFUNDED"
    \/ \E h \in InFlight(p) : At(h, "markFull")

RInv == OInv /\ \A p \in Payments : RefundShown(p)

\* A request h about p moves on.  If p is refunded in full by then, h is about to
\* mark it or has just done so; every other payment is as it was.
LEMMA ShownKeeps ==
  ASSUME RInv, OInv', NEW h \in Handlers, NEW p \in Payments,
         handler'[h].pay = p, ~At(h, "idle") => Pay(h) = p,
         \A g \in Handlers : g # h => handler'[g] = handler[g],
         \A q \in Payments : q # p => payment'[q] = payment[q] /\ refunded'[q] = refunded[q],
         disturbed \subseteq disturbed',
         p \notin disturbed' /\ refunded'[p] = Amount[p] =>
           \/ handler'[h].pc = "markFull"
           \/ handler'[h].pc = "idle" /\ payment'[p] = "REFUNDED" /\ InFlight(p) \subseteq {h}
  PROVE  RInv'
<1>1. ASSUME NEW q \in Payments, q # p PROVE RefundShown(q)'
  <2>1. InFlight(q)' = InFlight(q)
    BY <1>1 DEF InFlight, At, Pay
  <2>2. \A g \in InFlight(q) : At(g, "markFull")' <=> At(g, "markFull")
    BY <1>1 DEF InFlight, At, Pay
  <2>3. RefundShown(q)
    BY DEF RInv
  <2>4. payment'[q] = payment[q] /\ refunded'[q] = refunded[q]
    BY <1>1
  <2> QED
    BY <2>1, <2>2, <2>3, <2>4 DEF RefundShown
<1>2. ASSUME p \notin disturbed', refunded'[p] = Amount[p]
      PROVE  \/ InFlight(p)' = {} /\ payment'[p] = "REFUNDED"
             \/ \E g \in InFlight(p)' : At(g, "markFull")'
  <2>1. CASE handler'[h].pc = "markFull"
    BY <2>1 DEF InFlight, At, Pay
  <2>2. CASE handler'[h].pc = "idle" /\ payment'[p] = "REFUNDED" /\ InFlight(p) \subseteq {h}
    BY <2>2 DEF InFlight, At, Pay
  <2> QED
    BY <1>2, <2>1, <2>2
<1>3. RefundShown(p)'
  BY <1>2 DEF RefundShown
<1> QED
  BY <1>1, <1>3 DEF RInv

\* A request about an undisturbed payment, unless it is about to mark the refund
\* in full, is about one that is not refunded in full.
LEMMA NotYetInFull ==
  ASSUME RInv, NEW h \in Handlers, ~At(h, "idle"), ~At(h, "markFull"),
         Pay(h) \notin disturbed
  PROVE  refunded[Pay(h)] # Amount[Pay(h)]
<1>1. Pay(h) \in Payments /\ InFlight(Pay(h)) \subseteq {h}
  BY AloneInFlight DEF RInv
<1>2. h \in InFlight(Pay(h)) /\ RefundShown(Pay(h))
  BY <1>1 DEF InFlight, RInv
<1> QED
  BY <1>1, <1>2 DEF RefundShown

\* A request taken up leaves the refunds as they are: on a payment refunded in
\* full it disturbs it.
LEMMA StartKeepsShown ==
  ASSUME RInv, OInv', NEW h \in Handlers, NEW p \in Payments, NEW a \in 1..Amount[p],
         \/ StartInitiate(h, p) \/ StartConfirm(h, p) \/ StartWebhook(h, p)
         \/ StartRefund(h, p, a) \/ StartReverse(h, p)
  PROVE  RInv'
<1>1. TypeOK /\ a \in Nat
  BY AmountType DEF RInv, OInv, PInv
<1>2. UNCHANGED <<payment, refunded>>
  BY DEF StartInitiate, StartConfirm, StartWebhook, StartRefund, StartReverse, books
<1>3. ASSUME NEW kind \in {"initiate", "confirm", "webhook", "capture", "refund", "reverse"},
             NEW b \in Nat,
             NEW pc \in {"order", "verify", "read", "capture", "refund", "reverse"},
             Begin(h, kind, p, b, pc)
      PROVE  RInv'
  <2>1. /\ handler'[h].pay = p /\ disturbed \subseteq disturbed'
        /\ \A g \in Handlers : g # h => handler'[g] = handler[g]
    BY <1>1, <1>3, BeginTypes
  <2>2. At(h, "idle")
    BY <1>3 DEF Begin
  <2>3. p \notin disturbed' => refunded'[p] # Amount[p]
    <3>1. SUFFICES ASSUME p \notin disturbed' PROVE refunded'[p] # Amount[p]
      OBVIOUS
    <3>2. p \notin disturbed /\ InFlight(p) = {} /\ payment[p] # "REFUNDED"
      BY <1>3, <3>1 DEF Begin
    <3>3. RefundShown(p)
      BY DEF RInv
    <3> QED
      BY <1>2, <3>2, <3>3 DEF RefundShown
  <2> QED
    BY <1>2, <2>1, <2>2, <2>3, ShownKeeps
<1>4. \/ Begin(h, "initiate", p, 0, "order")
      \/ Begin(h, "confirm", p, 0, "verify")
      \/ Begin(h, "webhook", p, 0, "read")
      \/ Begin(h, "capture", p, 0, "capture")
      \/ Begin(h, "refund", p, a, "refund")
      \/ Begin(h, "reverse", p, 0, "reverse")
      \/ UNCHANGED <<handler, disturbed>>
  BY DEF StartInitiate, StartConfirm, StartWebhook, StartRefund, StartReverse, tally
<1>5. CASE UNCHANGED <<handler, disturbed>>
  BY <1>2, <1>5 DEF RInv, RefundShown, InFlight, At, Pay
<1> QED
  BY <1>1, <1>3, <1>4, <1>5

\* A request in flight moves on with its own payment alone.
LEMMA MovesAlone ==
  ASSUME TypeOK, NEW h \in Handlers,
         \/ CreatePayment(h) \/ Confirmation(h) \/ PostRefund(h) \/ RefuseRefund(h)
         \/ MarkRefund(h) \/ ReadPaidRows(h) \/ ReverseTransaction(h) \/ PostReversal(h)
         \/ Abort(h)
  PROVE  /\ ~At(h, "idle") /\ handler'[h].pay = Pay(h) /\ disturbed \subseteq disturbed'
         /\ \A g \in Handlers : g # h => handler'[g] = handler[g]
         /\ \A q \in Payments : q # Pay(h) => payment'[q] = payment[q]
<1>1. Pay(h) \in Payments
  BY PayType
<1>2. /\ ~At(h, "idle") /\ disturbed \subseteq disturbed'
      /\ payment' = payment \/ \E s \in Status : SetPayment(Pay(h), s)
      /\ \/ handler' = handler
         \/ \E o \in {"processed", "failed"} : Finish(h, o)
         \/ \E pc \in {"decline", "read", "allocate", "rows", "mark", "markFull",
                       "markPartial", "rollback", "postReversal"} : GoTo(h, pc)
  <2> USE DEF CreatePayment, Confirmation, GatewayPending, GatewayAnswers, MarkFailed,
              CreateCaptured, ReadLoan, WriteInstalment, WriteLoan, StoreRows,
              PostJournal, MarkSuccess, PostRefund, RefuseRefund, MarkRefund,
              ReadPaidRows, ReverseTransaction, PostReversal, Abort
  <2>1. ~At(h, "idle")
    BY DEF At
  <2>2. disturbed \subseteq disturbed'
    BY DEF tally
  <2>3. payment' = payment \/ \E s \in Status : SetPayment(Pay(h), s)
    BY DEF Status
  <2>4. \/ handler' = handler
        \/ \E o \in {"processed", "failed"} : Finish(h, o)
        \/ \E pc \in {"decline", "read", "allocate", "rows", "mark", "markFull",
                      "markPartial", "rollback", "postReversal"} : GoTo(h, pc)
    OBVIOUS
  <2> QED
    BY <2>1, <2>2, <2>3, <2>4
<1>3. \A q \in Payments : q # Pay(h) => payment'[q] = payment[q]
  BY <1>1, <1>2, SetPaymentTypes
<1>4. /\ handler'[h].pay = Pay(h)
      /\ \A g \in Handlers : g # h => handler'[g] = handler[g]
  BY <1>2, FinishTypes, GoToTypes DEF Pay
<1> QED
  BY <1>2, <1>3, <1>4

LEMMA NextKeepsShown == RInv /\ [Next]_vars => RInv'
<1> SUFFICES ASSUME RInv, [Next]_vars PROVE RInv'
  OBVIOUS
<1>1. OInv' /\ TypeOK
  BY NextKeepsOrder DEF RInv, OInv, PInv
<1>2. ASSUME NEW h \in Handlers, Start(h) PROVE RInv'
  <2>1. PICK p \in Payments :
          \/ StartInitiate(h, p) \/ StartConfirm(h, p) \/ StartWebhook(h, p)
          \/ (\E a \in 1..Amount[p] : StartRefund(h, p, a)) \/ StartReverse(h, p)
    BY <1>2 DEF Start
  <2>2. 1 \in 1..Amount[p]
    BY PaymentsAssumption
  <2> QED
    BY <1>1, <2>1, <2>2, StartKeepsShown
<1>3. ASSUME NEW h \in Handlers,
             \/ CreatePayment(h) \/ Confirmation(h) \/ RefuseRefund(h) \/ ReadPaidRows(h)
             \/ ReverseTransaction(h) \/ PostReversal(h) \/ Abort(h)
             \/ MarkRefund(h) /\ ~At(h, "markFull")
      PROVE  RInv'
  <2>1. Pay(h) \in Payments
    BY <1>1, PayType
  <2>2. /\ ~At(h, "idle") /\ handler'[h].pay = Pay(h) /\ disturbed \subseteq disturbed'
        /\ \A g \in Handlers : g # h => handler'[g] = handler[g]
        /\ \A q \in Payments : q # Pay(h) => payment'[q] = payment[q]
    BY <1>1, <1>3, MovesAlone
  <2>3. refunded' = refunded
    BY <1>3 DEF CreatePayment, Confirmation, GatewayPending, GatewayAnswers, MarkFailed,
         CreateCaptured, ReadLoan, WriteInstalment, WriteLoan, StoreRows, PostJournal,
         MarkSuccess, RefuseRefund, MarkRefund, ReadPaidRows, ReverseTransaction,
         PostReversal, Abort, books
  <2>4. ~At(h, "markFull") \/ Pay(h) \in disturbed'
    BY <1>3 DEF CreatePayment, Confirmation, GatewayPending, GatewayAnswers, MarkFailed,
         CreateCaptured, ReadLoan, WriteInstalment, WriteLoan, StoreRows, PostJournal,
         MarkSuccess, RefuseRefund, ReadPaidRows, ReverseTransaction, PostReversal,
         Abort, At
  <2>5. Pay(h) \notin disturbed' => refunded'[Pay(h)] # Amount[Pay(h)]
    BY <2>2, <2>3, <2>4, NotYetInFull
  <2> QED
    BY <1>1, <2>1, <2>2, <2>3, <2>5, ShownKeeps
<1>4. ASSUME NEW h \in Handlers, PostRefund(h) PROVE RInv'
  <2>1. Pay(h) \in Payments
    BY <1>1, PayType
  <2>2. /\ ~At(h, "idle") /\ handler'[h].pay = Pay(h) /\ disturbed \subseteq disturbed'
        /\ \A g \in Handlers : g # h => handler'[g] = handler[g]
        /\ \A q \in Payments : q # Pay(h) => payment'[q] = payment[q]
    BY <1>1, <1>4, MovesAlone
  <2> DEFINE p == Pay(h)
             a == handler[h].amount
  <2>3. /\ a \in Nat /\ Amount[p] \in Nat /\ refunded \in [Payments -> Nat]
    BY <1>1, <2>1, AmountType DEF TypeOK, Request
  <2>4. /\ refunded' = [refunded EXCEPT ![p] = refunded[p] + a]
        /\ GoTo(h, IF a = Amount[p] - refunded[p] THEN "markFull" ELSE "markPartial")
    BY <1>4 DEF PostRefund
  <2>5. a = Amount[p] - refunded[p] => handler'[h].pc = "markFull"
    BY <1>1, <2>4, GoToTypes
  <2> HIDE DEF a
  <2>6. /\ refunded'[p] = refunded[p] + a
        /\ \A q \in Payments : q # p => refunded'[q] = refunded[q]
    BY <2>1, <2>3, <2>4
  <2>7. refunded'[p] = Amount[p] => handler'[h].pc = "markFull"
    BY <2>1, <2>3, <2>5, <2>6
  <2> QED
    BY <1>1, <2>1, <2>2, <2>6, <2>7, ShownKeeps
<1>5. ASSUME NEW h \in Handlers, MarkRefund(h), At(h, "markFull") PROVE RInv'
  <2>1. Pay(h) \in Payments
    BY <1>1, PayType
  <2>2. /\ ~At(h, "idle") /\ handler'[h].pay = Pay(h) /\ disturbed \subseteq disturbed'
        /\ \A g \in Handlers : g # h => handler'[g] = handler[g]
        /\ \A q \in Payments : q # Pay(h) => payment'[q] = payment[q]
    BY <1>1, <1>5, MovesAlone
  <2>3. /\ refunded' = refunded /\ SetPayment(Pay(h), "REFUNDED") /\ Finish(h, "processed")
    BY <1>5 DEF MarkRefund, At, books
  <2>4. payment'[Pay(h)] = "REFUNDED" /\ handler'[h].pc = "idle"
    BY <1>1, <2>1, <2>3, SetPaymentTypes, FinishTypes DEF Status
  <2>5. Pay(h) \notin disturbed' => InFlight(Pay(h)) \subseteq {h}
    BY <2>2, AloneInFlight DEF RInv
  <2> QED
    BY <1>1, <2>1, <2>2, <2>3, <2>4, <2>5, ShownKeeps
<1>6. CASE UNCHANGED vars
  BY <1>1, <1>6 DEF vars, books, tally, RInv, RefundShown, InFlight, At, Pay
<1> QED
  BY <1>2, <1>3, <1>4, <1>5, <1>6 DEF Next

LEMMA InitRInv == Init => RInv
<1> SUFFICES ASSUME Init PROVE RInv
  OBVIOUS
<1>1. \A p \in Payments : refunded[p] # Amount[p]
  BY PaymentsAssumption DEF Init
<1> QED
  BY <1>1, InitOInv DEF RInv, RefundShown

LEMMA RefundsAreShown == Spec => []RInv
  BY InitRInv, NextKeepsShown, PTL DEF Spec

\* A payment is journaled twice, has more in its allocation rows than it brought,
\* or is refunded in full without being shown REFUNDED, only when it was handled
\* twice at once, or after a failed call, a refund in full or a reversal.
THEOREM OffRecordIfDisturbed == Spec => []UndisturbedOnRecord
<1>1. RInv => UndisturbedOnRecord
  <2> SUFFICES ASSUME RInv, NEW p \in Payments, p \notin disturbed
               PROVE  /\ Bounded(p)
                      /\ refunded[p] = Amount[p] /\ InFlight(p) = {}
                           => payment[p] = "REFUNDED"
    BY DEF UndisturbedOnRecord, Bounded
  <2>1. Orderly(p) /\ RefundShown(p)
    BY DEF RInv, OInv
  <2> QED
    BY <2>1 DEF Orderly, RefundShown
<1> QED
  BY <1>1, RefundsAreShown, PTL

-----------------------------------------------------------------------------
\* What the waterfall and the rollback make of the rows other requests left.

LEMMA RowsAreTyped ==
  ASSUME TypeOK, NEW p \in Payments
  PROVE  loan \in Loan /\ items \in [Instalments -> Item] /\ Amount[p] \in Nat
  BY PaymentsAssumption DEF TypeOK

\* Whatever overlapping requests have written, the next allocation serves the
\* oldest open instalment first, and the buckets of each in their order.
THEOREM NextServesInOrder == Spec => []AllocatedInOrder
<1>1. TypeOK => AllocatedInOrder
  <2> SUFFICES ASSUME TypeOK, NEW p \in Payments
               PROVE  LET a == Allocate(loan, items, Amount[p])
                      IN /\ OldestServedFirst(items, a)
                         /\ Len(a.touched) <= Len(a.shares)
                         /\ \A k \in 1..Len(a.touched) :
                              ByPriority(items, a.touched[k], a.shares[k])
    BY DEF AllocatedInOrder
  <2> QED
    BY RowsAreTyped, OldestIsServedFirst, BucketsServedByPriority
<1> QED
  BY <1>1, TypeCorrect, PTL

\* Whatever overlapping requests have written, a reversal takes the amount of
\* its payment back from the latest paid instalments, or all that is paid.
THEOREM ReversalsTakeBack == Spec => []ReversalTakesItBack
<1>1. TypeOK => ReversalTakesItBack
  BY RowsAreTyped, LatestAreTakenBack DEF ReversalTakesItBack
<1> QED
  BY <1>1, TypeCorrect, PTL
=============================================================================
