------------------------------ MODULE Payments ------------------------------
(***************************************************************************)
(* The payments of one loan account: payment.service.ts,                   *)
(* payment-webhook.service.ts, and what they make of                       *)
(* payment-allocation.service.ts and gl.service.ts.                        *)
(*                                                                         *)
(* Every request runs as a handler of its own.  Rows are in the database,  *)
(* reached by awaited calls; the journal, the refund records and the       *)
(* processed webhook events are in the process, reached at once.  A        *)
(* handler's step is one awaited call with the code that follows it up to  *)
(* the next await, so handlers interleave wherever the code awaits.        *)
(*                                                                         *)
(* Abstracted: timelines, audit rows, notifications, references; a journal *)
(* entry is counted for the payment it is about.  The allocation rows of   *)
(* one instalment are stored together.  A webhook event carries its        *)
(* payment's amount, and there is one capture event for a payment.         *)
(***************************************************************************)
EXTENDS PaymentWaterfall, FiniteSets

CONSTANTS
  Payments,
  Amount,      \* [Payments -> Nat \ {0}]
  Direct,      \* payments the gateway captured that initiatePayment never saw
  Handlers,    \* requests that may be in flight together
  MaxStarts,   \* bound on the requests handled
  MaxFaults    \* bound on the database calls that fail

ASSUME PaymentsAssumption ==
  /\ Payments # {}
  /\ Amount \in [Payments -> Nat \ {0}]
  /\ Direct \subseteq Payments
  /\ MaxStarts \in Nat
  /\ MaxFaults \in Nat

VARIABLES
  loan,       \* balances and status of the Loan row
  items,      \* paidAmount, outstanding and status of the schedule rows
  payment,    \* [Payments -> status of the Payment row, or NONE]
  rows,       \* [Payments -> what the PaymentAllocation rows add up to]
  journals,   \* [Payments -> repayment entries in the journal]
  reversals,  \* [Payments -> reversal entries in the journal]
  refunded,   \* [Payments -> total of the refund records]
  credited,   \* [Payments -> principal given back to the credit line]
  event,      \* [Payments -> the capture event in the processed registry]
  handler,    \* [Handlers -> where it is, and its arguments]
  plan,       \* [Handlers -> what it computed from the rows it read]
  starts, faults,
  disturbed   \* payments handled twice at once, after a fault or a reversal

vars == <<loan, items, payment, rows, journals, reversals, refunded, credited,
          event, handler, plan, starts, faults, disturbed>>
books == <<journals, reversals, refunded, credited>>
tally == <<starts, faults, disturbed>>

Status == {"NONE", "PENDING", "SUCCESS", "FAILED", "REFUNDED", "REVERSED"}

AnyPayment == CHOOSE p \in Payments : TRUE
NoPlan == [items |-> <<>>, touched |-> <<>>, shares |-> <<>>,
           total |-> NothingAllocated, excess |-> 0, seen |-> "ACTIVE",
           loan |-> [principal |-> 0, interest |-> 0, charges |-> 0,
                     status |-> "ACTIVE"]]

At(h, pc) == handler[h].pc = pc
Pay(h) == handler[h].pay
InFlight(p) == {h \in Handlers : ~At(h, "idle") /\ Pay(h) = p}
Scheduled(field) ==
  LET sum[n \in 0..Len(Dues)] ==
        IF n = 0 THEN 0 ELSE sum[n - 1] + Dues[n][field]
  IN sum[Len(Dues)]

\* A loan as conversion leaves it: the whole schedule unpaid and no interest
\* outstanding on the loan itself.
Init ==
  /\ loan = [principal |-> Scheduled("principal"), interest |-> 0,
             charges |-> Scheduled("fees") + Scheduled("penalty"),
             status |-> "ACTIVE"]
  /\ items = [i \in Instalments |->
                [paid |-> 0, outstanding |-> TotalDue(Dues[i]) + Dues[i].penalty,
                 status |-> "DUE"]]
  /\ payment \in [Payments -> {"NONE", "PENDING"}]
  /\ \A p \in Direct : payment[p] = "NONE"
  /\ rows = [p \in Payments |-> NothingAllocated]
  /\ journals = [p \in Payments |-> 0]
  /\ reversals = [p \in Payments |-> 0]
  /\ refunded = [p \in Payments |-> 0]
  /\ credited = [p \in Payments |-> 0]
  /\ event = [p \in Payments |-> "new"]
  /\ handler = [h \in Handlers |-> [pc |-> "idle", kind |-> "confirm",
                                    pay |-> AnyPayment, amount |-> 0]]
  /\ plan = [h \in Handlers |-> NoPlan]
  /\ starts = 0
  /\ faults = 0
  /\ disturbed = {}

-----------------------------------------------------------------------------

\* Handler h takes up a request about payment p.
Begin(h, kind, p, amount, pc) ==
  /\ At(h, "idle")
  /\ starts < MaxStarts
  /\ starts' = starts + 1
  /\ handler' = [handler EXCEPT ![h] = [pc |-> pc, kind |-> kind, pay |-> p,
                                        amount |-> amount]]
  /\ disturbed' = IF InFlight(p) # {} \/ payment[p] \in {"REFUNDED", "REVERSED"}
                  THEN disturbed \cup {p} ELSE disturbed
  /\ UNCHANGED faults

GoTo(h, pc) == handler' = [handler EXCEPT ![h].pc = pc]

\* The request is answered.  A webhook delivery records its event first.
Finish(h, outcome) ==
  /\ GoTo(h, "idle")
  /\ plan' = [plan EXCEPT ![h] = NoPlan]
  /\ event' = IF handler[h].kind \in {"webhook", "capture"}
              THEN [event EXCEPT ![Pay(h)] = outcome] ELSE event

SetPayment(p, status) == payment' = [payment EXCEPT ![p] = status]

-----------------------------------------------------------------------------
\* initiatePayment.

\* The loan is looked at before the gateway is asked for an order.
StartInitiate(h, p) ==
  /\ p \notin Direct
  /\ payment[p] = "NONE" /\ InFlight(p) = {}
  /\ loan.status # "CLOSED"
  /\ Begin(h, "initiate", p, 0, "order")
  /\ UNCHANGED <<loan, items, payment, rows, books, event, plan>>

CreatePayment(h) ==
  /\ At(h, "order")
  /\ SetPayment(Pay(h), "PENDING")
  /\ Finish(h, "processed")
  /\ UNCHANGED <<loan, items, rows, books, tally>>

-----------------------------------------------------------------------------
\* confirmPayment and the capture webhook, up to the allocation.

\* A StartConfirm that confirms a payment that is SUCCESS again.
StartConfirmAgain(h, p) ==
  /\ payment[p] # "NONE"
  /\ Begin(h, "confirm", p, 0, "verify")
  /\ UNCHANGED <<loan, items, payment, rows, books, event, plan>>

\* confirmPayment reads the payment; one that is SUCCESS is returned as it is,
\* any other status goes on to the gateway.
StartConfirm(h, p) ==
  /\ payment[p] \notin {"NONE", "SUCCESS"}
  /\ Begin(h, "confirm", p, 0, "verify")
  /\ UNCHANGED <<loan, items, payment, rows, books, event, plan>>

\* verifyPayment answers: still pending, declined or captured.
GatewayPending(h) ==
  /\ At(h, "verify")
  /\ Finish(h, "processed")
  /\ UNCHANGED <<loan, items, payment, rows, books, tally>>

GatewayAnswers(h) ==
  /\ At(h, "verify")
  /\ GoTo(h, "decline") \/ GoTo(h, "read")
  /\ UNCHANGED <<loan, items, payment, rows, books, event, plan, tally>>

MarkFailed(h) ==
  /\ At(h, "decline")
  /\ SetPayment(Pay(h), "FAILED")
  /\ Finish(h, "processed")
  /\ UNCHANGED <<loan, items, rows, books, tally>>

\* ingestWebhook on a capture event.  The registry is consulted here and
\* written when the delivery is done; a payment already SUCCESS is acknowledged.
StartWebhook(h, p) ==
  /\ event[p] = "new"
  /\ \/ /\ payment[p] = "SUCCESS"
        /\ At(h, "idle")
        /\ event' = [event EXCEPT ![p] = "processed"]
        /\ UNCHANGED <<handler, tally>>
     \/ /\ payment[p] \notin {"NONE", "SUCCESS"}
        /\ Begin(h, "webhook", p, 0, "read")
        /\ UNCHANGED event
     \/ /\ payment[p] = "NONE" /\ p \in Direct
        /\ Begin(h, "capture", p, 0, "capture")
        /\ UNCHANGED event
  /\ UNCHANGED <<loan, items, payment, rows, books, plan>>

\* The webhook stores a payment nobody initiated as SUCCESS before it
\* allocates anything; paymentNo is unique, so a second insert fails.
CreateCaptured(h) ==
  /\ At(h, "capture")
  /\ \/ /\ payment[Pay(h)] = "NONE"
        /\ SetPayment(Pay(h), "SUCCESS")
        /\ GoTo(h, "read")
        /\ UNCHANGED <<event, plan>>
     \/ /\ payment[Pay(h)] # "NONE"
        /\ Finish(h, "failed")
        /\ UNCHANGED payment
  /\ UNCHANGED <<loan, items, rows, books, tally>>

-----------------------------------------------------------------------------
\* allocatePayment and what its caller does with the result.

\* A ReadLoan that marks the payment before it is allocated.
ReadLoanMarkFirst(h) ==
  /\ At(h, "read")
  /\ plan' = [plan EXCEPT ![h] = Allocate(loan, items, Amount[Pay(h)])]
  /\ SetPayment(Pay(h), "SUCCESS")
  /\ GoTo(h, "allocate")
  /\ UNCHANGED <<loan, items, rows, books, event, tally>>

\* The loan and its unpaid instalments are read once; everything written below
\* is computed from this reading.
ReadLoan(h) ==
  /\ At(h, "read")
  /\ plan' = [plan EXCEPT ![h] = Allocate(loan, items, Amount[Pay(h)])]
  /\ GoTo(h, "allocate")
  /\ UNCHANGED <<loan, items, payment, rows, books, event, tally>>

\* A database error in allocatePayment is swallowed: the write is lost and the
\* handler goes on.
Lost == faults < MaxFaults /\ faults' = faults + 1

WriteInstalment(h) ==
  LET todo == plan[h].touched
  IN /\ At(h, "allocate")
     /\ todo # <<>>
     /\ \/ /\ items' = [items EXCEPT ![Head(todo)] = plan[h].items[Head(todo)]]
           /\ UNCHANGED <<faults, disturbed>>
        \/ /\ Lost
           /\ disturbed' = disturbed \cup {Pay(h)}
           /\ UNCHANGED items
     /\ plan' = [plan EXCEPT ![h].touched = Tail(todo)]
     /\ UNCHANGED <<loan, payment, rows, books, event, handler, starts>>

\* The loan row, then the principal goes back to the customer's credit line.
WriteLoan(h) ==
  /\ At(h, "allocate")
  /\ plan[h].touched = <<>>
  /\ \/ /\ loan' = plan[h].loan
        /\ UNCHANGED <<faults, disturbed>>
     \/ /\ Lost
        /\ disturbed' = disturbed \cup {Pay(h)}
        /\ UNCHANGED loan
  /\ credited' = [credited EXCEPT ![Pay(h)] = @ + plan[h].total.PRINCIPAL]
  /\ GoTo(h, "rows")
  /\ UNCHANGED <<items, payment, rows, journals, reversals, refunded, event,
                 plan, starts>>

\* The allocation rows, in order; the excess has none.  An error drops the rest.
StoreRows(h) ==
  LET shares == plan[h].shares
      p == Pay(h)
  IN /\ At(h, "rows")
     /\ shares # <<>>
     /\ \/ /\ rows' = [rows EXCEPT ![p] = Plus(@, Head(shares))]
           /\ plan' = [plan EXCEPT ![h].shares = Tail(shares)]
           /\ UNCHANGED <<faults, disturbed>>
        \/ /\ Lost
           /\ disturbed' = disturbed \cup {p}
           /\ plan' = [plan EXCEPT ![h].shares = <<>>]
           /\ UNCHANGED rows
     /\ UNCHANGED <<loan, items, payment, books, event, handler, starts>>

\* createJournalEntry refuses an entry whose debits and credits differ.
Balanced(h) == Allotted(plan[h].total) + plan[h].excess = Amount[Pay(h)]

\* postRepaymentJournal; confirmPayment then gives the principal back to the
\* credit line a second time.  A payment stored as SUCCESS is done here.
PostJournal(h) ==
  LET p == Pay(h)
  IN /\ At(h, "rows")
     /\ plan[h].shares = <<>>
     /\ IF Balanced(h)
        THEN /\ journals' = [journals EXCEPT ![p] = @ + 1]
             /\ credited' = IF handler[h].kind = "confirm"
                  THEN [credited EXCEPT ![p] = @ + plan[h].total.PRINCIPAL]
                  ELSE credited
             /\ IF handler[h].kind = "capture"
                THEN Finish(h, "processed")
                ELSE GoTo(h, "mark") /\ UNCHANGED <<plan, event>>
        ELSE /\ Finish(h, "failed")
             /\ UNCHANGED <<journals, credited>>
     /\ UNCHANGED <<loan, items, payment, rows, reversals, refunded, tally>>

\* The payment is marked SUCCESS, whatever its status has become.
MarkSuccess(h) ==
  /\ At(h, "mark")
  /\ SetPayment(Pay(h), "SUCCESS")
  /\ Finish(h, "processed")
  /\ UNCHANGED <<loan, items, rows, books, tally>>

-----------------------------------------------------------------------------
\* processRefund.

StartRefund(h, p, a) ==
  /\ payment[p] = "SUCCESS"
  /\ a > 0
  /\ Begin(h, "refund", p, a, "refund")
  /\ UNCHANGED <<loan, items, payment, rows, books, event, plan>>

\* A PostRefund that checks each refund against the payment alone.
PostRefundForgetful(h) ==
  /\ At(h, "refund")
  /\ handler[h].amount <= Amount[Pay(h)]
  /\ refunded' = [refunded EXCEPT ![Pay(h)] = @ + handler[h].amount]
  /\ GoTo(h, IF handler[h].amount = Amount[Pay(h)] THEN "markFull" ELSE "markPartial")
  /\ UNCHANGED <<loan, items, payment, rows, journals, reversals, credited,
                 event, plan, tally>>

\* The refund records are checked and extended without an await in between.
PostRefund(h) ==
  LET p == Pay(h)
      left == Amount[p] - refunded[p]
  IN /\ At(h, "refund")
     /\ handler[h].amount <= left
     /\ refunded' = [refunded EXCEPT ![p] = @ + handler[h].amount]
     /\ GoTo(h, IF handler[h].amount = left THEN "markFull" ELSE "markPartial")
     /\ UNCHANGED <<loan, items, payment, rows, journals, reversals, credited,
                    event, plan, tally>>

RefuseRefund(h) ==
  /\ At(h, "refund")
  /\ handler[h].amount > Amount[Pay(h)] - refunded[Pay(h)]
  /\ Finish(h, "processed")
  /\ UNCHANGED <<loan, items, payment, rows, books, tally>>

\* The payment is REFUNDED once nothing is left of it, SUCCESS otherwise.
MarkRefund(h) ==
  /\ \/ At(h, "markFull") /\ SetPayment(Pay(h), "REFUNDED")
     \/ At(h, "markPartial") /\ SetPayment(Pay(h), "SUCCESS")
  /\ Finish(h, "processed")
  /\ UNCHANGED <<loan, items, rows, books, tally>>

-----------------------------------------------------------------------------
\* reversePayment.

\* The payment is read with its loan and its allocation rows.
StartReverse(h, p) ==
  /\ payment[p] \notin {"NONE", "REVERSED"}
  /\ Begin(h, "reverse", p, 0, "reverse")
  /\ plan' = [plan EXCEPT ![h] = [NoPlan EXCEPT !.loan = loan, !.total = rows[p]]]
  /\ UNCHANGED <<loan, items, payment, rows, books, event>>

\* The transaction reads the paid instalments.
ReadPaidRows(h) ==
  /\ At(h, "reverse")
  /\ plan' = [plan EXCEPT ![h].items = items]
  /\ GoTo(h, "rollback")
  /\ UNCHANGED <<loan, items, payment, rows, books, event, tally>>

\* The schedule with `read` rolled back by the amount: an instalment that gives
\* something back is written over, whatever it has become since it was read.
WithRollback(read, amount) ==
  LET after == RolledBack(read, amount)
  IN [i \in Instalments |-> IF after[i] # read[i] THEN after[i] ELSE items[i]]

\* A ReverseTransaction that leaves the loan the status it was read with.
ReverseTransactionKeepsStatus(h) ==
  /\ At(h, "rollback")
  /\ items' = WithRollback(plan[h].items, Amount[Pay(h)])
  /\ loan' = [plan[h].loan EXCEPT !.principal = @ + plan[h].total.PRINCIPAL,
                                  !.interest = @ + plan[h].total.INTEREST]
  /\ SetPayment(Pay(h), "REVERSED")
  /\ GoTo(h, "postReversal")
  /\ UNCHANGED <<rows, books, event, plan, tally>>

\* The transaction commits: the rollback of the instalments it read is written,
\* the balances read before it get the allocations back, the loan is ACTIVE.
\* Row locks make its updates appear together, at READ COMMITTED.
ReverseTransaction(h) ==
  LET was == plan[h].loan
      back == plan[h].total
  IN /\ At(h, "rollback")
     /\ items' = WithRollback(plan[h].items, Amount[Pay(h)])
     /\ loan' = [principal |-> was.principal + back.PRINCIPAL,
                 interest |-> was.interest + back.INTEREST,
                 charges |-> was.charges + back.FEES + back.PENALTY,
                 status |-> "ACTIVE"]
     /\ SetPayment(Pay(h), "REVERSED")
     /\ GoTo(h, "postReversal")
     /\ UNCHANGED <<rows, books, event, plan, tally>>

\* postReversalJournal mirrors the allocation rows: without the excess, or
\* without any row, the entry does not balance and the request fails.
PostReversal(h) ==
  LET p == Pay(h)
  IN /\ At(h, "postReversal")
     /\ reversals' = IF Allotted(plan[h].total) = Amount[p]
                     THEN [reversals EXCEPT ![p] = @ + 1] ELSE reversals
     /\ Finish(h, "processed")
     /\ UNCHANGED <<loan, items, payment, rows, journals, refunded, credited,
                    tally>>

-----------------------------------------------------------------------------

\* An awaited call outside allocatePayment fails and the request with it; what
\* was done before stays done.
Abort(h) ==
  /\ handler[h].pc \in {"order", "verify", "decline", "capture", "read", "mark",
                        "markFull", "markPartial", "reverse", "rollback"}
  /\ Lost
  /\ disturbed' = disturbed \cup {Pay(h)}
  /\ Finish(h, "failed")
  /\ UNCHANGED <<loan, items, payment, rows, books, starts>>

Start(h) ==
  \E p \in Payments :
    \/ StartInitiate(h, p)
    \/ StartConfirm(h, p)
    \/ StartWebhook(h, p)
    \/ \E a \in 1..Amount[p] : StartRefund(h, p, a)
    \/ StartReverse(h, p)

Confirmation(h) ==
  \/ GatewayPending(h)
  \/ GatewayAnswers(h)
  \/ MarkFailed(h)
  \/ CreateCaptured(h)
  \/ ReadLoan(h)
  \/ WriteInstalment(h)
  \/ WriteLoan(h)
  \/ StoreRows(h)
  \/ PostJournal(h)
  \/ MarkSuccess(h)

Next ==
  \E h \in Handlers :
    \/ Start(h)
    \/ CreatePayment(h)
    \/ Confirmation(h)
    \/ PostRefund(h)
    \/ RefuseRefund(h)
    \/ MarkRefund(h)
    \/ ReadPaidRows(h)
    \/ ReverseTransaction(h)
    \/ PostReversal(h)
    \/ Abort(h)

Spec == Init /\ [][Next]_vars

-----------------------------------------------------------------------------

Plan == [items : Seq(Item), touched : Seq(Instalments), shares : Seq(Allocation),
         total : Allocation, excess : Nat, seen : {"ACTIVE", "CLOSED"},
         loan : Loan]
Request == [pc : {"idle", "order", "verify", "decline", "capture", "read",
                  "allocate", "rows", "mark", "refund", "markFull",
                  "markPartial", "reverse", "rollback", "postReversal"},
            kind : {"initiate", "confirm", "webhook", "capture", "refund",
                    "reverse"},
            pay : Payments, amount : Nat]

TypeOK ==
  /\ loan \in Loan
  /\ items \in [Instalments -> Item]
  /\ payment \in [Payments -> Status]
  /\ rows \in [Payments -> Allocation]
  /\ {journals, reversals, refunded, credited} \subseteq [Payments -> Nat]
  /\ event \in [Payments -> {"new", "processed", "failed"}]
  /\ handler \in [Handlers -> Request]
  /\ plan \in [Handlers -> Plan]
  /\ starts \in 0..MaxStarts
  /\ faults \in 0..MaxFaults
  /\ disturbed \subseteq Payments

\* The buckets and the excess of every allocation add up to the payment, even
\* on a schedule other handlers are writing, so that a captured payment never
\* fails in createJournalEntry after its loan has been written.
AllocationsAddUp ==
  \A h \in Handlers :
    handler[h].pc \in {"allocate", "rows", "mark"} => Balanced(h)

\* A CLOSED loan owes neither principal nor interest, whichever stale readings
\* are written over each other.
ClosedMeansClear ==
  loan.status = "CLOSED" => loan.principal = 0 /\ loan.interest = 0

\* A loan once CLOSED is reopened only by a reversal, or by a payment whose
\* reading of the loan is older than the closing.
ReopenedByStaleReading ==
  [][loan.status = "CLOSED" /\ loan'.status # "CLOSED" =>
       \E h \in Handlers :
         \/ At(h, "rollback") /\ handler'[h].pc = "postReversal"
         \/ /\ At(h, "allocate") /\ handler'[h].pc = "rows"
            /\ plan[h].seen # "CLOSED"]_vars

\* Refunds of a payment never add up to more than was paid, although requests
\* are admitted on a status read earlier (payment.service.ts:591), and one shown
\* REFUNDED has been refunded in full.
RefundsWithinPayment ==
  \A p \in Payments :
    /\ refunded[p] <= Amount[p]
    /\ payment[p] = "REFUNDED" => refunded[p] = Amount[p]

\* A payment that was initiated and is now SUCCESS or REFUNDED has a repayment
\* entry in the journal: the status is written last.
SuccessIsJournaled ==
  \A p \in Payments \ Direct :
    payment[p] \in {"SUCCESS", "REFUNDED"} => journals[p] > 0

\* A payment is journaled twice, has more allocation rows than it brought, or
\* loses the REFUNDED of its last refund to a later write, only if it was handled
\* twice at once, or after a database failure, a refund in full or a reversal:
\* one request at a time, the status checks keep confirmations, webhooks and
\* refunds from repeating or undoing each other.
UndisturbedOnRecord ==
  \A p \in Payments : p \notin disturbed =>
    /\ journals[p] <= 1
    /\ Allotted(rows[p]) <= Amount[p]
    /\ refunded[p] = Amount[p] /\ InFlight(p) = {} => payment[p] = "REFUNDED"

\* Whatever overlapping handlers have made of the rows, a payment allocated on
\* them now serves the oldest instalment first, and what it gives one goes to
\* the buckets by priority.
AllocatedInOrder ==
  \A p \in Payments :
    LET a == Allocate(loan, items, Amount[p])
    IN /\ OldestServedFirst(items, a)
       /\ Len(a.touched) <= Len(a.shares)
       /\ \A k \in 1..Len(a.touched) : ByPriority(items, a.touched[k], a.shares[k])

\* A reversal that reads the rows now computes a rollback of the whole amount,
\* as far as the schedule has been paid, from its latest instalments.
ReversalTakesItBack ==
  \A p \in Payments :
    TakenFromLatest(items, RolledBack(items, Amount[p]), Amount[p])

\* payment.service.ts:404: "Already successful payments return without
\* duplicating allocations or GL journals".
JournaledOnce == \A p \in Payments : journals[p] <= 1

\* payment-lifecycle.md:31: of a REVERSED payment a "compensating reversal entry
\* [is] posted via postReversalJournal".
ReversalsCompensated ==
  \A p \in Payments :
    payment[p] = "REVERSED" /\ journals[p] > 0 /\ InFlight(p) = {}
      => reversals[p] > 0

\* payment-allocation-waterfall.md:33: a loan is CLOSED when nothing is
\* outstanding "and no further unpaid schedule items exist".
ClosedMeansScheduleDone ==
  loan.status = "CLOSED" /\ (\A h \in Handlers : At(h, "idle"))
    => \A i \in Instalments : items[i].status = "PAID"
=============================================================================
