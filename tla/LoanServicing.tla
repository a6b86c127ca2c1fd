--------------------------- MODULE LoanServicing ---------------------------
(***************************************************************************)
(* One Loan row and its repayment schedule under everything that services  *)
(* them: the DPD evaluation, gated closure and adjustments of              *)
(* loan-servicing.service.ts, restructuring, one-time settlement and NOC   *)
(* closure of restructuring.service.ts, the EOD accrual, the midnight      *)
(* delinquency engine, and what a repayment does to the same rows.         *)
(*                                                                         *)
(* Each of them reads the rows first and writes later, in one transaction  *)
(* or in several calls, and nothing locks the loan in between.  A handler  *)
(* keeps what it read (`loan`, `rows`); the others may run between any two *)
(* of its database calls.                                                  *)
(*                                                                         *)
(* Abstracted: an instalment owes something or nothing, and is past due or *)
(* not; a day accrues one unit; fees are left out, since no code charges   *)
(* any.  The Payments module has a repayment's amounts in full.            *)
(***************************************************************************)
EXTENDS Integers, FiniteSets, FiniteSetsExt

CONSTANTS
  Handlers,    \* requests and jobs that may be in flight together
  Principal,   \* what the loan was disbursed with
  Tenure,      \* instalments it was disbursed with
  Tenures,     \* tenures a restructuring may ask for
  Amounts,     \* amounts of adjustments and repayments
  MaxEmi,      \* bound on the instalment numbers
  MaxInterest, \* bound on the interest accrued
  MaxStarts    \* bound on the requests and jobs started

ASSUME ServicingAssumption ==
  /\ Principal \in Nat
  /\ Tenure \in Nat
  /\ Tenures \subseteq Nat
  /\ Amounts \subseteq Nat
  /\ MaxEmi \in Nat /\ Tenure <= MaxEmi
  /\ MaxInterest \in Nat
  /\ MaxStarts \in Nat

VARIABLES
  loan,         \* [principal, interest, status] of the Loan row
  rows,         \* [1..MaxEmi -> the schedule row with that emiNumber]
  generation,   \* schedules created so far: a row's id is its schedule's
  closures,     \* LoanClosure rows of the loan; loanId is unique
  settlements,  \* Settlement rows of the loan
  handler,      \* [Handlers -> where it is, its arguments, what it read]
  starts,
  paidOff,      \* rows a repayment marked PAID, as <<emiNumber, id>>
  reopened,     \* times the loan left SETTLED and CLOSED
  owing,        \* the balances, had every change been applied to the last
  overlap       \* whether two handlers were ever in flight together

row == <<rows, generation, paidOff>>
history == <<owing, overlap>>
vars == <<loan, row, closures, settlements, handler, starts, reopened, history>>

Emis == 1..MaxEmi
Done == {"SETTLED", "CLOSED"}
LoanStatus == {"ACTIVE", "OVERDUE", "RESTRUCTURED", "WRITTEN_OFF"} \cup Done
RowStatus == {"NONE", "UPCOMING", "DUE", "OVERDUE", "PARTIALLY_PAID", "PAID", "WAIVED"}

NoRow == [id |-> 0, status |-> "NONE", owed |-> FALSE, past |-> FALSE]
NewRow(id, owed) == [id |-> id, status |-> "UPCOMING", owed |-> owed, past |-> FALSE]
Idle == [pc |-> "idle", kind |-> "dpd", principal |-> 0, interest |-> 0, todo |-> {},
         loan |-> [principal |-> 0, interest |-> 0, status |-> "ACTIVE"],
         rows |-> [e \in Emis |-> NoRow]]

AtLeastZero(n) == IF n > 0 THEN n ELSE 0
Total(l) == l.principal + l.interest
First(S, e) == e \in S /\ \A f \in S : e <= f

Init ==
  /\ loan = [principal |-> Principal, interest |-> 0, status |-> "ACTIVE"]
  /\ rows = [e \in Emis |-> IF e <= Tenure THEN NewRow(1, TRUE) ELSE NoRow]
  /\ generation = 1
  /\ closures = 0
  /\ settlements = 0
  /\ handler = [h \in Handlers |-> Idle]
  /\ starts = 0
  /\ paidOff = {}
  /\ reopened = 0
  /\ owing = [principal |-> Principal, interest |-> 0]
  /\ overlap = FALSE

-----------------------------------------------------------------------------

At(h, kind) == handler[h].pc # "idle" /\ handler[h].kind = kind

\* Handler h reads the loan and its schedule.
Read(h, kind, principal, interest, todo) ==
  /\ handler[h].pc = "idle"
  /\ starts < MaxStarts
  /\ starts' = starts + 1
  /\ handler' = [handler EXCEPT ![h] =
       [pc |-> "write", kind |-> kind, principal |-> principal,
        interest |-> interest, todo |-> todo, loan |-> loan, rows |-> rows]]
  /\ overlap' = (overlap \/ \E g \in Handlers : handler[g].pc # "idle")
  /\ UNCHANGED <<loan, row, closures, settlements, reopened, owing>>

Finish(h) == handler' = [handler EXCEPT ![h] = Idle] /\ UNCHANGED <<starts, overlap>>
Proceed(h, pc, todo) ==
  /\ handler' = [handler EXCEPT ![h].pc = pc, ![h].todo = todo]
  /\ UNCHANGED <<starts, overlap>>

\* The request or job ends with nothing further written: a constraint
\* refuses its transaction, a row it updates is gone, the database or the
\* process goes down.
Fail(h) ==
  /\ handler[h].pc # "idle"
  /\ Finish(h)
  /\ UNCHANGED <<loan, row, closures, settlements, reopened, owing>>

SetLoan(new) ==
  /\ loan' = new
  /\ reopened' = IF loan.status \in Done /\ new.status \notin Done
                 THEN reopened + 1 ELSE reopened
SetStatus(status) == SetLoan([loan EXCEPT !.status = status]) /\ UNCHANGED owing
\* The loan is left with nothing owing.
ClearLoan(status) ==
  /\ SetLoan([principal |-> 0, interest |-> 0, status |-> status])
  /\ owing' = [principal |-> 0, interest |-> 0]

SetRow(e, status, owed) ==
  /\ rows' = [rows EXCEPT ![e].status = status, ![e].owed = owed]
  /\ UNCHANGED generation
\* updateMany over the rows that are not PAID.
ClearRows(status) ==
  /\ rows' = [e \in Emis |->
       IF rows[e].status \in {"NONE", "PAID"} THEN rows[e]
       ELSE [rows[e] EXCEPT !.status = status, !.owed = FALSE]]
  /\ UNCHANGED <<generation, paidOff>>
\* The row h read is still there.
Same(h, e) == rows[e].id = handler[h].rows[e].id

-----------------------------------------------------------------------------
(* loan-servicing.service.ts *)

\* What evaluateLoanDpd makes of a row, and whether it writes it.
Restated(r) == IF r.past THEN "OVERDUE" ELSE "DUE"
NeedsRestating(r) ==
  r.owed /\ r.status \notin (IF r.past THEN {"OVERDUE"} ELSE {"DUE", "PARTIALLY_PAID"})

\* Plausible bug: a closed loan is evaluated too.
StartDpdAnyStatus(h) == Read(h, "dpd", 0, 0, {e \in Emis : NeedsRestating(rows[e])})

StartDpd(h) ==
  /\ loan.status \notin {"CLOSED", "WRITTEN_OFF"}
  /\ Read(h, "dpd", 0, 0, {e \in Emis : NeedsRestating(rows[e])})

DpdRow(h) ==
  /\ At(h, "dpd")
  /\ \E e \in handler[h].todo :
       /\ First(handler[h].todo, e) /\ Same(h, e)
       /\ SetRow(e, Restated(handler[h].rows[e]), rows[e].owed)
       /\ Proceed(h, "write", handler[h].todo \ {e})
  /\ UNCHANGED <<loan, closures, settlements, reopened, owing, paidOff>>

\* An arrear counts as overdue from its first whole day, which is not told
\* apart here.
DpdLoan(h) ==
  /\ At(h, "dpd") /\ handler[h].todo = {}
  /\ \E status \in {"ACTIVE", "OVERDUE"} :
       /\ status = "OVERDUE" =>
            \E e \in Emis : handler[h].rows[e].owed /\ handler[h].rows[e].past
       /\ SetStatus(status)
  /\ Finish(h)
  /\ UNCHANGED <<row, closures, settlements>>

StartClose(h, forceClose) ==
  /\ loan.status # "CLOSED"
  /\ Total(loan) = 0 \/ forceClose
  /\ Read(h, "close", 0, 0, {})

\* A second LoanClosure row of the loan makes the transaction fail.
CloseLoanAccount(h) ==
  /\ At(h, "close")
  /\ closures = 0
  /\ closures' = 1
  /\ ClearLoan("CLOSED")
  /\ ClearRows("PAID")
  /\ Finish(h)
  /\ UNCHANGED settlements

StartRemission(h, amount) == Read(h, "remit", 0, amount, {})
StartWriteOff(h, amount) == Read(h, "writeoff", amount, 0, {})

\* postFinancialAdjustment looks at no status; it subtracts from the balance
\* it read before its transaction.
RemitInterest(h) ==
  /\ At(h, "remit")
  /\ SetLoan([loan EXCEPT !.interest =
       AtLeastZero(handler[h].loan.interest - handler[h].interest)])
  /\ owing' = [owing EXCEPT !.interest = AtLeastZero(@ - handler[h].interest)]
  /\ Finish(h)
  /\ UNCHANGED <<row, closures, settlements>>

\* Plausible bug: the remaining principal is not floored at zero.
WriteOffPrincipalUnfloored(h) ==
  LET left == handler[h].loan.principal - handler[h].principal IN
  /\ At(h, "writeoff")
  /\ SetLoan([loan EXCEPT
       !.principal = left,
       !.status = IF left = 0 THEN "WRITTEN_OFF" ELSE handler[h].loan.status])
  /\ owing' = [owing EXCEPT !.principal = AtLeastZero(@ - handler[h].principal)]
  /\ Finish(h)
  /\ UNCHANGED <<row, closures, settlements>>

WriteOffPrincipal(h) ==
  LET left == AtLeastZero(handler[h].loan.principal - handler[h].principal) IN
  /\ At(h, "writeoff")
  /\ SetLoan([loan EXCEPT
       !.principal = left,
       !.status = IF left = 0 THEN "WRITTEN_OFF" ELSE handler[h].loan.status])
  /\ owing' = [owing EXCEPT !.principal = AtLeastZero(@ - handler[h].principal)]
  /\ Finish(h)
  /\ UNCHANGED <<row, closures, settlements>>

-----------------------------------------------------------------------------
(* restructuring.service.ts *)

StartRestructure(h) ==
  /\ loan.status \notin Done
  /\ Read(h, "restructure", 0, 0, {})

LastPaid(h) ==
  LET paid == {e \in Emis : handler[h].rows[e].status = "PAID"}
  IN IF paid = {} THEN 0 ELSE Max(paid)

\* Plausible bug: rows are upserted, so PAID ones are replaced.
RestructureLoanOverPaid(h) ==
  /\ At(h, "restructure")
  /\ \E n \in Tenures :
       LET new == (LastPaid(h) + 1)..(LastPaid(h) + n) IN
       /\ new \subseteq Emis
       /\ rows' = [e \in Emis |->
            IF e \in new THEN NewRow(generation + 1, handler[h].loan.principal > 0)
            ELSE IF rows[e].status = "PAID" THEN rows[e] ELSE NoRow]
  /\ generation' = generation + 1
  /\ SetStatus("RESTRUCTURED")
  /\ Finish(h)
  /\ UNCHANGED <<closures, settlements, paidOff>>

\* The rows of a schedule of n instalments numbered after the last paid one
\* replace those not PAID now; the unique (loanId, emiNumber) makes the
\* transaction fail when a PAID row has one of the numbers.
RestructureLoan(h) ==
  /\ At(h, "restructure")
  /\ \E n \in Tenures :
       LET new == (LastPaid(h) + 1)..(LastPaid(h) + n) IN
       /\ new \subseteq Emis
       /\ \A e \in new : rows[e].status # "PAID"
       /\ rows' = [e \in Emis |->
            IF e \in new THEN NewRow(generation + 1, handler[h].loan.principal > 0)
            ELSE IF rows[e].status = "PAID" THEN rows[e] ELSE NoRow]
  /\ generation' = generation + 1
  /\ SetStatus("RESTRUCTURED")
  /\ Finish(h)
  /\ UNCHANGED <<closures, settlements, paidOff>>

\* The settlement amount is positive and at most what is outstanding.
StartSettlement(h) ==
  /\ loan.status \notin Done
  /\ Total(loan) > 0
  /\ Read(h, "settle", 0, 0, {})

\* Plausible bug: the claim leaves out the status.
ExecuteSettlementUnclaimed(h) ==
  /\ At(h, "settle")
  /\ ClearLoan("SETTLED")
  /\ settlements' = settlements + 1
  /\ ClearRows("WAIVED")
  /\ Finish(h)
  /\ UNCHANGED closures

\* Its transaction claims the loan: it fails if the loan is done by now.
ExecuteSettlement(h) ==
  /\ At(h, "settle")
  /\ loan.status \notin Done
  /\ ClearLoan("SETTLED")
  /\ settlements' = settlements + 1
  /\ ClearRows("WAIVED")
  /\ Finish(h)
  /\ UNCHANGED closures

StartNoc(h, closureType) ==
  /\ Total(loan) = 0 \/ closureType \in {"SETTLEMENT", "WRITE_OFF"}
  /\ Read(h, "noc", 0, 0, {})

\* It upserts the LoanClosure row and leaves the schedule as it is.
CloseLoanAndIssueNoc(h) ==
  /\ At(h, "noc")
  /\ closures' = 1
  /\ ClearLoan("CLOSED")
  /\ Finish(h)
  /\ UNCHANGED <<row, settlements>>

-----------------------------------------------------------------------------
(* Jobs: accrual.service.ts, delinquency.service.ts *)

StartAccrual(h) ==
  /\ loan.status = "ACTIVE" /\ loan.principal > 0
  /\ loan.interest < MaxInterest
  /\ Read(h, "accrue", 0, 1, {})

\* Plausible bug: The job keeps the day's interest it worked out instead of adding it.
AccrueReplaces(h) ==
  /\ At(h, "accrue")
  /\ SetLoan([loan EXCEPT !.interest = handler[h].interest])
  /\ owing' = [owing EXCEPT !.interest = @ + handler[h].interest]
  /\ Finish(h)
  /\ UNCHANGED <<row, closures, settlements>>

\* The job reads all ACTIVE loans first and writes them one by one.
Accrue(h) ==
  /\ At(h, "accrue")
  /\ SetLoan([loan EXCEPT !.interest = handler[h].loan.interest + handler[h].interest])
  /\ owing' = [owing EXCEPT !.interest = @ + handler[h].interest]
  /\ Finish(h)
  /\ UNCHANGED <<row, closures, settlements>>

StartMidnight(h) ==
  LET late == {e \in Emis : rows[e].past /\ rows[e].status \in {"DUE", "UPCOMING"}} IN
  /\ late # {}
  /\ Read(h, "midnight", 0, 0, late)

MidnightRow(h) ==
  /\ At(h, "midnight") /\ handler[h].pc = "write"
  /\ \E e \in handler[h].todo :
       /\ First(handler[h].todo, e) /\ Same(h, e)
       /\ SetRow(e, "OVERDUE", rows[e].owed)
       /\ Proceed(h, "loan", handler[h].todo \ {e})
  /\ UNCHANGED <<loan, closures, settlements, reopened, owing, paidOff>>

\* After each row the loan is OVERDUE, whatever it was.
MidnightLoan(h) ==
  /\ At(h, "midnight") /\ handler[h].pc = "loan"
  /\ SetStatus("OVERDUE")
  /\ IF handler[h].todo = {} THEN Finish(h) ELSE Proceed(h, "write", handler[h].todo)
  /\ UNCHANGED <<row, closures, settlements>>

-----------------------------------------------------------------------------
(* A repayment, as allocatePayment leaves these rows.  It covers the first  *)
(* instalments not PAID, the last of them in part perhaps, and takes        *)
(* principal and interest off the balances it read.                         *)

Open == {e \in Emis : rows[e].status \notin {"NONE", "PAID"}}

StartRepayment(h, principal, interest) ==
  /\ principal + interest > 0
  /\ principal <= loan.principal
  /\ \E k \in 0..Cardinality(Open) :
       LET covered == {e \in Open : Cardinality({f \in Open : f < e}) < k}
       IN Read(h, "repay", principal, interest, covered)

\* An error of a row's update is swallowed.
RepayRow(h) ==
  /\ At(h, "repay")
  /\ \E e \in handler[h].todo :
       /\ First(handler[h].todo, e)
       /\ Proceed(h, "write", handler[h].todo \ {e})
       /\ \/ /\ Same(h, e)
             /\ SetRow(e, "PAID", FALSE)
             /\ paidOff' = paidOff \cup {<<e, rows[e].id>>}
          \/ /\ Same(h, e) /\ handler[h].todo = {e}
             /\ SetRow(e, "PARTIALLY_PAID", rows[e].owed)
             /\ UNCHANGED paidOff
          \/ UNCHANGED row
  /\ UNCHANGED <<loan, closures, settlements, reopened, owing>>

RepayLoan(h) ==
  LET principal == AtLeastZero(handler[h].loan.principal - handler[h].principal)
      interest == AtLeastZero(handler[h].loan.interest - handler[h].interest) IN
  /\ At(h, "repay") /\ handler[h].todo = {}
  /\ SetLoan([principal |-> principal, interest |-> interest,
              status |-> IF principal + interest = 0 THEN "CLOSED"
                         ELSE handler[h].loan.status])
  /\ owing' = [principal |-> AtLeastZero(owing.principal - handler[h].principal),
               interest |-> AtLeastZero(owing.interest - handler[h].interest)]
  /\ Finish(h)
  /\ UNCHANGED <<row, closures, settlements>>

-----------------------------------------------------------------------------

DueDatePasses(e) ==
  /\ rows[e].status # "NONE" /\ ~rows[e].past
  /\ \A f \in 1..(e - 1) : rows[f].status # "NONE" => rows[f].past
  /\ rows' = [rows EXCEPT ![e].past = TRUE]
  /\ UNCHANGED <<loan, generation, paidOff, closures, settlements, handler,
                 starts, reopened, history>>

Servicing(h) ==
  \/ StartDpd(h) \/ DpdRow(h) \/ DpdLoan(h)
  \/ \E forceClose \in BOOLEAN : StartClose(h, forceClose)
  \/ CloseLoanAccount(h)
  \/ \E a \in Amounts \ {0} : StartRemission(h, a) \/ StartWriteOff(h, a)
  \/ RemitInterest(h) \/ WriteOffPrincipal(h)

Restructuring(h) ==
  \/ StartRestructure(h) \/ RestructureLoan(h)
  \/ StartSettlement(h) \/ ExecuteSettlement(h)
  \/ \E closureType \in {"NORMAL_MATURITY", "SETTLEMENT"} : StartNoc(h, closureType)
  \/ CloseLoanAndIssueNoc(h)

Jobs(h) ==
  \/ StartAccrual(h) \/ Accrue(h)
  \/ StartMidnight(h) \/ MidnightRow(h) \/ MidnightLoan(h)

Repayment(h) ==
  \/ \E a, b \in Amounts : StartRepayment(h, a, b)
  \/ RepayRow(h) \/ RepayLoan(h)

Next ==
  \/ \E h \in Handlers :
       Servicing(h) \/ Restructuring(h) \/ Jobs(h) \/ Repayment(h) \/ Fail(h)
  \/ \E e \in Emis : DueDatePasses(e)

Spec == Init /\ [][Next]_vars

-----------------------------------------------------------------------------
(* Properties *)

Balance == [principal : Nat, interest : Nat]
LoanType == [principal : Nat, interest : Nat, status : LoanStatus]
RowType == [id : Nat, status : RowStatus, owed : BOOLEAN, past : BOOLEAN]
Kinds == {"dpd", "close", "remit", "writeoff", "restructure", "settle", "noc",
          "accrue", "midnight", "repay"}

\* Balances are never negative, a number without a row has no due date and
\* nothing owed, and no row is of a schedule not created yet.
TypeOK ==
  /\ loan \in LoanType
  /\ rows \in [Emis -> RowType]
  /\ \A e \in Emis : rows[e].status = "NONE" <=> rows[e] = NoRow
  /\ generation \in Nat
  /\ \A e \in Emis : rows[e].id <= generation
  /\ closures \in 0..1
  /\ settlements \in Nat
  /\ handler \in [Handlers ->
       [pc : {"idle", "write", "loan"}, kind : Kinds, principal : Nat,
        interest : Nat, todo : SUBSET Emis, loan : LoanType, rows : [Emis -> RowType]]]
  /\ starts \in Nat
  /\ paidOff \subseteq Emis \X Nat
  /\ reopened \in Nat
  /\ owing \in Balance
  /\ overlap \in BOOLEAN

\* One debt is settled once: however settlements, closures and everything
\* else interleave, a loan is settled again only after something took it
\* back out of SETTLED or CLOSED (restructuring.service.ts:178-195, the claim).
SettledAgainOnlyIfReopened ==
  settlements <= reopened + (IF loan.status \in Done THEN 1 ELSE 0)

\* A CLOSED loan leaves that status only through a handler that read the loan
\* before it was closed, through the midnight job or a principal write-off,
\* which look at no status: the guards of loan-servicing.service.ts:364,451
\* and restructuring.service.ts:43,163 hold for what was read.
ClosedIsFinalUnlessOutdated ==
  [][loan.status = "CLOSED" /\ loan'.status # "CLOSED" =>
       \E h \in Handlers :
         /\ handler'[h] # handler[h]
         /\ \/ handler[h].kind \in {"midnight", "writeoff"}
            \/ handler[h].loan.status # "CLOSED"]_vars

\* No schedule replaces a row that is PAID when it is written: restructuring
\* deletes the others, and a number it counts wrongly is refused
\* (restructuring.service.ts:72-100).
PaidRowsAreKept ==
  [][\A e \in Emis : rows[e].status = "PAID" => rows'[e].id = rows[e].id]_vars

\* With never two handlers in flight together, no change to a balance is
\* lost, failures halfway included: the outdated readings above are the only
\* reason for a balance to be off.
SerialServicingLosesNothing ==
  ~overlap => [principal |-> loan.principal, interest |-> loan.interest] = owing

\* restructuring.service.ts:72 "preserves all historically paid ones!": the
\* row of an instalment that was paid stays.
PaidHistoryKept == \A p \in paidOff : rows[p[1]].id = p[2]

=============================================================================
