------------------------ MODULE LoanServicingProofs ------------------------
(***************************************************************************)
(* Proofs about LoanServicing, for any number of concurrent handlers, any  *)
(* tenures and any bounds: one debt is settled once, no schedule replaces  *)
(* an instalment that is PAID, the rows and balances keep their types, a   *)
(* closed loan is reopened only from an outdated reading, and without      *)
(* overlap no change of a balance is lost.                                 *)
(***************************************************************************)
EXTENDS LoanServicing, TLAPS

IsDone(status) == IF status \in Done THEN 1 ELSE 0

\* The invariant that counts settlements is inductive as it stands, once the
\* counters are known to be numbers.
SettledInv ==
  /\ settlements \in Nat
  /\ reopened \in Nat
  /\ settlements <= reopened + IsDone(loan.status)

\* Any write of the loan that records no settlement keeps the count: leaving
\* Done is counted, entering it only adds to the right-hand side.
LEMMA UnsettledWrite ==
  ASSUME SettledInv, NEW new, SetLoan(new), UNCHANGED settlements
  PROVE  SettledInv'
BY DEF SettledInv, SetLoan, IsDone

LEMMA SettledIdle ==
  ASSUME SettledInv, UNCHANGED <<loan, settlements, reopened>>
  PROVE  SettledInv'
BY DEF SettledInv, IsDone

LEMMA SettledServicing ==
  ASSUME SettledInv, NEW h \in Handlers, Servicing(h)
  PROVE  SettledInv'
<1>1. ASSUME StartDpd(h) \/ \E f \in BOOLEAN : StartClose(h, f)
      PROVE  SettledInv'
  BY <1>1, SettledIdle DEF StartDpd, StartClose, Read
<1>2. ASSUME \E a \in Amounts \ {0} : StartRemission(h, a) \/ StartWriteOff(h, a)
      PROVE  SettledInv'
  BY <1>2, SettledIdle DEF StartRemission, StartWriteOff, Read
<1>3. ASSUME DpdRow(h) PROVE SettledInv'
  BY <1>3, SettledIdle DEF DpdRow
<1>4. ASSUME DpdLoan(h) PROVE SettledInv'
  BY <1>4, UnsettledWrite DEF DpdLoan, SetStatus
<1>5. ASSUME CloseLoanAccount(h) PROVE SettledInv'
  BY <1>5, UnsettledWrite DEF CloseLoanAccount, ClearLoan
<1>6. ASSUME RemitInterest(h) PROVE SettledInv'
  BY <1>6, UnsettledWrite DEF RemitInterest
<1>7. ASSUME WriteOffPrincipal(h) PROVE SettledInv'
  BY <1>7, UnsettledWrite DEF WriteOffPrincipal
<1> QED
  BY <1>1, <1>2, <1>3, <1>4, <1>5, <1>6, <1>7 DEF Servicing

LEMMA SettledRestructuring ==
  ASSUME SettledInv, NEW h \in Handlers, Restructuring(h)
  PROVE  SettledInv'
<1>1. ASSUME \/ StartRestructure(h) \/ StartSettlement(h)
             \/ \E t \in {"NORMAL_MATURITY", "SETTLEMENT"} : StartNoc(h, t)
      PROVE  SettledInv'
  BY <1>1, SettledIdle DEF StartRestructure, StartSettlement, StartNoc, Read
<1>2. ASSUME RestructureLoan(h) PROVE SettledInv'
  BY <1>2, UnsettledWrite DEF RestructureLoan, SetStatus
<1>3. ASSUME CloseLoanAndIssueNoc(h) PROVE SettledInv'
  BY <1>3, UnsettledWrite DEF CloseLoanAndIssueNoc, ClearLoan
\* The claim: before it nothing is done, so the count had room for one more.
<1>4. ASSUME ExecuteSettlement(h) PROVE SettledInv'
  <2>1. /\ loan.status \notin Done
        /\ loan' = [principal |-> 0, interest |-> 0, status |-> "SETTLED"]
        /\ reopened' = reopened
        /\ settlements' = settlements + 1
    BY <1>4 DEF ExecuteSettlement, ClearLoan, SetLoan
  <2>2. loan'.status \in Done
    BY <2>1 DEF Done
  <2> QED
    BY <2>1, <2>2 DEF SettledInv, IsDone
<1> QED
  BY <1>1, <1>2, <1>3, <1>4 DEF Restructuring

LEMMA SettledJobs ==
  ASSUME SettledInv, NEW h \in Handlers, Jobs(h) \/ Repayment(h)
  PROVE  SettledInv'
<1>1. ASSUME \/ StartAccrual(h) \/ StartMidnight(h)
             \/ \E a, b \in Amounts : StartRepayment(h, a, b)
      PROVE  SettledInv'
  BY <1>1, SettledIdle DEF StartAccrual, StartMidnight, StartRepayment, Read
<1>2. ASSUME Accrue(h) PROVE SettledInv'
  BY <1>2, UnsettledWrite DEF Accrue
<1>3. ASSUME MidnightRow(h) \/ RepayRow(h) PROVE SettledInv'
  BY <1>3, SettledIdle DEF MidnightRow, RepayRow
<1>4. ASSUME MidnightLoan(h) PROVE SettledInv'
  BY <1>4, UnsettledWrite DEF MidnightLoan, SetStatus
<1>5. ASSUME RepayLoan(h) PROVE SettledInv'
  BY <1>5, UnsettledWrite DEF RepayLoan
<1> QED
  BY <1>1, <1>2, <1>3, <1>4, <1>5 DEF Jobs, Repayment

\* A loan is settled again only after something took it back out of SETTLED
\* or CLOSED, however the handlers interleave.
THEOREM OneSettlement == Spec => []SettledAgainOnlyIfReopened
<1>1. Init => SettledInv
  BY DEF Init, SettledInv, IsDone, Done
<1>2. SettledInv /\ [Next]_vars => SettledInv'
  <2> SUFFICES ASSUME SettledInv, [Next]_vars PROVE SettledInv'
    OBVIOUS
  <2>1. CASE UNCHANGED vars
    BY <2>1, SettledIdle DEF vars
  <2>2. ASSUME NEW h \in Handlers, Fail(h) PROVE SettledInv'
    BY <2>2, SettledIdle DEF Fail
  <2>3. ASSUME NEW e \in Emis, DueDatePasses(e) PROVE SettledInv'
    BY <2>3, SettledIdle DEF DueDatePasses
  <2> QED
    BY <2>1, <2>2, <2>3, SettledServicing, SettledRestructuring, SettledJobs DEF Next
<1>3. SettledInv => SettledAgainOnlyIfReopened
  BY DEF SettledInv, SettledAgainOnlyIfReopened, IsDone
<1> QED
  BY <1>1, <1>2, <1>3, PTL DEF Spec

-----------------------------------------------------------------------------

RowsInv == rows \in [Emis -> RowType] /\ generation \in Nat

\* What PaidRowsAreKept says of a step.
PaidKept == \A e \in Emis : rows[e].status = "PAID" => rows'[e].id = rows[e].id

LEMMA RowUpdate ==
  ASSUME NEW r \in RowType, NEW status \in RowStatus, NEW owed \in BOOLEAN
  PROVE  LET q == [[r EXCEPT !.status = status] EXCEPT !.owed = owed]
         IN  q \in RowType /\ q.id = r.id
BY DEF RowType

LEMMA RowsUntouched ==
  ASSUME RowsInv, UNCHANGED <<rows, generation>>
  PROVE  RowsInv' /\ PaidKept
BY DEF RowsInv, PaidKept

\* A number outside Emis names no row.
LEMMA OneRow ==
  ASSUME RowsInv, NEW e, NEW status \in RowStatus, NEW owed,
         e \in Emis => owed \in BOOLEAN, SetRow(e, status, owed)
  PROVE  RowsInv' /\ PaidKept
<1>1. CASE e \notin Emis
  <2>1. rows' = rows /\ generation' = generation
    BY <1>1 DEF SetRow, RowsInv
  <2> QED
    BY <2>1, RowsUntouched
<1>2. CASE e \in Emis
  <2> DEFINE q == [[rows[e] EXCEPT !.status = status] EXCEPT !.owed = owed]
  <2>1. rows[e] \in RowType
    BY <1>2 DEF RowsInv
  <2>2. q \in RowType /\ q.id = rows[e].id
    BY <1>2, <2>1, RowUpdate
  <2>3. rows' = [rows EXCEPT ![e] = q] /\ generation' = generation
    BY <1>2, <2>1 DEF SetRow, RowsInv, RowType
  <2> HIDE DEF q
  <2> QED
    BY <1>2, <2>2, <2>3 DEF RowsInv, PaidKept
<1> QED
  BY <1>1, <1>2

LEMMA ClearedRows ==
  ASSUME RowsInv, NEW status \in RowStatus, ClearRows(status)
  PROVE  RowsInv' /\ PaidKept
<1> DEFINE q(e) == [[rows[e] EXCEPT !.status = status] EXCEPT !.owed = FALSE]
<1>1. \A e \in Emis : rows[e] \in RowType
  BY DEF RowsInv
<1>2. \A e \in Emis : q(e) \in RowType /\ q(e).id = rows[e].id
  BY <1>1, RowUpdate
<1>3. /\ rows' = [e \in Emis |-> IF rows[e].status \in {"NONE", "PAID"} THEN rows[e] ELSE q(e)]
      /\ generation' = generation
  BY <1>1 DEF ClearRows, RowType
<1> HIDE DEF q
<1> QED
  BY <1>1, <1>2, <1>3 DEF RowsInv, PaidKept

LEMMA Restructured ==
  ASSUME RowsInv, NEW h \in Handlers, RestructureLoan(h)
  PROVE  RowsInv' /\ PaidKept
<1> DEFINE owed == handler[h].loan.principal > 0
           new(n) == (LastPaid(h) + 1)..(LastPaid(h) + n)
<1>1. PICK n \in Tenures :
        /\ \A e \in new(n) : rows[e].status # "PAID"
        /\ rows' = [e \in Emis |->
             IF e \in new(n) THEN NewRow(generation + 1, owed)
             ELSE IF rows[e].status = "PAID" THEN rows[e] ELSE NoRow]
  BY DEF RestructureLoan
<1>2. generation + 1 \in Nat /\ generation' = generation + 1
  BY DEF RestructureLoan, RowsInv
<1>3. NewRow(generation + 1, owed) \in RowType
  <2>1. owed \in BOOLEAN
    OBVIOUS
  <2> HIDE DEF owed
  <2> QED
    BY <1>2, <2>1 DEF NewRow, RowType, RowStatus
<1>4. NoRow \in RowType
  BY DEF NoRow, RowType, RowStatus
<1> HIDE DEF owed, new
<1> QED
  BY <1>1, <1>2, <1>3, <1>4 DEF RowsInv, PaidKept

LEMMA RowsServicing ==
  ASSUME RowsInv, NEW h \in Handlers, Servicing(h)
  PROVE  RowsInv' /\ PaidKept
<1>1. ASSUME StartDpd(h) \/ \E f \in BOOLEAN : StartClose(h, f)
      PROVE  RowsInv' /\ PaidKept
  BY <1>1, RowsUntouched DEF StartDpd, StartClose, Read, row
<1>2. ASSUME \E a \in Amounts \ {0} : StartRemission(h, a) \/ StartWriteOff(h, a)
      PROVE  RowsInv' /\ PaidKept
  BY <1>2, RowsUntouched DEF StartRemission, StartWriteOff, Read, row
<1>3. ASSUME DpdRow(h) PROVE RowsInv' /\ PaidKept
  <2>1. PICK e : SetRow(e, Restated(handler[h].rows[e]), rows[e].owed)
    BY <1>3 DEF DpdRow
  <2>2. Restated(handler[h].rows[e]) \in RowStatus
    BY DEF Restated, RowStatus
  <2>3. e \in Emis => rows[e].owed \in BOOLEAN
    BY DEF RowsInv, RowType
  <2> QED
    BY <2>1, <2>2, <2>3, OneRow
<1>4. ASSUME DpdLoan(h) \/ RemitInterest(h) \/ WriteOffPrincipal(h)
      PROVE  RowsInv' /\ PaidKept
  BY <1>4, RowsUntouched DEF DpdLoan, RemitInterest, WriteOffPrincipal, row
<1>5. ASSUME CloseLoanAccount(h) PROVE RowsInv' /\ PaidKept
  BY <1>5, ClearedRows DEF CloseLoanAccount, RowStatus
<1> QED
  BY <1>1, <1>2, <1>3, <1>4, <1>5 DEF Servicing

LEMMA RowsRestructuring ==
  ASSUME RowsInv, NEW h \in Handlers, Restructuring(h)
  PROVE  RowsInv' /\ PaidKept
<1>1. ASSUME \/ StartRestructure(h) \/ StartSettlement(h)
             \/ \E t \in {"NORMAL_MATURITY", "SETTLEMENT"} : StartNoc(h, t)
             \/ CloseLoanAndIssueNoc(h)
      PROVE  RowsInv' /\ PaidKept
  BY <1>1, RowsUntouched
     DEF StartRestructure, StartSettlement, StartNoc, CloseLoanAndIssueNoc, Read, row
<1>2. ASSUME ExecuteSettlement(h) PROVE RowsInv' /\ PaidKept
  BY <1>2, ClearedRows DEF ExecuteSettlement, RowStatus
<1> QED
  BY <1>1, <1>2, Restructured DEF Restructuring

LEMMA RowsJobs ==
  ASSUME RowsInv, NEW h \in Handlers, Jobs(h) \/ Repayment(h)
  PROVE  RowsInv' /\ PaidKept
<1>1. ASSUME \/ StartAccrual(h) \/ StartMidnight(h)
             \/ \E a, b \in Amounts : StartRepayment(h, a, b)
             \/ Accrue(h) \/ MidnightLoan(h) \/ RepayLoan(h)
      PROVE  RowsInv' /\ PaidKept
  BY <1>1, RowsUntouched
     DEF StartAccrual, StartMidnight, StartRepayment, Accrue, MidnightLoan, RepayLoan, Read, row
<1>2. \A e \in Emis : rows[e].owed \in BOOLEAN
  BY DEF RowsInv, RowType
<1>3. ASSUME MidnightRow(h) PROVE RowsInv' /\ PaidKept
  <2>1. PICK e : SetRow(e, "OVERDUE", rows[e].owed)
    BY <1>3 DEF MidnightRow
  <2> QED
    BY <2>1, <1>2, OneRow DEF RowStatus
<1>4. ASSUME RepayRow(h) PROVE RowsInv' /\ PaidKept
  <2>1. PICK e : \/ SetRow(e, "PAID", FALSE)
                 \/ SetRow(e, "PARTIALLY_PAID", rows[e].owed)
                 \/ UNCHANGED row
    BY <1>4 DEF RepayRow
  <2> QED
    BY <2>1, <1>2, OneRow, RowsUntouched DEF RowStatus, row
<1> QED
  BY <1>1, <1>3, <1>4 DEF Jobs, Repayment

LEMMA RowsDue ==
  ASSUME RowsInv, NEW e \in Emis, DueDatePasses(e)
  PROVE  RowsInv' /\ PaidKept
<1> DEFINE q == [rows[e] EXCEPT !.past = TRUE]
<1>1. q \in RowType /\ q.id = rows[e].id
  BY DEF RowsInv, RowType
<1>2. rows' = [rows EXCEPT ![e] = q] /\ generation' = generation
  BY DEF DueDatePasses
<1> HIDE DEF q
<1> QED
  BY <1>1, <1>2 DEF RowsInv, PaidKept

\* A row that is PAID when a schedule is replaced stays: a restructuring that
\* counted the paid instalments too early fails instead of overwriting one.
THEOREM PaidRowsStay == Spec => PaidRowsAreKept
<1>1. Init => RowsInv
  BY DEF Init, RowsInv, RowType, RowStatus, NewRow, NoRow
<1>2. RowsInv /\ [Next]_vars => RowsInv' /\ (PaidKept \/ UNCHANGED vars)
  <2> SUFFICES ASSUME RowsInv, [Next]_vars
               PROVE  RowsInv' /\ (PaidKept \/ UNCHANGED vars)
    OBVIOUS
  <2>1. CASE UNCHANGED vars
    BY <2>1 DEF vars, row, RowsInv
  <2>2. ASSUME NEW h \in Handlers, Fail(h) PROVE RowsInv' /\ PaidKept
    BY <2>2, RowsUntouched DEF Fail, row
  <2> QED
    BY <2>1, <2>2, RowsServicing, RowsRestructuring, RowsJobs, RowsDue DEF Next
<1>3. PaidKept <=> \A e \in Emis : rows[e].status = "PAID" => rows'[e].id = rows[e].id
  BY DEF PaidKept
<1> QED
  BY <1>1, <1>2, <1>3, PTL DEF Spec, PaidRowsAreKept

-----------------------------------------------------------------------------
(* Types: what has a row has the id of a schedule, and a handler's list of  *)
(* rows to write names only rows that it read.                              *)

Real(r) == r = NoRow \/ (r.status # "NONE" /\ r.id > 0)

HandlerType ==
  [pc : {"idle", "write", "loan"}, kind : Kinds, principal : Nat,
   interest : Nat, todo : SUBSET Emis, loan : LoanType, rows : [Emis -> RowType]]

LoanOK == loan \in LoanType /\ reopened \in Nat /\ owing \in Balance

RowsOK ==
  /\ RowsInv
  /\ \A e \in Emis : Real(rows[e]) /\ rows[e].id <= generation
  /\ paidOff \subseteq Emis \X Nat

HandlersOK ==
  /\ handler \in [Handlers -> HandlerType]
  /\ starts \in Nat
  /\ overlap \in BOOLEAN
  /\ \A h \in Handlers : \A e \in handler[h].todo : handler[h].rows[e].id > 0

CountsOK == closures \in 0..1 /\ settlements \in Nat

Sound == LoanOK /\ RowsOK /\ HandlersOK /\ CountsOK

\* What a handler that is under way read: the status its start asked for.
ReadAsGuarded ==
  \A h \in Handlers : handler[h].pc # "idle" =>
    /\ handler[h].kind = "dpd" => handler[h].loan.status \notin {"CLOSED", "WRITTEN_OFF"}
    /\ handler[h].kind = "restructure" => handler[h].loan.status \notin Done

\* One handler at a time reads the balances as they are and as they should
\* be, and nobody else changes them before it writes.
OneAtATime ==
  \A g, h \in Handlers : handler[g].pc # "idle" /\ handler[h].pc # "idle" => g = h
ReadingsHold ==
  \A h \in Handlers : handler[h].pc # "idle" =>
    /\ handler[h].loan.principal = loan.principal
    /\ handler[h].loan.interest = loan.interest
NothingLost == loan.principal = owing.principal /\ loan.interest = owing.interest

SerialInv == ~overlap => OneAtATime /\ ReadingsHold /\ NothingLost

LEMMA FloorType ==
  ASSUME NEW n \in Int
  PROVE  AtLeastZero(n) \in Nat
BY DEF AtLeastZero

LEMMA LoanWritten ==
  ASSUME LoanOK, NEW new \in LoanType, SetLoan(new), owing' \in Balance
  PROVE  LoanOK'
BY DEF LoanOK, SetLoan

LEMMA StatusWritten ==
  ASSUME LoanOK, NEW status \in LoanStatus, SetStatus(status)
  PROVE  LoanOK'
<1>1. [loan EXCEPT !.status = status] \in LoanType
  BY DEF LoanOK, LoanType
<1>2. owing' \in Balance
  BY DEF LoanOK, SetStatus
<1> QED
  BY <1>1, <1>2, LoanWritten DEF SetStatus

LEMMA LoanCleared ==
  ASSUME LoanOK, NEW status \in LoanStatus, ClearLoan(status)
  PROVE  LoanOK'
<1>1. [principal |-> 0, interest |-> 0, status |-> status] \in LoanType
  BY DEF LoanType
<1>2. owing' \in Balance
  BY DEF ClearLoan, Balance
<1> QED
  BY <1>1, <1>2, LoanWritten DEF ClearLoan

LEMMA HandlerFinishes ==
  ASSUME HandlersOK, NEW h \in Handlers, Finish(h)
  PROVE  HandlersOK'
<1>1. Idle \in HandlerType /\ Idle.todo = {}
  BY DEF Idle, HandlerType, Kinds, LoanType, LoanStatus, RowType, RowStatus, NoRow
<1>2. handler' = [handler EXCEPT ![h] = Idle] /\ UNCHANGED <<starts, overlap>>
  BY DEF Finish
<1> HIDE DEF Idle
<1> QED
  BY <1>1, <1>2 DEF HandlersOK

LEMMA HandlerProceeds ==
  ASSUME HandlersOK, NEW h \in Handlers, NEW pc \in {"write", "loan"},
         NEW todo \in SUBSET handler[h].todo, Proceed(h, pc, todo)
  PROVE  HandlersOK'
<1> DEFINE q == [[handler[h] EXCEPT !.pc = pc] EXCEPT !.todo = todo]
<1>1. handler[h] \in HandlerType /\ todo \in SUBSET Emis
  BY DEF HandlersOK, HandlerType
<1>2. q \in HandlerType /\ q.todo = todo /\ q.rows = handler[h].rows
  BY <1>1 DEF HandlerType
<1>3. handler' = [handler EXCEPT ![h] = q] /\ UNCHANGED <<starts, overlap>>
  BY <1>1 DEF Proceed, HandlersOK, HandlerType
<1>4. \A e \in todo : handler[h].rows[e].id > 0
  BY DEF HandlersOK
<1> HIDE DEF q
<1> QED
  BY <1>2, <1>3, <1>4 DEF HandlersOK

\* What a handler reads is of the types of the rows.
LEMMA HandlerReads ==
  ASSUME Sound, NEW h \in Handlers, NEW kind \in Kinds, NEW principal \in Nat,
         NEW interest \in Nat, NEW todo \in SUBSET Emis,
         \A e \in todo : rows[e] # NoRow, Read(h, kind, principal, interest, todo)
  PROVE  Sound'
<1> DEFINE q == [pc |-> "write", kind |-> kind, principal |-> principal,
                 interest |-> interest, todo |-> todo, loan |-> loan, rows |-> rows]
<1>1. q \in HandlerType /\ q.todo = todo /\ q.rows = rows
  BY DEF Sound, LoanOK, RowsOK, RowsInv, HandlerType
<1>2. \A e \in todo : rows[e].id > 0
  BY DEF Sound, RowsOK, Real
<1>3. /\ handler' = [handler EXCEPT ![h] = q]
      /\ starts' = starts + 1
      /\ overlap' \in BOOLEAN
      /\ UNCHANGED <<loan, row, closures, settlements, reopened, owing>>
  BY DEF Read
<1> HIDE DEF q
<1>4. HandlersOK'
  BY <1>1, <1>2, <1>3 DEF Sound, HandlersOK
<1> QED
  BY <1>3, <1>4 DEF Sound, LoanOK, RowsOK, RowsInv, CountsOK, row

LEMMA RowStays ==
  ASSUME RowsOK, UNCHANGED row
  PROVE  RowsOK'
BY DEF RowsOK, RowsInv, row

LEMMA RowSet ==
  ASSUME RowsOK, HandlersOK, NEW h \in Handlers, NEW e \in handler[h].todo,
         Same(h, e), NEW status \in RowStatus \ {"NONE"}, NEW owed \in BOOLEAN,
         SetRow(e, status, owed), paidOff' \subseteq paidOff \cup {<<e, rows[e].id>>}
  PROVE  RowsOK'
<1> DEFINE q == [[rows[e] EXCEPT !.status = status] EXCEPT !.owed = owed]
<1>1. e \in Emis /\ rows[e] \in RowType /\ rows[e].id > 0
  BY DEF RowsOK, RowsInv, HandlersOK, HandlerType, Same
<1>2. q \in RowType /\ q.id = rows[e].id /\ q.status = status
  BY <1>1, RowUpdate DEF RowType
<1>3. rows' = [rows EXCEPT ![e] = q] /\ generation' = generation
  BY <1>1 DEF SetRow, RowsOK, RowsInv, RowType
<1>4. <<e, rows[e].id>> \in Emis \X Nat
  BY <1>1 DEF RowType
<1> HIDE DEF q
<1> QED
  BY <1>1, <1>2, <1>3, <1>4 DEF RowsOK, RowsInv, Real

LEMMA RowsCleared ==
  ASSUME RowsOK, NEW status \in RowStatus \ {"NONE"}, ClearRows(status)
  PROVE  RowsOK'
<1> DEFINE q(e) == [[rows[e] EXCEPT !.status = status] EXCEPT !.owed = FALSE]
<1>1. \A e \in Emis : rows[e] \in RowType
  BY DEF RowsOK, RowsInv
<1>2. \A e \in Emis : q(e) \in RowType /\ q(e).id = rows[e].id /\ q(e).status = status
  BY <1>1 DEF RowType
<1>3. /\ rows' = [e \in Emis |-> IF rows[e].status \in {"NONE", "PAID"} THEN rows[e] ELSE q(e)]
      /\ generation' = generation /\ paidOff' = paidOff
  BY <1>1 DEF ClearRows, RowType
<1>4. NoRow.status = "NONE"
  BY DEF NoRow
<1> HIDE DEF q
<1> QED
  BY <1>1, <1>2, <1>3, <1>4 DEF RowsOK, RowsInv, Real

LEMMA RowsReplaced ==
  ASSUME RowsOK, NEW h \in Handlers, RestructureLoan(h)
  PROVE  RowsOK'
<1> DEFINE owed == handler[h].loan.principal > 0
           new(n) == (LastPaid(h) + 1)..(LastPaid(h) + n)
<1>1. PICK n \in Tenures :
        rows' = [e \in Emis |->
             IF e \in new(n) THEN NewRow(generation + 1, owed)
             ELSE IF rows[e].status = "PAID" THEN rows[e] ELSE NoRow]
  BY DEF RestructureLoan
<1>2. /\ generation \in Nat /\ generation + 1 \in Nat
      /\ generation' = generation + 1 /\ paidOff' = paidOff
  BY DEF RestructureLoan, RowsOK, RowsInv
<1>3. /\ Real(NewRow(generation + 1, owed))
      /\ NewRow(generation + 1, owed).id = generation + 1
  BY <1>2 DEF NewRow, Real
<1>4. Real(NoRow) /\ NoRow.id = 0
  BY DEF NoRow, Real
<1>5. RowsInv'
  BY Restructured DEF RowsOK
<1>6. \A e \in Emis : rows[e].id \in Nat
  BY DEF RowsOK, RowsInv, RowType
<1> HIDE DEF owed, new
<1>7. \A e \in Emis : Real(rows'[e]) /\ rows'[e].id <= generation + 1
  BY <1>1, <1>2, <1>3, <1>4, <1>6 DEF RowsOK
<1> QED
  BY <1>2, <1>5, <1>7 DEF RowsOK, Real, NoRow

\* The starts: each reads a selection of rows that exist.
LEMMA StartsSound ==
  ASSUME Sound, NEW h \in Handlers,
         \/ StartDpd(h) \/ StartRestructure(h) \/ StartSettlement(h)
         \/ StartAccrual(h) \/ StartMidnight(h)
         \/ \E f \in BOOLEAN : StartClose(h, f)
         \/ \E a \in Amounts \ {0} : StartRemission(h, a) \/ StartWriteOff(h, a)
         \/ \E t \in {"NORMAL_MATURITY", "SETTLEMENT"} : StartNoc(h, t)
         \/ \E a, b \in Amounts : StartRepayment(h, a, b)
  PROVE  Sound'
<1> DEFINE none == {}
<1>1. none \in SUBSET Emis /\ \A e \in none : rows[e] # NoRow
  OBVIOUS
<1>2. Amounts \subseteq Nat
  BY ServicingAssumption
<1> HIDE DEF none
<1>3. CASE StartDpd(h)
  <2> DEFINE todo == {e \in Emis : NeedsRestating(rows[e])}
  <2>1. todo \in SUBSET Emis /\ \A e \in todo : rows[e] # NoRow
    BY DEF NeedsRestating, NoRow
  <2>2. Read(h, "dpd", 0, 0, todo)
    BY <1>3 DEF StartDpd
  <2> HIDE DEF todo
  <2> QED
    BY <2>1, <2>2, HandlerReads DEF Kinds
<1>4. CASE StartMidnight(h)
  <2> DEFINE todo == {e \in Emis : rows[e].past /\ rows[e].status \in {"DUE", "UPCOMING"}}
  <2>1. todo \in SUBSET Emis /\ \A e \in todo : rows[e] # NoRow
    BY DEF NoRow
  <2>2. Read(h, "midnight", 0, 0, todo)
    BY <1>4 DEF StartMidnight
  <2> HIDE DEF todo
  <2> QED
    BY <2>1, <2>2, HandlerReads DEF Kinds
<1>5. ASSUME NEW a \in Amounts, NEW b \in Amounts, StartRepayment(h, a, b)
      PROVE  Sound'
  <2>1. PICK k \in 0..Cardinality(Open) :
          Read(h, "repay", a, b, {e \in Open : Cardinality({f \in Open : f < e}) < k})
    BY <1>5 DEF StartRepayment
  <2> DEFINE covered == {e \in Open : Cardinality({f \in Open : f < e}) < k}
  <2>2. covered \in SUBSET Emis /\ \A e \in covered : rows[e] # NoRow
    BY DEF Open, NoRow
  <2>3. Read(h, "repay", a, b, covered)
    BY <2>1
  <2>4. a \in Nat /\ b \in Nat
    BY <1>2
  <2> HIDE DEF covered
  <2> QED
    BY <2>2, <2>3, <2>4, HandlerReads DEF Kinds
<1>6. CASE StartRestructure(h) \/ StartSettlement(h) \/ StartAccrual(h)
  <2>1. PICK kind \in Kinds, i \in {0, 1} : Read(h, kind, 0, i, none)
    BY <1>6 DEF StartRestructure, StartSettlement, StartAccrual, Kinds, none
  <2> QED
    BY <1>1, <2>1, HandlerReads
<1>7. CASE \/ \E f \in BOOLEAN : StartClose(h, f)
           \/ \E t \in {"NORMAL_MATURITY", "SETTLEMENT"} : StartNoc(h, t)
  <2>1. PICK kind \in Kinds : Read(h, kind, 0, 0, none)
    BY <1>7 DEF StartClose, StartNoc, Kinds, none
  <2> QED
    BY <1>1, <2>1, HandlerReads
<1>8. ASSUME NEW a \in Amounts, StartRemission(h, a) \/ StartWriteOff(h, a)
      PROVE  Sound'
  <2>1. Read(h, "remit", 0, a, none) \/ Read(h, "writeoff", a, 0, none)
    BY <1>8 DEF StartRemission, StartWriteOff, none
  <2> QED
    BY <1>1, <1>2, <2>1, HandlerReads DEF Kinds
<1> QED
  BY <1>3, <1>4, <1>5, <1>6, <1>7, <1>8

\* The balances that the writes subtract from and add to.
LEMMA ReadBalances ==
  ASSUME Sound, NEW h \in Handlers
  PROVE  /\ handler[h].principal \in Nat /\ handler[h].interest \in Nat
         /\ handler[h].loan \in LoanType
         /\ handler[h].loan.principal \in Nat /\ handler[h].loan.interest \in Nat
         /\ handler[h].loan.status \in LoanStatus
         /\ loan \in LoanType /\ owing \in Balance
         /\ owing.principal \in Nat /\ owing.interest \in Nat
BY DEF Sound, LoanOK, HandlersOK, HandlerType, LoanType, Balance

LEMMA AdjustmentsSound ==
  ASSUME Sound, NEW h \in Handlers,
         RemitInterest(h) \/ WriteOffPrincipal(h) \/ Accrue(h) \/ RepayLoan(h)
  PROVE  LoanOK'
<1> DEFINE H == handler[h]
<1>0. /\ H.principal \in Nat /\ H.interest \in Nat
      /\ H.loan.principal \in Nat /\ H.loan.interest \in Nat /\ H.loan.status \in LoanStatus
      /\ loan \in LoanType /\ owing \in Balance /\ LoanOK
      /\ owing.principal \in Nat /\ owing.interest \in Nat
  BY ReadBalances DEF Sound
<1> HIDE DEF H
<1> DEFINE principal == AtLeastZero(H.loan.principal - H.principal)
           interest == AtLeastZero(H.loan.interest - H.interest)
           owedPrincipal == AtLeastZero(owing.principal - H.principal)
           owedInterest == AtLeastZero(owing.interest - H.interest)
<1>1. principal \in Nat /\ interest \in Nat /\ owedPrincipal \in Nat /\ owedInterest \in Nat
  BY <1>0, FloorType
<1>2. "CLOSED" \in LoanStatus /\ "WRITTEN_OFF" \in LoanStatus
  BY DEF LoanStatus, Done
<1>3. /\ H.loan.interest + H.interest \in Nat
      /\ owing.interest + H.interest \in Nat
  BY <1>0
<1>4. CASE RemitInterest(h)
  <2>1. SetLoan([loan EXCEPT !.interest = interest])
    BY <1>4 DEF RemitInterest, H
  <2>2. owing' = [owing EXCEPT !.interest = owedInterest]
    BY <1>4 DEF RemitInterest, H
  <2> HIDE DEF interest, owedInterest
  <2>3. [loan EXCEPT !.interest = interest] \in LoanType /\ owing' \in Balance
    BY <1>0, <1>1, <2>2 DEF LoanType, Balance
  <2> QED
    BY <1>0, <2>1, <2>3, LoanWritten
<1>5. CASE WriteOffPrincipal(h)
  <2> DEFINE status == IF principal = 0 THEN "WRITTEN_OFF" ELSE H.loan.status
  <2>1. SetLoan([loan EXCEPT !.principal = principal, !.status = status])
    BY <1>5 DEF WriteOffPrincipal, H
  <2>2. owing' = [owing EXCEPT !.principal = owedPrincipal]
    BY <1>5 DEF WriteOffPrincipal, H
  <2>3. status \in LoanStatus
    BY <1>0, <1>2
  <2> HIDE DEF principal, owedPrincipal, status
  <2>4. [loan EXCEPT !.principal = principal, !.status = status] \in LoanType
        /\ owing' \in Balance
    BY <1>0, <1>1, <2>2, <2>3 DEF LoanType, Balance
  <2> QED
    BY <1>0, <2>1, <2>4, LoanWritten
<1>6. CASE Accrue(h)
  <2> DEFINE more == H.loan.interest + H.interest
             owedMore == owing.interest + H.interest
  <2>1. SetLoan([loan EXCEPT !.interest = more])
    BY <1>6 DEF Accrue, H
  <2>2. owing' = [owing EXCEPT !.interest = owedMore]
    BY <1>6 DEF Accrue, H
  <2> HIDE DEF more, owedMore
  <2>3. more \in Nat /\ owedMore \in Nat
    BY <1>3 DEF more, owedMore
  <2>4. [loan EXCEPT !.interest = more] \in LoanType /\ owing' \in Balance
    BY <1>0, <2>2, <2>3 DEF LoanType, Balance
  <2> QED
    BY <1>0, <2>1, <2>4, LoanWritten
<1>7. CASE RepayLoan(h)
  <2> DEFINE status == IF principal + interest = 0 THEN "CLOSED" ELSE H.loan.status
             new == [principal |-> principal, interest |-> interest, status |-> status]
  <2>1. SetLoan(new)
    BY <1>7 DEF RepayLoan, H
  <2>2. owing' = [principal |-> owedPrincipal, interest |-> owedInterest]
    BY <1>7 DEF RepayLoan, H
  <2>3. status \in LoanStatus
    BY <1>0, <1>2
  <2> HIDE DEF principal, interest, owedPrincipal, owedInterest, status
  <2>4. new \in LoanType /\ owing' \in Balance
    BY <1>1, <2>2, <2>3 DEF LoanType, Balance
  <2> HIDE DEF new
  <2> QED
    BY <1>0, <2>1, <2>4, LoanWritten
<1> QED
  BY <1>4, <1>5, <1>6, <1>7

LEMMA WritesSound ==
  ASSUME Sound, NEW h \in Handlers,
         \/ DpdLoan(h) \/ CloseLoanAccount(h) \/ RemitInterest(h) \/ WriteOffPrincipal(h)
         \/ RestructureLoan(h) \/ ExecuteSettlement(h) \/ CloseLoanAndIssueNoc(h)
         \/ Accrue(h) \/ RepayLoan(h)
  PROVE  Sound'
<1>1. LoanOK /\ RowsOK /\ HandlersOK /\ CountsOK
  BY DEF Sound
<1>2. HandlersOK'
  BY <1>1, HandlerFinishes
     DEF DpdLoan, CloseLoanAccount, RemitInterest, WriteOffPrincipal, RestructureLoan,
         ExecuteSettlement, CloseLoanAndIssueNoc, Accrue, RepayLoan
<1>3. CountsOK'
  BY <1>1
     DEF DpdLoan, CloseLoanAccount, RemitInterest, WriteOffPrincipal, RestructureLoan,
         ExecuteSettlement, CloseLoanAndIssueNoc, Accrue, RepayLoan, CountsOK
<1>4. LoanOK'
  <2>1. CASE DpdLoan(h)
    BY <1>1, <2>1, StatusWritten DEF DpdLoan, LoanStatus
  <2>2. CASE RestructureLoan(h)
    BY <1>1, <2>2, StatusWritten DEF RestructureLoan, LoanStatus
  <2>3. CASE CloseLoanAccount(h) \/ CloseLoanAndIssueNoc(h)
    BY <1>1, <2>3, LoanCleared DEF CloseLoanAccount, CloseLoanAndIssueNoc, LoanStatus, Done
  <2>4. CASE ExecuteSettlement(h)
    BY <1>1, <2>4, LoanCleared DEF ExecuteSettlement, LoanStatus, Done
  <2> QED
    BY <2>1, <2>2, <2>3, <2>4, AdjustmentsSound
<1>5. RowsOK'
  <2>1. CASE DpdLoan(h) \/ RemitInterest(h) \/ WriteOffPrincipal(h) \/ Accrue(h)
             \/ RepayLoan(h) \/ CloseLoanAndIssueNoc(h)
    BY <1>1, <2>1, RowStays
       DEF DpdLoan, RemitInterest, WriteOffPrincipal, Accrue, RepayLoan, CloseLoanAndIssueNoc
  <2>2. CASE CloseLoanAccount(h)
    BY <1>1, <2>2, RowsCleared DEF CloseLoanAccount, RowStatus
  <2>3. CASE ExecuteSettlement(h)
    BY <1>1, <2>3, RowsCleared DEF ExecuteSettlement, RowStatus
  <2> QED
    BY <1>1, <2>1, <2>2, <2>3, RowsReplaced
<1> QED
  BY <1>2, <1>3, <1>4, <1>5 DEF Sound

LEMMA RowStepsSound ==
  ASSUME Sound, NEW h \in Handlers, DpdRow(h) \/ MidnightRow(h) \/ RepayRow(h)
  PROVE  Sound'
<1>1. LoanOK /\ RowsOK /\ HandlersOK /\ CountsOK
  BY DEF Sound
<1>2. PICK e \in handler[h].todo, pc \in {"write", "loan"} :
        /\ Proceed(h, pc, handler[h].todo \ {e})
        /\ \/ /\ Same(h, e)
              /\ \E status \in RowStatus \ {"NONE"}, owed \in {FALSE, rows[e].owed} :
                   SetRow(e, status, owed)
              /\ paidOff' \subseteq paidOff \cup {<<e, rows[e].id>>}
           \/ UNCHANGED row
  <2>1. CASE DpdRow(h)
    <3>1. \A e : Restated(handler[h].rows[e]) \in RowStatus \ {"NONE"}
      BY DEF Restated, RowStatus
    <3> QED
      BY <2>1, <3>1 DEF DpdRow
  <2>2. CASE MidnightRow(h)
    BY <2>2 DEF MidnightRow, RowStatus
  <2>3. CASE RepayRow(h)
    BY <2>3 DEF RepayRow, RowStatus
  <2> QED
    BY <2>1, <2>2, <2>3
<1>3. HandlersOK'
  BY <1>1, <1>2, HandlerProceeds
<1>4. rows[e].owed \in BOOLEAN
  BY <1>1, <1>2 DEF RowsOK, RowsInv, RowType, HandlersOK, HandlerType
<1>5. RowsOK'
  BY <1>1, <1>2, <1>4, RowSet, RowStays
<1>6. UNCHANGED <<loan, closures, settlements, reopened, owing>>
  BY DEF DpdRow, MidnightRow, RepayRow
<1> QED
  BY <1>1, <1>3, <1>5, <1>6 DEF Sound, LoanOK, CountsOK

LEMMA MidnightSound ==
  ASSUME Sound, NEW h \in Handlers, MidnightLoan(h)
  PROVE  Sound'
<1>1. LoanOK /\ RowsOK /\ HandlersOK /\ CountsOK
  BY DEF Sound
<1>2. LoanOK'
  BY <1>1, StatusWritten DEF MidnightLoan, LoanStatus
<1>3. HandlersOK'
  BY <1>1, HandlerFinishes, HandlerProceeds DEF MidnightLoan
<1> QED
  BY <1>1, <1>2, <1>3, RowStays DEF Sound, MidnightLoan, CountsOK

LEMMA FailSound ==
  ASSUME Sound, NEW h \in Handlers, Fail(h)
  PROVE  Sound'
<1>1. HandlersOK'
  BY HandlerFinishes DEF Fail, Sound
<1> QED
  BY <1>1, RowStays DEF Fail, Sound, LoanOK, CountsOK

LEMMA DueSound ==
  ASSUME Sound, NEW e \in Emis, DueDatePasses(e)
  PROVE  Sound'
<1> DEFINE q == [rows[e] EXCEPT !.past = TRUE]
<1>1. rows[e] \in RowType /\ Real(rows[e]) /\ rows[e].status # "NONE"
  BY DEF Sound, RowsOK, RowsInv, DueDatePasses
<1>2. q \in RowType /\ q.id = rows[e].id /\ q.status = rows[e].status
  BY <1>1 DEF RowType
<1>3. rows[e].id > 0
  BY <1>1 DEF Real, NoRow
<1>4. /\ rows' = [rows EXCEPT ![e] = q]
      /\ UNCHANGED <<loan, generation, paidOff, closures, settlements, handler,
                     starts, reopened, history>>
  BY DEF DueDatePasses
<1> HIDE DEF q
<1>5. RowsOK'
  BY <1>1, <1>2, <1>3, <1>4 DEF Sound, RowsOK, RowsInv, Real
<1> QED
  BY <1>4, <1>5 DEF Sound, LoanOK, HandlersOK, CountsOK, history

LEMMA SoundInit == Init => Sound
<1> SUFFICES ASSUME Init PROVE Sound
  OBVIOUS
<1>1. Idle \in HandlerType /\ Idle.todo = {}
  BY DEF Idle, HandlerType, Kinds, LoanType, LoanStatus, RowType, RowStatus, NoRow
<1>2. /\ NewRow(1, TRUE) \in RowType /\ Real(NewRow(1, TRUE)) /\ NewRow(1, TRUE).id = 1
      /\ NoRow \in RowType /\ Real(NoRow) /\ NoRow.id = 0
  BY DEF NewRow, NoRow, RowType, RowStatus, Real
<1>3. HandlersOK
  BY <1>1 DEF Init, HandlersOK
<1>4. RowsOK
  <2>1. \A e \in Emis : rows[e] = NewRow(1, TRUE) \/ rows[e] = NoRow
    BY DEF Init
  <2>2. rows \in [Emis -> RowType]
    BY <1>2 DEF Init
  <2>3. \A e \in Emis : Real(rows[e]) /\ rows[e].id <= 1
    BY <2>1 DEF NewRow, NoRow, Real
  <2> QED
    BY <2>2, <2>3 DEF Init, RowsOK, RowsInv
<1>5. LoanOK
  BY ServicingAssumption DEF Init, LoanOK, LoanType, LoanStatus, Balance
<1> QED
  BY <1>3, <1>4, <1>5 DEF Init, Sound, CountsOK

LEMMA SoundNext ==
  ASSUME Sound, [Next]_vars
  PROVE  Sound'
<1>1. CASE UNCHANGED vars
  BY <1>1
     DEF vars, row, history, Sound, LoanOK, RowsOK, RowsInv, HandlersOK, CountsOK
<1>2. ASSUME NEW h \in Handlers,
             Servicing(h) \/ Restructuring(h) \/ Jobs(h) \/ Repayment(h)
      PROVE  Sound'
  BY <1>2, StartsSound, WritesSound, RowStepsSound, MidnightSound
     DEF Servicing, Restructuring, Jobs, Repayment
<1> QED
  BY <1>1, <1>2, FailSound, DueSound DEF Next

LEMMA SoundAlways == Spec => []Sound
BY SoundInit, SoundNext, PTL DEF Spec

\* Balances are never negative and no row is of a schedule not created yet,
\* whatever the handlers write from readings that are out of date.
THEOREM TypeCorrect == Spec => []TypeOK
<1>1. Sound => TypeOK
  <2> SUFFICES ASSUME Sound PROVE TypeOK
    OBVIOUS
  <2>1. \A e \in Emis : rows[e].status = "NONE" <=> rows[e] = NoRow
    BY DEF Sound, RowsOK, Real, NoRow
  <2> QED
    BY <2>1 DEF Sound, TypeOK, LoanOK, RowsOK, RowsInv, HandlersOK, HandlerType, CountsOK
<1> QED
  BY <1>1, SoundAlways, PTL

-----------------------------------------------------------------------------
(* A closed loan stays closed unless a reading is out of date.              *)

\* Reading is the only way a handler gets under way, and what it read and
\* what it is for stay until it is idle again.
HandlerKept(h) ==
  /\ handler' \in [Handlers -> HandlerType]
  /\ \A g \in Handlers : g # h => handler'[g] = handler[g]
  /\ handler'[h].pc # "idle" =>
       /\ handler[h].pc # "idle"
       /\ handler'[h].kind = handler[h].kind
       /\ handler'[h].loan = handler[h].loan

LEMMA FinishKept ==
  ASSUME HandlersOK, HandlersOK', NEW h \in Handlers, Finish(h)
  PROVE  HandlerKept(h)
BY DEF HandlersOK, Finish, HandlerKept, Idle

LEMMA ProceedKept ==
  ASSUME HandlersOK, HandlersOK', NEW h \in Handlers, handler[h].pc # "idle",
         NEW pc, NEW todo, Proceed(h, pc, todo)
  PROVE  HandlerKept(h)
BY DEF HandlersOK, HandlerType, Proceed, HandlerKept

\* Every step of a handler that is not its start.
Working(h) ==
  \/ DpdRow(h) \/ DpdLoan(h) \/ CloseLoanAccount(h) \/ RemitInterest(h)
  \/ WriteOffPrincipal(h) \/ RestructureLoan(h) \/ ExecuteSettlement(h)
  \/ CloseLoanAndIssueNoc(h) \/ Accrue(h) \/ MidnightRow(h) \/ MidnightLoan(h)
  \/ RepayRow(h) \/ RepayLoan(h) \/ Fail(h)

\* Every start, with the guards of its kind.
Starting(h) ==
  \E kind \in Kinds, principal \in Nat, interest \in Nat, todo \in SUBSET Emis :
    /\ Read(h, kind, principal, interest, todo)
    /\ kind = "dpd" => loan.status \notin {"CLOSED", "WRITTEN_OFF"}
    /\ kind = "restructure" => loan.status \notin Done

LEMMA EveryStep ==
  ASSUME Sound, Next
  PROVE  \/ \E h \in Handlers : Working(h) \/ Starting(h)
         \/ \E e \in Emis : DueDatePasses(e)
<1> SUFFICES ASSUME NEW h \in Handlers,
                    Servicing(h) \/ Restructuring(h) \/ Jobs(h) \/ Repayment(h)
             PROVE  Working(h) \/ Starting(h)
  BY DEF Next, Working
<1>1. Amounts \subseteq Nat
  BY ServicingAssumption
<1>2. CASE StartDpd(h)
  <2> DEFINE todo == {e \in Emis : NeedsRestating(rows[e])}
  <2>1. Read(h, "dpd", 0, 0, todo) /\ loan.status \notin {"CLOSED", "WRITTEN_OFF"}
    BY <1>2 DEF StartDpd
  <2>2. todo \in SUBSET Emis
    OBVIOUS
  <2> HIDE DEF todo
  <2> QED
    BY <2>1, <2>2 DEF Starting, Kinds
<1>3. CASE StartMidnight(h)
  <2> DEFINE todo == {e \in Emis : rows[e].past /\ rows[e].status \in {"DUE", "UPCOMING"}}
  <2>1. Read(h, "midnight", 0, 0, todo)
    BY <1>3 DEF StartMidnight
  <2>2. todo \in SUBSET Emis
    OBVIOUS
  <2> HIDE DEF todo
  <2> QED
    BY <2>1, <2>2 DEF Starting, Kinds
<1>4. ASSUME NEW a \in Amounts, NEW b \in Amounts, StartRepayment(h, a, b)
      PROVE  Starting(h)
  <2>1. PICK k \in 0..Cardinality(Open) :
          Read(h, "repay", a, b, {e \in Open : Cardinality({f \in Open : f < e}) < k})
    BY <1>4 DEF StartRepayment
  <2> DEFINE covered == {e \in Open : Cardinality({f \in Open : f < e}) < k}
  <2>2. covered \in SUBSET Emis
    BY DEF Open
  <2>3. Read(h, "repay", a, b, covered)
    BY <2>1
  <2>4. a \in Nat /\ b \in Nat
    BY <1>1
  <2> HIDE DEF covered
  <2> QED
    BY <2>2, <2>3, <2>4 DEF Starting, Kinds
<1>5. CASE StartRestructure(h)
  BY <1>5 DEF StartRestructure, Starting, Kinds
<1>6. CASE StartSettlement(h)
  BY <1>6 DEF StartSettlement, Starting, Kinds
<1>7. CASE StartAccrual(h)
  BY <1>7 DEF StartAccrual, Starting, Kinds
<1>8. CASE \E f \in BOOLEAN : StartClose(h, f)
  BY <1>8 DEF StartClose, Starting, Kinds
<1>9. CASE \E t \in {"NORMAL_MATURITY", "SETTLEMENT"} : StartNoc(h, t)
  BY <1>9 DEF StartNoc, Starting, Kinds
<1>10. ASSUME NEW a \in Amounts, StartRemission(h, a) \/ StartWriteOff(h, a)
       PROVE  Starting(h)
  BY <1>1, <1>10 DEF StartRemission, StartWriteOff, Starting, Kinds
<1> QED
  BY <1>2, <1>3, <1>4, <1>5, <1>6, <1>7, <1>8, <1>9, <1>10
     DEF Servicing, Restructuring, Jobs, Repayment, Working

LEMMA WorkingKept ==
  ASSUME Sound, Sound', NEW h \in Handlers, Working(h)
  PROVE  HandlerKept(h) /\ handler[h].pc # "idle" /\ handler'[h] # handler[h]
<1>1. HandlersOK /\ HandlersOK' /\ handler \in [Handlers -> HandlerType]
  BY DEF Sound, HandlersOK
<1>2. CASE Finish(h) /\ handler[h].pc # "idle"
  <2>1. handler'[h].pc = "idle"
    BY <1>1, <1>2 DEF Finish, Idle
  <2> QED
    BY <1>1, <1>2, <2>1, FinishKept
<1>3. CASE DpdRow(h) \/ MidnightRow(h) \/ RepayRow(h)
  <2>1. PICK e, pc : /\ e \in handler[h].todo /\ handler[h].pc # "idle"
                     /\ Proceed(h, pc, handler[h].todo \ {e})
    BY <1>3 DEF DpdRow, MidnightRow, RepayRow, At
  <2>2. handler'[h].todo = handler[h].todo \ {e}
    BY <1>1, <2>1 DEF Proceed, HandlerType
  <2> QED
    BY <1>1, <2>1, <2>2, ProceedKept
<1>4. CASE MidnightLoan(h) /\ Proceed(h, "write", handler[h].todo)
  <2>1. handler[h].pc = "loan" /\ handler'[h].pc = "write"
    BY <1>1, <1>4 DEF MidnightLoan, Proceed, HandlerType
  <2> QED
    BY <1>1, <1>4, <2>1, ProceedKept
<1> QED
  BY <1>2, <1>3, <1>4
     DEF Working, DpdLoan, CloseLoanAccount, RemitInterest, WriteOffPrincipal,
         RestructureLoan, ExecuteSettlement, CloseLoanAndIssueNoc, Accrue, MidnightLoan,
         RepayLoan, Fail, At

LEMMA GuardsKept ==
  ASSUME Sound, Sound', ReadAsGuarded, [Next]_vars
  PROVE  ReadAsGuarded'
<1>1. CASE UNCHANGED vars \/ \E e \in Emis : DueDatePasses(e)
  <2>1. handler' = handler
    BY <1>1 DEF vars, DueDatePasses
  <2> QED
    BY <2>1 DEF ReadAsGuarded
<1>2. ASSUME NEW h \in Handlers, Working(h) PROVE ReadAsGuarded'
  BY <1>2, WorkingKept DEF ReadAsGuarded, HandlerKept
<1>3. ASSUME NEW h \in Handlers, Starting(h) PROVE ReadAsGuarded'
  <2>1. PICK kind, principal, interest, todo :
          /\ Read(h, kind, principal, interest, todo)
          /\ kind = "dpd" => loan.status \notin {"CLOSED", "WRITTEN_OFF"}
          /\ kind = "restructure" => loan.status \notin Done
    BY <1>3 DEF Starting
  <2>2. handler \in [Handlers -> HandlerType]
    BY DEF Sound, HandlersOK
  <2> QED
    BY <2>1, <2>2 DEF Read, ReadAsGuarded
<1> QED
  BY <1>1, <1>2, <1>3, EveryStep

\* What ClosedIsFinalUnlessOutdated says of a step.
ClosedStays ==
  loan.status = "CLOSED" /\ loan'.status # "CLOSED" =>
    \E h \in Handlers :
      /\ handler'[h] # handler[h]
      /\ \/ handler[h].kind \in {"midnight", "writeoff"}
         \/ handler[h].loan.status # "CLOSED"

LEMMA WorkingCloses ==
  ASSUME Sound, Sound', ReadAsGuarded, NEW h \in Handlers, Working(h),
         loan.status = "CLOSED", loan'.status # "CLOSED"
  PROVE  handler[h].kind \in {"midnight", "writeoff"} \/ handler[h].loan.status # "CLOSED"
<1>0. loan \in LoanType /\ handler[h].pc # "idle" /\ "CLOSED" \in Done
  BY WorkingKept DEF Sound, LoanOK, Done
<1>1. CASE DpdLoan(h) \/ RestructureLoan(h)
  BY <1>0, <1>1 DEF DpdLoan, RestructureLoan, At, ReadAsGuarded
<1>2. CASE CloseLoanAccount(h) \/ CloseLoanAndIssueNoc(h)
  BY <1>2 DEF CloseLoanAccount, CloseLoanAndIssueNoc, ClearLoan, SetLoan
<1>3. CASE RemitInterest(h) \/ Accrue(h)
  BY <1>0, <1>3 DEF RemitInterest, Accrue, SetLoan, LoanType
<1>4. CASE WriteOffPrincipal(h) \/ MidnightLoan(h)
  BY <1>4 DEF WriteOffPrincipal, MidnightLoan, At
<1>5. CASE ExecuteSettlement(h)
  BY <1>0, <1>5 DEF ExecuteSettlement
<1>6. CASE RepayLoan(h)
  BY <1>6 DEF RepayLoan, SetLoan
<1>7. CASE DpdRow(h) \/ MidnightRow(h) \/ RepayRow(h) \/ Fail(h)
  BY <1>7 DEF DpdRow, MidnightRow, RepayRow, Fail
<1> QED
  BY <1>1, <1>2, <1>3, <1>4, <1>5, <1>6, <1>7 DEF Working

\* A CLOSED loan is reopened only by the midnight job, a principal write-off,
\* or a handler that read the loan when it was not CLOSED: the guards of the
\* services hold for what was read, never for what is written over.
THEOREM ClosedIsFinal == Spec => ClosedIsFinalUnlessOutdated
<1>1. Init => ReadAsGuarded
  BY DEF Init, ReadAsGuarded, Idle
<1>2. Sound /\ ReadAsGuarded /\ [Next]_vars /\ Sound' => ReadAsGuarded'
  BY GuardsKept
<1>3. Sound /\ Sound' /\ ReadAsGuarded /\ [Next]_vars => [ClosedStays]_vars
  <2> SUFFICES ASSUME Sound, Sound', ReadAsGuarded, Next PROVE ClosedStays
    OBVIOUS
  <2>1. ASSUME NEW h \in Handlers, Starting(h) PROVE loan' = loan
    BY <2>1 DEF Starting, Read
  <2>2. ASSUME NEW e \in Emis, DueDatePasses(e) PROVE loan' = loan
    BY <2>2 DEF DueDatePasses
  <2>3. ASSUME NEW h \in Handlers, Working(h) PROVE ClosedStays
    BY <2>3, WorkingCloses, WorkingKept DEF ClosedStays
  <2> QED
    BY <2>1, <2>2, <2>3, EveryStep DEF ClosedStays
<1>4. [][ClosedStays]_vars <=> ClosedIsFinalUnlessOutdated
  BY DEF ClosedStays, ClosedIsFinalUnlessOutdated
<1> HIDE DEF ClosedStays
<1> QED
  BY <1>1, <1>2, <1>3, <1>4, SoundAlways, PTL DEF Spec

-----------------------------------------------------------------------------
(* Without overlap, nothing is lost.                                        *)

\* A handler alone writes what the change makes of the balances it read, which
\* are the ones of the loan, and is idle after it.
LEMMA AloneExact ==
  ASSUME Sound, NEW h \in Handlers, Working(h), NothingLost,
         handler[h].loan.principal = loan.principal,
         handler[h].loan.interest = loan.interest
  PROVE  /\ NothingLost'
         /\ \/ handler'[h].pc = "idle"
            \/ loan'.principal = loan.principal /\ loan'.interest = loan.interest
<1>0. loan \in LoanType /\ owing \in Balance
  BY ReadBalances
<1>1. ASSUME Finish(h) PROVE handler'[h].pc = "idle"
  BY <1>1 DEF Finish, Idle, Sound, HandlersOK
<1>2. ASSUME NEW status, SetStatus(status)
      PROVE  /\ NothingLost'
             /\ loan'.principal = loan.principal /\ loan'.interest = loan.interest
  BY <1>0, <1>2 DEF SetStatus, SetLoan, LoanType, NothingLost
<1>3. CASE DpdLoan(h) \/ RestructureLoan(h) \/ MidnightLoan(h)
  BY <1>2, <1>3 DEF DpdLoan, RestructureLoan, MidnightLoan
<1>4. CASE CloseLoanAccount(h) \/ ExecuteSettlement(h) \/ CloseLoanAndIssueNoc(h)
  BY <1>1, <1>4
     DEF CloseLoanAccount, ExecuteSettlement, CloseLoanAndIssueNoc, ClearLoan, SetLoan,
         NothingLost
<1>5. CASE RemitInterest(h)
  BY <1>0, <1>1, <1>5 DEF RemitInterest, SetLoan, LoanType, Balance, NothingLost
<1>6. CASE WriteOffPrincipal(h)
  BY <1>0, <1>1, <1>6 DEF WriteOffPrincipal, SetLoan, LoanType, Balance, NothingLost
<1>7. CASE Accrue(h)
  BY <1>0, <1>1, <1>7 DEF Accrue, SetLoan, LoanType, Balance, NothingLost
<1>8. CASE RepayLoan(h)
  BY <1>0, <1>1, <1>8 DEF RepayLoan, SetLoan, LoanType, Balance, NothingLost
<1>9. CASE DpdRow(h) \/ MidnightRow(h) \/ RepayRow(h) \/ Fail(h)
  BY <1>9 DEF DpdRow, MidnightRow, RepayRow, Fail, NothingLost
<1> QED
  BY <1>3, <1>4, <1>5, <1>6, <1>7, <1>8, <1>9 DEF Working

LEMMA WorkingOverlap ==
  ASSUME NEW h \in Handlers, Working(h)
  PROVE  overlap' = overlap
BY DEF Working, DpdRow, DpdLoan, CloseLoanAccount, RemitInterest, WriteOffPrincipal,
       RestructureLoan, ExecuteSettlement, CloseLoanAndIssueNoc, Accrue, MidnightRow,
       MidnightLoan, RepayRow, RepayLoan, Fail, Finish, Proceed

LEMMA SerialKept ==
  ASSUME Sound, Sound', SerialInv, [Next]_vars
  PROVE  SerialInv'
<1>1. CASE UNCHANGED vars \/ \E e \in Emis : DueDatePasses(e)
  <2>1. UNCHANGED <<loan, owing, overlap, handler>>
    BY <1>1 DEF vars, history, DueDatePasses
  <2> QED
    BY <2>1 DEF SerialInv, OneAtATime, ReadingsHold, NothingLost
<1>2. ASSUME NEW h \in Handlers, Working(h) PROVE SerialInv'
  <2> SUFFICES ASSUME ~overlap
               PROVE  OneAtATime' /\ ReadingsHold' /\ NothingLost'
    BY <1>2, WorkingOverlap DEF SerialInv
  <2>1. OneAtATime /\ ReadingsHold /\ NothingLost
    BY DEF SerialInv
  <2>2. HandlerKept(h) /\ handler[h].pc # "idle"
    BY <1>2, WorkingKept
  <2>3. OneAtATime'
    BY <2>1, <2>2 DEF OneAtATime, HandlerKept
  <2>4. handler[h].loan.principal = loan.principal /\ handler[h].loan.interest = loan.interest
    BY <2>1, <2>2 DEF ReadingsHold
  <2>5. /\ NothingLost'
        /\ \/ handler'[h].pc = "idle"
           \/ loan'.principal = loan.principal /\ loan'.interest = loan.interest
    BY <1>2, <2>1, <2>4, AloneExact
  <2>6. \A g \in Handlers : g # h => handler'[g].pc = "idle"
    BY <2>1, <2>2 DEF OneAtATime, HandlerKept
  <2>7. handler'[h].pc # "idle" => handler'[h].loan = handler[h].loan
    BY <2>2 DEF HandlerKept
  <2>8. ReadingsHold'
    BY <2>4, <2>5, <2>6, <2>7 DEF ReadingsHold
  <2> QED
    BY <2>3, <2>5, <2>8
<1>3. ASSUME NEW h \in Handlers, Starting(h) PROVE SerialInv'
  <2>1. PICK kind, principal, interest, todo : Read(h, kind, principal, interest, todo)
    BY <1>3 DEF Starting
  <2>2. handler \in [Handlers -> HandlerType]
    BY DEF Sound, HandlersOK
  <2> SUFFICES ASSUME ~overlap' PROVE OneAtATime' /\ ReadingsHold' /\ NothingLost'
    BY DEF SerialInv
  <2>3. ~overlap /\ \A g \in Handlers : handler[g].pc = "idle"
    BY <2>1 DEF Read
  <2>4. /\ \A g \in Handlers : g # h => handler'[g] = handler[g]
        /\ handler'[h].loan = loan
        /\ loan' = loan /\ owing' = owing
    BY <2>1, <2>2 DEF Read
  <2> QED
    BY <2>3, <2>4 DEF SerialInv, OneAtATime, ReadingsHold, NothingLost
<1> QED
  BY <1>1, <1>2, <1>3, EveryStep

\* Whatever fails halfway, a balance is off only if two handlers were in
\* flight together: one of them wrote what it made of an old reading.
THEOREM SerialIsExact == Spec => []SerialServicingLosesNothing
<1>1. Init => SerialInv
  BY DEF Init, SerialInv, OneAtATime, ReadingsHold, NothingLost, Idle
<1>2. Sound /\ SerialInv /\ [Next]_vars /\ Sound' => SerialInv'
  BY SerialKept
<1>3. Sound /\ SerialInv => SerialServicingLosesNothing
  <2> SUFFICES ASSUME Sound, SerialInv, ~overlap
               PROVE  [principal |-> loan.principal, interest |-> loan.interest] = owing
    BY DEF SerialServicingLosesNothing
  <2>1. owing \in Balance /\ NothingLost
    BY ReadBalances DEF Sound, LoanOK, SerialInv
  <2> QED
    BY <2>1 DEF Balance, NothingLost
<1> QED
  BY <1>1, <1>2, <1>3, SoundAlways, PTL DEF Spec
=============================================================================
