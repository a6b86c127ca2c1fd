---------------------------- MODULE Disbursement ----------------------------
(***************************************************************************)
(* How the money of one sanctioned application leaves and how its loan     *)
(* comes to be: the controlled release of finance.service.ts, the          *)
(* conversion, the direct-lending and the mandate paths, and the sandbox   *)
(* payout, together with the maker-checker tasks and the writers of the    *)
(* application's status, which run in the same process and interleave with *)
(* them at every await.                                                    *)
(*                                                                         *)
(* Requests are refused for further reasons (gatekeeper checks, limits,    *)
(* roles, scope); a refusal before the money leaves only ends the request. *)
(***************************************************************************)
EXTENDS FinancialControl, ApplicationStatus, FiniteSets

CONSTANTS
  Supervisors   \* users a pending task gives way to (finance, admin, branch manager)

ASSUME SupervisorsAssumption == Supervisors \subseteq Users

VARIABLES
  books,   \* [payouts, direct (money out), journals (disbursement entries)]
  past     \* what disturbed the disbursement so far: see PaidOnceUndisturbed

controlVars == <<tasks, replies>>
vars == <<ops, started, tasks, replies, app, offer, approving, books, past>>

\* Requests that create the loan.
LoanMakers == {"disburse", "convert", "lending", "mandate"}

Release == [kind : {"disburse"}, phase : {"read", "gated", "sent", "paid"},
            actor : Users, disbursed : BOOLEAN, task : 0..MaxTasks]
OtherMaker == [kind : {"convert", "lending", "mandate", "payout"},
               phase : {"read", "created", "paid"}]

\* Statuses the gatekeeper's first check accepts.
Payable == {"APPROVED", "SUBMITTED", "READY_FOR_DISBURSEMENT", "DISBURSED",
            "AGREEMENT_PENDING"}

Phase(i, kind, phase) == ops[i].kind = kind /\ ops[i].phase = phase

Move(i, phase) == Continue(i, [ops[i] EXCEPT !.phase = phase])

\* A request that makes the loan starts; others may be under way.
StartMaking(op) ==
  /\ Start(op)
  /\ past' = [past EXCEPT !.overlap =
                @ \/ \E i \in Slots : ops[i].kind \in LoanMakers]

Unfinished == past' = [past EXCEPT !.unfinished = TRUE]

Paid(field) == books' = [books EXCEPT ![field] = @ + 1]

-----------------------------------------------------------------------------
(* executeDisbursement, executeDisbursementWithControls.                   *)

StartRelease(u) ==
  /\ StartMaking([kind |-> "disburse", phase |-> "read", actor |-> u,
                  disbursed |-> app.status = "DISBURSED", task |-> 0])
  /\ UNCHANGED <<controlVars, appVars, books>>

\* "If already disbursed, return existing loan to prevent duplicate payouts".
AlreadyDisbursed(i) == ops[i].disbursed /\ app.loan

\* Plausible bug: the existing loan is not looked for.
PassGateAgain(i) ==
  /\ Phase(i, "disburse", "read")
  /\ app.status \in Payable
  /\ Move(i, "gated")
  /\ UNCHANGED <<controlVars, appVars, books, past>>

\* verifyPreDisbursementGates reads the application again.
PassGate(i) ==
  /\ Phase(i, "disburse", "read")
  /\ ~AlreadyDisbursed(i)
  /\ app.status \in Payable
  /\ Move(i, "gated")
  /\ UNCHANGED <<controlVars, appVars, books, past>>

\* The existing loan is returned, or the request is refused before the payout.
EndBeforePayout(i) ==
  /\ Phase(i, "disburse", "read") \/ Phase(i, "disburse", "gated")
  /\ End(i)
  /\ UNCHANGED <<controlVars, appVars, books, past>>

FirstTask == IF tasks = <<>> THEN 0 ELSE 1

PendingTask == FirstTask # 0 /\ tasks[1].status = "PENDING_CHECKER"

\* Plausible bug: the maker's own pending task does not stop the release.
SendPayoutOfMaker(i) ==
  /\ Phase(i, "disburse", "gated")
  /\ tasks' = IF PendingTask /\ ops[i].actor \in Supervisors
              THEN [tasks EXCEPT ![1].status = "APPROVED", ![1].checker = ops[i].actor]
              ELSE tasks
  /\ Continue(i, [ops[i] EXCEPT !.phase = "sent", !.task = FirstTask])
  /\ UNCHANGED <<replies, appVars, books, past>>

\* The first task of the application, whatever its status, is the active one.
\* Pending, it stops its maker, is approved by a supervisor in passing and is
\* ignored by others; in any other status it stops nobody.
SendPayout(i) ==
  /\ Phase(i, "disburse", "gated")
  /\ ~(PendingTask /\ tasks[1].maker = ops[i].actor)
  /\ tasks' = IF PendingTask /\ ops[i].actor \in Supervisors
              THEN [tasks EXCEPT ![1].status = "APPROVED", ![1].checker = ops[i].actor]
              ELSE tasks
  /\ Continue(i, [ops[i] EXCEPT !.phase = "sent", !.task = FirstTask])
  /\ UNCHANGED <<replies, appVars, books, past>>

PayoutSucceeds(i) ==
  /\ Phase(i, "disburse", "sent")
  /\ Move(i, "paid")
  /\ Paid("payouts")
  /\ UNCHANGED <<controlVars, appVars, past>>

PayoutDeclined(i) ==
  /\ Phase(i, "disburse", "sent")
  /\ End(i)
  /\ UNCHANGED <<controlVars, appVars, books, past>>

\* The answer is lost, or is PAYOUT_PENDING and thrown away as a rejection
\* while the money goes out.  The gateway is called once: its retries are set
\* to zero (integration.config.ts:222).
PayoutUnanswered(i) ==
  /\ Phase(i, "disburse", "sent")
  /\ End(i)
  /\ Paid("payouts")
  /\ Unfinished
  /\ UNCHANGED <<controlVars, appVars>>

\* Plausible bug: a declined payout is booked like a paid one.
BookUnpaidLoan(i) ==
  /\ Phase(i, "disburse", "paid") \/ Phase(i, "disburse", "sent")
  /\ ~app.loan
  /\ app' = [app EXCEPT !.loan = TRUE, !.status = "DISBURSED"]
  /\ books' \in {books, [books EXCEPT !.journals = @ + 1]}
  /\ tasks' = IF ops[i].task = 0 THEN tasks
              ELSE [tasks EXCEPT ![ops[i].task].status = "EXECUTED"]
  /\ End(i)
  /\ UNCHANGED <<replies, offer, approving, past>>

\* The transaction, then in one turn the journal (refused, and swallowed, when
\* a line of it is not positive) and the mark on the task.
BookLoan(i) ==
  /\ Phase(i, "disburse", "paid")
  /\ ~app.loan
  /\ app' = [app EXCEPT !.loan = TRUE, !.status = "DISBURSED"]
  /\ books' \in {books, [books EXCEPT !.journals = @ + 1]}
  /\ tasks' = IF ops[i].task = 0 THEN tasks
              ELSE [tasks EXCEPT ![ops[i].task].status = "EXECUTED"]
  /\ End(i)
  /\ UNCHANGED <<replies, offer, approving, past>>

\* The transaction is rolled back: a loan of the application exists
\* (Loan.applicationId is unique), or the database fails.
BookingFails(i) ==
  /\ Phase(i, "disburse", "paid")
  /\ End(i)
  /\ Unfinished
  /\ UNCHANGED <<controlVars, appVars, books>>

-----------------------------------------------------------------------------
(* The other ways to a loan.                                               *)

\* convertApplicationToLoan, disburseLoan (direct lending), and
\* setupBorrowerMandateAndDisburse, which looks at no status.
StartOther(kind) ==
  /\ kind = "convert" => ~app.loan
  /\ kind = "lending" => app.status = "READY_FOR_DISBURSEMENT"
  /\ StartMaking([kind |-> kind, phase |-> "read"])
  /\ UNCHANGED <<controlVars, appVars, books>>

\* The conversion writes all in one transaction.
Convert(i) ==
  /\ Phase(i, "convert", "read")
  /\ ~app.loan
  /\ app' = [app EXCEPT !.loan = TRUE, !.status = "DISBURSED", !.stage = "DISBURSED"]
  /\ End(i)
  /\ UNCHANGED <<controlVars, offer, approving, books, past>>

\* The other two create the loan in a statement of its own.
CreateLoan(i) ==
  /\ Phase(i, "lending", "read") \/ Phase(i, "mandate", "read")
  /\ ~app.loan
  /\ app' = [app EXCEPT !.loan = TRUE]
  /\ Move(i, "created")
  /\ UNCHANGED <<controlVars, offer, approving, books, past>>

\* Direct lending pays next and goes on whether the payout succeeded or not.
PayDirectLoan(i, success) ==
  /\ Phase(i, "lending", "created")
  /\ Move(i, "paid")
  /\ IF success THEN Paid("payouts") ELSE UNCHANGED books
  /\ UNCHANGED <<controlVars, appVars, past>>

MarkDisbursed(i) ==
  /\ Phase(i, "lending", "paid") \/ Phase(i, "mandate", "created")
  /\ app' = [app EXCEPT !.status = "DISBURSED",
                        !.stage = IF ops[i].kind = "lending" THEN OffGraph ELSE @]
  /\ End(i)
  /\ UNCHANGED <<controlVars, offer, approving, books, past>>

\* initiatePayout on a loan: the record, then loan ACTIVE, then the journal.
StartPayout ==
  /\ app.loan
  /\ Start([kind |-> "payout", phase |-> "read"])
  /\ UNCHANGED <<controlVars, appVars, books, past>>

PayLoan(i) ==
  /\ Phase(i, "payout", "read")
  /\ Move(i, "paid")
  /\ Paid("direct")
  /\ UNCHANGED <<controlVars, appVars, past>>

JournalPayout(i) ==
  /\ Phase(i, "payout", "paid")
  /\ End(i)
  /\ Paid("journals")
  /\ UNCHANGED <<controlVars, appVars, past>>

\* Any of them may fail at its next statement (a second loan always does), or
\* have its payout declined or its journal refused; nothing is undone.
RequestFails(i) ==
  /\ ops[i].kind \in {"convert", "lending", "mandate", "payout"}
  /\ End(i)
  /\ past' = [past EXCEPT !.unfinished =
                @ \/ (ops[i].kind = "lending" /\ ops[i].phase # "read")]
  /\ UNCHANGED <<controlVars, appVars, books>>

-----------------------------------------------------------------------------
\* Tasks, offers, approval tasks, the journal: all are in the process.
Restart ==
  /\ LoseAll
  /\ tasks' = <<>>
  /\ replies' = {}
  /\ offer' = "NONE"
  /\ approving' = "NONE"
  /\ books' = [books EXCEPT !.journals = 0]
  /\ past' = [past EXCEPT !.unfinished =
                @ \/ \E i \in Slots : ops[i].kind \in LoanMakers]
  /\ UNCHANGED app

Init ==
  /\ ops = [i \in Slots |-> NoOp]
  /\ started = 0
  /\ tasks = <<>>
  /\ replies = {}
  /\ app \in [status : {"READY_FOR_DISBURSEMENT"}, stage : {"DISBURSEMENT", OffGraph},
              loan : {FALSE}, decision : {"APPROVE"}]
  /\ offer \in {"PENDING", "ACCEPTED"}
  /\ approving = "NONE"
  /\ books = [payouts |-> 0, direct |-> 0, journals |-> 0]
  /\ past = [overlap |-> FALSE, reopened |-> FALSE, unfinished |-> FALSE]

Control == FinancialControlNext /\ UNCHANGED <<appVars, books, past>>

\* A write that takes a booked application out of DISBURSED is remembered.
StatusWriting ==
  /\ ApplicationStatusNext
  /\ past' = [past EXCEPT !.reopened =
                @ \/ (app.loan /\ app.status = "DISBURSED" /\ app'.status # "DISBURSED")]
  /\ UNCHANGED <<controlVars, books>>

Next ==
  \/ Control
  \/ StatusWriting
  \/ \E u \in Users : StartRelease(u)
  \/ \E i \in Slots :
       \/ PassGate(i) \/ EndBeforePayout(i) \/ SendPayout(i)
       \/ PayoutSucceeds(i) \/ PayoutDeclined(i) \/ PayoutUnanswered(i)
       \/ BookLoan(i) \/ BookingFails(i)
  \/ \E kind \in {"convert", "lending", "mandate"} : StartOther(kind)
  \/ StartPayout
  \/ \E i \in Slots :
       \/ Convert(i) \/ CreateLoan(i) \/ MarkDisbursed(i)
       \/ \E success \in BOOLEAN : PayDirectLoan(i, success)
       \/ PayLoan(i) \/ JournalPayout(i) \/ RequestFails(i)
  \/ Restart

Spec == Init /\ [][Next]_vars

-----------------------------------------------------------------------------
(* Properties.                                                             *)

\* Types of the state, of every kind of request and of every task.
TypeOK ==
  /\ started \in 0..MaxOps
  /\ ops \in [Slots -> {NoOp} \cup Execution \cup Write \cup Release \cup OtherMaker]
  /\ tasks \in Seq(Task) /\ Len(tasks) <= MaxTasks
  /\ replies \subseteq Keys
  /\ app \in [status : Statuses, stage : Stages, loan : BOOLEAN, decision : Decisions]
  /\ offer \in OfferStatuses
  /\ approving \in {"NONE", "OPEN", "CLOSED"}
  /\ books \in [payouts : Nat, direct : Nat, journals : Nat]
  /\ past \in [overlap : BOOLEAN, reopened : BOOLEAN, unfinished : BOOLEAN]

\* The borrower is paid once, as the comment at finance.service.ts:770 wants,
\* unless two requests that make the loan overlapped, one ended between its
\* money and its last write, or a writer took the application out of DISBURSED
\* afterwards: the look at DISBURSED is the only guard against a second payout.
PaidOnceUndisturbed ==
  past.overlap \/ past.reopened \/ past.unfinished \/ books.payouts <= 1

\* No disbursement entry without money that left for it: entries, and requests
\* still to post theirs, never outnumber the payouts.
BooksNeverAhead ==
  books.journals
    + Cardinality({i \in Slots : Phase(i, "disburse", "paid") \/ Phase(i, "payout", "paid")})
    <= books.payouts + books.direct

\* The maker of the application's task never has money under way while the
\* task waits for a checker (816), not even when it was proposed again, or
\* approved, rejected or expired, while the release was at the gate.
MakerWaits ==
  \A i \in OfKind("disburse") :
    ops[i].phase \in {"sent", "paid"} /\ ops[i].task # 0
      /\ tasks[ops[i].task].maker = ops[i].actor =>
    tasks[ops[i].task].status # "PENDING_CHECKER"

\* DisbursedKept and RevivedOnlyByFailure of every step.
DisbursedIsKept == [][DisbursedKept]_vars
RevivalNeedsFailure == [][RevivedOnlyByFailure]_vars
=============================================================================
