---------------------------- MODULE Collections -----------------------------
(***************************************************************************)
(* The collection cases of one loan, their promises to pay, and the        *)
(* settlement and write-off requests under maker-checker control           *)
(* (modules/collections).  Cases, promises and the loan are rows of the    *)
(* database, written by id after an earlier read; requests and the journal *)
(* are in the process.                                                     *)
(*                                                                         *)
(* The schedule and the clock are left out: a reading may find any arrears *)
(* and any pending promise past its date.  A request may be refused (role, *)
(* scope, amount, unknown user), which changes nothing.                    *)
(***************************************************************************)
EXTENDS Operations, Sequences

CONSTANTS
  Users,
  Nobody,        \* no checker yet
  CaseTargets,   \* statuses officers move a case to
  MaxCases,      \* bounds on the cases,
  MaxPromises,   \* the promises
  MaxRequests    \* and the requests of a process

ASSUME CollectionsAssumption ==
  /\ Nobody \notin Users
  /\ MaxCases \in Nat \ {0} /\ MaxPromises \in Nat /\ MaxRequests \in Nat

VARIABLES
  loan,       \* its status
  cases,      \* sequence of [status, npa: at least 90 days past due]
  promises,   \* sequence of promises to pay
  requests,   \* sequence of settlement and write-off requests
  since       \* history: the number of the last request started when the loan
              \* and each case was last closed, each promise first decided

vars == <<ops, started, loan, cases, promises, requests, since>>

Active == {"OPEN", "IN_PROGRESS", "PROMISED", "ESCALATED", "ON_HOLD", "LEGAL_REVIEW",
           "SETTLEMENT_REVIEW"}

LoanStatuses == {"ACTIVE", "OVERDUE", "CLOSED"}

CaseStatuses == Active \cup {"RESOLVED", "CLOSED", "WRITTEN_OFF"}

\* allowedTransitions; RESOLVED and CLOSED have handlers of their own.
Allowed ==
  [OPEN |-> {"IN_PROGRESS", "PROMISED", "ON_HOLD", "ESCALATED"},
   IN_PROGRESS |-> {"PROMISED", "ON_HOLD", "ESCALATED", "LEGAL_REVIEW",
                    "SETTLEMENT_REVIEW"},
   PROMISED |-> {"IN_PROGRESS", "ON_HOLD", "ESCALATED"},
   ON_HOLD |-> {"IN_PROGRESS", "OPEN", "ESCALATED"},
   ESCALATED |-> {"IN_PROGRESS", "LEGAL_REVIEW", "SETTLEMENT_REVIEW", "ON_HOLD"},
   LEGAL_REVIEW |-> {}, SETTLEMENT_REVIEW |-> {},
   RESOLVED |-> {"IN_PROGRESS", "OPEN"},
   CLOSED |-> {}, WRITTEN_OFF |-> {}]

Case == [status : CaseStatuses, npa : BOOLEAN]

Promise == [case : 1..MaxCases,
            status : {"PENDING", "KEPT", "PARTIALLY_FULFILLED", "BROKEN", "CANCELLED"}]

\* contested: two requests to decide or to carry it out overlapped.
Request == [kind : {"settlement", "writeoff"}, case : 1..MaxCases,
            status : {"PENDING_APPROVAL", "APPROVED", "REJECTED", "SETTLED"},
            maker : Users, checker : Users \cup {Nobody}, journals : Nat,
            contested : BOOLEAN]

\* Requests in flight.  A status write was decided on the status or blindly.
Op ==
  {NoOp}
    \cup [kind : {"setCase"}, case : 1..MaxCases, blind : BOOLEAN, status : CaseStatuses]
    \cup [kind : {"resolve", "promise", "reopen"}, case : 1..MaxCases]
    \cup [kind : {"cure"}, phase : {"cases", "promises"}, cases : SUBSET (1..MaxCases)]
    \cup [kind : {"create"}, status : {"OPEN", "ESCALATED"}, npa : BOOLEAN]
    \cup [kind : {"sync"}, phase : {"case", "loan"}, seen : LoanStatuses,
          case : 0..MaxCases]
    \cup [kind : {"job"}, phase : {"loan", "case"}]
    \cup [kind : {"sweep"}, phase : {"break", "count"}, left : SUBSET (1..MaxPromises)]
    \cup [kind : {"demote"}, left : SUBSET (1..MaxPromises), promise : 1..MaxPromises]
    \cup [kind : {"evaluate"}, left : SUBSET (1..MaxPromises)]
    \cup [kind : {"settle", "writeoff"}, phase : {"read", "journaled", "loanSet"},
          request : 1..MaxRequests, checker : Users \cup {Nobody}]

SetCase(c, status) == cases' = [cases EXCEPT ![c].status = status]

Pending == {p \in 1..Len(promises) : promises[p].status = "PENDING"}

\* updateMany on promises: those of the set that satisfy the filter.
SetPromises(set, status) ==
  promises' = [p \in 1..Len(promises) |->
                 IF p \in set THEN [promises[p] EXCEPT !.status = status] ELSE promises[p]]

PendingOf(set) == {p \in Pending : promises[p].case \in set}

-----------------------------------------------------------------------------
(* Cases: opened by the dashboards' synchronisation, by hand, or for a     *)
(* borrower's promise.                                                     *)

\* Plausible bug: the synchronisation takes a closed loan for an active one.
StartSyncOfAny ==
  /\ \E c \in {0} \cup {c \in 1..Len(cases) : cases[c].status \in Active} :
       /\ c = 0 => \A d \in 1..Len(cases) : cases[d].status \notin Active
       /\ Start([kind |-> "sync", phase |-> "case", seen |-> loan, case |-> c])
  /\ UNCHANGED <<loan, cases, promises, requests>>

\* syncDelinquentCases finds the loan in arrears, with its first active case.
StartSync ==
  /\ loan \in {"ACTIVE", "OVERDUE"}
  /\ \E c \in {0} \cup {c \in 1..Len(cases) : cases[c].status \in Active} :
       /\ c = 0 => \A d \in 1..Len(cases) : cases[d].status \notin Active
       /\ Start([kind |-> "sync", phase |-> "case", seen |-> loan, case |-> c])
  /\ UNCHANGED <<loan, cases, promises, requests>>

AddCase(status, npa) ==
  /\ Len(cases) < MaxCases
  /\ cases' = Append(cases, [status |-> status, npa |-> npa])

\* The case is updated but for its status, or created: ESCALATED beyond 60
\* days.  A loan read as OVERDUE is not written.
SyncCase(i, dpd) ==
  /\ ops[i].kind = "sync" /\ ops[i].phase = "case"
  /\ IF ops[i].case # 0
     THEN cases' = [cases EXCEPT ![ops[i].case].npa = (dpd >= 90)]
     ELSE AddCase(IF dpd > 60 THEN "ESCALATED" ELSE "OPEN", dpd >= 90)
  /\ IF ops[i].seen = "OVERDUE" THEN End(i)
     ELSE Continue(i, [ops[i] EXCEPT !.phase = "loan"])
  /\ UNCHANGED <<loan, promises, requests>>

SyncLoan(i) ==
  /\ ops[i].kind = "sync" /\ ops[i].phase = "loan"
  /\ loan' = "OVERDUE"
  /\ End(i)
  /\ UNCHANGED <<cases, promises, requests>>

\* createManualCollectionCase, and the borrower's promise on a loan without a
\* case.
StartCreate(npa) ==
  /\ \A c \in 1..Len(cases) : cases[c].status \notin Active
  /\ Start([kind |-> "create", status |-> "OPEN", npa |-> npa])
  /\ UNCHANGED <<loan, cases, promises, requests>>

CreateCase(i) ==
  /\ ops[i].kind = "create"
  /\ AddCase(ops[i].status, ops[i].npa)
  /\ End(i)
  /\ UNCHANGED <<loan, promises, requests>>

\* processMidnightDelinquencyEngine, for one installment: the loan, whatever
\* its status, then the case found first, whatever its status.
StartJob ==
  /\ Start([kind |-> "job", phase |-> "loan"])
  /\ UNCHANGED <<loan, cases, promises, requests>>

JobSetsLoan(i) ==
  /\ ops[i].kind = "job" /\ ops[i].phase = "loan"
  /\ loan' = "OVERDUE"
  /\ Continue(i, [ops[i] EXCEPT !.phase = "case"])
  /\ UNCHANGED <<cases, promises, requests>>

JobFindsCase(i, dpd) ==
  /\ ops[i].kind = "job" /\ ops[i].phase = "case"
  /\ IF cases = <<>>
     THEN Continue(i, [kind |-> "create", status |-> "OPEN", npa |-> dpd >= 90])
     ELSE \E c \in 1..Len(cases) : Continue(i, [kind |-> "reopen", case |-> c])
  /\ UNCHANGED <<loan, cases, promises, requests>>

ReopenCase(i, dpd) ==
  /\ ops[i].kind = "reopen"
  /\ cases' = [cases EXCEPT ![ops[i].case] = [status |-> "OPEN", npa |-> dpd >= 90]]
  /\ End(i)
  /\ UNCHANGED <<loan, promises, requests>>

-----------------------------------------------------------------------------
(* Writers of a case's status.                                             *)

WritingCase(c, blind, status) ==
  /\ Start([kind |-> "setCase", case |-> c, blind |-> blind, status |-> status])
  /\ UNCHANGED <<loan, cases, promises, requests>>

\* updateCollectionCaseStatus.
UpdateStatus(c, status) ==
  /\ status \in Allowed[cases[c].status]
  /\ WritingCase(c, FALSE, status)

\* closeCollectionCase.
CloseCase(c) ==
  /\ cases[c].status \in {"RESOLVED", "SETTLEMENT_REVIEW", "WRITTEN_OFF"}
  /\ WritingCase(c, FALSE, "CLOSED")

\* assignCase: an officer, and the status that was read unless it was OPEN.
AssignCase(c) ==
  WritingCase(c, FALSE,
              IF cases[c].status = "OPEN" THEN "IN_PROGRESS" ELSE cases[c].status)

\* escalateCase looks at no status.
EscalateCase(c, status) == WritingCase(c, TRUE, status)

LandCase(i) ==
  /\ ops[i].kind = "setCase"
  /\ SetCase(ops[i].case, ops[i].status)
  /\ End(i)
  /\ UNCHANGED <<loan, promises, requests>>

\* resolveCollectionCase: one transaction, after a reading of the schedule.
StartResolve(c) ==
  /\ Start([kind |-> "resolve", case |-> c])
  /\ UNCHANGED <<loan, cases, promises, requests>>

ResolveCase(i) ==
  /\ ops[i].kind = "resolve"
  /\ cases' = [cases EXCEPT ![ops[i].case] = [status |-> "RESOLVED", npa |-> FALSE]]
  /\ SetPromises(PendingOf({ops[i].case}), "KEPT")
  /\ End(i)
  /\ UNCHANGED <<loan, requests>>

\* Plausible bug: a payment cures the cases whatever their status.
StartCureOfAll ==
  /\ cases # <<>>
  /\ Start([kind |-> "cure", phase |-> "cases", cases |-> 1..Len(cases)])
  /\ UNCHANGED <<loan, cases, promises, requests>>

\* resolveCollectionCasesOnPayment finds nothing DUE or OVERDUE and reads the
\* cases; the ones on hold stay.
StartCure ==
  /\ LET found == {c \in 1..Len(cases) : cases[c].status \in Active \ {"ON_HOLD"}} IN
     /\ found # {}
     /\ Start([kind |-> "cure", phase |-> "cases", cases |-> found])
  /\ UNCHANGED <<loan, cases, promises, requests>>

CureCases(i) ==
  /\ ops[i].kind = "cure" /\ ops[i].phase = "cases"
  /\ cases' = [c \in 1..Len(cases) |->
                 IF c \in ops[i].cases THEN [status |-> "RESOLVED", npa |-> FALSE]
                                       ELSE cases[c]]
  /\ Continue(i, [ops[i] EXCEPT !.phase = "promises"])
  /\ UNCHANGED <<loan, promises, requests>>

CurePromises(i) ==
  /\ ops[i].kind = "cure" /\ ops[i].phase = "promises"
  /\ SetPromises(PendingOf(ops[i].cases), "KEPT")
  /\ End(i)
  /\ UNCHANGED <<loan, cases, requests>>

\* Payments and foreclosure close the loan (modelled in LoanServicing).
LoanPaidOff ==
  /\ loan # "CLOSED"
  /\ loan' = "CLOSED"
  /\ Count
  /\ UNCHANGED <<ops, cases, promises, requests>>

-----------------------------------------------------------------------------
(* Promises to pay.                                                        *)

\* createPtp looks at no status of the case.
StartPromise(c) ==
  /\ Start([kind |-> "promise", case |-> c])
  /\ UNCHANGED <<loan, cases, promises, requests>>

\* Its transaction: the pending promises of the case give way to the new one.
CreatePtp(i) ==
  /\ ops[i].kind = "promise"
  /\ Len(promises) < MaxPromises
  /\ LET c == ops[i].case
         given == PendingOf({c})
     IN /\ promises' = Append([p \in 1..Len(promises) |->
                                IF p \in given
                                THEN [promises[p] EXCEPT !.status = "CANCELLED"]
                                ELSE promises[p]],
                              [case |-> c, status |-> "PENDING"])
        /\ SetCase(c, "PROMISED")
  /\ End(i)
  /\ UNCHANGED <<loan, requests>>

\* evaluatePtpOnPayment reads the pending promises and settles each by its id.
StartEvaluate ==
  /\ Pending # {}
  /\ Start([kind |-> "evaluate", left |-> Pending])
  /\ UNCHANGED <<loan, cases, promises, requests>>

EvaluatePromise(i, p, status) ==
  /\ ops[i].kind = "evaluate"
  /\ p \in ops[i].left
  /\ SetPromises({p}, status)
  /\ IF ops[i].left = {p} THEN End(i)
     ELSE Continue(i, [ops[i] EXCEPT !.left = @ \ {p}])
  /\ UNCHANGED <<loan, cases, requests>>

\* Plausible bug: the sweep collects promises whatever became of them.
StartSweepOfAll ==
  /\ \E expired \in SUBSET (1..Len(promises)) :
       /\ expired # {}
       /\ Start([kind |-> "sweep", phase |-> "break", left |-> expired])
  /\ UNCHANGED <<loan, cases, promises, requests>>

\* syncOverduePtps reads the pending promises past their date.
StartSweep ==
  /\ \E expired \in SUBSET Pending :
       /\ expired # {}
       /\ Start([kind |-> "sweep", phase |-> "break", left |-> expired])
  /\ UNCHANGED <<loan, cases, promises, requests>>

BreakPromises(i) ==
  /\ ops[i].kind = "sweep" /\ ops[i].phase = "break"
  /\ SetPromises(ops[i].left, "BROKEN")
  /\ Continue(i, [ops[i] EXCEPT !.phase = "count"])
  /\ UNCHANGED <<loan, cases, requests>>

\* One broken promise after the other: done with p, on to the rest.
SweepOn(i, p) ==
  IF ops[i].left = {p} THEN End(i)
  ELSE Continue(i, [kind |-> "sweep", phase |-> "count", left |-> ops[i].left \ {p}])

\* A case without another pending promise is to go IN_PROGRESS.
CountPending(i, p) ==
  /\ ops[i].kind = "sweep" /\ ops[i].phase = "count"
  /\ p \in ops[i].left
  /\ IF PendingOf({promises[p].case}) # {} THEN SweepOn(i, p)
     ELSE Continue(i, [kind |-> "demote", left |-> ops[i].left, promise |-> p])
  /\ UNCHANGED <<loan, cases, promises, requests>>

DemoteCase(i) ==
  /\ ops[i].kind = "demote"
  /\ SetCase(promises[ops[i].promise].case, "IN_PROGRESS")
  /\ SweepOn(i, ops[i].promise)
  /\ UNCHANGED <<loan, promises, requests>>

-----------------------------------------------------------------------------
(* Settlement and write-off requests.                                      *)

InFlight(r) == {i \in Slots : ops[i].kind \in {"settle", "writeoff"} /\ ops[i].request = r}

Propose(kind, u, c) ==
  /\ Len(requests) < MaxRequests
  /\ requests' = Append(requests, [kind |-> kind, case |-> c, status |-> "PENDING_APPROVAL",
                                   maker |-> u, checker |-> Nobody, journals |-> 0,
                                   contested |-> FALSE])

\* proposeSettlement: the case is under review at once, whatever its status.
ProposeSettlement(u, c) ==
  /\ Propose("settlement", u, c)
  /\ Start([kind |-> "setCase", case |-> c, blind |-> TRUE,
            status |-> "SETTLEMENT_REVIEW"])
  /\ UNCHANGED <<loan, cases, promises>>

\* proposeWriteOff, from 90 days past due.
ProposeWriteOff(u, c) ==
  /\ cases[c].npa
  /\ Propose("writeoff", u, c)
  /\ UNCHANGED <<ops, started, loan, cases, promises>>

MayDecide(r, u) == requests[r].status = "PENDING_APPROVAL" /\ requests[r].maker # u

\* authorizeSettlement and authorizeWriteOff with REJECT; a settlement's case
\* goes back IN_PROGRESS.
Reject(r, u) ==
  /\ MayDecide(r, u)
  /\ requests' = [requests EXCEPT ![r].status = "REJECTED", ![r].checker = u,
                                  ![r].contested = @ \/ InFlight(r) # {}]
  /\ IF requests[r].kind = "writeoff" THEN UNCHANGED <<ops, started>>
     ELSE Start([kind |-> "setCase", case |-> requests[r].case, blind |-> TRUE,
                 status |-> "IN_PROGRESS"])
  /\ UNCHANGED <<loan, cases, promises>>

\* Plausible bug: the maker may sign the settlement.
ApproveSettlementOfMaker(r, u) ==
  /\ requests[r].kind = "settlement"
  /\ requests[r].status = "PENDING_APPROVAL"
  /\ requests' = [requests EXCEPT ![r].status = "APPROVED", ![r].checker = u]
  /\ UNCHANGED <<ops, started, loan, cases, promises>>

\* authorizeSettlement with APPROVE.
ApproveSettlement(r, u) ==
  /\ requests[r].kind = "settlement"
  /\ MayDecide(r, u)
  /\ requests' = [requests EXCEPT ![r].status = "APPROVED", ![r].checker = u]
  /\ UNCHANGED <<ops, started, loan, cases, promises>>

CarryingOut(kind, r, checker) ==
  /\ Start([kind |-> kind, phase |-> "read", request |-> r, checker |-> checker])
  /\ requests' = [requests EXCEPT ![r].contested = @ \/ InFlight(r) # {}]
  /\ UNCHANGED <<loan, cases, promises>>

\* Plausible bug: a settlement is finalized again.
FinalizeSettlementAgain(r) ==
  /\ requests[r].kind = "settlement"
  /\ requests[r].status \in {"APPROVED", "SETTLED"}
  /\ CarryingOut("settle", r, Nobody)

\* finalizeSettlementOnPayment; nothing looks for the payment.
FinalizeSettlement(r) ==
  /\ requests[r].kind = "settlement"
  /\ requests[r].status = "APPROVED"
  /\ CarryingOut("settle", r, Nobody)

\* authorizeWriteOff with APPROVE.
ApproveWriteOff(r, u) ==
  /\ requests[r].kind = "writeoff"
  /\ MayDecide(r, u)
  /\ CarryingOut("writeoff", r, u)

\* The journal and the mark on the request, in one turn.
Journal(i) ==
  /\ ops[i].kind \in {"settle", "writeoff"} /\ ops[i].phase = "read"
  /\ LET r == ops[i].request IN
     requests' = [requests EXCEPT
       ![r].journals = @ + 1,
       ![r].status = IF ops[i].kind = "settle" THEN "SETTLED" ELSE "APPROVED",
       ![r].checker = IF ops[i].kind = "settle" THEN @ ELSE ops[i].checker]
  /\ Continue(i, [ops[i] EXCEPT !.phase = "journaled"])
  /\ UNCHANGED <<loan, cases, promises>>

SetLoan(i) ==
  /\ ops[i].kind \in {"settle", "writeoff"} /\ ops[i].phase = "journaled"
  /\ loan' = IF ops[i].kind = "settle" THEN "CLOSED" ELSE "OVERDUE"
  /\ Continue(i, [ops[i] EXCEPT !.phase = "loanSet"])
  /\ UNCHANGED <<cases, promises, requests>>

\* Plausible bug: the case takes the status of the request.
FinishCaseAsRequest(i) ==
  /\ ops[i].kind \in {"settle", "writeoff"} /\ ops[i].phase = "loanSet"
  /\ SetCase(requests[ops[i].request].case, requests[ops[i].request].status)
  /\ End(i)
  /\ UNCHANGED <<loan, promises, requests>>

FinishCase(i) ==
  /\ ops[i].kind \in {"settle", "writeoff"} /\ ops[i].phase = "loanSet"
  /\ LET c == requests[ops[i].request].case IN
     cases' = [cases EXCEPT ![c] = IF ops[i].kind = "settle"
                                   THEN [status |-> "CLOSED", npa |-> FALSE]
                                   ELSE [@ EXCEPT !.status = "WRITTEN_OFF"]]
  /\ End(i)
  /\ UNCHANGED <<loan, promises, requests>>

-----------------------------------------------------------------------------
\* A statement fails, or the journal is refused: the rest is not done.
Fail(i) ==
  /\ ops[i] # NoOp
  /\ End(i)
  /\ UNCHANGED <<loan, cases, promises, requests>>

\* Requests are forgotten, the rows stay.
Restart ==
  /\ LoseAll
  /\ requests' = <<>>
  /\ UNCHANGED <<loan, cases, promises>>

\* Days past due a reading of the schedule may give.
Days == {1, 61, 90}

Init ==
  /\ ops = [i \in Slots |-> NoOp]
  /\ started = 0
  /\ loan = "ACTIVE"
  /\ cases \in {<<>>, <<[status |-> "ESCALATED", npa |-> TRUE]>>}
  /\ promises = <<>>
  /\ requests = <<>>
  /\ since = [loan |-> 0, cases |-> [c \in 1..MaxCases |-> 0],
              promises |-> [p \in 1..MaxPromises |-> 0]]

CaseSteps ==
  \/ StartSync \/ StartJob
  \/ \E npa \in BOOLEAN : StartCreate(npa)
  \/ \E c \in 1..Len(cases) :
       \/ \E status \in CaseTargets : UpdateStatus(c, status)
       \/ CloseCase(c) \/ AssignCase(c) \/ StartResolve(c)
       \/ \E status \in {"ESCALATED", "LEGAL_REVIEW"} : EscalateCase(c, status)
  \/ StartCure
  \/ \E i \in Slots :
       \/ \E dpd \in Days : SyncCase(i, dpd) \/ JobFindsCase(i, dpd) \/ ReopenCase(i, dpd)
       \/ SyncLoan(i) \/ CreateCase(i) \/ JobSetsLoan(i)
       \/ LandCase(i) \/ ResolveCase(i) \/ CureCases(i) \/ CurePromises(i)
  \/ LoanPaidOff

PromiseSteps ==
  \/ \E c \in 1..Len(cases) : StartPromise(c)
  \/ StartEvaluate \/ StartSweep
  \/ \E i \in Slots :
       \/ CreatePtp(i) \/ BreakPromises(i) \/ DemoteCase(i)
       \/ \E p \in 1..Len(promises) :
            \/ CountPending(i, p)
            \/ \E status \in {"KEPT", "PARTIALLY_FULFILLED"} : EvaluatePromise(i, p, status)

RequestSteps ==
  \/ \E u \in Users, c \in 1..Len(cases) : ProposeSettlement(u, c) \/ ProposeWriteOff(u, c)
  \/ \E r \in 1..Len(requests) :
       \/ \E u \in Users : Reject(r, u) \/ ApproveSettlement(r, u) \/ ApproveWriteOff(r, u)
       \/ FinalizeSettlement(r)
  \/ \E i \in Slots : Journal(i) \/ SetLoan(i) \/ FinishCase(i)

Closes(c) ==
  c <= Len(cases) /\ cases[c].status # "CLOSED" /\ cases'[c].status = "CLOSED"

Decides(p) == p \in Pending /\ promises'[p].status # "PENDING"

Remember ==
  since' = [loan |-> IF loan # "CLOSED" /\ loan' = "CLOSED" THEN started' ELSE since.loan,
            cases |-> [c \in 1..MaxCases |->
                         IF Closes(c) THEN started' ELSE since.cases[c]],
            promises |-> [p \in 1..MaxPromises |->
                            IF Decides(p) THEN started' ELSE since.promises[p]]]

Step ==
  \/ CaseSteps
  \/ PromiseSteps
  \/ RequestSteps
  \/ \E i \in Slots : Fail(i)
  \/ Restart

Next == Step /\ Remember

Spec == Init /\ [][Next]_vars

-----------------------------------------------------------------------------
(* Properties.                                                             *)

\* Types of the state and of every kind of request.
TypeOK ==
  /\ started \in 0..MaxOps
  /\ ops \in [Slots -> Op]
  /\ loan \in LoanStatuses
  /\ cases \in Seq(Case) /\ Len(cases) <= MaxCases
  /\ promises \in Seq(Promise) /\ Len(promises) <= MaxPromises
  /\ requests \in Seq(Request) /\ Len(requests) <= MaxRequests
  /\ since \in [loan : 0..MaxOps, cases : [1..MaxCases -> 0..MaxOps],
                promises : [1..MaxPromises -> 0..MaxOps]]

\* A request is journaled once and exactly when it is marked carried out, and a
\* rejected one never, unless a decision or an execution overlapped another
\* one's (the status is checked before the loan is awaited,
\* collection-writeoff.service.ts:115 and collection-settlement.service.ts:205).
JournaledOnce ==
  \A r \in 1..Len(requests) :
    LET q == requests[r] IN
    ~q.contested =>
      q.journals = (IF q.status = "SETTLED" \/ (q.kind = "writeoff" /\ q.status = "APPROVED")
                    THEN 1 ELSE 0)

\* No waiver or write-off is journaled on its maker's own signature, contested
\* or not (docs/architecture/collection-security.md:20).
SignedByAnother ==
  \A r \in 1..Len(requests) :
    requests[r].journals > 0 => requests[r].checker \notin {Nobody, requests[r].maker}

Acts(i) == ops'[i] # ops[i]

\* A closed loan is reopened only by a write-off or the midnight job, which do
\* not look at its status, or by a synchronisation that read it before it was
\* closed (collection.service.ts:194).
LoanKeptClosed ==
  loan = "CLOSED" /\ loan' # "CLOSED" =>
    \E i \in Slots :
      /\ Acts(i)
      /\ \/ ops[i].kind \in {"writeoff", "job"}
         \/ ops[i].kind = "sync" /\ i <= since.loan

\* updateCollectionCaseStatus, closeCollectionCase, assignCase and a payment's
\* cure take a closed case back only if they read it before it was closed
\* ("Cannot modify a closed collection case", collection.service.ts:310);
\* the other ways out are the writers that look at no status.
CasesKeptClosed ==
  \A c \in 1..Len(cases) :
    cases[c].status = "CLOSED" /\ cases'[c].status # "CLOSED" =>
      \E i \in Slots :
        /\ Acts(i)
        /\ \/ ops[i].kind \in {"resolve", "promise", "reopen", "demote", "writeoff"}
           \/ ops[i].kind = "setCase" /\ ops[i].blind
           \/ ops[i].kind \in {"setCase", "cure"} /\ i <= since.cases[c]

\* What became of a promise changes only by a sweep or an evaluation that read
\* it while it was pending (collection-ptp.service.ts:132, 210): a cure, a
\* resolution or a newer promise leaves it alone.
OutcomesKept ==
  \A p \in 1..Len(promises) \ Pending :
    promises'[p] # promises[p] =>
      \E i \in Slots :
        /\ Acts(i)
        /\ ops[i].kind \in {"sweep", "evaluate"} /\ p \in ops[i].left
        /\ i <= since.promises[p]

\* The three of every step.
LoanStaysClosed == [][LoanKeptClosed]_vars
CasesStayClosed == [][CasesKeptClosed]_vars
OutcomesStay == [][OutcomesKept]_vars
=============================================================================
