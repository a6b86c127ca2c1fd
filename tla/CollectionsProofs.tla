------------------------- MODULE CollectionsProofs --------------------------
(***************************************************************************)
(* Theorems about Collections: its types, that waivers are journaled once  *)
(* and on two signatures, and that closed loans, closed cases and decided  *)
(* promises change only by the writers that look at no status or that read *)
(* them before.                                                            *)
(***************************************************************************)
EXTENDS Collections, SequenceTheorems, TLAPS

-----------------------------------------------------------------------------
(* The inductive invariant.                                                *)

\* Numbers not handed out yet have empty slots.
FreeSlots == \A i \in Slots : i > started => ops[i] = NoOp

Carrying(i) == ops[i].kind \in {"settle", "writeoff"}

\* A request is decided by another than its maker; it was decided when its
\* journal entry is there, and has one when it is marked carried out.
RequestFits(r) ==
  LET q == requests[r] IN
  /\ q.checker # q.maker
  /\ q.status # "PENDING_APPROVAL" \/ q.journals > 0 => q.checker # Nobody
  /\ ~q.contested =>
       q.journals = (IF q.status = "SETTLED" \/ (q.kind = "writeoff" /\ q.status = "APPROVED")
                     THEN 1 ELSE 0)

\* What is being carried out is signed, by the request or by the approval
\* itself, and an uncontested request is still as its handler read it.
CarrierFits(i) ==
  Carrying(i) =>
    /\ ops[i].request \in 1..Len(requests)
    /\ LET q == requests[ops[i].request] IN
       /\ ops[i].kind = "settle" => q.kind = "settlement" /\ q.checker # Nobody
       /\ ops[i].kind = "writeoff" =>
            q.kind = "writeoff" /\ ops[i].checker \notin {Nobody, q.maker}
       /\ ops[i].phase = "read" /\ ~q.contested =>
            q.status = IF ops[i].kind = "settle" THEN "APPROVED" ELSE "PENDING_APPROVAL"

\* Two that carry out one request make it contested.
Apart(i, j) ==
  Carrying(i) /\ Carrying(j) /\ ops[i].request = ops[j].request /\ i # j =>
    requests[ops[i].request].contested

RequestsFit ==
  /\ \A r \in 1..Len(requests) : RequestFits(r)
  /\ \A i \in Slots : CarrierFits(i)
  /\ \A i, j \in Slots : Apart(i, j)

\* The request is to write the loan, the case or the promise by what it read.
ReadLoan(op) == op.kind = "sync"

ReadCase(op, c) ==
  \/ op.kind = "setCase" /\ ~op.blind /\ op.case = c /\ op.status # "CLOSED"
  \/ op.kind = "cure" /\ op.phase = "cases" /\ c \in op.cases

ReadPromise(op, p) == op.kind \in {"sweep", "demote", "evaluate"} /\ p \in op.left

\* Whoever is to write a closed loan, a closed case or a decided promise by a
\* reading was started before it was closed or decided.
LoanDated == \A i \in Slots : ReadLoan(ops[i]) /\ loan = "CLOSED" => i <= since.loan

CasesDated ==
  \A i \in Slots, c \in 1..Len(cases) :
    ReadCase(ops[i], c) /\ cases[c].status = "CLOSED" => i <= since.cases[c]

PromisesDated ==
  \A i \in Slots, p \in 1..Len(promises) :
    ReadPromise(ops[i], p) /\ promises[p].status # "PENDING" => i <= since.promises[p]

IInv ==
  /\ TypeOK
  /\ FreeSlots
  /\ RequestsFit
  /\ LoanDated
  /\ CasesDated
  /\ PromisesDated

-----------------------------------------------------------------------------
(* A turn: at most one slot changes, and it was handed out.                *)

LEMMA NoOpTyped == NoOp \in Op /\ NoOp.kind = "none"
  BY DEF NoOp, Op

\* Slot i becomes op.
Turn(i, op) ==
  /\ i \in Slots /\ i <= started'
  /\ started' \in 0..MaxOps /\ started' \in {started, started + 1}
  /\ op \in Op
  /\ ops' = [ops EXCEPT ![i] = op]

LEMMA StartTurn ==
  ASSUME TypeOK, FreeSlots, NEW op \in Op, Start(op)
  PROVE  Turn(started + 1, op) /\ ops[started + 1] = NoOp
  BY MaxOpsAssumption DEF TypeOK, FreeSlots, Start, Count, Turn, Slots

LEMMA ContinueTurn ==
  ASSUME TypeOK, FreeSlots, NEW i \in Slots, ops[i].kind # "none", NEW op \in Op,
         Continue(i, op)
  PROVE  Turn(i, op)
  <1>1. ops[i] # NoOp BY NoOpTyped
  <1>2. i <= started BY <1>1 DEF FreeSlots, TypeOK, Slots
  <1>3. QED BY <1>2 DEF Turn, TypeOK, Continue

LEMMA Turned ==
  ASSUME TypeOK, FreeSlots, NEW i, NEW op, Turn(i, op)
  PROVE  /\ ops' \in [Slots -> Op] /\ FreeSlots'
         /\ ops'[i] = op /\ \A j \in Slots \ {i} : ops'[j] = ops[j]
  BY DEF TypeOK, FreeSlots, Turn, Slots

-----------------------------------------------------------------------------
(* What a step has to keep of the rows.                                    *)

\* Cases and promises are typed, none disappears, and a new one is neither
\* closed nor decided.
CasesGrow ==
  /\ cases' \in Seq(Case) /\ Len(cases') <= MaxCases /\ Len(cases) <= Len(cases')
  /\ \A c \in 1..Len(cases') : c > Len(cases) => cases'[c].status # "CLOSED"

PromisesGrow ==
  /\ promises' \in Seq(Promise) /\ Len(promises') <= MaxPromises
  /\ Len(promises) <= Len(promises')
  /\ \A p \in 1..Len(promises') : p > Len(promises) => promises'[p].status = "PENDING"

RowsGrow == loan' \in LoanStatuses /\ CasesGrow /\ PromisesGrow

\* A request in flight goes on with what it read, or has read what is still so.
ReadsOn(old, new) ==
  /\ ReadLoan(new) => ReadLoan(old) \/ loan' # "CLOSED"
  /\ \A c \in 1..Len(cases) :
       ReadCase(new, c) => ReadCase(old, c) \/ cases'[c].status # "CLOSED"
  /\ \A p \in 1..Len(promises) :
       ReadPromise(new, p) => ReadPromise(old, p) \/ promises'[p].status = "PENDING"

LEMMA SinceTyped ==
  ASSUME TypeOK, Remember, started' \in 0..MaxOps
  PROVE  since' \in [loan : 0..MaxOps, cases : [1..MaxCases -> 0..MaxOps],
                     promises : [1..MaxPromises -> 0..MaxOps]]
  BY DEF TypeOK, Remember

LEMMA LoanStaysDated ==
  ASSUME TypeOK, LoanDated, Remember, started' \in 0..MaxOps, FreeSlots',
         \A i \in Slots : ReadsOn(ops[i], ops'[i])
  PROVE  LoanDated'
  <1> SUFFICES ASSUME NEW i \in Slots, ReadLoan(ops'[i]), loan' = "CLOSED"
               PROVE  i <= since'.loan
    BY DEF LoanDated
  <1>1. ReadLoan(ops[i]) BY DEF ReadsOn
  <1>2. i <= started'
    BY NoOpTyped DEF FreeSlots, ReadLoan, Slots
  <1>3. since'.loan = IF loan # "CLOSED" /\ loan' = "CLOSED" THEN started' ELSE since.loan
    BY DEF Remember
  <1>4. QED BY <1>1, <1>2, <1>3 DEF LoanDated

LEMMA CasesStayDated ==
  ASSUME TypeOK, CasesDated, Remember, started' \in 0..MaxOps, FreeSlots', CasesGrow,
         \A i \in Slots : ReadsOn(ops[i], ops'[i])
  PROVE  CasesDated'
  <1> SUFFICES ASSUME NEW i \in Slots, NEW c \in 1..Len(cases'), ReadCase(ops'[i], c),
                      cases'[c].status = "CLOSED"
               PROVE  i <= since'.cases[c]
    BY DEF CasesDated
  <1>1. Len(cases) \in Nat /\ Len(cases') \in Nat /\ MaxCases \in Nat
    BY CollectionsAssumption, LenProperties DEF CasesGrow, TypeOK
  <1>2. ~(c > Len(cases)) /\ Len(cases') <= MaxCases
    BY DEF CasesGrow
  <1>3. c \in 1..Len(cases) /\ c \in 1..MaxCases
    BY <1>1, <1>2
  <1>4. ReadCase(ops[i], c) BY <1>3 DEF ReadsOn
  <1>5. i <= started'
    BY NoOpTyped DEF FreeSlots, ReadCase, Slots
  <1>6. since'.cases[c] = IF Closes(c) THEN started' ELSE since.cases[c]
    BY <1>3 DEF Remember
  <1>7. QED BY <1>1, <1>3, <1>4, <1>5, <1>6 DEF CasesDated, Closes

LEMMA PromisesStayDated ==
  ASSUME TypeOK, PromisesDated, Remember, started' \in 0..MaxOps, FreeSlots', PromisesGrow,
         \A i \in Slots : ReadsOn(ops[i], ops'[i])
  PROVE  PromisesDated'
  <1> SUFFICES ASSUME NEW i \in Slots, NEW p \in 1..Len(promises'), ReadPromise(ops'[i], p),
                      promises'[p].status # "PENDING"
               PROVE  i <= since'.promises[p]
    BY DEF PromisesDated
  <1>1. Len(promises) \in Nat /\ Len(promises') \in Nat /\ MaxPromises \in Nat
    BY CollectionsAssumption, LenProperties DEF PromisesGrow, TypeOK
  <1>2. ~(p > Len(promises)) /\ Len(promises') <= MaxPromises
    BY DEF PromisesGrow
  <1>3. p \in 1..Len(promises) /\ p \in 1..MaxPromises
    BY <1>1, <1>2
  <1>4. ReadPromise(ops[i], p) BY <1>3 DEF ReadsOn
  <1>5. i <= started'
    BY NoOpTyped DEF FreeSlots, ReadPromise, Slots
  <1>6. since'.promises[p] = IF Decides(p) THEN started' ELSE since.promises[p]
    BY <1>3 DEF Remember
  <1>7. QED BY <1>1, <1>3, <1>4, <1>5, <1>6 DEF PromisesDated, Decides, Pending

\* What is kept but for the requests.
RowsInv ==
  /\ started \in 0..MaxOps /\ ops \in [Slots -> Op] /\ FreeSlots
  /\ loan \in LoanStatuses
  /\ cases \in Seq(Case) /\ Len(cases) <= MaxCases
  /\ promises \in Seq(Promise) /\ Len(promises) <= MaxPromises
  /\ since \in [loan : 0..MaxOps, cases : [1..MaxCases -> 0..MaxOps],
                promises : [1..MaxPromises -> 0..MaxOps]]
  /\ LoanDated /\ CasesDated /\ PromisesDated

RequestsInv == requests \in Seq(Request) /\ Len(requests) <= MaxRequests /\ RequestsFit

LEMMA RowsStay ==
  ASSUME IInv, Remember, started' \in 0..MaxOps, ops' \in [Slots -> Op], FreeSlots',
         RowsGrow, \A j \in Slots : ReadsOn(ops[j], ops'[j])
  PROVE  RowsInv'
  <1>1. TypeOK /\ LoanDated /\ CasesDated /\ PromisesDated /\ CasesGrow /\ PromisesGrow
    BY DEF IInv, RowsGrow
  <1>2. LoanDated' BY <1>1, LoanStaysDated
  <1>3. CasesDated' BY <1>1, CasesStayDated
  <1>4. PromisesDated' BY <1>1, PromisesStayDated
  <1>5. since' \in [loan : 0..MaxOps, cases : [1..MaxCases -> 0..MaxOps],
                    promises : [1..MaxPromises -> 0..MaxOps]]
    BY <1>1, SinceTyped
  <1>6. QED
    BY <1>2, <1>3, <1>4, <1>5 DEF RowsInv, RowsGrow, CasesGrow, PromisesGrow

LEMMA TurnRowsStay ==
  ASSUME IInv, Remember, NEW i, NEW op, Turn(i, op), RowsGrow, ReadsOn(ops[i], op)
  PROVE  RowsInv'
  <1>1. started' \in 0..MaxOps /\ ops' \in [Slots -> Op] /\ FreeSlots'
    BY Turned DEF Turn, IInv
  <1>2. \A j \in Slots : ReadsOn(ops[j], ops'[j])
    <2> SUFFICES ASSUME NEW j \in Slots PROVE ReadsOn(ops[j], ops'[j])
      OBVIOUS
    <2>1. CASE j = i
      BY <2>1, Turned DEF IInv
    <2>2. CASE j # i
      <3>1. ops'[j] = ops[j] BY <2>2, Turned DEF IInv
      <3>2. QED BY <3>1 DEF ReadsOn
    <2>3. QED BY <2>1, <2>2
  <1>3. QED BY <1>1, <1>2, RowsStay

-----------------------------------------------------------------------------
(* What a step has to keep of the requests it does not touch.              *)

\* A slot that carries out no request, or goes on with its own.
CarriesOn(old, new) ==
  \/ new.kind \notin {"settle", "writeoff"}
  \/ /\ new.kind = old.kind /\ new.request = old.request /\ new.checker = old.checker
     /\ new.phase # "read"

LEMMA RequestsStay ==
  ASSUME RequestsFit, requests' = requests,
         \A i \in Slots : ops'[i] = ops[i] \/ CarriesOn(ops[i], ops'[i])
  PROVE  RequestsFit'
  <1>1. \A r \in 1..Len(requests) : RequestFits(r)'
    BY DEF RequestsFit, RequestFits
  <1>2. \A i \in Slots : CarrierFits(i)'
    BY DEF RequestsFit, CarrierFits, Carrying, CarriesOn
  <1>3. \A i, j \in Slots : Apart(i, j)'
    BY DEF RequestsFit, Apart, Carrying, CarriesOn
  <1>4. QED BY <1>1, <1>2, <1>3 DEF RequestsFit

\* The step of one request that leaves the settlements and write-offs alone.
LEMMA TurnKeeps ==
  ASSUME IInv, Remember, NEW i, NEW op, Turn(i, op), RowsGrow, ReadsOn(ops[i], op),
         requests' = requests, CarriesOn(ops[i], op)
  PROVE  IInv'
  <1>1. RowsInv' BY TurnRowsStay
  <1>2. \A j \in Slots : ops'[j] = ops[j] \/ CarriesOn(ops[j], ops'[j])
    BY Turned DEF IInv
  <1>3. RequestsInv'
    BY <1>2, RequestsStay DEF RequestsInv, IInv, TypeOK
  <1>4. QED BY <1>1, <1>3 DEF IInv, RowsInv, RequestsInv, TypeOK

Rows == <<loan, cases, promises>>

LEMMA RowsUnchanged ==
  ASSUME TypeOK, UNCHANGED Rows
  PROVE  RowsGrow
  <1>1. Len(cases) \in Nat /\ Len(promises) \in Nat
    BY LenProperties DEF TypeOK
  <1>2. QED BY <1>1 DEF TypeOK, Rows, RowsGrow, CasesGrow, PromisesGrow

LEMMA StartKeeps ==
  ASSUME IInv, Remember, NEW op \in Op, Start(op), UNCHANGED <<Rows, requests>>,
         ReadsOn(NoOp, op), op.kind \notin {"settle", "writeoff"}
  PROVE  IInv'
  <1>1. TypeOK /\ FreeSlots BY DEF IInv
  <1>2. Turn(started + 1, op) /\ ops[started + 1] = NoOp
    BY <1>1, StartTurn
  <1>3. RowsGrow BY <1>1, RowsUnchanged
  <1>4. CarriesOn(NoOp, op) BY DEF CarriesOn
  <1>5. QED BY <1>2, <1>3, <1>4, TurnKeeps

LEMMA ContinueKeeps ==
  ASSUME IInv, Remember, NEW i \in Slots, ops[i].kind # "none", NEW op \in Op,
         Continue(i, op), RowsGrow, ReadsOn(ops[i], op), UNCHANGED requests,
         CarriesOn(ops[i], op)
  PROVE  IInv'
  <1>1. Turn(i, op) BY ContinueTurn DEF IInv
  <1>2. QED BY <1>1, TurnKeeps

LEMMA EndKeeps ==
  ASSUME IInv, Remember, NEW i \in Slots, ops[i].kind # "none", End(i), RowsGrow,
         UNCHANGED requests
  PROVE  IInv'
  <1>1. ReadsOn(ops[i], NoOp) /\ CarriesOn(ops[i], NoOp)
    BY NoOpTyped DEF ReadsOn, CarriesOn, ReadLoan, ReadCase, ReadPromise
  <1>2. QED BY <1>1, NoOpTyped, ContinueKeeps DEF End
-----------------------------------------------------------------------------
(* Types of the rows and of the requests in flight.                        *)

LEMMA OpTyped ==
  ASSUME NEW op \in Op
  PROVE  /\ op.kind = "setCase" =>
              op.case \in 1..MaxCases /\ op.blind \in BOOLEAN /\ op.status \in CaseStatuses
         /\ op.kind \in {"resolve", "promise", "reopen"} => op.case \in 1..MaxCases
         /\ op.kind = "cure" => op.cases \in SUBSET (1..MaxCases)
         /\ op.kind = "create" => op.status \in {"OPEN", "ESCALATED"} /\ op.npa \in BOOLEAN
         /\ op.kind \in {"sweep", "demote", "evaluate"} => op.left \in SUBSET (1..MaxPromises)
         /\ op.kind = "demote" => op.promise \in 1..MaxPromises
         /\ op.kind \in {"settle", "writeoff"} =>
              op.request \in 1..MaxRequests /\ op.checker \in Users \cup {Nobody}
  BY NoOpTyped DEF Op

LEMMA PhaseTyped ==
  ASSUME NEW op \in Op
  PROVE  /\ op.kind = "cure" => [op EXCEPT !.phase = "promises"] \in Op
         /\ op.kind = "sync" => [op EXCEPT !.phase = "loan"] \in Op
         /\ op.kind = "job" => [op EXCEPT !.phase = "case"] \in Op
         /\ op.kind = "sweep" => [op EXCEPT !.phase = "count"] \in Op
         /\ op.kind \in {"settle", "writeoff"} =>
              /\ [op EXCEPT !.phase = "journaled"] \in Op
              /\ [op EXCEPT !.phase = "loanSet"] \in Op
  BY NoOpTyped DEF Op

LEMMA CaseOf ==
  ASSUME TypeOK
  PROVE  /\ Len(cases) \in Nat
         /\ \A c \in 1..Len(cases) : cases[c] \in Case /\ c \in 1..MaxCases
  <1>1. Len(cases) \in Nat /\ MaxCases \in Nat
    BY CollectionsAssumption, LenProperties DEF TypeOK
  <1>2. QED BY <1>1, ElementOfSeq DEF TypeOK

LEMMA PromiseOf ==
  ASSUME TypeOK
  PROVE  /\ Len(promises) \in Nat
         /\ \A p \in 1..Len(promises) : promises[p] \in Promise /\ p \in 1..MaxPromises
  <1>1. Len(promises) \in Nat /\ MaxPromises \in Nat
    BY CollectionsAssumption, LenProperties DEF TypeOK
  <1>2. QED BY <1>1, ElementOfSeq DEF TypeOK

\* A sequence with one element set, in its domain or not.
LEMMA SeqSet ==
  ASSUME NEW S, NEW s \in Seq(S), NEW k, NEW e \in S
  PROVE  /\ [s EXCEPT ![k] = e] \in Seq(S) /\ Len([s EXCEPT ![k] = e]) = Len(s)
         /\ \A j \in 1..Len(s) : [s EXCEPT ![k] = e][j] = IF j = k THEN e ELSE s[j]
  <1>1. CASE k \in 1..Len(s)
    BY <1>1, ExceptSeq
  <1>2. CASE k \notin 1..Len(s)
    <2>1. [s EXCEPT ![k] = e] = s
      BY <1>2, LenProperties
    <2>2. QED BY <1>2, <2>1
  <1>3. QED BY <1>1, <1>2

\* A sequence rewritten element by element.
LEMMA SeqRewritten ==
  ASSUME NEW S, NEW n \in Nat, NEW f, f \in [1..n -> S]
  PROVE  f \in Seq(S) /\ Len(f) = n
  BY IsASeq, LenProperties

LEMMA CaseSet ==
  ASSUME TypeOK, NEW c, NEW r \in Case, cases' = [cases EXCEPT ![c] = r]
  PROVE  /\ CasesGrow /\ Len(cases') = Len(cases)
         /\ \A d \in 1..Len(cases) : cases'[d] = IF d = c THEN r ELSE cases[d]
  <1>1. Len(cases) \in Nat BY CaseOf
  <1>2. cases' \in Seq(Case) /\ Len(cases') = Len(cases)
    <2>1. cases \in Seq(Case) BY DEF TypeOK
    <2>2. QED BY <2>1, SeqSet
  <1>3. \A d \in 1..Len(cases) : cases'[d] = IF d = c THEN r ELSE cases[d]
    BY SeqSet DEF TypeOK
  <1>4. QED BY <1>1, <1>2, <1>3 DEF CasesGrow, TypeOK

LEMMA CaseStatusSet ==
  ASSUME TypeOK, NEW c, NEW status \in CaseStatuses, SetCase(c, status)
  PROVE  /\ CasesGrow /\ Len(cases') = Len(cases)
         /\ \A d \in 1..Len(cases) :
              cases'[d] = IF d = c THEN [cases[d] EXCEPT !.status = status] ELSE cases[d]
  <1>1. CASE c \in 1..Len(cases)
    <2> DEFINE r == [cases[c] EXCEPT !.status = status]
    <2>1. r \in Case BY <1>1, CaseOf DEF Case
    <2>2. cases' = [cases EXCEPT ![c] = r] BY DEF SetCase
    <2> HIDE DEF r
    <2>3. CasesGrow /\ Len(cases') = Len(cases)
          /\ \A d \in 1..Len(cases) : cases'[d] = IF d = c THEN r ELSE cases[d]
      BY <2>1, <2>2, CaseSet
    <2>4. QED BY <2>3 DEF r
  <1>2. CASE c \notin 1..Len(cases)
    <2>1. cases' = cases
      BY <1>2, LenProperties DEF SetCase, TypeOK
    <2>2. QED BY <1>2, <2>1, CaseOf DEF CasesGrow, TypeOK
  <1>3. QED BY <1>1, <1>2

LEMMA CaseAdded ==
  ASSUME TypeOK, NEW status \in {"OPEN", "ESCALATED"}, NEW npa \in BOOLEAN,
         AddCase(status, npa)
  PROVE  CasesGrow /\ \A d \in 1..Len(cases) : cases'[d] = cases[d]
  <1> DEFINE r == [status |-> status, npa |-> npa]
  <1>1. r \in Case BY DEF Case, CaseStatuses, Active
  <1>2. cases' = Append(cases, r) /\ Len(cases) < MaxCases BY DEF AddCase
  <1>3. r.status # "CLOSED" OBVIOUS
  <1> HIDE DEF r
  <1>4. Len(cases) \in Nat /\ MaxCases \in Nat BY CaseOf, CollectionsAssumption
  <1>5. /\ cases' \in Seq(Case) /\ Len(cases') = Len(cases) + 1
        /\ \A d \in 1..Len(cases) : cases'[d] = cases[d]
        /\ cases'[Len(cases) + 1] = r
    BY <1>1, <1>2, AppendProperties DEF TypeOK
  <1>6. QED BY <1>2, <1>3, <1>4, <1>5 DEF CasesGrow

LEMMA PromisesSet ==
  ASSUME TypeOK, NEW set,
         NEW status \in {"KEPT", "PARTIALLY_FULFILLED", "BROKEN", "CANCELLED"},
         SetPromises(set, status)
  PROVE  /\ PromisesGrow /\ Len(promises') = Len(promises)
         /\ \A p \in 1..Len(promises) :
              promises'[p] = IF p \in set THEN [promises[p] EXCEPT !.status = status]
                                          ELSE promises[p]
  <1>1. Len(promises) \in Nat BY PromiseOf
  <1>2. \A p \in 1..Len(promises) :
          /\ promises'[p] = IF p \in set THEN [promises[p] EXCEPT !.status = status]
                                         ELSE promises[p]
          /\ promises'[p] \in Promise
    BY PromiseOf DEF SetPromises, Promise
  <1>3. promises' \in [1..Len(promises) -> Promise]
    BY <1>2 DEF SetPromises
  <1>4. promises' \in Seq(Promise) /\ Len(promises') = Len(promises)
    BY <1>1, <1>3, SeqRewritten
  <1>5. PromisesGrow BY <1>1, <1>4 DEF PromisesGrow, TypeOK
  <1>6. QED BY <1>2, <1>4, <1>5
-----------------------------------------------------------------------------
(* Steps on the cases.                                                     *)

LEMMA AllowedOpen ==
  \A s \in CaseStatuses : Allowed[s] \subseteq CaseStatuses \ {"CLOSED"}
                          /\ (s = "CLOSED" => Allowed[s] = {})
  <1> SUFFICES ASSUME NEW s \in CaseStatuses
               PROVE  Allowed[s] \subseteq CaseStatuses \ {"CLOSED"}
                      /\ (s = "CLOSED" => Allowed[s] = {})
    OBVIOUS
  <1>1. QED BY DEF CaseStatuses, Active, Allowed

LEMMA WritingCaseKeeps ==
  ASSUME IInv, Remember, NEW c \in 1..Len(cases), NEW blind \in BOOLEAN,
         NEW status \in CaseStatuses, WritingCase(c, blind, status),
         blind \/ status = "CLOSED" \/ cases[c].status # "CLOSED"
  PROVE  IInv'
  <1> DEFINE op == [kind |-> "setCase", case |-> c, blind |-> blind, status |-> status]
  <1>1. Start(op) /\ UNCHANGED <<Rows, requests>> BY DEF WritingCase, Rows
  <1>2. op \in Op /\ op.kind \notin {"settle", "writeoff"}
    BY CaseOf DEF Op, IInv
  <1>3. ReadsOn(NoOp, op)
    BY <1>1 DEF ReadsOn, ReadLoan, ReadCase, ReadPromise, Rows
  <1> HIDE DEF op
  <1>4. QED BY <1>1, <1>2, <1>3, StartKeeps

LEMMA CaseWritersKeep ==
  ASSUME IInv, Remember, NEW c \in 1..Len(cases), NEW status,
         \/ UpdateStatus(c, status) \/ CloseCase(c) \/ AssignCase(c)
         \/ status \in {"ESCALATED", "LEGAL_REVIEW"} /\ EscalateCase(c, status)
  PROVE  IInv'
  <1>1. cases[c].status \in CaseStatuses BY CaseOf DEF IInv, Case
  <1>2. CASE UpdateStatus(c, status)
    <2>1. status \in CaseStatuses /\ cases[c].status # "CLOSED"
      BY <1>1, <1>2, AllowedOpen DEF UpdateStatus
    <2>2. WritingCase(c, FALSE, status) BY <1>2 DEF UpdateStatus
    <2>3. QED BY <2>1, <2>2, WritingCaseKeeps
  <1>3. CASE CloseCase(c)
    <2>1. WritingCase(c, FALSE, "CLOSED") BY <1>3 DEF CloseCase
    <2>2. QED BY <2>1, WritingCaseKeeps DEF CaseStatuses
  <1>4. CASE AssignCase(c)
    <2> DEFINE s == IF cases[c].status = "OPEN" THEN "IN_PROGRESS" ELSE cases[c].status
    <2>1. WritingCase(c, FALSE, s) BY <1>4 DEF AssignCase
    <2>2. s \in CaseStatuses /\ (s = "CLOSED" \/ cases[c].status # "CLOSED")
      BY <1>1 DEF CaseStatuses, Active
    <2> HIDE DEF s
    <2>3. QED BY <2>1, <2>2, WritingCaseKeeps
  <1>5. CASE status \in {"ESCALATED", "LEGAL_REVIEW"} /\ EscalateCase(c, status)
    <2>1. WritingCase(c, TRUE, status) BY <1>5 DEF EscalateCase
    <2>2. QED BY <1>5, <2>1, WritingCaseKeeps DEF CaseStatuses, Active
  <1>6. QED BY <1>2, <1>3, <1>4, <1>5

LEMMA StartSyncKeeps ==
  ASSUME IInv, Remember, StartSync
  PROVE  IInv'
  <1>1. PICK c \in {0} \cup {c \in 1..Len(cases) : cases[c].status \in Active} :
          Start([kind |-> "sync", phase |-> "case", seen |-> loan, case |-> c])
    BY DEF StartSync
  <1> DEFINE op == [kind |-> "sync", phase |-> "case", seen |-> loan, case |-> c]
  <1>2. c \in 0..MaxCases BY CaseOf, CollectionsAssumption DEF IInv
  <1>3. op \in Op BY <1>2 DEF Op, IInv, TypeOK
  <1>4. UNCHANGED <<Rows, requests>> /\ loan' # "CLOSED" BY DEF StartSync, Rows
  <1>5. ReadsOn(NoOp, op) BY <1>4 DEF ReadsOn, ReadLoan, ReadCase, ReadPromise
  <1>6. op.kind = "sync" /\ Start(op) BY <1>1
  <1> HIDE DEF op
  <1>7. QED BY <1>3, <1>4, <1>5, <1>6, StartKeeps

LEMMA StartJobKeeps ==
  ASSUME IInv, Remember, StartJob
  PROVE  IInv'
  <1> DEFINE op == [kind |-> "job", phase |-> "loan"]
  <1>1. op \in Op /\ op.kind = "job" BY DEF Op
  <1>2. Start(op) /\ UNCHANGED <<Rows, requests>> BY DEF StartJob, Rows
  <1>3. ReadsOn(NoOp, op) BY DEF ReadsOn, ReadLoan, ReadCase, ReadPromise
  <1> HIDE DEF op
  <1>4. QED BY <1>1, <1>2, <1>3, StartKeeps

LEMMA StartCreateKeeps ==
  ASSUME IInv, Remember, NEW npa \in BOOLEAN, StartCreate(npa)
  PROVE  IInv'
  <1> DEFINE op == [kind |-> "create", status |-> "OPEN", npa |-> npa]
  <1>1. op \in Op /\ op.kind = "create" BY DEF Op
  <1>2. Start(op) /\ UNCHANGED <<Rows, requests>> BY DEF StartCreate, Rows
  <1>3. ReadsOn(NoOp, op) BY DEF ReadsOn, ReadLoan, ReadCase, ReadPromise
  <1> HIDE DEF op
  <1>4. QED BY <1>1, <1>2, <1>3, StartKeeps

LEMMA StartResolveKeeps ==
  ASSUME IInv, Remember, NEW c \in 1..Len(cases),
         StartResolve(c) \/ StartPromise(c)
  PROVE  IInv'
  <1>1. PICK kind \in {"resolve", "promise"} :
          Start([kind |-> kind, case |-> c]) /\ UNCHANGED <<Rows, requests>>
    BY DEF StartResolve, StartPromise, Rows
  <1> DEFINE op == [kind |-> kind, case |-> c]
  <1>2. op \in Op /\ op.kind \notin {"settle", "writeoff"} BY CaseOf DEF Op, IInv
  <1>3. ReadsOn(NoOp, op) BY DEF ReadsOn, ReadLoan, ReadCase, ReadPromise
  <1> HIDE DEF op
  <1>4. QED BY <1>1, <1>2, <1>3, StartKeeps DEF op

LEMMA StartCureKeeps ==
  ASSUME IInv, Remember, StartCure
  PROVE  IInv'
  <1> DEFINE found == {c \in 1..Len(cases) : cases[c].status \in Active \ {"ON_HOLD"}}
             op == [kind |-> "cure", phase |-> "cases", cases |-> found]
  <1>1. found \in SUBSET (1..MaxCases) BY CaseOf DEF IInv
  <1>2. \A c \in found : cases[c].status # "CLOSED" BY DEF Active
  <1>3. Start(op) /\ UNCHANGED <<Rows, requests>> BY DEF StartCure, Rows
  <1> HIDE DEF found
  <1>4. op \in Op /\ op.kind = "cure" BY <1>1 DEF Op
  <1>5. ReadsOn(NoOp, op)
    BY <1>2, <1>3 DEF ReadsOn, ReadLoan, ReadCase, ReadPromise, Rows
  <1> HIDE DEF op
  <1>6. QED BY <1>3, <1>4, <1>5, StartKeeps

LEMMA SyncCaseKeeps ==
  ASSUME IInv, Remember, NEW i \in Slots, NEW dpd \in Days, SyncCase(i, dpd)
  PROVE  IInv'
  <1> USE DEF SyncCase
  <1>1. TypeOK /\ ops[i] \in Op BY DEF IInv, TypeOK
  <1>2. CasesGrow
    <2>1. CASE ops[i].case # 0
      <3> DEFINE c == ops[i].case
                 npa == dpd >= 90
                 r == [cases[c] EXCEPT !.npa = npa]
      <3>1. CASE c \in 1..Len(cases)
        <4>1. npa \in BOOLEAN /\ cases' = [cases EXCEPT ![c] = r] BY <2>1
        <4>2. cases[c] \in Case BY <1>1, <3>1, CaseOf
        <4> HIDE DEF npa
        <4>3. r \in Case BY <4>1, <4>2 DEF Case
        <4> HIDE DEF r, c
        <4>4. QED BY <1>1, <4>1, <4>3, CaseSet
      <3>2. CASE c \notin 1..Len(cases)
        <4>1. cases' = cases BY <1>1, <2>1, <3>2, LenProperties DEF TypeOK
        <4>2. QED BY <1>1, <4>1, CaseOf DEF CasesGrow, TypeOK
      <3>3. QED BY <3>1, <3>2
    <2>2. CASE ops[i].case = 0
      <3> DEFINE s == IF dpd > 60 THEN "ESCALATED" ELSE "OPEN"
                 npa == dpd >= 90
      <3>1. s \in {"OPEN", "ESCALATED"} /\ npa \in BOOLEAN OBVIOUS
      <3>2. AddCase(s, npa) BY <2>2
      <3> HIDE DEF s, npa
      <3>3. QED BY <1>1, <3>1, <3>2, CaseAdded
    <2>3. QED BY <2>1, <2>2
  <1>3. RowsGrow
    BY <1>1, <1>2, PromiseOf DEF RowsGrow, PromisesGrow, TypeOK
  <1>4. CASE End(i)
    BY <1>3, <1>4, EndKeeps
  <1>5. CASE Continue(i, [ops[i] EXCEPT !.phase = "loan"])
    <2> DEFINE op == [ops[i] EXCEPT !.phase = "loan"]
    <2>1. op \in Op BY <1>1, PhaseTyped
    <2>2. op.kind = "sync" BY <1>1 DEF Op
    <2>3. ReadsOn(ops[i], op) /\ CarriesOn(ops[i], op)
      BY <2>2 DEF ReadsOn, CarriesOn, ReadLoan, ReadCase, ReadPromise
    <2>4. Continue(i, op) BY <1>5
    <2> HIDE DEF op
    <2>5. QED BY <1>3, <2>1, <2>3, <2>4, ContinueKeeps
  <1>6. QED BY <1>4, <1>5

LEMMA LoanWritten ==
  ASSUME TypeOK, loan' \in LoanStatuses, UNCHANGED <<cases, promises>>
  PROVE  RowsGrow
  BY CaseOf, PromiseOf DEF RowsGrow, CasesGrow, PromisesGrow, TypeOK

LEMMA SyncLoanKeeps ==
  ASSUME IInv, Remember, NEW i \in Slots, SyncLoan(i)
  PROVE  IInv'
  <1>1. RowsGrow BY LoanWritten DEF SyncLoan, IInv, LoanStatuses
  <1>2. QED BY <1>1, EndKeeps DEF SyncLoan

LEMMA CreateCaseKeeps ==
  ASSUME IInv, Remember, NEW i \in Slots, CreateCase(i)
  PROVE  IInv'
  <1>1. ops[i].status \in {"OPEN", "ESCALATED"} /\ ops[i].npa \in BOOLEAN
    BY OpTyped DEF CreateCase, IInv, TypeOK
  <1>2. CasesGrow BY <1>1, CaseAdded DEF CreateCase, IInv
  <1>3. RowsGrow
    BY <1>2, PromiseOf DEF CreateCase, RowsGrow, PromisesGrow, IInv, TypeOK
  <1>4. QED BY <1>3, EndKeeps DEF CreateCase

LEMMA JobSetsLoanKeeps ==
  ASSUME IInv, Remember, NEW i \in Slots, JobSetsLoan(i)
  PROVE  IInv'
  <1> DEFINE op == [ops[i] EXCEPT !.phase = "case"]
  <1>1. ops[i] \in Op /\ ops[i].kind = "job" BY DEF IInv, TypeOK, JobSetsLoan
  <1>2. op \in Op BY <1>1, PhaseTyped
  <1>3. op.kind = "job" BY <1>1 DEF Op
  <1>4. ReadsOn(ops[i], op) /\ CarriesOn(ops[i], op)
    BY <1>3 DEF ReadsOn, CarriesOn, ReadLoan, ReadCase, ReadPromise
  <1>5. RowsGrow BY LoanWritten DEF JobSetsLoan, IInv, LoanStatuses
  <1>6. Continue(i, op) /\ UNCHANGED requests BY DEF JobSetsLoan
  <1> HIDE DEF op
  <1>7. QED BY <1>1, <1>2, <1>4, <1>5, <1>6, ContinueKeeps

LEMMA JobFindsCaseKeeps ==
  ASSUME IInv, Remember, NEW i \in Slots, NEW dpd \in Days, JobFindsCase(i, dpd)
  PROVE  IInv'
  <1>1. RowsGrow BY RowsUnchanged DEF JobFindsCase, Rows, IInv
  <1>2. ops[i].kind = "job" /\ UNCHANGED requests BY DEF JobFindsCase
  <1>3. CASE cases = <<>>
    <2> DEFINE op == [kind |-> "create", status |-> "OPEN", npa |-> dpd >= 90]
    <2>1. op \in Op BY DEF Op
    <2>2. ReadsOn(ops[i], op) /\ CarriesOn(ops[i], op)
      BY DEF ReadsOn, CarriesOn, ReadLoan, ReadCase, ReadPromise
    <2>3. Continue(i, op) BY <1>3 DEF JobFindsCase
    <2> HIDE DEF op
    <2>4. QED BY <1>1, <1>2, <2>1, <2>2, <2>3, ContinueKeeps
  <1>4. CASE cases # <<>>
    <2>1. PICK c \in 1..Len(cases) : Continue(i, [kind |-> "reopen", case |-> c])
      BY <1>4 DEF JobFindsCase
    <2> DEFINE op == [kind |-> "reopen", case |-> c]
    <2>2. op \in Op BY CaseOf DEF Op, IInv
    <2>3. ReadsOn(ops[i], op) /\ CarriesOn(ops[i], op)
      BY DEF ReadsOn, CarriesOn, ReadLoan, ReadCase, ReadPromise
    <2>4. Continue(i, op) BY <2>1
    <2> HIDE DEF op
    <2>5. QED BY <1>1, <1>2, <2>2, <2>3, <2>4, ContinueKeeps
  <1>5. QED BY <1>3, <1>4

LEMMA CaseRowsGrow ==
  ASSUME IInv, CasesGrow, UNCHANGED <<loan, promises>>
  PROVE  RowsGrow
  BY PromiseOf DEF RowsGrow, PromisesGrow, IInv, TypeOK

LEMMA ReopenCaseKeeps ==
  ASSUME IInv, Remember, NEW i \in Slots, NEW dpd \in Days, ReopenCase(i, dpd)
  PROVE  IInv'
  <1> DEFINE r == [status |-> "OPEN", npa |-> dpd >= 90]
  <1>1. r \in Case BY DEF Case, CaseStatuses, Active
  <1>2. cases' = [cases EXCEPT ![ops[i].case] = r] BY DEF ReopenCase
  <1> HIDE DEF r
  <1>3. CasesGrow BY <1>1, <1>2, CaseSet DEF IInv
  <1>4. RowsGrow BY <1>3, CaseRowsGrow DEF ReopenCase
  <1>5. QED BY <1>4, EndKeeps DEF ReopenCase

LEMMA LandCaseKeeps ==
  ASSUME IInv, Remember, NEW i \in Slots, LandCase(i)
  PROVE  IInv'
  <1>1. ops[i].status \in CaseStatuses BY OpTyped DEF LandCase, IInv, TypeOK
  <1>2. CasesGrow BY <1>1, CaseStatusSet DEF LandCase, IInv
  <1>3. RowsGrow BY <1>2, CaseRowsGrow DEF LandCase
  <1>4. QED BY <1>3, EndKeeps DEF LandCase

LEMMA ResolveCaseKeeps ==
  ASSUME IInv, Remember, NEW i \in Slots, ResolveCase(i)
  PROVE  IInv'
  <1> DEFINE r == [status |-> "RESOLVED", npa |-> FALSE]
  <1>1. r \in Case BY DEF Case, CaseStatuses
  <1>2. cases' = [cases EXCEPT ![ops[i].case] = r] BY DEF ResolveCase
  <1> HIDE DEF r
  <1>3. CasesGrow BY <1>1, <1>2, CaseSet DEF IInv
  <1>4. PromisesGrow BY PromisesSet DEF ResolveCase, IInv
  <1>5. RowsGrow BY <1>3, <1>4 DEF RowsGrow, ResolveCase, IInv, TypeOK
  <1>6. QED BY <1>5, EndKeeps DEF ResolveCase

LEMMA CuredCases ==
  ASSUME TypeOK, NEW i \in Slots, CureCases(i)
  PROVE  /\ CasesGrow /\ Len(cases') = Len(cases)
         /\ \A c \in 1..Len(cases) :
              cases'[c] = IF c \in ops[i].cases THEN [status |-> "RESOLVED", npa |-> FALSE]
                                                ELSE cases[c]
  <1>1. Len(cases) \in Nat BY CaseOf
  <1>2. [status |-> "RESOLVED", npa |-> FALSE] \in Case BY DEF Case, CaseStatuses
  <1>3. \A c \in 1..Len(cases) :
          cases'[c] = IF c \in ops[i].cases THEN [status |-> "RESOLVED", npa |-> FALSE]
                                            ELSE cases[c]
    BY DEF CureCases
  <1>4. cases' \in [1..Len(cases) -> Case] BY <1>2, <1>3, CaseOf DEF CureCases
  <1>5. cases' \in Seq(Case) /\ Len(cases') = Len(cases) BY <1>1, <1>4, SeqRewritten
  <1>6. CasesGrow BY <1>1, <1>5 DEF CasesGrow, TypeOK
  <1>7. QED BY <1>3, <1>5, <1>6

LEMMA CureCasesKeeps ==
  ASSUME IInv, Remember, NEW i \in Slots, CureCases(i)
  PROVE  IInv'
  <1> DEFINE op == [ops[i] EXCEPT !.phase = "promises"]
  <1>1. ops[i] \in Op /\ ops[i].kind = "cure" BY DEF IInv, TypeOK, CureCases
  <1>2. op \in Op BY <1>1, PhaseTyped
  <1>3. op.kind = "cure" /\ op.phase = "promises" BY <1>1 DEF Op
  <1>4. ReadsOn(ops[i], op) /\ CarriesOn(ops[i], op)
    BY <1>3 DEF ReadsOn, CarriesOn, ReadLoan, ReadCase, ReadPromise
  <1>5. CasesGrow BY CuredCases DEF IInv
  <1>6. RowsGrow BY <1>5, CaseRowsGrow DEF CureCases
  <1>7. Continue(i, op) /\ UNCHANGED requests BY DEF CureCases
  <1> HIDE DEF op
  <1>8. QED BY <1>1, <1>2, <1>4, <1>6, <1>7, ContinueKeeps

LEMMA PromiseRowsGrow ==
  ASSUME IInv, PromisesGrow, UNCHANGED <<loan, cases>>
  PROVE  RowsGrow
  BY CaseOf DEF RowsGrow, CasesGrow, IInv, TypeOK

LEMMA CurePromisesKeeps ==
  ASSUME IInv, Remember, NEW i \in Slots, CurePromises(i)
  PROVE  IInv'
  <1>1. PromisesGrow BY PromisesSet DEF CurePromises, IInv
  <1>2. RowsGrow BY <1>1, PromiseRowsGrow DEF CurePromises
  <1>3. QED BY <1>2, EndKeeps DEF CurePromises

LEMMA LoanPaidOffKeeps ==
  ASSUME IInv, Remember, LoanPaidOff
  PROVE  IInv'
  <1>1. TypeOK /\ FreeSlots BY DEF IInv
  <1>2. Turn(started + 1, NoOp) /\ ops[started + 1] = NoOp
    BY <1>1, NoOpTyped, MaxOpsAssumption
    DEF LoanPaidOff, Count, Turn, TypeOK, FreeSlots, Slots
  <1>3. RowsGrow BY <1>1, LoanWritten DEF LoanPaidOff, LoanStatuses
  <1>4. ReadsOn(NoOp, NoOp) /\ CarriesOn(NoOp, NoOp)
    BY NoOpTyped DEF ReadsOn, CarriesOn
  <1>5. QED BY <1>2, <1>3, <1>4, TurnKeeps DEF LoanPaidOff
LEMMA CaseStepsKeep ==
  ASSUME IInv, Remember, CaseSteps
  PROVE  IInv'
  <1>1. CASE StartSync BY <1>1, StartSyncKeeps
  <1>2. CASE StartJob BY <1>2, StartJobKeeps
  <1>3. CASE \E npa \in BOOLEAN : StartCreate(npa) BY <1>3, StartCreateKeeps
  <1>4. CASE \E c \in 1..Len(cases) :
               \/ \E status \in CaseTargets : UpdateStatus(c, status)
               \/ CloseCase(c) \/ AssignCase(c) \/ StartResolve(c)
               \/ \E status \in {"ESCALATED", "LEGAL_REVIEW"} : EscalateCase(c, status)
    BY <1>4, CaseWritersKeep, StartResolveKeeps
  <1>5. CASE StartCure BY <1>5, StartCureKeeps
  <1>6. CASE \E i \in Slots : \E dpd \in Days :
               SyncCase(i, dpd) \/ JobFindsCase(i, dpd) \/ ReopenCase(i, dpd)
    BY <1>6, SyncCaseKeeps, JobFindsCaseKeeps, ReopenCaseKeeps
  <1>7. CASE \E i \in Slots : SyncLoan(i) \/ CreateCase(i) \/ JobSetsLoan(i)
    BY <1>7, SyncLoanKeeps, CreateCaseKeeps, JobSetsLoanKeeps
  <1>8. CASE \E i \in Slots : LandCase(i) \/ ResolveCase(i) \/ CureCases(i) \/ CurePromises(i)
    BY <1>8, LandCaseKeeps, ResolveCaseKeeps, CureCasesKeeps, CurePromisesKeeps
  <1>9. CASE LoanPaidOff BY <1>9, LoanPaidOffKeeps
  <1>10. QED
    BY <1>1, <1>2, <1>3, <1>4, <1>5, <1>6, <1>7, <1>8, <1>9 DEF CaseSteps

-----------------------------------------------------------------------------
(* Steps on the promises.                                                  *)

LEMMA StartReadingKeeps ==
  ASSUME IInv, Remember, StartEvaluate \/ StartSweep
  PROVE  IInv'
  <1>1. PICK left \in SUBSET Pending :
          /\ UNCHANGED <<Rows, requests>>
          /\ \/ Start([kind |-> "evaluate", left |-> left])
             \/ Start([kind |-> "sweep", phase |-> "break", left |-> left])
    BY DEF StartEvaluate, StartSweep, Rows
  <1>2. left \in SUBSET (1..MaxPromises) /\ \A p \in left : promises'[p].status = "PENDING"
    BY <1>1, PromiseOf DEF IInv, Pending, Rows
  <1>3. CASE Start([kind |-> "evaluate", left |-> left])
    <2> DEFINE op == [kind |-> "evaluate", left |-> left]
    <2>1. op \in Op /\ op.kind = "evaluate" BY <1>2 DEF Op
    <2>2. ReadsOn(NoOp, op) BY <1>2 DEF ReadsOn, ReadLoan, ReadCase, ReadPromise
    <2>3. Start(op) BY <1>3
    <2> HIDE DEF op
    <2>4. QED BY <1>1, <2>1, <2>2, <2>3, StartKeeps
  <1>4. CASE Start([kind |-> "sweep", phase |-> "break", left |-> left])
    <2> DEFINE op == [kind |-> "sweep", phase |-> "break", left |-> left]
    <2>1. op \in Op /\ op.kind = "sweep" BY <1>2 DEF Op
    <2>2. ReadsOn(NoOp, op) BY <1>2 DEF ReadsOn, ReadLoan, ReadCase, ReadPromise
    <2>3. Start(op) BY <1>4
    <2> HIDE DEF op
    <2>4. QED BY <1>1, <2>1, <2>2, <2>3, StartKeeps
  <1>5. QED BY <1>1, <1>3, <1>4

LEMMA CreatePtpKeeps ==
  ASSUME IInv, Remember, NEW i \in Slots, CreatePtp(i)
  PROVE  IInv'
  <1>1. TypeOK /\ ops[i].case \in 1..MaxCases BY OpTyped DEF IInv, TypeOK, CreatePtp
  <1> DEFINE c == ops[i].case
             given == PendingOf({c})
             kept == [p \in 1..Len(promises) |->
                        IF p \in given THEN [promises[p] EXCEPT !.status = "CANCELLED"]
                                       ELSE promises[p]]
             new == [case |-> c, status |-> "PENDING"]
  <1>2. new \in Promise /\ new.status = "PENDING" BY <1>1 DEF Promise
  <1>3. Len(promises) \in Nat /\ MaxPromises \in Nat
    BY <1>1, PromiseOf, CollectionsAssumption
  <1>4. kept \in Seq(Promise) /\ Len(kept) = Len(promises)
    <2> HIDE DEF given
    <2>1. \A p \in 1..Len(promises) :
            (IF p \in given THEN [promises[p] EXCEPT !.status = "CANCELLED"]
                            ELSE promises[p]) \in Promise
      BY <1>1, PromiseOf DEF Promise
    <2>2. kept \in [1..Len(promises) -> Promise] BY <2>1
    <2> HIDE DEF kept
    <2>3. QED BY <1>3, <2>2, SeqRewritten
  <1>5. promises' = Append(kept, new) /\ Len(promises) < MaxPromises
    BY DEF CreatePtp
  <1>6. SetCase(c, "PROMISED") /\ End(i) /\ UNCHANGED <<loan, requests>>
        /\ ops[i].kind = "promise"
    BY DEF CreatePtp
  <1> HIDE DEF c, given, kept, new
  <1>7. /\ promises' \in Seq(Promise) /\ Len(promises') = Len(promises) + 1
        /\ promises'[Len(promises) + 1] = new
    BY <1>2, <1>4, <1>5, AppendProperties
  <1>8. PromisesGrow BY <1>2, <1>3, <1>5, <1>7 DEF PromisesGrow
  <1>9. CasesGrow BY <1>1, <1>6, CaseStatusSet DEF CaseStatuses, Active
  <1>10. RowsGrow BY <1>1, <1>6, <1>8, <1>9 DEF RowsGrow, TypeOK
  <1>11. QED BY <1>6, <1>10, EndKeeps

LEMMA EvaluatePromiseKeeps ==
  ASSUME IInv, Remember, NEW i \in Slots, NEW p \in 1..Len(promises),
         NEW status \in {"KEPT", "PARTIALLY_FULFILLED"}, EvaluatePromise(i, p, status)
  PROVE  IInv'
  <1>1. ops[i] \in Op /\ ops[i].kind = "evaluate" BY DEF IInv, TypeOK, EvaluatePromise
  <1>2. PromisesGrow BY PromisesSet DEF EvaluatePromise, IInv
  <1>3. RowsGrow /\ UNCHANGED requests BY <1>2, PromiseRowsGrow DEF EvaluatePromise
  <1>4. CASE End(i) BY <1>1, <1>3, <1>4, EndKeeps
  <1>5. CASE Continue(i, [ops[i] EXCEPT !.left = @ \ {p}])
    <2> DEFINE op == [ops[i] EXCEPT !.left = @ \ {p}]
    <2>1. ops[i] \in [kind : {"evaluate"}, left : SUBSET (1..MaxPromises)]
      BY <1>1, NoOpTyped DEF Op
    <2>2. op.kind = "evaluate" /\ op.left = ops[i].left \ {p} BY <2>1
    <2>3. op \in [kind : {"evaluate"}, left : SUBSET (1..MaxPromises)] BY <2>1
    <2>4. op \in Op BY <2>3 DEF Op
    <2>5. ReadsOn(ops[i], op) /\ CarriesOn(ops[i], op)
      BY <1>1, <2>2 DEF ReadsOn, CarriesOn, ReadLoan, ReadCase, ReadPromise
    <2>6. Continue(i, op) BY <1>5
    <2> HIDE DEF op
    <2>7. QED BY <1>1, <1>3, <2>4, <2>5, <2>6, ContinueKeeps
  <1>6. QED BY <1>4, <1>5 DEF EvaluatePromise

LEMMA BreakPromisesKeeps ==
  ASSUME IInv, Remember, NEW i \in Slots, BreakPromises(i)
  PROVE  IInv'
  <1> DEFINE op == [ops[i] EXCEPT !.phase = "count"]
  <1>1. ops[i] \in Op /\ ops[i].kind = "sweep" BY DEF IInv, TypeOK, BreakPromises
  <1>2. op \in Op BY <1>1, PhaseTyped
  <1>3. op.kind = "sweep" /\ op.left = ops[i].left BY <1>1 DEF Op
  <1>4. ReadsOn(ops[i], op) /\ CarriesOn(ops[i], op)
    BY <1>1, <1>3 DEF ReadsOn, CarriesOn, ReadLoan, ReadCase, ReadPromise
  <1>5. PromisesGrow BY PromisesSet DEF BreakPromises, IInv
  <1>6. RowsGrow BY <1>5, PromiseRowsGrow DEF BreakPromises
  <1>7. Continue(i, op) /\ UNCHANGED requests BY DEF BreakPromises
  <1> HIDE DEF op
  <1>8. QED BY <1>1, <1>2, <1>4, <1>6, <1>7, ContinueKeeps

LEMMA SweepOnKeeps ==
  ASSUME IInv, Remember, NEW i \in Slots, ops[i].kind \in {"sweep", "demote"}, NEW p,
         SweepOn(i, p), RowsGrow, UNCHANGED requests
  PROVE  IInv'
  <1>1. CASE End(i) BY <1>1, EndKeeps
  <1>2. CASE Continue(i, [kind |-> "sweep", phase |-> "count", left |-> ops[i].left \ {p}])
    <2> DEFINE op == [kind |-> "sweep", phase |-> "count", left |-> ops[i].left \ {p}]
    <2>1. ops[i].left \in SUBSET (1..MaxPromises) BY OpTyped DEF IInv, TypeOK
    <2>2. op \in Op BY <2>1 DEF Op
    <2>3. ReadsOn(ops[i], op) /\ CarriesOn(ops[i], op)
      BY DEF ReadsOn, CarriesOn, ReadLoan, ReadCase, ReadPromise
    <2>4. Continue(i, op) BY <1>2
    <2> HIDE DEF op
    <2>5. QED BY <2>2, <2>3, <2>4, ContinueKeeps
  <1>3. QED BY <1>1, <1>2 DEF SweepOn

LEMMA CountPendingKeeps ==
  ASSUME IInv, Remember, NEW i \in Slots, NEW p \in 1..Len(promises), CountPending(i, p)
  PROVE  IInv'
  <1>1. ops[i] \in Op /\ ops[i].kind = "sweep" /\ UNCHANGED requests
    BY DEF IInv, TypeOK, CountPending
  <1>2. RowsGrow BY RowsUnchanged DEF CountPending, Rows, IInv
  <1>3. CASE SweepOn(i, p) BY <1>1, <1>2, <1>3, SweepOnKeeps
  <1>4. CASE Continue(i, [kind |-> "demote", left |-> ops[i].left, promise |-> p])
    <2> DEFINE op == [kind |-> "demote", left |-> ops[i].left, promise |-> p]
    <2>1. ops[i].left \in SUBSET (1..MaxPromises) /\ p \in 1..MaxPromises
      BY <1>1, OpTyped, PromiseOf DEF IInv
    <2>2. op \in Op BY <2>1 DEF Op
    <2>3. ReadsOn(ops[i], op) /\ CarriesOn(ops[i], op)
      BY <1>1 DEF ReadsOn, CarriesOn, ReadLoan, ReadCase, ReadPromise
    <2>4. Continue(i, op) BY <1>4
    <2> HIDE DEF op
    <2>5. QED BY <1>1, <1>2, <2>2, <2>3, <2>4, ContinueKeeps
  <1>5. QED BY <1>3, <1>4 DEF CountPending

LEMMA DemoteCaseKeeps ==
  ASSUME IInv, Remember, NEW i \in Slots, DemoteCase(i)
  PROVE  IInv'
  <1>1. CasesGrow BY CaseStatusSet DEF DemoteCase, IInv, CaseStatuses, Active
  <1>2. RowsGrow BY <1>1, CaseRowsGrow DEF DemoteCase
  <1>3. QED BY <1>2, SweepOnKeeps DEF DemoteCase

LEMMA PromiseStepsKeep ==
  ASSUME IInv, Remember, PromiseSteps
  PROVE  IInv'
  <1>1. CASE \E c \in 1..Len(cases) : StartPromise(c) BY <1>1, StartResolveKeeps
  <1>2. CASE StartEvaluate \/ StartSweep BY <1>2, StartReadingKeeps
  <1>3. CASE \E i \in Slots : CreatePtp(i) \/ BreakPromises(i) \/ DemoteCase(i)
    BY <1>3, CreatePtpKeeps, BreakPromisesKeeps, DemoteCaseKeeps
  <1>4. CASE \E i \in Slots : \E p \in 1..Len(promises) : CountPending(i, p)
    BY <1>4, CountPendingKeeps
  <1>5. CASE \E i \in Slots : \E p \in 1..Len(promises) :
               \E status \in {"KEPT", "PARTIALLY_FULFILLED"} : EvaluatePromise(i, p, status)
    BY <1>5, EvaluatePromiseKeeps
  <1>6. QED BY <1>1, <1>2, <1>3, <1>4, <1>5 DEF PromiseSteps
-----------------------------------------------------------------------------
(* Steps on the requests.                                                  *)

LEMMA RequestOf ==
  ASSUME IInv
  PROVE  /\ Len(requests) \in Nat
         /\ \A r \in 1..Len(requests) : requests[r] \in Request /\ r \in 1..MaxRequests
  <1>1. Len(requests) \in Nat /\ MaxRequests \in Nat
    BY CollectionsAssumption, LenProperties DEF IInv, TypeOK
  <1>2. QED BY <1>1, ElementOfSeq DEF IInv, TypeOK

LEMMA RequestSet ==
  ASSUME IInv, NEW r, NEW q \in Request, requests' = [requests EXCEPT ![r] = q]
  PROVE  /\ requests' \in Seq(Request) /\ Len(requests') = Len(requests)
         /\ Len(requests') <= MaxRequests
         /\ \A s \in 1..Len(requests) : requests'[s] = IF s = r THEN q ELSE requests[s]
  <1>1. requests \in Seq(Request) BY DEF IInv, TypeOK
  <1>2. requests' \in Seq(Request) /\ Len(requests') = Len(requests)
    BY <1>1, SeqSet
  <1>3. \A s \in 1..Len(requests) : requests'[s] = IF s = r THEN q ELSE requests[s]
    BY <1>1, SeqSet
  <1>4. QED BY <1>2, <1>3 DEF IInv, TypeOK

\* A step of no request in flight.
LEMMA StillRowsStay ==
  ASSUME IInv, Remember, UNCHANGED <<ops, started, Rows>>
  PROVE  RowsInv'
  <1>1. RowsGrow BY RowsUnchanged DEF IInv
  <1>2. \A j \in Slots : ReadsOn(ops[j], ops'[j]) BY DEF ReadsOn
  <1>3. started' \in 0..MaxOps /\ ops' \in [Slots -> Op] /\ FreeSlots'
    BY DEF IInv, TypeOK, FreeSlots
  <1>4. QED BY <1>1, <1>2, <1>3, RowsStay

\* The step of a new request that writes no rows yet.
LEMMA StartRowsStay ==
  ASSUME IInv, Remember, NEW op \in Op, Start(op), UNCHANGED Rows, ReadsOn(NoOp, op)
  PROVE  /\ RowsInv' /\ started + 1 \in Slots /\ ops[started + 1] = NoOp
         /\ ops'[started + 1] = op
         /\ \A j \in Slots \ {started + 1} : ops'[j] = ops[j]
  <1>1. Turn(started + 1, op) /\ ops[started + 1] = NoOp BY StartTurn DEF IInv
  <1>2. RowsGrow BY RowsUnchanged DEF IInv
  <1>3. RowsInv' BY <1>1, <1>2, TurnRowsStay
  <1>4. started + 1 \in Slots BY <1>1 DEF Turn
  <1>5. QED BY <1>1, <1>3, <1>4, Turned DEF IInv

LEMMA ProposedFit ==
  ASSUME IInv, NEW kind \in {"settlement", "writeoff"}, NEW u \in Users,
         NEW c \in 1..Len(cases), Propose(kind, u, c),
         \A i \in Slots : ops'[i] = ops[i] \/ CarriesOn(ops[i], ops'[i])
  PROVE  RequestsInv'
  <1> DEFINE q == [kind |-> kind, case |-> c, status |-> "PENDING_APPROVAL",
                   maker |-> u, checker |-> Nobody, journals |-> 0, contested |-> FALSE]
  <1>1. q \in Request BY CaseOf DEF Request, IInv
  <1>2. /\ q.status = "PENDING_APPROVAL" /\ q.checker # q.maker /\ q.journals = 0
    BY CollectionsAssumption
  <1>3. requests' = Append(requests, q) /\ Len(requests) < MaxRequests BY DEF Propose
  <1> HIDE DEF q
  <1>4. Len(requests) \in Nat /\ MaxRequests \in Nat BY RequestOf, CollectionsAssumption
  <1>5. /\ requests' \in Seq(Request) /\ Len(requests') = Len(requests) + 1
        /\ \A r \in 1..Len(requests) : requests'[r] = requests[r]
        /\ requests'[Len(requests) + 1] = q
    BY <1>1, <1>3, AppendProperties DEF IInv, TypeOK
  <1>6. \A r \in 1..Len(requests') : RequestFits(r)'
    <2> SUFFICES ASSUME NEW r \in 1..Len(requests') PROVE RequestFits(r)'
      OBVIOUS
    <2>1. CASE r = Len(requests) + 1 BY <1>2, <1>5, <2>1 DEF RequestFits
    <2>2. CASE r # Len(requests) + 1
      <3>1. r \in 1..Len(requests) BY <1>4, <1>5, <2>2
      <3>2. RequestFits(r) /\ requests'[r] = requests[r]
        BY <1>5, <3>1 DEF IInv, RequestsFit
      <3>3. QED BY <3>2 DEF RequestFits
    <2>3. QED BY <2>1, <2>2
  <1>7. \A i \in Slots : CarrierFits(i)'
    <2> SUFFICES ASSUME NEW i \in Slots, Carrying(i)' PROVE CarrierFits(i)'
      BY DEF CarrierFits
    <2>1. Carrying(i) /\ ops'[i].request = ops[i].request
      BY DEF Carrying, CarriesOn
    <2>2. CarrierFits(i) BY DEF IInv, RequestsFit
    <2>3. ops[i].request \in 1..Len(requests) BY <2>1, <2>2 DEF CarrierFits
    <2>4. requests'[ops[i].request] = requests[ops[i].request]
          /\ ops[i].request \in 1..Len(requests')
      BY <1>4, <1>5, <2>3
    <2>5. QED BY <2>1, <2>2, <2>4 DEF CarrierFits, Carrying, CarriesOn
  <1>8. \A i, j \in Slots : Apart(i, j)'
    <2> SUFFICES ASSUME NEW i \in Slots, NEW j \in Slots, Carrying(i)', Carrying(j)',
                        ops'[i].request = ops'[j].request, i # j
                 PROVE  requests'[ops'[i].request].contested
      BY DEF Apart
    <2>1. /\ Carrying(i) /\ ops'[i].request = ops[i].request
          /\ Carrying(j) /\ ops'[j].request = ops[j].request
      BY DEF Carrying, CarriesOn
    <2>2. CarrierFits(i) /\ Apart(i, j) BY DEF IInv, RequestsFit
    <2>3. QED BY <1>5, <2>1, <2>2 DEF CarrierFits, Apart
  <1>9. QED BY <1>3, <1>4, <1>5, <1>6, <1>7, <1>8 DEF RequestsInv, RequestsFit

LEMMA ProposeSettlementKeeps ==
  ASSUME IInv, Remember, NEW u \in Users, NEW c \in 1..Len(cases), ProposeSettlement(u, c)
  PROVE  IInv'
  <1> DEFINE op == [kind |-> "setCase", case |-> c, blind |-> TRUE,
                    status |-> "SETTLEMENT_REVIEW"]
  <1>1. op \in Op BY CaseOf DEF Op, IInv, CaseStatuses, Active
  <1>2. op.kind = "setCase" /\ ReadsOn(NoOp, op)
    BY DEF ReadsOn, ReadLoan, ReadCase, ReadPromise
  <1>3. Start(op) /\ UNCHANGED Rows /\ Propose("settlement", u, c)
    BY DEF ProposeSettlement, Rows
  <1> HIDE DEF op
  <1>4. RowsInv' /\ \A j \in Slots : ops'[j] = ops[j] \/ CarriesOn(ops[j], ops'[j])
    BY <1>1, <1>2, <1>3, StartRowsStay DEF CarriesOn
  <1>5. RequestsInv' BY <1>3, <1>4, ProposedFit
  <1>6. QED BY <1>4, <1>5 DEF IInv, RowsInv, RequestsInv, TypeOK

LEMMA ProposeWriteOffKeeps ==
  ASSUME IInv, Remember, NEW u \in Users, NEW c \in 1..Len(cases), ProposeWriteOff(u, c)
  PROVE  IInv'
  <1>1. UNCHANGED <<ops, started, Rows>> /\ Propose("writeoff", u, c)
    BY DEF ProposeWriteOff, Rows
  <1>2. RowsInv' BY <1>1, StillRowsStay
  <1>3. RequestsInv' BY <1>1, ProposedFit
  <1>4. QED BY <1>2, <1>3 DEF IInv, RowsInv, RequestsInv, TypeOK

\* A request that is rejected or approved without being carried out.
LEMMA DecidedFit ==
  ASSUME IInv, NEW r \in 1..Len(requests), NEW u \in Users, MayDecide(r, u),
         NEW q \in Request, requests' = [requests EXCEPT ![r] = q],
         q.kind = requests[r].kind, q.maker = requests[r].maker, q.checker = u,
         q.journals = requests[r].journals,
         ~q.contested => ~requests[r].contested,
         \/ q.status = "REJECTED" /\ (~q.contested => InFlight(r) = {})
         \/ q.status = "APPROVED" /\ q.kind = "settlement",
         \A i \in Slots : ops'[i] = ops[i] \/ CarriesOn(ops[i], ops'[i])
  PROVE  RequestsInv'
  <1>1. /\ requests' \in Seq(Request) /\ Len(requests') = Len(requests)
        /\ Len(requests') <= MaxRequests
        /\ \A s \in 1..Len(requests) : requests'[s] = IF s = r THEN q ELSE requests[s]
    BY RequestSet
  <1>2. u # Nobody /\ u # requests[r].maker /\ requests[r].status = "PENDING_APPROVAL"
    BY CollectionsAssumption DEF MayDecide
  <1>3. \A s \in 1..Len(requests') : RequestFits(s)'
    <2> SUFFICES ASSUME NEW s \in 1..Len(requests) PROVE RequestFits(s)'
      BY <1>1
    <2>1. RequestFits(s) BY DEF IInv, RequestsFit
    <2>2. CASE s = r BY <1>1, <1>2, <2>1, <2>2 DEF RequestFits
    <2>3. CASE s # r BY <1>1, <2>1, <2>3 DEF RequestFits
    <2>4. QED BY <2>2, <2>3
  <1>4. ASSUME NEW i \in Slots, Carrying(i)'
        PROVE  /\ Carrying(i) /\ ops'[i].request = ops[i].request
               /\ ops'[i].kind = ops[i].kind /\ ops'[i].checker = ops[i].checker
               /\ ops'[i].phase = "read" => ops[i].phase = "read"
               /\ ops[i].request \in 1..Len(requests)
               /\ CarrierFits(i)
    <2>1. CarrierFits(i) BY DEF IInv, RequestsFit
    <2>2. QED BY <1>4, <2>1 DEF Carrying, CarriesOn, CarrierFits
  <1>5. \A i \in Slots : CarrierFits(i)'
    <2> SUFFICES ASSUME NEW i \in Slots, Carrying(i)' PROVE CarrierFits(i)'
      BY DEF CarrierFits
    <2>1. CASE ops[i].request # r BY <1>1, <1>4, <2>1 DEF CarrierFits, Carrying
    <2>2. CASE ops[i].request = r
      <3>1. i \in InFlight(r) BY <1>4, <2>2 DEF InFlight, Carrying
      <3>2. q.contested \/ ops[i].phase # "read"
        BY <1>2, <1>4, <2>2, <3>1 DEF CarrierFits, Carrying
      <3>3. QED BY <1>1, <1>2, <1>4, <2>2, <3>2 DEF CarrierFits, Carrying
    <2>3. QED BY <2>1, <2>2
  <1>6. \A i, j \in Slots : Apart(i, j)'
    <2> SUFFICES ASSUME NEW i \in Slots, NEW j \in Slots, Carrying(i)', Carrying(j)',
                        ops'[i].request = ops'[j].request, i # j
                 PROVE  requests'[ops'[i].request].contested
      BY DEF Apart
    <2>1. Apart(i, j) BY DEF IInv, RequestsFit
    <2>2. QED BY <1>1, <1>4, <2>1 DEF Apart
  <1>7. QED BY <1>1, <1>3, <1>5, <1>6 DEF RequestsInv, RequestsFit

LEMMA RejectKeeps ==
  ASSUME IInv, Remember, NEW r \in 1..Len(requests), NEW u \in Users, Reject(r, u)
  PROVE  IInv'
  <1> DEFINE flag == requests[r].contested \/ InFlight(r) # {}
             q == [requests[r] EXCEPT !.status = "REJECTED", !.checker = u,
                                      !.contested = flag]
  <1>1. requests[r] \in Request BY RequestOf
  <1>2. requests' = [requests EXCEPT ![r] = q] BY DEF Reject
  <1>3. flag \in BOOLEAN /\ (~flag => ~requests[r].contested /\ InFlight(r) = {})
    OBVIOUS
  <1> HIDE DEF flag
  <1>4. /\ q \in Request /\ q.kind = requests[r].kind /\ q.maker = requests[r].maker
        /\ q.checker = u /\ q.journals = requests[r].journals /\ q.status = "REJECTED"
        /\ q.contested = flag
    BY <1>1, <1>3 DEF Request
  <1> HIDE DEF q
  <1>5. RowsInv' /\ \A j \in Slots : ops'[j] = ops[j] \/ CarriesOn(ops[j], ops'[j])
    <2>1. CASE requests[r].kind = "writeoff"
      <3>1. UNCHANGED <<ops, started, Rows>> BY <2>1 DEF Reject, Rows
      <3>2. QED BY <3>1, StillRowsStay
    <2>2. CASE requests[r].kind # "writeoff"
      <3> DEFINE op == [kind |-> "setCase", case |-> requests[r].case, blind |-> TRUE,
                        status |-> "IN_PROGRESS"]
      <3>1. op \in Op BY <1>1 DEF Op, Request, CaseStatuses, Active
      <3>2. op.kind = "setCase" /\ ReadsOn(NoOp, op)
        BY DEF ReadsOn, ReadLoan, ReadCase, ReadPromise
      <3>3. Start(op) /\ UNCHANGED Rows BY <2>2 DEF Reject, Rows
      <3> HIDE DEF op
      <3>4. QED BY <3>1, <3>2, <3>3, StartRowsStay DEF CarriesOn
    <2>3. QED BY <2>1, <2>2
  <1>6. MayDecide(r, u) BY DEF Reject
  <1>7. RequestsInv' BY <1>2, <1>3, <1>4, <1>5, <1>6, DecidedFit
  <1>8. QED BY <1>5, <1>7 DEF IInv, RowsInv, RequestsInv, TypeOK

LEMMA ApproveSettlementKeeps ==
  ASSUME IInv, Remember, NEW r \in 1..Len(requests), NEW u \in Users,
         ApproveSettlement(r, u)
  PROVE  IInv'
  <1> DEFINE q == [requests[r] EXCEPT !.status = "APPROVED", !.checker = u]
  <1>1. requests[r] \in Request BY RequestOf
  <1>2. requests' = [requests EXCEPT ![r] = q] BY DEF ApproveSettlement
  <1>3. /\ q \in Request /\ q.kind = requests[r].kind /\ q.maker = requests[r].maker
        /\ q.checker = u /\ q.journals = requests[r].journals /\ q.status = "APPROVED"
        /\ q.contested = requests[r].contested
    BY <1>1 DEF Request
  <1>4. MayDecide(r, u) /\ requests[r].kind = "settlement" BY DEF ApproveSettlement
  <1> HIDE DEF q
  <1>5. RequestsInv' BY <1>2, <1>3, <1>4, DecidedFit DEF ApproveSettlement
  <1>6. RowsInv' BY StillRowsStay DEF ApproveSettlement, Rows
  <1>7. QED BY <1>5, <1>6 DEF IInv, RowsInv, RequestsInv, TypeOK
\* The start of an execution: a request is signed, its reading is right, and an
\* execution in flight makes it contested.
LEMMA CarryingOutKeeps ==
  ASSUME IInv, Remember, NEW r \in 1..Len(requests), NEW kind \in {"settle", "writeoff"},
         NEW checker \in Users \cup {Nobody}, CarryingOut(kind, r, checker),
         kind = "settle" =>
           requests[r].kind = "settlement" /\ requests[r].status = "APPROVED",
         kind = "writeoff" =>
           /\ requests[r].kind = "writeoff" /\ requests[r].status = "PENDING_APPROVAL"
           /\ checker \notin {Nobody, requests[r].maker}
  PROVE  IInv'
  <1> DEFINE op == [kind |-> kind, phase |-> "read", request |-> r, checker |-> checker]
             flag == requests[r].contested \/ InFlight(r) # {}
             q == [requests[r] EXCEPT !.contested = flag]
             k == started + 1
  <1>1. requests[r] \in Request /\ r \in 1..MaxRequests BY RequestOf
  <1>2. requests' = [requests EXCEPT ![r] = q] BY DEF CarryingOut
  <1>3. flag \in BOOLEAN /\ (~flag => ~requests[r].contested /\ InFlight(r) = {})
    OBVIOUS
  <1>4. op \in Op BY <1>1 DEF Op
  <1>5. /\ op.kind = kind /\ op.phase = "read" /\ op.request = r
        /\ op.checker = checker /\ ReadsOn(NoOp, op)
    BY DEF ReadsOn, ReadLoan, ReadCase, ReadPromise
  <1>6. Start(op) /\ UNCHANGED Rows BY DEF CarryingOut, Rows
  <1> HIDE DEF op, flag
  <1>7. /\ q \in Request /\ q.kind = requests[r].kind /\ q.maker = requests[r].maker
        /\ q.checker = requests[r].checker /\ q.journals = requests[r].journals
        /\ q.status = requests[r].status /\ q.contested = flag
    BY <1>1, <1>3 DEF Request
  <1> HIDE DEF q, k
  <1>8. /\ RowsInv' /\ k \in Slots /\ ops[k] = NoOp /\ ops'[k] = op
        /\ \A j \in Slots \ {k} : ops'[j] = ops[j]
    BY <1>4, <1>5, <1>6, StartRowsStay DEF k
  <1>9. /\ requests' \in Seq(Request) /\ Len(requests') = Len(requests)
        /\ Len(requests') <= MaxRequests
        /\ \A s \in 1..Len(requests) : requests'[s] = IF s = r THEN q ELSE requests[s]
    BY <1>2, <1>7, RequestSet
  <1>10. RequestFits(r) BY DEF IInv, RequestsFit
  <1>11. \A s \in 1..Len(requests') : RequestFits(s)'
    <2> SUFFICES ASSUME NEW s \in 1..Len(requests) PROVE RequestFits(s)'
      BY <1>9
    <2>1. RequestFits(s) BY DEF IInv, RequestsFit
    <2>2. CASE s = r BY <1>3, <1>7, <1>9, <2>1, <2>2 DEF RequestFits
    <2>3. CASE s # r BY <1>9, <2>1, <2>3 DEF RequestFits
    <2>4. QED BY <2>2, <2>3
  <1>12. \A i \in Slots : CarrierFits(i)'
    <2> SUFFICES ASSUME NEW i \in Slots PROVE CarrierFits(i)'
      OBVIOUS
    <2>1. CASE i = k
      BY <1>5, <1>7, <1>8, <1>9, <1>10, <2>1 DEF CarrierFits, Carrying, RequestFits
    <2>2. CASE i # k
      <3>1. CarrierFits(i) /\ ops'[i] = ops[i] BY <1>8, <2>2 DEF IInv, RequestsFit
      <3>2. QED BY <1>3, <1>7, <1>9, <3>1 DEF CarrierFits, Carrying
    <2>3. QED BY <2>1, <2>2
  <1>13. \A i \in Slots \ {k} : Carrying(i)' /\ ops'[i].request = r => flag
    <2> SUFFICES ASSUME NEW i \in Slots \ {k}, Carrying(i)', ops'[i].request = r
                 PROVE  flag
      OBVIOUS
    <2>1. i \in InFlight(r) BY <1>8 DEF InFlight, Carrying
    <2>2. QED BY <1>3, <2>1
  <1>14. \A i, j \in Slots : Apart(i, j)'
    <2> SUFFICES ASSUME NEW i \in Slots, NEW j \in Slots, Carrying(i)', Carrying(j)',
                        ops'[i].request = ops'[j].request, i # j
                 PROVE  requests'[ops'[i].request].contested
      BY DEF Apart
    <2>1. CASE i = k BY <1>5, <1>7, <1>8, <1>9, <1>13, <2>1
    <2>2. CASE j = k BY <1>5, <1>7, <1>8, <1>9, <1>13, <2>2
    <2>3. CASE i # k /\ j # k
      <3>1. ops'[i] = ops[i] /\ ops'[j] = ops[j] /\ Apart(i, j) /\ CarrierFits(i)
        BY <1>8, <2>3 DEF IInv, RequestsFit
      <3>2. requests[ops[i].request].contested /\ ops[i].request \in 1..Len(requests)
        BY <3>1 DEF Apart, Carrying, CarrierFits
      <3>3. QED BY <1>3, <1>7, <1>9, <3>1, <3>2
    <2>4. QED BY <2>1, <2>2, <2>3
  <1>15. RequestsInv' BY <1>9, <1>11, <1>12, <1>14 DEF RequestsInv, RequestsFit
  <1>16. QED BY <1>8, <1>15 DEF IInv, RowsInv, RequestsInv, TypeOK

LEMMA ExecutionsKeep ==
  ASSUME IInv, Remember, NEW r \in 1..Len(requests),
         FinalizeSettlement(r) \/ \E u \in Users : ApproveWriteOff(r, u)
  PROVE  IInv'
  <1>1. CASE FinalizeSettlement(r) BY <1>1, CarryingOutKeeps DEF FinalizeSettlement
  <1>2. CASE \E u \in Users : ApproveWriteOff(r, u)
    <2>1. PICK u \in Users : ApproveWriteOff(r, u) BY <1>2
    <2>2. u \notin {Nobody, requests[r].maker}
      BY <2>1, CollectionsAssumption DEF ApproveWriteOff, MayDecide
    <2>3. QED BY <2>1, <2>2, CarryingOutKeeps DEF ApproveWriteOff, MayDecide
  <1>3. QED BY <1>1, <1>2

\* The journal entry: the request was uncontested only if it is as it was read.
LEMMA JournalKeeps ==
  ASSUME IInv, Remember, NEW i \in Slots, Journal(i)
  PROVE  IInv'
  <1>0. PICK r : r = ops[i].request OBVIOUS
  <1> DEFINE op == [ops[i] EXCEPT !.phase = "journaled"]
             status == IF ops[i].kind = "settle" THEN "SETTLED" ELSE "APPROVED"
             checker == IF ops[i].kind = "settle" THEN requests[r].checker
                                                  ELSE ops[i].checker
             entries == requests[r].journals + 1
             q == [requests[r] EXCEPT !.journals = entries, !.status = status,
                                      !.checker = checker]
  <1>1. ops[i] \in Op /\ ops[i].kind \in {"settle", "writeoff"} /\ ops[i].phase = "read"
    BY DEF IInv, TypeOK, Journal
  <1>2. CarrierFits(i) /\ Carrying(i) BY <1>1 DEF IInv, RequestsFit, Carrying
  <1>3. r \in 1..Len(requests) BY <1>0, <1>2 DEF CarrierFits
  <1>4. requests[r] \in Request BY <1>3, RequestOf
  <1>5. requests' = [requests EXCEPT ![r] = q] BY <1>0 DEF Journal
  <1>6. checker \in Users \cup {Nobody} BY <1>1, <1>4, OpTyped DEF Request
  <1>7. op \in Op BY <1>1, PhaseTyped
  <1>8. /\ op.kind = ops[i].kind /\ op.phase = "journaled" /\ op.request = r
        /\ op.checker = ops[i].checker
    BY <1>0, <1>1, NoOpTyped DEF Op
  <1>9. Continue(i, op) /\ UNCHANGED Rows BY DEF Journal, Rows
  <1>10. status \in {"SETTLED", "APPROVED"} /\ entries \in Nat BY <1>4 DEF Request
  <1> HIDE DEF op, status, checker, entries
  <1>11. /\ q \in Request /\ q.kind = requests[r].kind /\ q.maker = requests[r].maker
         /\ q.checker = checker /\ q.journals = entries
         /\ q.status = status /\ q.contested = requests[r].contested
    BY <1>4, <1>6, <1>10 DEF Request
  <1> HIDE DEF q
  <1>12. /\ requests' \in Seq(Request) /\ Len(requests') = Len(requests)
         /\ Len(requests') <= MaxRequests
         /\ \A s \in 1..Len(requests) : requests'[s] = IF s = r THEN q ELSE requests[s]
    BY <1>5, <1>11, RequestSet
  <1>13. Turn(i, op) BY <1>1, <1>7, <1>9, ContinueTurn DEF IInv
  <1>14. ops'[i] = op /\ \A j \in Slots \ {i} : ops'[j] = ops[j]
    BY <1>13, Turned DEF IInv
  <1>15. RowsInv'
    <2>1. RowsGrow BY <1>9, RowsUnchanged DEF IInv
    <2>2. ReadsOn(ops[i], op)
      BY <1>1, <1>8 DEF ReadsOn, ReadLoan, ReadCase, ReadPromise
    <2>3. QED BY <1>13, <2>1, <2>2, TurnRowsStay
  <1>16. checker \notin {Nobody, requests[r].maker}
    <2>1. RequestFits(r) BY <1>3 DEF IInv, RequestsFit
    <2>2. QED BY <1>0, <1>1, <1>2, <2>1 DEF CarrierFits, RequestFits, checker
  <1>17. RequestFits(r)'
    <2>1. RequestFits(r) BY <1>3 DEF IInv, RequestsFit
    <2>2. ~requests[r].contested => requests[r].journals = 0
      BY <1>0, <1>1, <1>2, <2>1 DEF CarrierFits, RequestFits
    <2>3. ~requests[r].contested =>
            /\ q.journals = 1
            /\ q.status = "SETTLED" \/ (q.kind = "writeoff" /\ q.status = "APPROVED")
      <3>1. ~requests[r].contested => q.journals = 1 BY <1>11, <2>2 DEF entries
      <3>2. ops[i].kind = "settle" => q.status = "SETTLED" BY <1>11 DEF status
      <3>3. ops[i].kind = "writeoff" => q.status = "APPROVED" /\ q.kind = "writeoff"
        BY <1>0, <1>2, <1>11 DEF status, CarrierFits
      <3>4. QED BY <1>1, <3>1, <3>2, <3>3
    <2>4. requests'[r] = q BY <1>3, <1>12
    <2>5. QED BY <1>11, <1>16, <2>3, <2>4 DEF RequestFits
  <1>18. \A s \in 1..Len(requests') : RequestFits(s)'
    <2> SUFFICES ASSUME NEW s \in 1..Len(requests) PROVE RequestFits(s)'
      BY <1>12
    <2>1. RequestFits(s) BY DEF IInv, RequestsFit
    <2>2. CASE s = r BY <1>17, <2>2 DEF RequestFits
    <2>3. CASE s # r BY <1>12, <2>1, <2>3 DEF RequestFits
    <2>4. QED BY <2>2, <2>3
  <1>19. \A j \in Slots : CarrierFits(j)'
    <2> SUFFICES ASSUME NEW j \in Slots, Carrying(j)' PROVE CarrierFits(j)'
      BY DEF CarrierFits
    <2>1. CASE j = i
      BY <1>0, <1>2, <1>3, <1>8, <1>11, <1>12, <1>14, <1>16, <2>1 DEF CarrierFits, Carrying
    <2>2. CASE j # i
      <3>1. CarrierFits(j) /\ Apart(i, j) /\ ops'[j] = ops[j] /\ Carrying(j)
        BY <1>14, <2>2 DEF IInv, RequestsFit, Carrying
      <3>2. CASE ops[j].request = r
        <4>1. requests[r].contested BY <1>0, <1>2, <2>2, <3>1, <3>2 DEF Apart
        <4>2. QED BY <1>11, <1>12, <1>16, <3>1, <3>2, <4>1 DEF CarrierFits, Carrying
      <3>3. CASE ops[j].request # r
        BY <1>12, <3>1, <3>3 DEF CarrierFits, Carrying
      <3>4. QED BY <3>2, <3>3
    <2>3. QED BY <2>1, <2>2
  <1>20. \A j, k \in Slots : Apart(j, k)'
    <2> SUFFICES ASSUME NEW j \in Slots, NEW k \in Slots, Carrying(j)', Carrying(k)',
                        ops'[j].request = ops'[k].request, j # k
                 PROVE  requests'[ops'[j].request].contested
      BY DEF Apart
    <2>1. \A m \in {j, k} : Carrying(m) /\ ops[m].request = ops'[m].request
      BY <1>0, <1>1, <1>8, <1>14 DEF Carrying
    <2>2. Apart(j, k) /\ CarrierFits(j) BY DEF IInv, RequestsFit
    <2>3. QED BY <1>11, <1>12, <2>1, <2>2 DEF Apart, CarrierFits
  <1>21. RequestsInv' BY <1>12, <1>18, <1>19, <1>20 DEF RequestsInv, RequestsFit
  <1>22. QED BY <1>15, <1>21 DEF IInv, RowsInv, RequestsInv, TypeOK

LEMMA SetLoanKeeps ==
  ASSUME IInv, Remember, NEW i \in Slots, SetLoan(i)
  PROVE  IInv'
  <1> DEFINE op == [ops[i] EXCEPT !.phase = "loanSet"]
  <1>1. ops[i] \in Op /\ ops[i].kind \in {"settle", "writeoff"}
    BY DEF IInv, TypeOK, SetLoan
  <1>2. op \in Op BY <1>1, PhaseTyped
  <1>3. /\ op.kind = ops[i].kind /\ op.phase = "loanSet"
        /\ op.request = ops[i].request /\ op.checker = ops[i].checker
    BY <1>1, NoOpTyped DEF Op
  <1>4. ReadsOn(ops[i], op) /\ CarriesOn(ops[i], op)
    BY <1>1, <1>3 DEF ReadsOn, CarriesOn, ReadLoan, ReadCase, ReadPromise
  <1>5. RowsGrow BY LoanWritten DEF SetLoan, IInv, LoanStatuses
  <1>6. Continue(i, op) /\ UNCHANGED requests BY DEF SetLoan
  <1> HIDE DEF op
  <1>7. QED BY <1>1, <1>2, <1>4, <1>5, <1>6, ContinueKeeps

LEMMA FinishCaseKeeps ==
  ASSUME IInv, Remember, NEW i \in Slots, FinishCase(i)
  PROVE  IInv'
  <1> DEFINE c == requests[ops[i].request].case
  <1>1. CasesGrow
    <2>1. CASE ops[i].kind = "settle"
      <3> DEFINE r == [status |-> "CLOSED", npa |-> FALSE]
      <3>1. r \in Case BY DEF Case, CaseStatuses
      <3>2. cases' = [cases EXCEPT ![c] = r] BY <2>1 DEF FinishCase
      <3> HIDE DEF r, c
      <3>3. QED BY <3>1, <3>2, CaseSet DEF IInv
    <2>2. CASE ops[i].kind # "settle"
      <3>1. SetCase(c, "WRITTEN_OFF") BY <2>2 DEF FinishCase, SetCase
      <3> HIDE DEF c
      <3>2. QED BY <3>1, CaseStatusSet DEF IInv, CaseStatuses
    <2>3. QED BY <2>1, <2>2
  <1>2. RowsGrow BY <1>1, CaseRowsGrow DEF FinishCase
  <1>3. QED BY <1>2, EndKeeps DEF FinishCase

LEMMA RequestStepsKeep ==
  ASSUME IInv, Remember, RequestSteps
  PROVE  IInv'
  <1>1. CASE \E u \in Users, c \in 1..Len(cases) :
               ProposeSettlement(u, c) \/ ProposeWriteOff(u, c)
    BY <1>1, ProposeSettlementKeeps, ProposeWriteOffKeeps
  <1>2. CASE \E r \in 1..Len(requests) : \E u \in Users :
               Reject(r, u) \/ ApproveSettlement(r, u)
    BY <1>2, RejectKeeps, ApproveSettlementKeeps
  <1>3. CASE \E r \in 1..Len(requests) :
               FinalizeSettlement(r) \/ \E u \in Users : ApproveWriteOff(r, u)
    BY <1>3, ExecutionsKeep
  <1>4. CASE \E i \in Slots : Journal(i) \/ SetLoan(i) \/ FinishCase(i)
    BY <1>4, JournalKeeps, SetLoanKeeps, FinishCaseKeeps
  <1>5. QED BY <1>1, <1>2, <1>3, <1>4 DEF RequestSteps

-----------------------------------------------------------------------------
(* Failures, and the theorems.                                             *)

LEMMA FailKeeps ==
  ASSUME IInv, Remember, NEW i \in Slots, Fail(i)
  PROVE  IInv'
  <1>1. ops[i] \in Op /\ ops[i] # NoOp BY DEF IInv, TypeOK, Fail
  <1>2. ops[i].kind # "none" BY <1>1 DEF Op
  <1>3. RowsGrow BY RowsUnchanged DEF Fail, Rows, IInv
  <1>4. QED BY <1>2, <1>3, EndKeeps DEF Fail

LEMMA RestartKeeps ==
  ASSUME IInv, Remember, Restart
  PROVE  IInv'
  <1>1. started' \in 0..MaxOps /\ ops' = [i \in Slots |-> NoOp]
    BY MaxOpsAssumption DEF Restart, LoseAll, Count, IInv, TypeOK
  <1>2. ops' \in [Slots -> Op] /\ FreeSlots' BY <1>1, NoOpTyped DEF FreeSlots
  <1>3. \A i \in Slots : ReadsOn(ops[i], ops'[i])
    BY <1>1, NoOpTyped DEF ReadsOn, ReadLoan, ReadCase, ReadPromise
  <1>4. RowsGrow BY RowsUnchanged DEF Restart, Rows, IInv
  <1>5. RowsInv' BY <1>1, <1>2, <1>3, <1>4, RowsStay
  <1>6. requests' = <<>> /\ requests' \in Seq(Request) /\ Len(requests') = 0
    BY EmptySeq DEF Restart
  <1>7. \A i \in Slots : ~Carrying(i)' BY <1>1, NoOpTyped DEF Carrying
  <1>8. RequestsInv'
    BY <1>6, <1>7, CollectionsAssumption DEF RequestsInv, RequestsFit, CarrierFits, Apart
  <1>9. QED BY <1>5, <1>8 DEF IInv, RowsInv, RequestsInv, TypeOK
LEMMA InitEstablishes == Init => IInv
  <1> SUFFICES ASSUME Init PROVE IInv
    OBVIOUS
  <1> DEFINE r == [status |-> "ESCALATED", npa |-> TRUE]
  <1>1. r \in Case BY DEF Case, CaseStatuses, Active
  <1>2. \A i \in Slots : ops[i] = NoOp BY DEF Init
  <1>3. ops \in [Slots -> Op] /\ started \in 0..MaxOps /\ loan \in LoanStatuses
    BY NoOpTyped, MaxOpsAssumption DEF Init, LoanStatuses
  <1>4. \A i \in Slots : /\ ~Carrying(i) /\ ~ReadLoan(ops[i])
                         /\ \A c : ~ReadCase(ops[i], c)
                         /\ \A p : ~ReadPromise(ops[i], p)
    BY <1>2, NoOpTyped DEF Carrying, ReadLoan, ReadCase, ReadPromise
  <1> HIDE DEF r
  <1>5. cases \in Seq(Case)
    <2>1. <<r>> \in Seq(Case) BY <1>1
    <2>2. cases = <<>> \/ cases = <<r>> BY DEF Init, r
    <2>3. QED BY <2>1, <2>2, EmptySeq
  <1>6. promises \in Seq(Promise) /\ Len(promises) = 0
        /\ requests \in Seq(Request) /\ Len(requests) = 0
    BY EmptySeq DEF Init
  <1>7. Len(cases) <= MaxCases
    BY CollectionsAssumption DEF Init, r
  <1>8. since \in [loan : 0..MaxOps, cases : [1..MaxCases -> 0..MaxOps],
                   promises : [1..MaxPromises -> 0..MaxOps]]
    BY MaxOpsAssumption DEF Init
  <1>9. TypeOK
    BY <1>3, <1>5, <1>6, <1>7, <1>8, CollectionsAssumption DEF TypeOK, Init
  <1>10. RequestsFit
    BY <1>4, <1>6 DEF RequestsFit, CarrierFits, Apart
  <1>11. FreeSlots /\ LoanDated /\ CasesDated /\ PromisesDated
    BY <1>2, <1>4 DEF FreeSlots, LoanDated, CasesDated, PromisesDated
  <1>12. QED BY <1>9, <1>10, <1>11 DEF IInv

LEMMA StepKeeps == IInv /\ [Next]_vars => IInv'
  <1> SUFFICES ASSUME IInv, [Next]_vars PROVE IInv'
    OBVIOUS
  <1>1. CASE Next
    <2> USE <1>1 DEF Next
    <2>1. CASE CaseSteps BY <2>1, CaseStepsKeep
    <2>2. CASE PromiseSteps BY <2>2, PromiseStepsKeep
    <2>3. CASE RequestSteps BY <2>3, RequestStepsKeep
    <2>4. CASE \E i \in Slots : Fail(i) BY <2>4, FailKeeps
    <2>5. CASE Restart BY <2>5, RestartKeeps
    <2>6. QED BY <2>1, <2>2, <2>3, <2>4, <2>5 DEF Step
  <1>2. CASE UNCHANGED vars
    <2>1. TypeOK' /\ FreeSlots' BY <1>2 DEF IInv, vars, TypeOK, FreeSlots
    <2>2. RequestsFit'
      BY <1>2 DEF IInv, vars, RequestsFit, RequestFits, CarrierFits, Carrying, Apart
    <2>3. LoanDated' /\ CasesDated' /\ PromisesDated'
      BY <1>2 DEF IInv, vars, LoanDated, CasesDated, PromisesDated
    <2>4. QED BY <2>1, <2>2, <2>3 DEF IInv
  <1>3. QED BY <1>1, <1>2

\* The inductive invariant holds of every reachable state: the dates a closed
\* loan, case or promise is remembered with bound the numbers of the requests
\* in flight that still hold a reading from before.
THEOREM Invariant == Spec => []IInv
  <1>1. QED BY InitEstablishes, StepKeeps, PTL DEF Spec

\* Every request in flight (modules/collections, the records of Op) keeps the
\* shape its handler gave it, and rows and requests their statuses.
THEOREM TypeCorrect == Spec => []TypeOK
  <1>1. IInv => TypeOK BY DEF IInv
  <1>2. QED BY <1>1, Invariant, PTL

\* A settlement or write-off on which no two requests overlapped is journaled
\* once, and exactly when it is carried out, however many users, requests and
\* restarts there are (authorizeWriteOff, finalizeSettlementOnPayment).
THEOREM UncontestedJournaledOnce == Spec => []JournaledOnce
  <1>1. IInv => JournaledOnce BY DEF IInv, RequestsFit, RequestFits, JournaledOnce
  <1>2. QED BY <1>1, Invariant, PTL

\* No settlement or write-off reaches the journal on its maker's own signature,
\* even when its decisions race (authorizeSettlement, authorizeWriteOff).
THEOREM WaiversSignedByAnother == Spec => []SignedByAnother
  <1>1. IInv => SignedByAnother
    <2> SUFFICES ASSUME IInv, NEW r \in 1..Len(requests), requests[r].journals > 0
                 PROVE  requests[r].checker \notin {Nobody, requests[r].maker}
      BY DEF SignedByAnother
    <2>1. RequestFits(r) BY DEF IInv, RequestsFit
    <2>2. QED BY <2>1 DEF RequestFits
  <1>2. QED BY <1>1, Invariant, PTL
-----------------------------------------------------------------------------
(* Who may change a closed loan, a closed case or a decided promise.       *)

LEMMA Ended ==
  ASSUME IInv, NEW i \in Slots, ops[i].kind # "none", End(i)
  PROVE  Acts(i)
  BY NoOpTyped DEF IInv, TypeOK, End, Continue, Acts

LEMMA Continued ==
  ASSUME IInv, NEW i \in Slots, NEW op, Continue(i, op), op # ops[i]
  PROVE  Acts(i)
  BY DEF IInv, TypeOK, Continue, Acts

\* The steps that write the loan, but for its repayment.
LEMMA LoanWriters ==
  ASSUME Step, loan' # loan, loan' # "CLOSED"
  PROVE  \E i \in Slots : SyncLoan(i) \/ JobSetsLoan(i) \/ SetLoan(i)
  <1>1. CASE CaseSteps
    <2>1. CASE StartSync \/ StartJob \/ (\E npa \in BOOLEAN : StartCreate(npa)) \/ StartCure
               \/ LoanPaidOff
      BY <2>1 DEF StartSync, StartJob, StartCreate, StartCure, LoanPaidOff
    <2>2. CASE \E c \in 1..Len(cases) :
                 \/ \E status \in CaseTargets : UpdateStatus(c, status)
                 \/ CloseCase(c) \/ AssignCase(c) \/ StartResolve(c)
                 \/ \E status \in {"ESCALATED", "LEGAL_REVIEW"} : EscalateCase(c, status)
      BY <2>2
      DEF UpdateStatus, CloseCase, AssignCase, StartResolve, EscalateCase, WritingCase
    <2>3. CASE \E i \in Slots : \E dpd \in Days :
                 SyncCase(i, dpd) \/ JobFindsCase(i, dpd) \/ ReopenCase(i, dpd)
      BY <2>3 DEF SyncCase, JobFindsCase, ReopenCase
    <2>4. CASE \E i \in Slots : \/ CreateCase(i) \/ LandCase(i) \/ ResolveCase(i)
                                \/ CureCases(i) \/ CurePromises(i)
      BY <2>4 DEF CreateCase, LandCase, ResolveCase, CureCases, CurePromises
    <2>5. QED BY <1>1, <2>1, <2>2, <2>3, <2>4 DEF CaseSteps
  <1>2. CASE PromiseSteps
    BY <1>2 DEF PromiseSteps, StartPromise, StartEvaluate, StartSweep, CreatePtp,
                BreakPromises, DemoteCase, CountPending, EvaluatePromise
  <1>3. CASE RequestSteps
    BY <1>3 DEF RequestSteps, ProposeSettlement, ProposeWriteOff, Reject, ApproveSettlement,
                ApproveWriteOff, FinalizeSettlement, CarryingOut, Journal, FinishCase
  <1>4. CASE (\E i \in Slots : Fail(i)) \/ Restart
    BY <1>4 DEF Fail, Restart
  <1>5. QED BY <1>1, <1>2, <1>3, <1>4 DEF Step

\* The steps that write the cases.
LEMMA CaseRowWriters ==
  ASSUME Step, cases' # cases
  PROVE  \E i \in Slots :
           \/ \E dpd \in Days : SyncCase(i, dpd) \/ ReopenCase(i, dpd)
           \/ CreateCase(i) \/ LandCase(i) \/ ResolveCase(i) \/ CureCases(i)
           \/ CreatePtp(i) \/ DemoteCase(i) \/ FinishCase(i)
  <1>1. CASE CaseSteps
    <2>1. CASE StartSync \/ StartJob \/ (\E npa \in BOOLEAN : StartCreate(npa)) \/ StartCure
               \/ LoanPaidOff
      BY <2>1 DEF StartSync, StartJob, StartCreate, StartCure, LoanPaidOff
    <2>2. CASE \E c \in 1..Len(cases) :
                 \/ \E status \in CaseTargets : UpdateStatus(c, status)
                 \/ CloseCase(c) \/ AssignCase(c) \/ StartResolve(c)
                 \/ \E status \in {"ESCALATED", "LEGAL_REVIEW"} : EscalateCase(c, status)
      BY <2>2
      DEF UpdateStatus, CloseCase, AssignCase, StartResolve, EscalateCase, WritingCase
    <2>3. CASE \E i \in Slots : \/ \E dpd \in Days : JobFindsCase(i, dpd)
                                \/ SyncLoan(i) \/ JobSetsLoan(i) \/ CurePromises(i)
      BY <2>3 DEF JobFindsCase, SyncLoan, JobSetsLoan, CurePromises
    <2>4. QED BY <1>1, <2>1, <2>2, <2>3 DEF CaseSteps
  <1>2. CASE PromiseSteps
    BY <1>2 DEF PromiseSteps, StartPromise, StartEvaluate, StartSweep,
                BreakPromises, CountPending, EvaluatePromise
  <1>3. CASE RequestSteps
    BY <1>3 DEF RequestSteps, ProposeSettlement, ProposeWriteOff, Reject, ApproveSettlement,
                ApproveWriteOff, FinalizeSettlement, CarryingOut, Journal, SetLoan
  <1>4. CASE (\E i \in Slots : Fail(i)) \/ Restart
    BY <1>4 DEF Fail, Restart
  <1>5. QED BY <1>1, <1>2, <1>3, <1>4 DEF Step

\* The steps that write the promises.
LEMMA PromiseWriters ==
  ASSUME Step, promises' # promises
  PROVE  \E i \in Slots :
           \/ ResolveCase(i) \/ CurePromises(i) \/ CreatePtp(i) \/ BreakPromises(i)
           \/ \E p \in 1..Len(promises) :
                \E status \in {"KEPT", "PARTIALLY_FULFILLED"} : EvaluatePromise(i, p, status)
  <1>1. CASE CaseSteps
    <2>1. CASE StartSync \/ StartJob \/ (\E npa \in BOOLEAN : StartCreate(npa)) \/ StartCure
               \/ LoanPaidOff
      BY <2>1 DEF StartSync, StartJob, StartCreate, StartCure, LoanPaidOff
    <2>2. CASE \E c \in 1..Len(cases) :
                 \/ \E status \in CaseTargets : UpdateStatus(c, status)
                 \/ CloseCase(c) \/ AssignCase(c) \/ StartResolve(c)
                 \/ \E status \in {"ESCALATED", "LEGAL_REVIEW"} : EscalateCase(c, status)
      BY <2>2
      DEF UpdateStatus, CloseCase, AssignCase, StartResolve, EscalateCase, WritingCase
    <2>3. CASE \E i \in Slots : \E dpd \in Days :
                 SyncCase(i, dpd) \/ JobFindsCase(i, dpd) \/ ReopenCase(i, dpd)
      BY <2>3 DEF SyncCase, JobFindsCase, ReopenCase
    <2>4. CASE \E i \in Slots : \/ SyncLoan(i) \/ JobSetsLoan(i) \/ CreateCase(i)
                                \/ LandCase(i) \/ CureCases(i)
      BY <2>4 DEF SyncLoan, JobSetsLoan, CreateCase, LandCase, CureCases
    <2>5. QED BY <1>1, <2>1, <2>2, <2>3, <2>4 DEF CaseSteps
  <1>2. CASE PromiseSteps
    BY <1>2 DEF PromiseSteps, StartPromise, StartEvaluate, StartSweep, DemoteCase,
                CountPending
  <1>3. CASE RequestSteps
    BY <1>3 DEF RequestSteps, ProposeSettlement, ProposeWriteOff, Reject, ApproveSettlement,
                ApproveWriteOff, FinalizeSettlement, CarryingOut, Journal, SetLoan,
                FinishCase
  <1>4. CASE (\E i \in Slots : Fail(i)) \/ Restart
    BY <1>4 DEF Fail, Restart
  <1>5. QED BY <1>1, <1>2, <1>3, <1>4 DEF Step

LEMMA StepKeepsLoanClosed == IInv /\ Next => LoanKeptClosed
  <1> SUFFICES ASSUME IInv, Next, loan = "CLOSED", loan' # "CLOSED"
               PROVE  \E i \in Slots :
                        /\ Acts(i)
                        /\ \/ ops[i].kind \in {"writeoff", "job"}
                           \/ ops[i].kind = "sync" /\ i <= since.loan
    BY DEF LoanKeptClosed
  <1>1. PICK i \in Slots : SyncLoan(i) \/ JobSetsLoan(i) \/ SetLoan(i)
    BY LoanWriters DEF Next
  <1>2. CASE SyncLoan(i)
    <2>1. Acts(i) BY <1>2, Ended DEF SyncLoan
    <2>2. i <= since.loan BY <1>2 DEF IInv, LoanDated, ReadLoan, SyncLoan
    <2>3. QED BY <1>2, <2>1, <2>2 DEF SyncLoan
  <1>3. CASE JobSetsLoan(i)
    <2> DEFINE op == [ops[i] EXCEPT !.phase = "case"]
    <2>1. ops[i] \in Op /\ ops[i].kind = "job" /\ ops[i].phase = "loan"
      BY <1>3 DEF JobSetsLoan, IInv, TypeOK
    <2>2. op # ops[i] BY <2>1, NoOpTyped DEF Op
    <2>3. Continue(i, op) BY <1>3 DEF JobSetsLoan
    <2> HIDE DEF op
    <2>4. QED BY <2>1, <2>2, <2>3, Continued
  <1>4. CASE SetLoan(i)
    <2> DEFINE op == [ops[i] EXCEPT !.phase = "loanSet"]
    <2>1. ops[i] \in Op /\ ops[i].kind = "writeoff" /\ ops[i].phase = "journaled"
      BY <1>4 DEF SetLoan, IInv, TypeOK
    <2>2. op # ops[i] BY <2>1, NoOpTyped DEF Op
    <2>3. Continue(i, op) BY <1>4 DEF SetLoan
    <2> HIDE DEF op
    <2>4. QED BY <2>1, <2>2, <2>3, Continued
  <1>5. QED BY <1>1, <1>2, <1>3, <1>4
LEMMA StepKeepsCasesClosed == IInv /\ Next => CasesKeptClosed
  <1> SUFFICES ASSUME IInv, Next, NEW c \in 1..Len(cases), cases[c].status = "CLOSED",
                      cases'[c].status # "CLOSED"
               PROVE  \E i \in Slots :
                        /\ Acts(i)
                        /\ \/ ops[i].kind \in {"resolve", "promise", "reopen", "demote",
                                               "writeoff"}
                           \/ ops[i].kind = "setCase" /\ ops[i].blind
                           \/ ops[i].kind \in {"setCase", "cure"} /\ i <= since.cases[c]
    BY DEF CasesKeptClosed
  <1>1. PICK i \in Slots :
          \/ \E dpd \in Days : SyncCase(i, dpd) \/ ReopenCase(i, dpd)
          \/ CreateCase(i) \/ LandCase(i) \/ ResolveCase(i) \/ CureCases(i)
          \/ CreatePtp(i) \/ DemoteCase(i) \/ FinishCase(i)
    BY CaseRowWriters DEF Next
  <1>2. TypeOK /\ ops[i] \in Op /\ cases[c] \in Case BY CaseOf DEF IInv, TypeOK
  <1>3. CASE \E dpd \in Days : SyncCase(i, dpd)
    <2>1. PICK dpd \in Days : SyncCase(i, dpd) BY <1>3
    <2>2. CASE ops[i].case # 0
      <3> DEFINE npa == dpd >= 90
      <3>1. cases' = [cases EXCEPT ![ops[i].case].npa = npa] BY <2>1, <2>2 DEF SyncCase
      <3> HIDE DEF npa
      <3>2. cases'[c].status = cases[c].status BY <1>2, <3>1 DEF TypeOK, Case
      <3>3. QED BY <3>2
    <2>3. CASE ops[i].case = 0
      <3> DEFINE s == IF dpd > 60 THEN "ESCALATED" ELSE "OPEN"
                 npa == dpd >= 90
      <3>1. s \in {"OPEN", "ESCALATED"} /\ npa \in BOOLEAN OBVIOUS
      <3>2. AddCase(s, npa) BY <2>1, <2>3 DEF SyncCase
      <3> HIDE DEF s, npa
      <3>3. cases'[c] = cases[c] BY <1>2, <3>1, <3>2, CaseAdded
      <3>4. QED BY <3>3
    <2>4. QED BY <2>2, <2>3
  <1>4. CASE CreateCase(i)
    <2>1. ops[i].status \in {"OPEN", "ESCALATED"} /\ ops[i].npa \in BOOLEAN
      BY <1>2, <1>4, OpTyped DEF CreateCase
    <2>2. cases'[c] = cases[c] BY <1>2, <1>4, <2>1, CaseAdded DEF CreateCase
    <2>3. QED BY <2>2
  <1>5. CASE LandCase(i)
    <2>1. ops[i].kind = "setCase" /\ Acts(i) BY <1>5, Ended DEF LandCase
    <2>2. ops[i].status \in CaseStatuses /\ ops[i].blind \in BOOLEAN
      BY <1>2, <2>1, OpTyped
    <2>3. cases'[c] = IF c = ops[i].case THEN [cases[c] EXCEPT !.status = ops[i].status]
                                         ELSE cases[c]
      BY <1>2, <1>5, <2>2, CaseStatusSet DEF LandCase
    <2>4. c = ops[i].case /\ ops[i].status # "CLOSED" BY <1>2, <2>3 DEF Case
    <2>5. ~ops[i].blind => i <= since.cases[c]
      BY <2>1, <2>4 DEF IInv, CasesDated, ReadCase
    <2>6. QED BY <2>1, <2>5
  <1>6. CASE ResolveCase(i) \/ (\E dpd \in Days : ReopenCase(i, dpd)) \/ CreatePtp(i)
    BY <1>6, Ended DEF ResolveCase, ReopenCase, CreatePtp
  <1>7. CASE CureCases(i)
    <2> DEFINE op == [ops[i] EXCEPT !.phase = "promises"]
    <2>1. ops[i].kind = "cure" /\ ops[i].phase = "cases" BY <1>7 DEF CureCases
    <2>2. op # ops[i] BY <1>2, <2>1, NoOpTyped DEF Op
    <2>3. Continue(i, op) BY <1>7 DEF CureCases
    <2> HIDE DEF op
    <2>4. c \in ops[i].cases BY <1>2, <1>7, CuredCases
    <2>5. i <= since.cases[c] BY <2>1, <2>4 DEF IInv, CasesDated, ReadCase
    <2>6. QED BY <2>1, <2>2, <2>3, <2>5, Continued
  <1>8. CASE DemoteCase(i)
    <2> DEFINE op == [kind |-> "sweep", phase |-> "count",
                      left |-> ops[i].left \ {ops[i].promise}]
    <2>1. ops[i].kind = "demote" BY <1>8 DEF DemoteCase
    <2>2. CASE End(i) BY <2>1, <2>2, Ended
    <2>3. CASE Continue(i, op)
      <3>1. op # ops[i] BY <2>1
      <3> HIDE DEF op
      <3>2. QED BY <2>1, <2>3, <3>1, Continued
    <2>4. QED BY <1>8, <2>2, <2>3 DEF DemoteCase, SweepOn
  <1>9. CASE FinishCase(i)
    <2> DEFINE d == requests[ops[i].request].case
    <2>1. ops[i].kind = "writeoff"
      <3> SUFFICES ASSUME ops[i].kind = "settle" PROVE FALSE
        BY <1>9 DEF FinishCase
      <3> DEFINE r == [status |-> "CLOSED", npa |-> FALSE]
      <3>1. r \in Case /\ r.status = "CLOSED" BY DEF Case, CaseStatuses
      <3>2. cases' = [cases EXCEPT ![d] = r] BY <1>9 DEF FinishCase
      <3> HIDE DEF r, d
      <3>3. cases'[c] = IF c = d THEN r ELSE cases[c] BY <1>2, <3>1, <3>2, CaseSet
      <3>4. QED BY <3>1, <3>3
    <2>2. Acts(i) BY <1>9, <2>1, Ended DEF FinishCase
    <2>3. QED BY <2>1, <2>2
  <1>10. QED BY <1>1, <1>3, <1>4, <1>5, <1>6, <1>7, <1>8, <1>9

LEMMA StepKeepsOutcomes == IInv /\ Next => OutcomesKept
  <1> SUFFICES ASSUME IInv, Next, NEW p \in 1..Len(promises) \ Pending,
                      promises'[p] # promises[p]
               PROVE  \E i \in Slots :
                        /\ Acts(i)
                        /\ ops[i].kind \in {"sweep", "evaluate"} /\ p \in ops[i].left
                        /\ i <= since.promises[p]
    BY DEF OutcomesKept
  <1>1. PICK i \in Slots :
          \/ ResolveCase(i) \/ CurePromises(i) \/ CreatePtp(i) \/ BreakPromises(i)
          \/ \E q \in 1..Len(promises) :
               \E status \in {"KEPT", "PARTIALLY_FULFILLED"} : EvaluatePromise(i, q, status)
    BY PromiseWriters DEF Next
  <1>2. TypeOK /\ ops[i] \in Op BY DEF IInv, TypeOK
  <1>3. promises[p].status # "PENDING" BY DEF Pending
  <1>4. ~ResolveCase(i) /\ ~CurePromises(i)
    <2>1. \A set : p \notin PendingOf(set) BY DEF PendingOf
    <2>2. \A set : SetPromises(PendingOf(set), "KEPT") => promises'[p] = promises[p]
      BY <2>1 DEF SetPromises
    <2>3. QED BY <2>2 DEF ResolveCase, CurePromises
  <1>5. ~CreatePtp(i)
    <2> SUFFICES ASSUME CreatePtp(i) PROVE promises'[p] = promises[p]
      OBVIOUS
    <2> DEFINE given == PendingOf({ops[i].case})
               kept == [q \in 1..Len(promises) |->
                          IF q \in given THEN [promises[q] EXCEPT !.status = "CANCELLED"]
                                         ELSE promises[q]]
               new == [case |-> ops[i].case, status |-> "PENDING"]
    <2>1. p \notin given BY DEF PendingOf
    <2>2. promises' = Append(kept, new) BY DEF CreatePtp
    <2>3. new \in Promise BY <1>2, OpTyped DEF Promise, CreatePtp
    <2>4. Len(promises) \in Nat BY <1>2, PromiseOf
    <2> HIDE DEF given, new
    <2>5. \A q \in 1..Len(promises) :
            (IF q \in given THEN [promises[q] EXCEPT !.status = "CANCELLED"]
                            ELSE promises[q]) \in Promise
      BY <1>2, PromiseOf DEF Promise
    <2>6. kept \in [1..Len(promises) -> Promise] /\ kept[p] = promises[p] BY <2>1, <2>5
    <2> HIDE DEF kept
    <2>7. kept \in Seq(Promise) /\ Len(kept) = Len(promises) BY <2>4, <2>6, SeqRewritten
    <2>8. promises'[p] = kept[p] BY <2>2, <2>3, <2>7, AppendProperties
    <2>9. QED BY <2>6, <2>8
  <1>6. CASE BreakPromises(i)
    <2> DEFINE op == [ops[i] EXCEPT !.phase = "count"]
    <2>1. ops[i].kind = "sweep" /\ ops[i].phase = "break" BY <1>6 DEF BreakPromises
    <2>2. op # ops[i] BY <1>2, <2>1, NoOpTyped DEF Op
    <2>3. Continue(i, op) BY <1>6 DEF BreakPromises
    <2> HIDE DEF op
    <2>4. p \in ops[i].left BY <1>2, <1>6, PromisesSet DEF BreakPromises
    <2>5. i <= since.promises[p] BY <1>3, <2>1, <2>4 DEF IInv, PromisesDated, ReadPromise
    <2>6. QED BY <2>1, <2>2, <2>3, <2>4, <2>5, Continued
  <1>7. CASE \E q \in 1..Len(promises) :
               \E status \in {"KEPT", "PARTIALLY_FULFILLED"} : EvaluatePromise(i, q, status)
    <2>1. PICK q \in 1..Len(promises), status \in {"KEPT", "PARTIALLY_FULFILLED"} :
            EvaluatePromise(i, q, status)
      BY <1>7
    <2>2. ops[i].kind = "evaluate" /\ q \in ops[i].left BY <2>1 DEF EvaluatePromise
    <2>3. p \in {q}
      <3> DEFINE set == {q}
      <3>1. SetPromises(set, status) BY <2>1 DEF EvaluatePromise
      <3> HIDE DEF set
      <3>2. promises'[p] = IF p \in set THEN [promises[p] EXCEPT !.status = status]
                                        ELSE promises[p]
        BY <1>2, <3>1, PromisesSet
      <3>3. QED BY <3>2 DEF set
    <2>4. i <= since.promises[p]
      BY <1>3, <2>2, <2>3 DEF IInv, PromisesDated, ReadPromise
    <2>5. Acts(i)
      <3>1. CASE End(i) BY <2>2, <3>1, Ended
      <3>2. CASE Continue(i, [ops[i] EXCEPT !.left = @ \ {q}])
        <4> DEFINE op == [ops[i] EXCEPT !.left = @ \ {q}]
        <4>1. ops[i] \in [kind : {"evaluate"}, left : SUBSET (1..MaxPromises)]
          BY <1>2, <2>2, NoOpTyped DEF Op
        <4>2. op.left # ops[i].left BY <2>2, <4>1
        <4>3. Continue(i, op) BY <3>2
        <4> HIDE DEF op
        <4>4. QED BY <4>2, <4>3, Continued
      <3>3. QED BY <2>1, <3>1, <3>2 DEF EvaluatePromise
    <2>6. QED BY <2>2, <2>3, <2>4, <2>5
  <1>8. QED BY <1>1, <1>4, <1>5, <1>6, <1>7

\* A closed loan comes back only by a write-off or the midnight job, which do
\* not look at its status, or by a synchronisation that read it before it was
\* closed: no decision, promise or case reopens it (collection.service.ts:194).
THEOREM LoansStayClosed == Spec => LoanStaysClosed
  <1>1. IInv /\ [Next]_vars => [LoanKeptClosed]_vars BY StepKeepsLoanClosed
  <1>2. QED BY <1>1, Invariant, PTL DEF Spec, LoanStaysClosed

\* The guarded writers of a case (updateCollectionCaseStatus, closeCollectionCase,
\* assignCase, a payment's cure) take a closed case back only on a reading from
\* before it was closed.
THEOREM GuardedCasesStayClosed == Spec => CasesStayClosed
  <1>1. IInv /\ [Next]_vars => [CasesKeptClosed]_vars BY StepKeepsCasesClosed
  <1>2. QED BY <1>1, Invariant, PTL DEF Spec, CasesStayClosed

\* What became of a promise is overwritten only by a sweep or an evaluation that
\* read it while it was pending (syncOverduePtps, evaluatePtpOnPayment).
THEOREM PromiseOutcomesStay == Spec => OutcomesStay
  <1>1. IInv /\ [Next]_vars => [OutcomesKept]_vars BY StepKeepsOutcomes
  <1>2. QED BY <1>1, Invariant, PTL DEF Spec, OutcomesStay
=============================================================================
