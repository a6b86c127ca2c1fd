--------------------------- MODULE CreditFacility ---------------------------
(***************************************************************************)
(* The in-memory credit facility engine (credit-limits.service.ts): the    *)
(* facilities opened from accepted offers, the balances of each, and the   *)
(* ledger line each operation appends.                                     *)
(*                                                                         *)
(* Every operation of the service runs to completion without yielding      *)
(* except requestDrawdown, which validates the facility, awaits the        *)
(* customer's exposure (a database read) and only then moves the balances. *)
(* It is three actions here, and any other operation may run in between:   *)
(* up to the await, the database's answer, and the continuation, which     *)
(* sums the exposure, checks it and commits in one turn of the event loop. *)
(*                                                                         *)
(* Abstracted: names, fees, EMIs and roles; the Date.now() identifiers are *)
(* taken to be fresh.  Facility i is the i-th entry of the facilities Map, *)
(* whose insertion order the repayment operations search.                  *)
(***************************************************************************)
EXTENDS Integers

CONSTANTS
  Customers,
  Offers,          \* accepted offers
  NoOffer,         \* the offer of a slot that holds no facility
  OfferOwner,      \* [Offers -> Customers]
  OfferAmount,     \* [Offers -> Nat \ {0}], the offered (then approved) limit
  MaxFacilities,   \* slots of the facilities Map
  Amounts,         \* amounts callers pass in: drawdowns, principal, new limits
  LoanLevels,      \* outstanding principal of a customer's term loans
  MinDrawdown,     \* policy.minDrawdownAmount
  ExposureCap,     \* policy.maxCustomerExposure
  Requests,        \* requestDrawdown calls that may be in flight
  MaxDrawn,        \* bound on the total drawn from a facility
  MaxReversed      \* bound on the total charged back by reversals

ASSUME FacilityAssumption ==
  /\ NoOffer \notin Offers
  /\ OfferOwner \in [Offers -> Customers]
  /\ OfferAmount \in [Offers -> Nat \ {0}]
  /\ MaxFacilities \in Nat \ {0}
  /\ Amounts \subseteq Nat
  /\ LoanLevels \subseteq Nat
  /\ MinDrawdown \in Nat
  /\ ExposureCap \in Nat
  /\ MaxDrawn \in Nat
  /\ MaxReversed \in Nat

VARIABLES
  count,     \* facilities created so far
  facility,  \* [1..MaxFacilities -> balances and status]
  ledger,    \* per facility: its last transaction line and running totals
  req,       \* the drawdown requests in flight
  termLoan   \* [Customers -> outstanding principal of active term loans]

vars == <<count, facility, ledger, req, termLoan>>

Slots == 1..MaxFacilities
Status == {"NONE", "ACTIVE", "SUSPENDED", "FROZEN", "EXPIRED", "CLOSED"}

NoFacility ==
  [offer |-> NoOffer, status |-> "NONE", lapsed |-> FALSE, approved |-> 0,
   utilized |-> 0, available |-> 0, excess |-> 0]
NoBalance == [approved |-> 0, utilized |-> 0, available |-> 0]
NoLedger == [prev |-> NoBalance, new |-> NoBalance,
             drawn |-> 0, restored |-> 0, reversed |-> 0]
Idle == [phase |-> "idle", slot |-> 1, amount |-> 0, loans |-> 0]

AtLeastZero(n) == IF n > 0 THEN n ELSE 0

Owner(f) == OfferOwner[f.offer]
Exists(i) == i <= count

\* The three balances a CreditFacilityTransaction records before and after.
Balances(f) == [approved |-> f.approved, utilized |-> f.utilized,
                available |-> f.available]
Line(l, before, after) == [l EXCEPT !.prev = before, !.new = after]

-----------------------------------------------------------------------------

Init ==
  /\ count = 0
  /\ facility = [i \in Slots |-> NoFacility]
  /\ ledger = [i \in Slots |-> NoLedger]
  /\ req = [r \in Requests |-> Idle]
  /\ termLoan \in [Customers -> LoanLevels]

\* createFacilityFromOffer on an accepted offer; a second call for the same
\* offer returns the existing facility.
CreateFacilityFromOffer(o) ==
  LET i == count + 1
      f == [offer |-> o, status |-> "ACTIVE", lapsed |-> FALSE,
            approved |-> OfferAmount[o], utilized |-> 0,
            available |-> OfferAmount[o], excess |-> 0]
  IN /\ i \in Slots
     /\ \A j \in Slots : Exists(j) => facility[j].offer # o
     /\ count' = i
     /\ facility' = [facility EXCEPT ![i] = f]
     /\ ledger' = [ledger EXCEPT ![i] = Line(@, NoBalance, Balances(f))]
     /\ UNCHANGED <<req, termLoan>>

\* requestDrawdown up to its await.  A request on a lapsed ACTIVE facility
\* marks it EXPIRED and is refused.
RequestDrawdown(r, i, a) ==
  /\ req[r].phase = "idle"
  /\ Exists(i)
  /\ facility[i].status = "ACTIVE"
  /\ \/ /\ facility[i].lapsed
        /\ facility' = [facility EXCEPT ![i].status = "EXPIRED"]
        /\ UNCHANGED req
     \/ /\ ~facility[i].lapsed
        /\ a > 0 /\ a >= MinDrawdown
        /\ a <= facility[i].available
        /\ req' = [req EXCEPT ![r] = [phase |-> "reading", slot |-> i,
                                      amount |-> a, loans |-> 0]]
        /\ UNCHANGED facility
  /\ UNCHANGED <<count, ledger, termLoan>>

\* The database's answer to getCustomerExposure: the customer's term loans.
ReadTermLoans(r) ==
  LET c == Owner(facility[req[r].slot])
      answer == [phase |-> "answered", slot |-> req[r].slot,
                 amount |-> req[r].amount, loans |-> termLoan[c]]
  IN /\ req[r].phase = "reading"
     /\ req' = [req EXCEPT ![r] = answer]
     /\ UNCHANGED <<count, facility, ledger, termLoan>>

\* The customer's credit lines as getCustomerExposure sums them: CLOSED ones
\* are left out.
LinesOf(c) == {i \in Slots : /\ Exists(i) /\ facility[i].status # "CLOSED"
                             /\ Owner(facility[i]) = c}

\* The sum of what the facilities count for, in Map order.
Total(w) ==
  LET upTo[n \in 0..MaxFacilities] == IF n = 0 THEN 0 ELSE upTo[n - 1] + w[n]
  IN upTo[MaxFacilities]

Utilization(c) ==
  Total([i \in Slots |-> IF i \in LinesOf(c) THEN facility[i].utilized ELSE 0])

\* A WithinCap that counts the term loans and no credit line.
WithinCapOfLoans(r) == req[r].loans + req[r].amount <= ExposureCap

\* Once the answer is there the utilization is read as it is now, the term
\* loans as the database had them.
WithinCap(r) ==
  LET c == Owner(facility[req[r].slot])
  IN req[r].loans + Utilization(c) + req[r].amount <= ExposureCap

\* A CommitDrawdown that moves the balances and writes no ledger line.
CommitDrawdownUnrecorded(r) ==
  LET i == req[r].slot
      f == facility[i]
      used == f.utilized + req[r].amount
  IN /\ req[r].phase = "answered"
     /\ WithinCap(r)
     /\ ledger[i].drawn + req[r].amount <= MaxDrawn
     /\ req' = [req EXCEPT ![r] = Idle]
     /\ facility' = [facility EXCEPT ![i] =
          [f EXCEPT !.utilized = used, !.available = f.approved - used]]
     /\ UNCHANGED <<count, ledger, termLoan>>

\* requestDrawdown after its await: only the exposure is checked, the status
\* and the available amount are not looked at again, and excess is not updated.
CommitDrawdown(r) ==
  LET i == req[r].slot
      f == facility[i]
      used == f.utilized + req[r].amount
      g == [f EXCEPT !.utilized = used, !.available = f.approved - used]
  IN /\ req[r].phase = "answered"
     /\ WithinCap(r)
     /\ ledger[i].drawn + req[r].amount <= MaxDrawn
     /\ req' = [req EXCEPT ![r] = Idle]
     /\ facility' = [facility EXCEPT ![i] = g]
     /\ ledger' = [ledger EXCEPT ![i] =
          [Line(ledger[i], Balances(f), Balances(g))
             EXCEPT !.drawn = ledger[i].drawn + req[r].amount]]
     /\ UNCHANGED <<count, termLoan>>

RefuseDrawdown(r) ==
  /\ req[r].phase = "answered"
  /\ ~WithinCap(r)
  /\ req' = [req EXCEPT ![r] = Idle]
  /\ UNCHANGED <<count, facility, ledger, termLoan>>

-----------------------------------------------------------------------------

\* A Rebalanced without the two floors at zero.
RebalancedUnclamped(f, used) ==
  [f EXCEPT !.utilized = used, !.available = f.approved - used,
            !.excess = used - f.approved]

\* The facility with its utilization set to `used` and the other balances
\* recomputed, as repayments and their reversals do.
Rebalanced(f, used) ==
  [f EXCEPT !.utilized = used,
            !.available = AtLeastZero(f.approved - used),
            !.excess = AtLeastZero(used - f.approved)]

\* The facility a repayment credits: the customer's first ACTIVE one in Map
\* order that has anything drawn.
Restorable(f, c) ==
  Owner(f) = c /\ f.status = "ACTIVE" /\ f.utilized > 0
FirstRestorable(i, c) ==
  /\ Exists(i) /\ Restorable(facility[i], c)
  /\ \A j \in Slots : j < i => ~Restorable(facility[j], c)

ApplyRepaymentLimitRestoration(c, principal) ==
  \E i \in Slots :
    LET f == facility[i]
        g == Rebalanced(f, AtLeastZero(f.utilized - principal))
    IN /\ principal > 0
       /\ FirstRestorable(i, c)
       /\ facility' = [facility EXCEPT ![i] = g]
       /\ ledger' = [ledger EXCEPT ![i] =
            [Line(ledger[i], Balances(f), Balances(g))
               EXCEPT !.restored = ledger[i].restored + (f.utilized - g.utilized)]]
       /\ UNCHANGED <<count, req, termLoan>>

\* A Chargeable that takes a FROZEN facility too.
ChargeableFrozen(f, c) ==
  Owner(f) = c /\ f.status \in {"ACTIVE", "SUSPENDED", "FROZEN"}

\* The facility a reversed repayment charges: the customer's first ACTIVE or
\* SUSPENDED one.
Chargeable(f, c) == Owner(f) = c /\ f.status \in {"ACTIVE", "SUSPENDED"}
FirstChargeable(i, c) ==
  /\ Exists(i) /\ Chargeable(facility[i], c)
  /\ \A j \in Slots : j < i => ~Chargeable(facility[j], c)

ReverseRepaymentLimitRestoration(c, principal) ==
  \E i \in Slots :
    LET f == facility[i]
        g == Rebalanced(f, f.utilized + principal)
    IN /\ principal > 0
       /\ FirstChargeable(i, c)
       /\ ledger[i].reversed + principal <= MaxReversed
       /\ facility' = [facility EXCEPT ![i] = g]
       /\ ledger' = [ledger EXCEPT ![i] =
            [Line(ledger[i], Balances(f), Balances(g))
               EXCEPT !.reversed = ledger[i].reversed + principal]]
       /\ UNCHANGED <<count, req, termLoan>>

\* An AdjustLimit that leaves the excess when the limit covers the utilization.
AdjustLimitStaleExcess(i, limit) ==
  LET f == facility[i]
      g == [f EXCEPT !.approved = limit, !.available = AtLeastZero(limit - f.utilized),
                     !.excess = IF limit < f.utilized THEN f.utilized - limit ELSE @]
  IN /\ Exists(i)
     /\ limit > 0
     /\ facility' = [facility EXCEPT ![i] = g]
     /\ ledger' = [ledger EXCEPT ![i] = Line(@, Balances(f), Balances(g))]
     /\ UNCHANGED <<count, req, termLoan>>

\* An AdjustLimit that cuts the utilization down to the limit.
AdjustLimitCutsUtilization(i, limit) ==
  LET f == facility[i]
      g == Rebalanced([f EXCEPT !.approved = limit],
                      IF limit < f.utilized THEN limit ELSE f.utilized)
  IN /\ Exists(i)
     /\ limit > 0
     /\ facility' = [facility EXCEPT ![i] = g]
     /\ ledger' = [ledger EXCEPT ![i] = Line(@, Balances(f), Balances(g))]
     /\ UNCHANGED <<count, req, termLoan>>

\* adjustLimit, whatever the status of the facility.
AdjustLimit(i, limit) ==
  LET f == facility[i]
      g == IF limit < f.utilized
           THEN [f EXCEPT !.approved = limit, !.available = 0,
                          !.excess = f.utilized - limit]
           ELSE [f EXCEPT !.approved = limit, !.available = limit - f.utilized,
                          !.excess = 0]
  IN /\ Exists(i)
     /\ limit > 0
     /\ facility' = [facility EXCEPT ![i] = g]
     /\ ledger' = [ledger EXCEPT ![i] = Line(@, Balances(f), Balances(g))]
     /\ UNCHANGED <<count, req, termLoan>>

\* suspendFacility, freezeFacility and resumeFacility set the status from any
\* status, CLOSED and EXPIRED included, and leave the balances alone.
SetStatus(i, s) ==
  /\ Exists(i)
  /\ facility' = [facility EXCEPT ![i].status = s]
  /\ ledger' = [ledger EXCEPT ![i] =
                  Line(@, Balances(facility[i]), Balances(facility[i]))]
  /\ UNCHANGED <<count, req, termLoan>>

SuspendFacility(i) == SetStatus(i, "SUSPENDED")
FreezeFacility(i) == SetStatus(i, "FROZEN")
ResumeFacility(i) == SetStatus(i, "ACTIVE")

\* A CloseFacility that writes its ledger line before it zeroes anything.
CloseFacilityLineFirst(i) ==
  /\ Exists(i)
  /\ facility[i].utilized <= 0
  /\ facility' = [facility EXCEPT ![i].status = "CLOSED", ![i].available = 0]
  /\ ledger' = [ledger EXCEPT ![i] =
                  Line(@, Balances(facility[i]), Balances(facility[i]))]
  /\ UNCHANGED <<count, req, termLoan>>

\* closeFacility zeroes the available amount before it writes its ledger line,
\* so the line's previous available amount is 0 too.
CloseFacility(i) ==
  LET g == [facility[i] EXCEPT !.status = "CLOSED", !.available = 0]
  IN /\ Exists(i)
     /\ facility[i].utilized <= 0
     /\ facility' = [facility EXCEPT ![i] = g]
     /\ ledger' = [ledger EXCEPT ![i] = Line(@, Balances(g), Balances(g))]
     /\ UNCHANGED <<count, req, termLoan>>

\* The validity of a facility runs out (expiresAt passes).
Lapse(i) ==
  /\ Exists(i)
  /\ facility' = [facility EXCEPT ![i].lapsed = TRUE]
  /\ UNCHANGED <<count, ledger, req, termLoan>>

\* Term loans are disbursed and repaid by the rest of the system.
TermLoanMoves(c, v) ==
  /\ termLoan' = [termLoan EXCEPT ![c] = v]
  /\ UNCHANGED <<count, facility, ledger, req>>

-----------------------------------------------------------------------------

Drawdown ==
  \E r \in Requests :
    \/ \E i \in Slots, a \in Amounts : RequestDrawdown(r, i, a)
    \/ ReadTermLoans(r)
    \/ CommitDrawdown(r)
    \/ RefuseDrawdown(r)

Repayment ==
  \E c \in Customers, a \in Amounts :
    \/ ApplyRepaymentLimitRestoration(c, a)
    \/ ReverseRepaymentLimitRestoration(c, a)

Control ==
  \E i \in Slots :
    \/ \E a \in Amounts : AdjustLimit(i, a)
    \/ SuspendFacility(i)
    \/ FreezeFacility(i)
    \/ ResumeFacility(i)
    \/ CloseFacility(i)
    \/ Lapse(i)

Next ==
  \/ \E o \in Offers : CreateFacilityFromOffer(o)
  \/ Drawdown
  \/ Repayment
  \/ Control
  \/ \E c \in Customers, v \in LoanLevels : TermLoanMoves(c, v)

Spec == Init /\ [][Next]_vars

-----------------------------------------------------------------------------

Balance == [approved : Nat, utilized : Nat, available : Int]

Facility == [offer : Offers \cup {NoOffer}, status : Status, lapsed : BOOLEAN,
             approved : Nat, utilized : Nat, available : Int, excess : Nat]
Ledger == [prev : Balance, new : Balance,
           drawn : Nat, restored : Nat, reversed : Nat]
Request == [phase : {"idle", "reading", "answered"},
            slot : Slots, amount : Nat, loans : Nat]

TypeOK ==
  /\ count \in 0..MaxFacilities
  /\ facility \in [Slots -> Facility]
  /\ ledger \in [Slots -> Ledger]
  /\ req \in [Requests -> Request]
  /\ termLoan \in [Customers -> LoanLevels]

\* Whatever interleaves, a shown available amount is the real headroom, a
\* recorded excess is never more than the real excess, and the two are never
\* both positive (credit-limit-engine.md, "Mathematical Balance Invariants").
Coherent(f) ==
  /\ f.available # 0 => f.available = f.approved - f.utilized
  /\ f.excess <= AtLeastZero(f.utilized - f.approved)
  /\ f.excess > 0 => f.available <= 0
BalancesCoherent == \A i \in Slots : Coherent(facility[i])

\* The last ledger line of a facility shows the balances the facility has, so
\* reading the ledger and reading the facility give one answer.
LedgerAgrees ==
  \A i \in Slots : ledger[i].new = Balances(facility[i])

\* What is utilized is what was drawn, less what repayments restored, plus what
\* reversals charged back: no operation creates or loses utilization.
Conserved(f, l) == f.utilized = (l.drawn - l.restored) + l.reversed
UtilizationConserved == \A i \in Slots : Conserved(facility[i], ledger[i])

\* Each new ledger line starts from the limit and utilization the line before
\* it ended with, although a drawdown line is written after an await; only a
\* closure may misstate the previous available amount.
LedgerChained ==
  [][\A i \in Slots :
       ledger'[i] # ledger[i] =>
         /\ ledger'[i].prev.approved = ledger[i].new.approved
         /\ ledger'[i].prev.utilized = ledger[i].new.utilized
         /\ \/ ledger'[i].prev.available = ledger[i].new.available
            \/ facility'[i].status = "CLOSED"]_vars

\* Utilization of a facility that is not ACTIVE grows only by a reversed
\* repayment while SUSPENDED, or by a drawdown that was already validated when
\* the status changed.
OnlyInFlightDrawdownsEscape ==
  [][\A i \in Slots :
       /\ facility[i].status # "ACTIVE"
       /\ facility'[i].utilized > facility[i].utilized
       => \/ facility[i].status = "SUSPENDED"
          \/ \E r \in Requests : req[r].slot = i /\ req[r].phase = "answered"]_vars

\* A drawdown never takes the customer's credit lines past maxCustomerExposure,
\* although drawdowns on all of them may be validated and await together; only
\* a facility closed during the await escapes the sum.
DrawdownRespectsCap ==
  [][\A i \in Slots :
       /\ ledger'[i].drawn > ledger[i].drawn
       /\ facility[i].status # "CLOSED"
       => Utilization(Owner(facility[i]))' <= ExposureCap]_vars

\* credit-limit-engine.md:20: available = max(0, approved - utilized), never negative.
AvailableNeverNegative ==
  \A i \in Slots : facility[i].available >= 0
=============================================================================
