-------------------------- MODULE PaymentWaterfall --------------------------
(***************************************************************************)
(* How a repayment is spread over a loan's instalments                     *)
(* (payment-allocation.service.ts) and how a reversal takes it back from   *)
(* the schedule (payment.service.ts): pure functions of what the caller    *)
(* read from the database.  Amounts are whole units; the code's Decimals   *)
(* are exact, so nothing is rounded.                                       *)
(***************************************************************************)
EXTENDS Integers, Sequences

\* What each instalment charges, in emiNumber order:
\* [fees, penalty, interest, principal].
CONSTANT Dues

ASSUME DuesAssumption ==
  Dues \in Seq([fees : Nat, penalty : Nat, interest : Nat, principal : Nat])

Instalments == 1..Len(Dues)

\* RepaymentScheduleItem.totalDue: the penalty is not part of it.
TotalDue(d) == d.fees + d.interest + d.principal

Lesser(a, b) == IF a < b THEN a ELSE b
AtLeastZero(n) == IF n > 0 THEN n ELSE 0

NothingAllocated == [FEES |-> 0, PENALTY |-> 0, INTEREST |-> 0, PRINCIPAL |-> 0]
Allotted(a) == a.FEES + a.PENALTY + a.INTEREST + a.PRINCIPAL
Plus(a, b) == [FEES |-> a.FEES + b.FEES, PENALTY |-> a.PENALTY + b.PENALTY,
               INTEREST |-> a.INTEREST + b.INTEREST,
               PRINCIPAL |-> a.PRINCIPAL + b.PRINCIPAL]

Allocation == [FEES : Nat, PENALTY : Nat, INTEREST : Nat, PRINCIPAL : Nat]
Item == [paid : Nat, outstanding : Nat,
         status : {"DUE", "OVERDUE", "PARTIALLY_PAID", "PAID"}]
Loan == [principal : Nat, interest : Nat, charges : Nat,
         status : {"ACTIVE", "CLOSED"}]

-----------------------------------------------------------------------------

\* A Share that forgets the interest when it comes to the principal.
ShareForgetsInterest(item, d, funds) ==
  LET fees == Lesser(funds, d.fees - Lesser(item.paid, d.fees))
      penalty == Lesser(funds - fees, d.penalty)
  IN [FEES |-> fees, PENALTY |-> penalty,
      INTEREST |-> Lesser(funds - fees - penalty, d.interest),
      PRINCIPAL |-> Lesser(funds - fees - penalty, d.principal)]

\* What one instalment takes from the funds.  Only the fees allow for what was
\* paid on the instalment before; penalty, interest and principal are due in
\* full each time.
Share(item, d, funds) ==
  LET fees == Lesser(funds, d.fees - Lesser(item.paid, d.fees))
      penalty == Lesser(funds - fees, d.penalty)
      interest == Lesser(funds - fees - penalty, d.interest)
  IN [FEES |-> fees, PENALTY |-> penalty, INTEREST |-> interest,
      PRINCIPAL |-> Lesser(funds - fees - penalty - interest, d.principal)]

\* A Settled that lets an overpaid instalment owe less than nothing.
SettledUnclamped(item, d, share) ==
  [paid |-> item.paid + Allotted(share),
   outstanding |-> item.outstanding - Allotted(share),
   status |-> IF item.paid + Allotted(share) >= TotalDue(d) + d.penalty
              THEN "PAID" ELSE "PARTIALLY_PAID"]

Settled(item, d, share) ==
  LET paid == item.paid + Allotted(share)
  IN [paid |-> paid,
      outstanding |-> AtLeastZero(item.outstanding - Allotted(share)),
      status |-> IF paid >= TotalDue(d) + d.penalty THEN "PAID"
                 ELSE IF paid > 0 THEN "PARTIALLY_PAID" ELSE item.status]

\* One turn of the loop over the unpaid instalments: `w` has the funds left,
\* the instalments settled so far and the amounts to store for each bucket.
PayInstalment(w, i) ==
  IF w.funds <= 0 \/ w.items[i].status = "PAID" THEN w
  ELSE LET share == Share(w.items[i], Dues[i], w.funds)
       IN [funds |-> w.funds - Allotted(share),
           items |-> [w.items EXCEPT ![i] = Settled(@, Dues[i], share)],
           touched |-> Append(w.touched, i),
           shares |-> Append(w.shares, share)]

\* The sums of the shares, bucket by bucket.
Totals(shares) ==
  LET sum[n \in 0..Len(shares)] ==
        IF n = 0 THEN NothingAllocated ELSE Plus(sum[n - 1], shares[n])
  IN sum[Len(shares)]

\* A PaidInTurn over the instalments in the order opposite to emiNumber.
PaidInTurnLatestFirst(items, amount) ==
  LET w[n \in 0..Len(Dues)] ==
        IF n = 0 THEN [funds |-> amount, items |-> items,
                       touched |-> <<>>, shares |-> <<>>]
        ELSE PayInstalment(w[n - 1], Len(Dues) + 1 - n)
  IN w[Len(Dues)]

\* The loop over the instalments, in emiNumber order.
PaidInTurn(items, amount) ==
  LET w[n \in 0..Len(Dues)] ==
        IF n = 0 THEN [funds |-> amount, items |-> items,
                       touched |-> <<>>, shares |-> <<>>]
        ELSE PayInstalment(w[n - 1], n)
  IN w[Len(Dues)]

\* A Reduced that closes only a loan this payment took principal from.
ReducedByPrincipal(loan, total) ==
  LET principal == AtLeastZero(loan.principal - total.PRINCIPAL)
      interest == AtLeastZero(loan.interest - total.INTEREST)
  IN [principal |-> principal, interest |-> interest,
      charges |-> AtLeastZero(loan.charges - (total.FEES + total.PENALTY)),
      status |-> IF total.PRINCIPAL > 0 /\ principal = 0 /\ interest = 0
                 THEN "CLOSED" ELSE "ACTIVE"]

\* What is left of the loan's balances once `total` is taken off them, never
\* less than nothing; the loan is CLOSED when principal and interest are clear.
Reduced(loan, total) ==
  LET principal == AtLeastZero(loan.principal - total.PRINCIPAL)
      interest == AtLeastZero(loan.interest - total.INTEREST)
  IN [principal |-> principal,
      interest |-> interest,
      charges |-> AtLeastZero(loan.charges - (total.FEES + total.PENALTY)),
      status |-> IF principal = 0 /\ interest = 0 THEN "CLOSED" ELSE loan.status]

\* allocatePayment on the loan and schedule the caller read: what to write to
\* the instalments and to the loan, what to store as allocations, the excess.
Allocate(loan, items, amount) ==
  LET w == PaidInTurn(items, amount)
      extra == Lesser(AtLeastZero(w.funds),
                      AtLeastZero(loan.principal - Totals(w.shares).PRINCIPAL))
      shares == IF extra = 0 THEN w.shares
                ELSE Append(w.shares, [NothingAllocated EXCEPT !.PRINCIPAL = extra])
  IN [items |-> w.items,
      touched |-> w.touched,
      shares |-> shares,
      total |-> Totals(shares),
      excess |-> AtLeastZero(w.funds - extra),
      seen |-> loan.status,
      loan |-> Reduced(loan, Totals(shares))]

-----------------------------------------------------------------------------

\* A TakeBack that takes the whole amount back from every instalment.
TakeBackAgain(w, i) ==
  LET item == w.items[i]
      paid == item.paid - Lesser(w.left, item.paid)
      outstanding == AtLeastZero(TotalDue(Dues[i]) - paid)
  IN [left |-> w.left,
      items |-> [w.items EXCEPT ![i] =
        [paid |-> paid, outstanding |-> outstanding,
         status |-> IF outstanding = 0 THEN "PAID" ELSE "OVERDUE"]]]

\* reversePayment on the schedule: the amount is taken back from the latest
\* instalment with anything paid on it, then from the one before.
TakeBack(w, i) ==
  LET item == w.items[i]
      back == Lesser(w.left, item.paid)
      paid == item.paid - back
      outstanding == AtLeastZero(TotalDue(Dues[i]) - paid)
  IN IF w.left = 0 \/ item.paid = 0 THEN w
     ELSE [left |-> w.left - back,
           items |-> [w.items EXCEPT ![i] =
             [paid |-> paid, outstanding |-> outstanding,
              status |-> IF outstanding = 0 THEN "PAID" ELSE "OVERDUE"]]]

RolledBack(items, amount) ==
  LET w[n \in 0..Len(Dues)] ==
        IF n = 0 THEN [left |-> amount, items |-> items]
        ELSE TakeBack(w[n - 1], Len(Dues) + 1 - n)
  IN w[Len(Dues)].items

-----------------------------------------------------------------------------

\* What an instalment that is not PAID takes when there are funds enough.
Claim(item, d) ==
  (d.fees - Lesser(item.paid, d.fees)) + d.penalty + d.interest + d.principal

\* An allocation on a schedule serves the oldest instalment first: as long as
\* one gets less than its claim, no later one gets anything, no principal is
\* paid ahead of schedule and nothing is left over.
OldestServedFirst(items, a) ==
  \A i \in Instalments :
    LET taken == a.items[i].paid - items[i].paid
        claim == IF items[i].status = "PAID" THEN 0 ELSE Claim(items[i], Dues[i])
    IN /\ taken \in 0..claim
       /\ taken < claim =>
            /\ a.excess = 0
            /\ Len(a.shares) = Len(a.touched)
            /\ \A j \in Instalments : j > i => a.items[j].paid = items[j].paid

\* An instalment's share goes to fees, penalty, interest, principal in that
\* order: a bucket gets something only when those before it are full.
ByPriority(items, i, share) ==
  /\ share.PENALTY + share.INTEREST + share.PRINCIPAL > 0
       => share.FEES = Dues[i].fees - Lesser(items[i].paid, Dues[i].fees)
  /\ share.INTEREST + share.PRINCIPAL > 0 => share.PENALTY = Dues[i].penalty
  /\ share.PRINCIPAL > 0 => share.INTEREST = Dues[i].interest

\* What the schedule has been paid.
Collected(items) ==
  LET sum[n \in 0..Len(Dues)] == IF n = 0 THEN 0 ELSE sum[n - 1] + items[n].paid
  IN sum[Len(Dues)]

\* A rollback takes the amount, or all there is, from the latest instalments.
TakenFromLatest(items, after, amount) ==
  /\ Collected(after) = AtLeastZero(Collected(items) - amount)
  /\ \A i \in Instalments :
       /\ after[i].paid \in 0..items[i].paid
       /\ after[i].paid > 0 =>
            \A j \in Instalments : j < i => after[j].paid = items[j].paid
=============================================================================
