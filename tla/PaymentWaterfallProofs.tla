----------------------- MODULE PaymentWaterfallProofs -----------------------
(***************************************************************************)
(* What the allocation waterfall and the rollback of a schedule compute,   *)
(* for every schedule and every amount: the loops of PaymentWaterfall are  *)
(* recursive functions over the positions of the schedule, and each lemma  *)
(* about one is an induction over those positions.                         *)
(***************************************************************************)
EXTENDS PaymentWaterfall, Iteration, SequenceTheorems, TLAPS

-----------------------------------------------------------------------------
\* The sums of the shares.

LEMMA PlusType ==
  ASSUME NEW a \in Allocation, NEW b \in Allocation
  PROVE  /\ Plus(a, b) \in Allocation
         /\ Allotted(Plus(a, b)) = Allotted(a) + Allotted(b)
         /\ Allotted(a) \in Nat
BY DEF Plus, Allocation, Allotted

LEMMA PlusAssociates ==
  ASSUME NEW a \in Allocation, NEW b \in Allocation, NEW c \in Allocation
  PROVE  Plus(Plus(a, b), c) = Plus(a, Plus(b, c))
<1>1. \A x, y, z \in Nat : (x + y) + z = x + (y + z)
  OBVIOUS
<1>2. /\ a.FEES \in Nat /\ a.PENALTY \in Nat /\ a.INTEREST \in Nat /\ a.PRINCIPAL \in Nat
      /\ b.FEES \in Nat /\ b.PENALTY \in Nat /\ b.INTEREST \in Nat /\ b.PRINCIPAL \in Nat
      /\ c.FEES \in Nat /\ c.PENALTY \in Nat /\ c.INTEREST \in Nat /\ c.PRINCIPAL \in Nat
  BY DEF Allocation
<1> QED
  BY <1>1, <1>2 DEF Plus

LEMMA NothingType == NothingAllocated \in Allocation /\ Allotted(NothingAllocated) = 0
BY DEF NothingAllocated, Allocation, Allotted

\* The running sums behind Totals.
RunningTotals(sum, shares) ==
  /\ sum \in [0..Len(shares) -> Allocation]
  /\ sum[0] = NothingAllocated
  /\ \A n \in 1..Len(shares) : sum[n] = Plus(sum[n - 1], shares[n])

LEMMA TotalsRun ==
  ASSUME NEW shares \in Seq(Allocation)
  PROVE  \E sum : RunningTotals(sum, shares) /\ Totals(shares) = sum[Len(shares)]
<1> DEFINE N == Len(shares)
           G == [x \in Allocation \X (1..N) |-> Plus(x[1], shares[x[2]])]
           Eq(sum) == sum = [n \in 0..N |->
                        IF n = 0 THEN NothingAllocated ELSE Plus(sum[n - 1], shares[n])]
<1>1. N \in Nat /\ \A n \in 1..N : shares[n] \in Allocation
  OBVIOUS
<1>2. G \in [Allocation \X (1..N) -> Allocation]
  BY <1>1, PlusType
<1>3. \A x \in Allocation, n \in 1..N : G[<<x, n>>] = Plus(x, shares[n])
  OBVIOUS
<1> HIDE DEF G
<1>4. PICK w \in [0..N -> Allocation] : Steps(w, G, NothingAllocated, N)
  <2> HIDE DEF N
  <2> QED
    BY <1>1, <1>2, NothingType, Iterated
<1>5. ASSUME NEW n \in 1..N PROVE w[n] = Plus(w[n - 1], shares[n])
  <2>1. n - 1 \in 0..N
    BY <1>1
  <2> QED
    BY <1>3, <1>4, <2>1 DEF Steps
<1>6. Eq(w)
  BY <1>1, <1>4, <1>5 DEF Steps
<1>7. PICK total : Eq(total) /\ Totals(shares) = total[N]
  <2> DEFINE chosen == CHOOSE sum : Eq(sum)
  <2>1. Totals(shares) = chosen[N]
    BY DEF Totals
  <2> HIDE DEF Eq
  <2> QED
    BY <1>6, <2>1, Zenon
<1>8. total[0] = NothingAllocated
  BY <1>1, <1>7
<1>9. \A n \in 1..N : total[n] = Plus(total[n - 1], shares[n])
  BY <1>1, <1>7
<1>10. \A n \in 0..N : total[n] \in Allocation
  <2>1. \A n \in 1..N : total[n - 1] \in Allocation => total[n] \in Allocation
    BY <1>1, <1>9, PlusType
  <2> HIDE DEF N
  <2> QED
    BY <1>1, <1>8, <2>1, NothingType, Stays
<1>11. total \in [0..N -> Allocation]
  BY <1>7, <1>10
<1> QED
  BY <1>7, <1>8, <1>9, <1>11 DEF RunningTotals

LEMMA TotalsType ==
  ASSUME NEW shares \in Seq(Allocation)
  PROVE  Totals(shares) \in Allocation
<1>1. PICK sum : RunningTotals(sum, shares) /\ Totals(shares) = sum[Len(shares)]
  BY TotalsRun
<1> QED
  BY <1>1 DEF RunningTotals

LEMMA TotalsEmpty == Totals(<<>>) = NothingAllocated
<1>1. <<>> \in Seq(Allocation) /\ Len(<<>>) = 0
  OBVIOUS
<1>2. PICK sum : RunningTotals(sum, <<>>) /\ Totals(<<>>) = sum[Len(<<>>)]
  BY <1>1, TotalsRun
<1> QED
  BY <1>1, <1>2 DEF RunningTotals

\* A share more adds to the totals.
LEMMA TotalsAppend ==
  ASSUME NEW shares \in Seq(Allocation), NEW x \in Allocation
  PROVE  Totals(Append(shares, x)) = Plus(Totals(shares), x)
<1> DEFINE N == Len(shares)
           more == Append(shares, x)
<1>1. /\ N \in Nat /\ more \in Seq(Allocation) /\ Len(more) = N + 1
      /\ more[N + 1] = x /\ \A n \in 1..N : more[n] = shares[n]
  BY AppendProperties
<1> HIDE DEF more
<1>2. PICK t : RunningTotals(t, shares) /\ Totals(shares) = t[N]
  BY TotalsRun
<1>3. PICK u : RunningTotals(u, more) /\ Totals(more) = u[N + 1]
  BY <1>1, TotalsRun
<1> DEFINE S == {n \in 0..N : u[n] = t[n]}
<1>4. 0 \in S
  BY <1>1, <1>2, <1>3 DEF RunningTotals
<1>5. ASSUME NEW n \in 0..N, n < N, n \in S PROVE n + 1 \in S
  <2>1. n + 1 \in 1..N /\ n + 1 \in 1..(N + 1) /\ n + 1 - 1 = n
    BY <1>1, <1>5
  <2>2. t[n + 1] = Plus(t[n], shares[n + 1]) /\ u[n + 1] = Plus(u[n], more[n + 1])
    BY <1>1, <1>2, <1>3, <2>1 DEF RunningTotals
  <2> QED
    BY <1>1, <1>5, <2>1, <2>2
<1>6. u[N + 1] = Plus(u[N], x)
  BY <1>1, <1>3 DEF RunningTotals
<1> HIDE DEF S, N
<1>7. 0..N \subseteq S
  BY <1>1, <1>4, <1>5, UpTo
<1>8. N \in S
  BY <1>1, <1>7
<1> QED
  BY <1>2, <1>3, <1>6, <1>8 DEF S, more

\* The first share and the totals of the others.
LEMMA TotalsHead ==
  ASSUME NEW shares \in Seq(Allocation), shares # <<>>
  PROVE  /\ Head(shares) \in Allocation /\ Tail(shares) \in Seq(Allocation)
         /\ Totals(shares) = Plus(Head(shares), Totals(Tail(shares)))
<1> DEFINE rest == Tail(shares)
           first == Head(shares)
           N == Len(rest)
<1>1. /\ rest \in Seq(Allocation) /\ first \in Allocation
      /\ N \in Nat /\ Len(shares) = N + 1 /\ first = shares[1]
      /\ \A n \in 1..N : rest[n] = shares[n + 1]
  BY HeadTailProperties
<1> HIDE DEF rest, first
<1>2. PICK u : RunningTotals(u, shares) /\ Totals(shares) = u[N + 1]
  BY <1>1, TotalsRun
<1>3. PICK t : RunningTotals(t, rest) /\ Totals(rest) = t[N]
  BY <1>1, TotalsRun
<1> DEFINE S == {n \in 0..N : u[n + 1] = Plus(first, t[n])}
<1>4. 0 \in S
  <2>1. u[1] = Plus(NothingAllocated, first) /\ t[0] = NothingAllocated
    BY <1>1, <1>2, <1>3 DEF RunningTotals
  <2>2. Plus(NothingAllocated, first) = Plus(first, NothingAllocated)
    BY <1>1 DEF Plus, NothingAllocated, Allocation
  <2> QED
    BY <1>1, <2>1, <2>2
<1>5. ASSUME NEW n \in 0..N, n < N, n \in S PROVE n + 1 \in S
  <2>1. /\ n + 1 \in 1..N /\ n + 2 \in 1..(N + 1) /\ n + 1 - 1 = n
        /\ n + 2 - 1 = n + 1 /\ n + 1 + 1 = n + 2
    BY <1>1, <1>5
  <2>2. u[n + 2] = Plus(u[n + 1], shares[n + 2])
    BY <1>1, <1>2, <2>1 DEF RunningTotals
  <2>3. t[n + 1] = Plus(t[n], rest[n + 1]) /\ t[n] \in Allocation
    BY <1>1, <1>3, <2>1 DEF RunningTotals
  <2>4. rest[n + 1] = shares[n + 2] /\ rest[n + 1] \in Allocation
    BY <1>1, <2>1
  <2>5. \A a, b, c \in Allocation : Plus(Plus(a, b), c) = Plus(a, Plus(b, c))
    BY PlusAssociates
  <2> QED
    BY <1>1, <1>5, <2>1, <2>2, <2>3, <2>4, <2>5
<1> HIDE DEF S, N
<1>6. 0..N \subseteq S
  BY <1>1, <1>4, <1>5, UpTo
<1>7. N \in S
  BY <1>1, <1>6
<1> QED
  BY <1>1, <1>2, <1>3, <1>7 DEF S, rest, first

-----------------------------------------------------------------------------
\* One instalment, and the loop over all of them.

Due == [fees : Nat, penalty : Nat, interest : Nat, principal : Nat]

LEMMA DuesType == \A i \in Instalments : Dues[i] \in Due
<1>1. Dues \in Seq(Due)
  BY DuesAssumption DEF Due
<1> QED
  BY <1>1 DEF Instalments

\* What an instalment takes is never negative and never more than the funds.
LEMMA ShareType ==
  ASSUME NEW item \in Item, NEW d \in Due, NEW funds \in Nat
  PROVE  /\ Share(item, d, funds) \in Allocation
         /\ Allotted(Share(item, d, funds)) <= funds
<1> DEFINE fees == Lesser(funds, d.fees - Lesser(item.paid, d.fees))
           penalty == Lesser(funds - fees, d.penalty)
           interest == Lesser(funds - fees - penalty, d.interest)
           principal == Lesser(funds - fees - penalty - interest, d.principal)
<1>1. /\ item.paid \in Nat /\ d.fees \in Nat /\ d.penalty \in Nat
      /\ d.interest \in Nat /\ d.principal \in Nat
  BY DEF Item, Due
<1>2. fees \in Nat /\ fees <= funds
  BY <1>1 DEF Lesser
<1> HIDE DEF fees
<1>3. penalty \in Nat /\ fees + penalty <= funds
  BY <1>1, <1>2 DEF Lesser
<1> HIDE DEF penalty
<1>4. interest \in Nat /\ fees + penalty + interest <= funds
  BY <1>1, <1>2, <1>3 DEF Lesser
<1> HIDE DEF interest
<1>5. principal \in Nat /\ fees + penalty + interest + principal <= funds
  BY <1>1, <1>2, <1>3, <1>4 DEF Lesser
<1> HIDE DEF principal
<1>6. Share(item, d, funds) = [FEES |-> fees, PENALTY |-> penalty,
                               INTEREST |-> interest, PRINCIPAL |-> principal]
  BY DEF Share, fees, penalty, interest, principal
<1>7. Allotted(Share(item, d, funds)) = fees + penalty + interest + principal
  BY <1>6 DEF Allotted
<1> QED
  BY <1>2, <1>3, <1>4, <1>5, <1>6, <1>7 DEF Allocation

LEMMA SettledType ==
  ASSUME NEW item \in Item, NEW d \in Due, NEW share \in Allocation
  PROVE  Settled(item, d, share) \in Item
<1>1. Allotted(share) \in Nat /\ item.paid \in Nat /\ item.outstanding \in Nat
  BY DEF Allotted, Allocation, Item
<1> DEFINE a == Allotted(share)
<1>2. item.paid + a \in Nat /\ AtLeastZero(item.outstanding - a) \in Nat
  BY <1>1 DEF AtLeastZero
<1>3. item.status \in {"DUE", "OVERDUE", "PARTIALLY_PAID", "PAID"}
  BY DEF Item
<1> QED
  BY <1>2, <1>3 DEF Settled, Item

\* A turn of the loop: the funds and the shares taken so far are the amount.
LoopState == [funds : Nat, items : [Instalments -> Item],
              touched : Seq(Instalments), shares : Seq(Allocation)]
Accounted(w, amount) == Allotted(Totals(w.shares)) + w.funds = amount

LEMMA PayInstalmentKeeps ==
  ASSUME NEW w \in LoopState, NEW i \in Instalments, NEW amount \in Nat,
         Accounted(w, amount)
  PROVE  PayInstalment(w, i) \in LoopState /\ Accounted(PayInstalment(w, i), amount)
<1>1. CASE w.funds <= 0 \/ w.items[i].status = "PAID"
  BY <1>1 DEF PayInstalment
<1>2. CASE ~(w.funds <= 0 \/ w.items[i].status = "PAID")
  <2> DEFINE share == Share(w.items[i], Dues[i], w.funds)
             item == Settled(w.items[i], Dues[i], share)
  <2>1. /\ w.funds \in Nat /\ w.items \in [Instalments -> Item] /\ w.items[i] \in Item
        /\ w.touched \in Seq(Instalments) /\ w.shares \in Seq(Allocation)
    BY DEF LoopState
  <2>2. Dues[i] \in Due
    BY DuesType
  <2>3. share \in Allocation /\ Allotted(share) <= w.funds /\ Allotted(share) \in Nat
    <3>1. share \in Allocation /\ Allotted(share) <= w.funds
      BY <2>1, <2>2, ShareType
    <3> QED
      BY <3>1, PlusType
  <2>4. item \in Item
    BY <2>1, <2>2, <2>3, SettledType
  <2> DEFINE items == [w.items EXCEPT ![i] = item]
             touched == Append(w.touched, i)
             shares == Append(w.shares, share)
             funds == w.funds - Allotted(share)
  <2>5. PayInstalment(w, i) = [funds |-> funds, items |-> items,
                               touched |-> touched, shares |-> shares]
    BY <1>2 DEF PayInstalment
  <2>6. items \in [Instalments -> Item]
    BY <2>1, <2>4
  <2>7. touched \in Seq(Instalments) /\ shares \in Seq(Allocation) /\ funds \in Nat
    BY <2>1, <2>3, AppendProperties
  <2>8. Allotted(Totals(shares)) = Allotted(Totals(w.shares)) + Allotted(share)
    BY <2>1, <2>3, TotalsAppend, TotalsType, PlusType
  <2>9. Allotted(Totals(w.shares)) \in Nat
    BY <2>1, TotalsType, PlusType
  <2> HIDE DEF items, touched, shares, item, share
  <2>10. Allotted(Totals(shares)) + funds = amount
    BY <2>1, <2>3, <2>8, <2>9 DEF Accounted
  <2> HIDE DEF funds
  <2> QED
    BY <2>5, <2>6, <2>7, <2>10 DEF LoopState, Accounted
<1> QED
  BY <1>1, <1>2

\* The states of the loop, one for each instalment gone through.
Loop(w, items, amount) ==
  /\ w \in [0..Len(Dues) -> LoopState]
  /\ w[0] = [funds |-> amount, items |-> items, touched |-> <<>>, shares |-> <<>>]
  /\ \A n \in Instalments : w[n] = PayInstalment(w[n - 1], n)
  /\ Accounted(w[Len(Dues)], amount)

LEMMA PaidInTurnLoops ==
  ASSUME NEW items \in [Instalments -> Item], NEW amount \in Nat
  PROVE  \E w : Loop(w, items, amount) /\ PaidInTurn(items, amount) = w[Len(Dues)]
<1> DEFINE N == Len(Dues)
           s == [funds |-> amount, items |-> items, touched |-> <<>>, shares |-> <<>>]
           W == {w \in LoopState : Accounted(w, amount)}
           G == [x \in W \X (1..N) |-> PayInstalment(x[1], x[2])]
           Eq(w) == w = [n \in 0..N |-> IF n = 0 THEN s ELSE PayInstalment(w[n - 1], n)]
<1>1. N \in Nat /\ 1..N = Instalments
  BY DuesAssumption DEF Instalments
<1>2. s \in W
  <2>1. s \in LoopState
    BY DEF LoopState
  <2>2. s.shares = <<>> /\ s.funds = amount
    OBVIOUS
  <2> HIDE DEF s
  <2>3. Accounted(s, amount)
    BY <2>2, TotalsEmpty, NothingType DEF Accounted
  <2> QED
    BY <2>1, <2>3
<1>3. \A x \in W, n \in 1..N : PayInstalment(x, n) \in W
  BY <1>1, PayInstalmentKeeps
<1> HIDE DEF s, W, N
<1>4. G \in [W \X (1..N) -> W]
  BY <1>3
<1>5. \A x \in W, n \in 1..N : G[<<x, n>>] = PayInstalment(x, n)
  OBVIOUS
<1> HIDE DEF G
<1>6. PICK v \in [0..N -> W] : Steps(v, G, s, N)
  BY <1>1, <1>2, <1>4, Iterated
<1>7. ASSUME NEW n \in 1..N PROVE v[n] = PayInstalment(v[n - 1], n)
  <2>1. n - 1 \in 0..N
    BY <1>1
  <2> QED
    BY <1>5, <1>6, <2>1 DEF Steps
<1>8. Eq(v)
  BY <1>1, <1>6, <1>7 DEF Steps
<1>9. PICK w : Eq(w) /\ PaidInTurn(items, amount) = w[N]
  <2> DEFINE chosen == CHOOSE w : Eq(w)
  <2>1. PaidInTurn(items, amount) = chosen[N]
    BY DEF PaidInTurn, s, N
  <2> HIDE DEF Eq
  <2> QED
    BY <1>8, <2>1, Zenon
<1>10. w[0] = s
  BY <1>1, <1>9
<1>11. \A n \in 1..N : w[n] = PayInstalment(w[n - 1], n)
  BY <1>1, <1>9
<1>12. \A n \in 1..N : w[n - 1] \in W => w[n] \in W
  BY <1>3, <1>11
<1>13. \A n \in 0..N : w[n] \in W
  <2>1. w[0] \in W
    BY <1>2, <1>10
  <2> QED
    BY <1>1, <1>12, <2>1, Stays
<1>14. w \in [0..N -> LoopState] /\ Accounted(w[N], amount)
  <2>1. W \subseteq LoopState /\ \A x \in W : Accounted(x, amount)
    BY DEF W
  <2>2. N \in 0..N
    BY <1>1
  <2> QED
    BY <1>9, <1>13, <2>1, <2>2
<1>15. Loop(w, items, amount)
  BY <1>1, <1>10, <1>11, <1>14 DEF Loop, s, N
<1> QED
  BY <1>9, <1>15 DEF N

LEMMA PaidInTurnSpends ==
  ASSUME NEW items \in [Instalments -> Item], NEW amount \in Nat
  PROVE  /\ PaidInTurn(items, amount) \in LoopState
         /\ Accounted(PaidInTurn(items, amount), amount)
<1>1. PICK w : Loop(w, items, amount) /\ PaidInTurn(items, amount) = w[Len(Dues)]
  BY PaidInTurnLoops
<1>2. Len(Dues) \in 0..Len(Dues)
  BY DuesAssumption
<1> QED
  BY <1>1, <1>2 DEF Loop

-----------------------------------------------------------------------------
\* The whole allocation.

Clear(loan) == loan.status = "CLOSED" => loan.principal = 0 /\ loan.interest = 0

\* Taking totals off the balances leaves a loan that, if it is CLOSED, is clear,
\* and that is CLOSED if it was.
LEMMA ReducedType ==
  ASSUME NEW loan \in Loan, NEW total \in Allocation
  PROVE  /\ Reduced(loan, total) \in Loan
         /\ Clear(loan) => Clear(Reduced(loan, total))
         /\ loan.status = "CLOSED" => Reduced(loan, total).status = "CLOSED"
<1> DEFINE principal == AtLeastZero(loan.principal - total.PRINCIPAL)
           interest == AtLeastZero(loan.interest - total.INTEREST)
           charges == AtLeastZero(loan.charges - (total.FEES + total.PENALTY))
           status == IF principal = 0 /\ interest = 0 THEN "CLOSED" ELSE loan.status
<1>1. /\ loan.principal \in Nat /\ loan.interest \in Nat /\ loan.charges \in Nat
      /\ loan.status \in {"ACTIVE", "CLOSED"}
      /\ total.FEES \in Nat /\ total.PENALTY \in Nat
      /\ total.INTEREST \in Nat /\ total.PRINCIPAL \in Nat
  BY DEF Loan, Allocation
<1>2. /\ principal \in Nat /\ interest \in Nat /\ charges \in Nat
      /\ loan.principal = 0 => principal = 0
      /\ loan.interest = 0 => interest = 0
  BY <1>1 DEF AtLeastZero
<1>3. Reduced(loan, total) = [principal |-> principal, interest |-> interest,
                              charges |-> charges, status |-> status]
  BY DEF Reduced
<1> HIDE DEF principal, interest, charges
<1> QED
  BY <1>1, <1>2, <1>3 DEF Loan, Clear

\* Whatever the rows read say, the buckets and the excess of an allocation are
\* the payment, and what is written back are balances a loan can have.
THEOREM AllocateAddsUp ==
  ASSUME NEW loan \in Loan, NEW items \in [Instalments -> Item], NEW amount \in Nat
  PROVE  LET a == Allocate(loan, items, amount)
         IN /\ a.items \in [Instalments -> Item]
            /\ a.touched \in Seq(Instalments)
            /\ a.shares \in Seq(Allocation)
            /\ a.total = Totals(a.shares)
            /\ a.excess \in Nat
            /\ Allotted(a.total) + a.excess = amount
            /\ a.seen = loan.status
            /\ a.loan = Reduced(loan, a.total)
            /\ DOMAIN a = {"items", "touched", "shares", "total", "excess", "seen", "loan"}
<1> DEFINE w == PaidInTurn(items, amount)
           taken == Totals(w.shares)
           extra == Lesser(AtLeastZero(w.funds), AtLeastZero(loan.principal - taken.PRINCIPAL))
           more == [NothingAllocated EXCEPT !.PRINCIPAL = extra]
           shares == IF extra = 0 THEN w.shares ELSE Append(w.shares, more)
           excess == AtLeastZero(w.funds - extra)
<1>1. w \in LoopState /\ Accounted(w, amount)
  BY PaidInTurnSpends
<1>2. Allocate(loan, items, amount)
        = [items |-> w.items, touched |-> w.touched, shares |-> shares,
           total |-> Totals(shares), excess |-> excess, seen |-> loan.status,
           loan |-> Reduced(loan, Totals(shares))]
  BY DEF Allocate
<1> HIDE DEF w
<1>3. /\ w.items \in [Instalments -> Item] /\ w.touched \in Seq(Instalments)
      /\ w.shares \in Seq(Allocation) /\ w.funds \in Nat
  BY <1>1 DEF LoopState
<1>4. taken \in Allocation /\ Allotted(taken) \in Nat
  BY <1>3, TotalsType, PlusType
<1>5. loan.principal \in Nat /\ taken.PRINCIPAL \in Nat
  BY <1>4 DEF Loan, Allocation
<1>6. extra \in Nat /\ extra <= w.funds
  BY <1>3, <1>5 DEF Lesser, AtLeastZero
<1> HIDE DEF extra
<1>7. excess \in Nat /\ excess = w.funds - extra
  BY <1>3, <1>6 DEF AtLeastZero
<1>8. more \in Allocation /\ Allotted(more) = extra
  BY <1>6 DEF NothingAllocated, Allocation, Allotted
<1>9. shares \in Seq(Allocation) /\ Allotted(Totals(shares)) = Allotted(taken) + extra
  <2>1. CASE extra = 0
    BY <1>3, <1>4, <2>1
  <2>2. CASE extra # 0
    <3> HIDE DEF more
    <3>1. shares = Append(w.shares, more)
      BY <2>2
    <3>2. shares \in Seq(Allocation)
      BY <1>3, <1>8, <3>1
    <3>3. Totals(shares) = Plus(taken, more)
      BY <1>3, <1>8, <3>1, TotalsAppend
    <3> QED
      BY <1>4, <1>8, <3>2, <3>3, PlusType
  <2> QED
    BY <2>1, <2>2
<1>10. Allotted(taken) + w.funds = amount
  BY <1>1 DEF Accounted
<1> HIDE DEF shares, excess, taken
<1>11. Allotted(Totals(shares)) + excess = amount
  BY <1>3, <1>4, <1>6, <1>7, <1>9, <1>10
<1> QED
  BY <1>2, <1>3, <1>7, <1>9, <1>11

-----------------------------------------------------------------------------
\* The rollback of a schedule.

RollbackState == [left : Nat, items : [Instalments -> Item]]

LEMMA TakeBackKeeps ==
  ASSUME NEW w \in RollbackState, NEW i \in Instalments
  PROVE  TakeBack(w, i) \in RollbackState
<1> DEFINE item == w.items[i]
           back == Lesser(w.left, item.paid)
           paid == item.paid - back
           outstanding == AtLeastZero(TotalDue(Dues[i]) - paid)
           new == [paid |-> paid, outstanding |-> outstanding,
                   status |-> IF outstanding = 0 THEN "PAID" ELSE "OVERDUE"]
<1>1. w.left \in Nat /\ w.items \in [Instalments -> Item] /\ item \in Item
  BY DEF RollbackState
<1>2. item.paid \in Nat
  BY <1>1 DEF Item
<1>3. back \in Nat /\ paid \in Nat /\ w.left - back \in Nat
  BY <1>1, <1>2 DEF Lesser
<1> HIDE DEF paid
<1>4. outstanding \in Nat
  <2>1. Dues[i] \in Due
    BY DuesType
  <2>2. TotalDue(Dues[i]) \in Nat
    BY <2>1 DEF Due, TotalDue
  <2> QED
    BY <1>3, <2>2 DEF AtLeastZero
<1> HIDE DEF outstanding
<1>5. new \in Item
  BY <1>3, <1>4 DEF Item
<1> HIDE DEF new, back
<1>6. [w.items EXCEPT ![i] = new] \in [Instalments -> Item]
  BY <1>1, <1>5
<1>7. \/ TakeBack(w, i) = w
      \/ TakeBack(w, i) = [left |-> w.left - back, items |-> [w.items EXCEPT ![i] = new]]
  BY DEF TakeBack, new, outstanding, paid, back
<1> QED
  BY <1>3, <1>6, <1>7 DEF RollbackState

\* The states of the loop, from the last instalment to the first.
Rollback(w, items, amount) ==
  /\ w \in [0..Len(Dues) -> RollbackState]
  /\ w[0] = [left |-> amount, items |-> items]
  /\ \A n \in 1..Len(Dues) : w[n] = TakeBack(w[n - 1], Len(Dues) + 1 - n)

LEMMA RolledBackLoops ==
  ASSUME NEW items \in [Instalments -> Item], NEW amount \in Nat
  PROVE  \E w : Rollback(w, items, amount) /\ RolledBack(items, amount) = w[Len(Dues)].items
<1> DEFINE N == Len(Dues)
           s == [left |-> amount, items |-> items]
           W == RollbackState
           G == [x \in W \X (1..N) |-> TakeBack(x[1], N + 1 - x[2])]
           Eq(w) == w = [n \in 0..N |-> IF n = 0 THEN s ELSE TakeBack(w[n - 1], N + 1 - n)]
<1>1. N \in Nat /\ \A n \in 1..N : N + 1 - n \in Instalments
  BY DuesAssumption DEF Instalments
<1>2. s \in W
  BY DEF RollbackState
<1>3. \A x \in W, n \in 1..N : TakeBack(x, N + 1 - n) \in W
  BY <1>1, TakeBackKeeps
<1> HIDE DEF s, W, N
<1>4. G \in [W \X (1..N) -> W]
  BY <1>3
<1>5. \A x \in W, n \in 1..N : G[<<x, n>>] = TakeBack(x, N + 1 - n)
  OBVIOUS
<1> HIDE DEF G
<1>6. PICK v \in [0..N -> W] : Steps(v, G, s, N)
  BY <1>1, <1>2, <1>4, Iterated
<1>7. ASSUME NEW n \in 1..N PROVE v[n] = TakeBack(v[n - 1], N + 1 - n)
  <2>1. n - 1 \in 0..N
    BY <1>1
  <2> QED
    BY <1>5, <1>6, <2>1 DEF Steps
<1>8. Eq(v)
  BY <1>1, <1>6, <1>7 DEF Steps
<1>9. PICK w : Eq(w) /\ RolledBack(items, amount) = w[N].items
  <2> DEFINE chosen == CHOOSE w : Eq(w)
  <2>1. RolledBack(items, amount) = chosen[N].items
    BY DEF RolledBack, s, N
  <2> HIDE DEF Eq
  <2> QED
    BY <1>8, <2>1, Zenon
<1>10. w[0] = s
  BY <1>1, <1>9
<1>11. \A n \in 1..N : w[n] = TakeBack(w[n - 1], N + 1 - n)
  BY <1>1, <1>9
<1>12. \A n \in 1..N : w[n - 1] \in W => w[n] \in W
  BY <1>3, <1>11
<1>13. \A n \in 0..N : w[n] \in W
  <2>1. w[0] \in W
    BY <1>2, <1>10
  <2> QED
    BY <1>1, <1>12, <2>1, Stays
<1>14. w \in [0..N -> W]
  BY <1>9, <1>13
<1>15. Rollback(w, items, amount)
  BY <1>10, <1>11, <1>14 DEF Rollback, s, N, W
<1> QED
  BY <1>9, <1>15 DEF N

LEMMA RolledBackType ==
  ASSUME NEW items \in [Instalments -> Item], NEW amount \in Nat
  PROVE  RolledBack(items, amount) \in [Instalments -> Item]
<1>1. PICK w : Rollback(w, items, amount) /\ RolledBack(items, amount) = w[Len(Dues)].items
  BY RolledBackLoops
<1>2. Len(Dues) \in 0..Len(Dues)
  BY DuesAssumption
<1> QED
  BY <1>1, <1>2 DEF Rollback, RollbackState

-----------------------------------------------------------------------------
\* The order in which instalments and buckets are served.

\* An instalment takes its claim, or all the funds there are.
LEMMA ShareIsClaim ==
  ASSUME NEW item \in Item, NEW d \in Due, NEW funds \in Nat
  PROVE  /\ Claim(item, d) \in Nat
         /\ Allotted(Share(item, d, funds)) = Lesser(funds, Claim(item, d))
<1> DEFINE owed == d.fees - Lesser(item.paid, d.fees)
           fees == Lesser(funds, owed)
           penalty == Lesser(funds - fees, d.penalty)
           interest == Lesser(funds - fees - penalty, d.interest)
           principal == Lesser(funds - fees - penalty - interest, d.principal)
<1>1. /\ item.paid \in Nat /\ d.fees \in Nat /\ d.penalty \in Nat
      /\ d.interest \in Nat /\ d.principal \in Nat
  BY DEF Item, Due
<1>2. owed \in Nat
  BY <1>1 DEF Lesser
<1>3. Share(item, d, funds) = [FEES |-> fees, PENALTY |-> penalty,
                               INTEREST |-> interest, PRINCIPAL |-> principal]
  BY DEF Share
<1>4. Claim(item, d) = owed + d.penalty + d.interest + d.principal
  BY DEF Claim
<1>5. Allotted(Share(item, d, funds)) = fees + penalty + interest + principal
  BY <1>3 DEF Allotted
<1> HIDE DEF owed
<1>6. \/ fees = owed /\ owed <= funds
      \/ fees = funds /\ funds < owed
  BY <1>2 DEF Lesser
<1>7. \/ penalty = d.penalty /\ fees + d.penalty <= funds
      \/ penalty = funds - fees /\ funds < fees + d.penalty
  BY <1>1, <1>2, <1>6 DEF Lesser
<1>8. \/ interest = d.interest /\ fees + penalty + d.interest <= funds
      \/ interest = funds - fees - penalty /\ funds < fees + penalty + d.interest
  <2> HIDE DEF fees, penalty
  <2> QED
    BY <1>1, <1>2, <1>6, <1>7 DEF Lesser
<1>9. \/ principal = d.principal /\ fees + penalty + interest + d.principal <= funds
      \/ /\ principal = funds - fees - penalty - interest
         /\ funds < fees + penalty + interest + d.principal
  <2> HIDE DEF fees, penalty, interest
  <2> QED
    BY <1>1, <1>2, <1>6, <1>7, <1>8 DEF Lesser
<1> HIDE DEF fees, penalty, interest, principal
<1> QED
  BY <1>1, <1>2, <1>4, <1>5, <1>6, <1>7, <1>8, <1>9 DEF Lesser

\* The first n instalments have been gone through, the others not.
Ordered(items, w, n) ==
  /\ Len(w.shares) = Len(w.touched)
  /\ \A j \in Instalments : j > n => w.items[j] = items[j]
  /\ \A i \in Instalments :
       LET taken == w.items[i].paid - items[i].paid
           claim == IF items[i].status = "PAID" THEN 0 ELSE Claim(items[i], Dues[i])
       IN i <= n =>
            /\ taken \in 0..claim
            /\ taken < claim =>
                 /\ w.funds = 0
                 /\ \A j \in Instalments : j > i => w.items[j].paid = items[j].paid

LEMMA PayInstalmentOrdered ==
  ASSUME NEW items \in [Instalments -> Item], NEW w \in LoopState,
         NEW n \in Instalments, Ordered(items, w, n - 1)
  PROVE  Ordered(items, PayInstalment(w, n), n)
<1> DEFINE claim(i) == IF items[i].status = "PAID" THEN 0 ELSE Claim(items[i], Dues[i])
           v == PayInstalment(w, n)
<1>1. /\ w.funds \in Nat /\ w.items \in [Instalments -> Item]
      /\ w.touched \in Seq(Instalments) /\ w.shares \in Seq(Allocation)
      /\ n \in Int /\ \A i \in Instalments : i \in Int
  BY DEF LoopState, Instalments
<1>2. \A i \in Instalments : /\ items[i] \in Item /\ items[i].paid \in Nat
                             /\ claim(i) \in Nat
  <2> TAKE i \in Instalments
  <2>1. Dues[i] \in Due
    BY DuesType
  <2>2. items[i] \in Item
    OBVIOUS
  <2>3. Claim(items[i], Dues[i]) \in Nat
    BY <2>1, <2>2, ShareIsClaim
  <2> QED
    BY <2>2, <2>3 DEF Item
<1>3. w.items[n] = items[n]
  BY <1>1 DEF Ordered
<1>4. /\ Len(w.shares) = Len(w.touched)
      /\ \A j \in Instalments : j > n - 1 => w.items[j] = items[j]
      /\ \A i \in Instalments : i <= n - 1 =>
           /\ w.items[i].paid - items[i].paid \in 0..claim(i)
           /\ w.items[i].paid - items[i].paid < claim(i) =>
                /\ w.funds = 0
                /\ \A j \in Instalments : j > i => w.items[j].paid = items[j].paid
  BY DEF Ordered
<1> HIDE DEF claim
<1> SUFFICES /\ Len(v.shares) = Len(v.touched)
             /\ \A j \in Instalments : j > n => v.items[j] = items[j]
             /\ \A i \in Instalments : i <= n =>
                  /\ v.items[i].paid - items[i].paid \in 0..claim(i)
                  /\ v.items[i].paid - items[i].paid < claim(i) =>
                       /\ v.funds = 0
                       /\ \A j \in Instalments : j > i => v.items[j].paid = items[j].paid
  BY DEF Ordered, claim
<1>5. CASE w.funds = 0 \/ items[n].status = "PAID"
  <2>1. v = w
    BY <1>1, <1>3, <1>5 DEF PayInstalment
  <2>2. items[n].status = "PAID" => claim(n) = 0
    BY DEF claim
  <2> HIDE DEF v
  <2>3. w.items[n].paid - items[n].paid = 0
    BY <1>2, <1>3
  <2>4. ASSUME NEW i \in Instalments, i <= n
        PROVE  /\ w.items[i].paid - items[i].paid \in 0..claim(i)
               /\ w.items[i].paid - items[i].paid < claim(i) =>
                    /\ w.funds = 0
                    /\ \A j \in Instalments : j > i => w.items[j].paid = items[j].paid
    <3>1. CASE i = n
      BY <1>1, <1>2, <1>4, <1>5, <2>2, <2>3, <3>1
    <3>2. CASE i # n
      <4>1. i <= n - 1
        <5>1. i \in Int /\ n \in Int
          BY <1>1
        <5> QED
          BY <2>4, <3>2, <5>1
      <4> QED
        BY <1>4, <4>1
    <3> QED
      BY <3>1, <3>2
  <2>5. \A j \in Instalments : j > n => w.items[j] = items[j]
    BY <1>1, <1>4
  <2> QED
    BY <1>4, <2>1, <2>4, <2>5
<1>6. CASE ~(w.funds = 0 \/ items[n].status = "PAID")
  <2> DEFINE share == Share(w.items[n], Dues[n], w.funds)
             a == Allotted(share)
             item == Settled(w.items[n], Dues[n], share)
  <2>1. /\ v.funds = w.funds - a
        /\ v.items = [w.items EXCEPT ![n] = item]
        /\ v.touched = Append(w.touched, n)
        /\ v.shares = Append(w.shares, share)
    BY <1>1, <1>3, <1>6 DEF PayInstalment
  <2>2. a = Lesser(w.funds, claim(n)) /\ a \in Nat
    <3>1. Dues[n] \in Due
      BY DuesType
    <3>2. a = Lesser(w.funds, Claim(items[n], Dues[n]))
      BY <1>1, <1>2, <1>3, <3>1, ShareIsClaim
    <3>3. claim(n) = Claim(items[n], Dues[n])
      BY <1>6 DEF claim
    <3> HIDE DEF a
    <3> QED
      BY <1>1, <1>2, <3>2, <3>3 DEF Lesser
  <2>3. item.paid = items[n].paid + a
    BY <1>3 DEF Settled
  <2>4. Len(v.shares) = Len(v.touched)
    BY <1>1, <1>4, <2>1
  <2> HIDE DEF v, a, item
  <2>5. v.items[n].paid - items[n].paid = a
    BY <1>1, <1>2, <2>1, <2>2, <2>3
  <2>6. \A j \in Instalments : j # n => v.items[j] = w.items[j]
    BY <1>1, <2>1
  <2>7. \A j \in Instalments : j > n => v.items[j] = items[j]
    BY <1>1, <1>4, <2>6
  <2>8. ASSUME NEW i \in Instalments, i <= n
        PROVE  /\ v.items[i].paid - items[i].paid \in 0..claim(i)
               /\ v.items[i].paid - items[i].paid < claim(i) =>
                    /\ v.funds = 0
                    /\ \A j \in Instalments : j > i => v.items[j].paid = items[j].paid
    <3>1. CASE i = n
      <4>1. a \in 0..claim(n)
        BY <1>1, <1>2, <2>2 DEF Lesser
      <4>2. a < claim(n) => v.funds = 0
        BY <1>1, <1>2, <2>1, <2>2 DEF Lesser
      <4> QED
        BY <2>5, <2>7, <3>1, <4>1, <4>2
    <3>2. CASE i # n
      <4>1. i <= n - 1
        <5>1. i \in Int /\ n \in Int
          BY <1>1
        <5> QED
          BY <2>8, <3>2, <5>1
      <4>2. /\ w.items[i].paid - items[i].paid \in 0..claim(i)
            /\ w.items[i].paid - items[i].paid = claim(i)
        BY <1>2, <1>4, <1>6, <4>1
      <4> QED
        BY <1>2, <2>6, <3>2, <4>2
    <3> QED
      BY <3>1, <3>2
  <2> QED
    BY <2>4, <2>7, <2>8
<1> QED
  BY <1>5, <1>6

LEMMA PaidInTurnOrdered ==
  ASSUME NEW items \in [Instalments -> Item], NEW amount \in Nat
  PROVE  Ordered(items, PaidInTurn(items, amount), Len(Dues))
<1>1. PICK w : Loop(w, items, amount) /\ PaidInTurn(items, amount) = w[Len(Dues)]
  BY PaidInTurnLoops
<1> DEFINE N == Len(Dues)
           S == {n \in 0..N : Ordered(items, w[n], n)}
<1>2. N \in Nat /\ Instalments = 1..N
  BY DuesAssumption DEF Instalments
<1>3. 0 \in S
  <2>1. /\ w[0].items = items /\ w[0].touched = <<>> /\ w[0].shares = <<>>
    BY <1>1 DEF Loop
  <2>2. \A i \in Instalments : ~(i <= 0)
    BY <1>2
  <2>3. Ordered(items, w[0], 0)
    BY <2>1, <2>2 DEF Ordered
  <2> QED
    BY <1>2, <2>3
<1>4. ASSUME NEW n \in 0..N, n < N, n \in S PROVE n + 1 \in S
  <2>1. n + 1 \in Instalments /\ n + 1 - 1 = n /\ n + 1 \in 0..N
    BY <1>2, <1>4
  <2>2. w[n + 1] = PayInstalment(w[n], n + 1) /\ w[n] \in LoopState
    <3>1. w[n + 1] = PayInstalment(w[(n + 1) - 1], n + 1)
      BY <1>1, <2>1 DEF Loop
    <3> QED
      BY <1>1, <2>1, <3>1 DEF Loop
  <2>3. Ordered(items, w[n], (n + 1) - 1)
    BY <1>4, <2>1
  <2>4. Ordered(items, PayInstalment(w[n], n + 1), n + 1)
    BY <2>1, <2>2, <2>3, PayInstalmentOrdered
  <2> QED
    BY <2>1, <2>2, <2>4
<1> HIDE DEF S, N
<1>5. N \in S
  <2>1. 0..N \subseteq S
    BY <1>2, <1>3, <1>4, UpTo
  <2> QED
    BY <1>2, <2>1
<1> QED
  BY <1>1, <1>5 DEF S, N

\* Whatever a schedule looks like, an allocation serves its oldest open
\* instalment first, and pays ahead of schedule or leaves an excess only when
\* every open instalment has had its claim.
THEOREM OldestIsServedFirst ==
  ASSUME NEW loan \in Loan, NEW items \in [Instalments -> Item], NEW amount \in Nat
  PROVE  OldestServedFirst(items, Allocate(loan, items, amount))
<1> DEFINE w == PaidInTurn(items, amount)
           principal == Totals(w.shares).PRINCIPAL
           extra == Lesser(AtLeastZero(w.funds), AtLeastZero(loan.principal - principal))
           a == Allocate(loan, items, amount)
<1>1. w \in LoopState /\ Ordered(items, w, Len(Dues))
  BY PaidInTurnSpends, PaidInTurnOrdered
<1>2. /\ a.items = w.items /\ a.touched = w.touched
      /\ a.excess = AtLeastZero(w.funds - extra)
      /\ extra = 0 => a.shares = w.shares
  BY DEF Allocate
<1> HIDE DEF w, a
<1>3. principal \in Nat /\ loan.principal \in Nat
  <2>1. Totals(w.shares) \in Allocation
    BY <1>1, TotalsType DEF LoopState
  <2> QED
    BY <2>1 DEF Allocation, Loan
<1> HIDE DEF principal
<1>4. w.funds = 0 => extra = 0 /\ a.excess = 0
  BY <1>2, <1>3 DEF Lesser, AtLeastZero
<1> HIDE DEF extra
<1>5. \A i \in Instalments : i <= Len(Dues)
  BY DuesAssumption DEF Instalments
<1> SUFFICES OldestServedFirst(items, a)
  BY DEF a
<1> QED
  BY <1>1, <1>2, <1>4, <1>5 DEF Ordered, OldestServedFirst

\* The share of one instalment goes to the buckets by priority.
LEMMA ShareByPriority ==
  ASSUME NEW items \in [Instalments -> Item], NEW i \in Instalments, NEW funds \in Nat
  PROVE  ByPriority(items, i, Share(items[i], Dues[i], funds))
<1> DEFINE d == Dues[i]
           owed == d.fees - Lesser(items[i].paid, d.fees)
           fees == Lesser(funds, owed)
           penalty == Lesser(funds - fees, d.penalty)
           interest == Lesser(funds - fees - penalty, d.interest)
           principal == Lesser(funds - fees - penalty - interest, d.principal)
           share == Share(items[i], d, funds)
<1>1. /\ items[i].paid \in Nat /\ d.fees \in Nat /\ d.penalty \in Nat
      /\ d.interest \in Nat /\ d.principal \in Nat
  <2>1. d \in Due /\ items[i] \in Item
    BY DuesType
  <2> QED
    BY <2>1 DEF Item, Due
<1>2. /\ share.FEES = fees /\ share.PENALTY = penalty
      /\ share.INTEREST = interest /\ share.PRINCIPAL = principal
  BY DEF Share
<1>3. owed \in Nat
  BY <1>1 DEF Lesser
<1> HIDE DEF owed, share, d
<1>4. fees \in Nat /\ fees <= funds /\ (fees = owed \/ fees = funds)
  BY <1>3 DEF Lesser
<1> HIDE DEF fees
<1>5. /\ penalty \in Nat /\ fees + penalty <= funds
      /\ penalty = d.penalty \/ fees + penalty = funds
  BY <1>1, <1>4 DEF Lesser
<1> HIDE DEF penalty
<1>6. /\ interest \in Nat /\ fees + penalty + interest <= funds
      /\ interest = d.interest \/ fees + penalty + interest = funds
  BY <1>1, <1>4, <1>5 DEF Lesser
<1> HIDE DEF interest
<1>7. principal \in Nat /\ fees + penalty + interest + principal <= funds
  BY <1>1, <1>4, <1>5, <1>6 DEF Lesser
<1> HIDE DEF principal
<1>8. /\ penalty + interest + principal > 0 => fees = owed
      /\ interest + principal > 0 => penalty = d.penalty
      /\ principal > 0 => interest = d.interest
  BY <1>1, <1>3, <1>4, <1>5, <1>6, <1>7
<1> QED
  BY <1>2, <1>8 DEF ByPriority, share, d, owed

\* The shares stored so far are those of the instalments touched so far.
Prioritized(items, w) ==
  /\ Len(w.shares) = Len(w.touched)
  /\ \A k \in 1..Len(w.touched) : ByPriority(items, w.touched[k], w.shares[k])

LEMMA PaidInTurnPrioritized ==
  ASSUME NEW items \in [Instalments -> Item], NEW amount \in Nat
  PROVE  Prioritized(items, PaidInTurn(items, amount))
<1>1. PICK w : Loop(w, items, amount) /\ PaidInTurn(items, amount) = w[Len(Dues)]
  BY PaidInTurnLoops
<1> DEFINE N == Len(Dues)
           Untouched(x, n) == \A j \in Instalments : j > n => x.items[j] = items[j]
           S == {n \in 0..N : Prioritized(items, w[n]) /\ Untouched(w[n], n)}
<1>2. N \in Nat /\ Instalments = 1..N
  BY DuesAssumption DEF Instalments
<1>3. 0 \in S
  <2>1. /\ w[0].items = items /\ w[0].touched = <<>> /\ w[0].shares = <<>>
    BY <1>1 DEF Loop
  <2>2. Prioritized(items, w[0]) /\ Untouched(w[0], 0)
    BY <2>1 DEF Prioritized
  <2> QED
    BY <1>2, <2>2
<1>4. ASSUME NEW n \in 0..N, n < N, n \in S PROVE n + 1 \in S
  <2> DEFINE i == n + 1
             x == w[n]
             y == w[n + 1]
  <2>1. i \in Instalments /\ i - 1 = n /\ i \in 0..N
    BY <1>2, <1>4
  <2>2. y = PayInstalment(x, i) /\ x \in LoopState
    <3>1. w[i] = PayInstalment(w[i - 1], i)
      BY <1>1, <2>1 DEF Loop
    <3> QED
      BY <1>1, <2>1, <3>1 DEF Loop
  <2>3. Prioritized(items, x) /\ x.items[i] = items[i]
    BY <1>2, <1>4, <2>1
  <2>4. CASE y = x
    <3>1. Untouched(x, i)
      BY <1>2, <1>4, <2>1
    <3> QED
      BY <2>1, <2>3, <2>4, <3>1
  <2>5. CASE y # x
    <3> DEFINE share == Share(items[i], Dues[i], x.funds)
               item == Settled(x.items[i], Dues[i], share)
    <3>1. /\ y.items = [x.items EXCEPT ![i] = item]
          /\ y.touched = Append(x.touched, i) /\ y.shares = Append(x.shares, share)
      BY <2>2, <2>3, <2>5 DEF PayInstalment
    <3>2. ByPriority(items, i, share)
      BY <2>1, <2>2, ShareByPriority DEF LoopState
    <3>3. share \in Allocation
      <4>1. Dues[i] \in Due /\ items[i] \in Item /\ x.funds \in Nat
        BY <2>1, <2>2, DuesType DEF LoopState
      <4> QED
        BY <4>1, ShareType
    <3> HIDE DEF share, item
    <3>4. /\ x.touched \in Seq(Instalments) /\ x.shares \in Seq(Allocation)
          /\ x.items \in [Instalments -> Item]
      BY <2>2 DEF LoopState
    <3>5. Prioritized(items, y)
      <4> HIDE DEF i, x, y
      <4>1. /\ Len(y.touched) = Len(x.touched) + 1 /\ Len(y.shares) = Len(x.shares) + 1
            /\ y.touched[Len(x.touched) + 1] = i /\ y.shares[Len(x.shares) + 1] = share
            /\ \A k \in 1..Len(x.touched) : y.touched[k] = x.touched[k]
            /\ \A k \in 1..Len(x.shares) : y.shares[k] = x.shares[k]
        BY <2>1, <3>1, <3>3, <3>4, AppendProperties
      <4>2. Len(x.touched) \in Nat
        BY <3>4
      <4>3. ASSUME NEW k \in 1..Len(y.touched)
            PROVE  ByPriority(items, y.touched[k], y.shares[k])
        <5>1. CASE k = Len(x.touched) + 1
          BY <2>3, <3>2, <4>1, <5>1 DEF Prioritized
        <5>2. CASE k # Len(x.touched) + 1
          <6>1. k \in 1..Len(x.touched)
            BY <4>1, <4>2, <5>2
          <6> QED
            BY <2>3, <4>1, <6>1 DEF Prioritized
        <5> QED
          BY <5>1, <5>2
      <4> QED
        BY <2>3, <4>1, <4>3 DEF Prioritized
    <3>6. Untouched(y, i)
      <4> SUFFICES ASSUME NEW j \in Instalments, j > i PROVE y.items[j] = items[j]
        OBVIOUS
      <4>1. x.items[j] = items[j]
        BY <1>2, <1>4
      <4>2. j # i
        BY <1>2
      <4> QED
        BY <3>1, <3>4, <4>1, <4>2
    <3> QED
      BY <2>1, <3>5, <3>6
  <2> QED
    BY <2>4, <2>5
<1> HIDE DEF S, N
<1>5. N \in S
  <2>1. 0..N \subseteq S
    BY <1>2, <1>3, <1>4, UpTo
  <2> QED
    BY <1>2, <2>1
<1> QED
  BY <1>1, <1>5 DEF S, N

\* What an allocation gives an instalment goes to fees, penalty, interest and
\* principal in that order.
THEOREM BucketsServedByPriority ==
  ASSUME NEW loan \in Loan, NEW items \in [Instalments -> Item], NEW amount \in Nat
  PROVE  LET a == Allocate(loan, items, amount)
         IN /\ Len(a.touched) <= Len(a.shares)
            /\ \A k \in 1..Len(a.touched) : ByPriority(items, a.touched[k], a.shares[k])
<1> DEFINE w == PaidInTurn(items, amount)
           principal == Totals(w.shares).PRINCIPAL
           extra == Lesser(AtLeastZero(w.funds), AtLeastZero(loan.principal - principal))
           more == [NothingAllocated EXCEPT !.PRINCIPAL = extra]
           a == Allocate(loan, items, amount)
<1>1. w \in LoopState /\ Prioritized(items, w)
  BY PaidInTurnSpends, PaidInTurnPrioritized
<1>2. /\ a.touched = w.touched
      /\ a.shares = IF extra = 0 THEN w.shares ELSE Append(w.shares, more)
  BY DEF Allocate
<1> HIDE DEF w, a, extra, more
<1>3. w.shares \in Seq(Allocation) /\ w.touched \in Seq(Instalments)
  BY <1>1 DEF LoopState
<1>4. /\ Len(w.shares) <= Len(a.shares)
      /\ \A k \in 1..Len(w.shares) : a.shares[k] = w.shares[k]
  <2>1. CASE extra = 0
    BY <1>2, <1>3, <2>1
  <2>2. CASE extra # 0
    <3>1. a.shares = Append(w.shares, more)
      BY <1>2, <2>2
    <3>2. w.shares \in Seq(Allocation \cup {more}) /\ more \in Allocation \cup {more}
      BY <1>3
    <3>3. /\ Len(a.shares) = Len(w.shares) + 1
          /\ \A k \in 1..Len(w.shares) : a.shares[k] = w.shares[k]
      BY <3>1, <3>2, AppendProperties
    <3> QED
      BY <1>3, <3>3
  <2> QED
    BY <2>1, <2>2
<1> SUFFICES /\ Len(a.touched) <= Len(a.shares)
             /\ \A k \in 1..Len(a.touched) : ByPriority(items, a.touched[k], a.shares[k])
  BY DEF a
<1> QED
  BY <1>1, <1>2, <1>4 DEF Prioritized

-----------------------------------------------------------------------------
\* What a rollback takes from a schedule.

\* The running sums behind Collected.
RunningPaid(t, items) ==
  /\ t \in [0..Len(Dues) -> Nat]
  /\ t[0] = 0
  /\ \A n \in Instalments : t[n] = t[n - 1] + items[n].paid

LEMMA CollectedRuns ==
  ASSUME NEW items \in [Instalments -> Item]
  PROVE  \E t : RunningPaid(t, items) /\ Collected(items) = t[Len(Dues)]
<1> DEFINE N == Len(Dues)
           W == Nat
           G == [x \in W \X (1..N) |-> x[1] + items[x[2]].paid]
           Eq(t) == t = [n \in 0..N |-> IF n = 0 THEN 0 ELSE t[n - 1] + items[n].paid]
<1>1. N \in Nat /\ 1..N = Instalments
  BY DuesAssumption DEF Instalments
<1>2. 0 \in W /\ \A x \in W, n \in 1..N : x + items[n].paid \in W
  BY <1>1 DEF Item
<1> HIDE DEF W, N
<1>3. G \in [W \X (1..N) -> W]
  BY <1>2
<1>4. \A x \in W, n \in 1..N : G[<<x, n>>] = x + items[n].paid
  OBVIOUS
<1> HIDE DEF G
<1>5. PICK v \in [0..N -> W] : Steps(v, G, 0, N)
  BY <1>1, <1>2, <1>3, Iterated
<1>6. ASSUME NEW n \in 1..N PROVE v[n] = v[n - 1] + items[n].paid
  <2>1. n - 1 \in 0..N
    BY <1>1
  <2> QED
    BY <1>4, <1>5, <2>1 DEF Steps
<1>7. Eq(v)
  BY <1>1, <1>5, <1>6 DEF Steps
<1>8. PICK t : Eq(t) /\ Collected(items) = t[N]
  <2> DEFINE chosen == CHOOSE t : Eq(t)
  <2>1. Collected(items) = chosen[N]
    BY DEF Collected, N
  <2> HIDE DEF Eq
  <2> QED
    BY <1>7, <2>1, Zenon
<1>9. t[0] = 0 /\ \A n \in 1..N : t[n] = t[n - 1] + items[n].paid
  BY <1>1, <1>8
<1>10. \A n \in 0..N : t[n] \in W
  <2>1. t[0] \in W /\ \A n \in 1..N : t[n - 1] \in W => t[n] \in W
    BY <1>2, <1>9
  <2> QED
    BY <1>1, <2>1, Stays
<1>11. t \in [0..N -> W]
  BY <1>8, <1>10
<1>12. RunningPaid(t, items)
  BY <1>1, <1>9, <1>11 DEF RunningPaid, N, W
<1> QED
  BY <1>8, <1>12 DEF N

\* The schedule is paid what its instalments are, so what one loses, it loses;
\* it is paid nothing when none of them is.
LEMMA CollectedChanged ==
  ASSUME NEW items \in [Instalments -> Item], NEW i \in Instalments, NEW x \in Item
  PROVE  /\ Collected(items) \in Nat
         /\ Collected([items EXCEPT ![i] = x]) = (Collected(items) - items[i].paid) + x.paid
         /\ (\A j \in Instalments : items[j].paid = 0) => Collected(items) = 0
<1> DEFINE N == Len(Dues)
           others == [items EXCEPT ![i] = x]
<1>1. /\ N \in Nat /\ Instalments = 1..N /\ i \in 1..N
      /\ others \in [Instalments -> Item] /\ others[i] = x
      /\ \A n \in Instalments : n # i => others[n] = items[n]
  BY DuesAssumption DEF Instalments
<1>2. x.paid \in Nat /\ \A n \in Instalments : items[n].paid \in Nat
  BY DEF Item
<1> HIDE DEF others
<1>3. PICK t : RunningPaid(t, items) /\ Collected(items) = t[N]
  BY CollectedRuns
<1>4. PICK u : RunningPaid(u, others) /\ Collected(others) = u[N]
  BY <1>1, CollectedRuns
<1> DEFINE S == {n \in 0..N : /\ u[n] = IF n < i THEN t[n] ELSE (t[n] - items[i].paid) + x.paid
                              /\ (\A j \in Instalments : items[j].paid = 0) => t[n] = 0}
<1>5. 0 \in S
  BY <1>1, <1>3, <1>4 DEF RunningPaid
<1>6. ASSUME NEW n \in 0..N, n < N, n \in S PROVE n + 1 \in S
  <2> DEFINE k == n + 1
  <2>1. k \in Instalments /\ k \in 0..N /\ k - 1 = n /\ k \in Int
    BY <1>1, <1>6
  <2>2. t[k] = t[k - 1] + items[k].paid /\ u[k] = u[k - 1] + others[k].paid
    BY <1>3, <1>4, <2>1 DEF RunningPaid
  <2>3. t[n] \in Nat /\ items[k].paid \in Nat /\ n \in Int
    BY <1>2, <1>3, <2>1 DEF RunningPaid
  <2>4. u[n] = IF n < i THEN t[n] ELSE (t[n] - items[i].paid) + x.paid
    BY <1>6
  <2> HIDE DEF k
  <2>5. u[k] = IF k < i THEN t[k] ELSE (t[k] - items[i].paid) + x.paid
    <3>1. CASE k = i
      <4>1. u[n] = t[n] /\ others[k].paid = x.paid
        BY <1>1, <2>1, <2>3, <2>4, <3>1
      <4> QED
        BY <1>1, <1>2, <2>1, <2>2, <2>3, <3>1, <4>1
    <3>2. CASE k # i
      <4>1. others[k].paid = items[k].paid /\ (n < i <=> k < i)
        BY <1>1, <2>1, <2>3, <3>2
      <4> QED
        BY <1>1, <1>2, <2>1, <2>2, <2>3, <2>4, <4>1
    <3> QED
      BY <3>1, <3>2
  <2>6. (\A j \in Instalments : items[j].paid = 0) => t[k] = 0
    BY <1>6, <2>1, <2>2
  <2> QED
    BY <2>1, <2>5, <2>6 DEF k
<1>7. N \in S
  <2> HIDE DEF S, N
  <2>1. 0..N \subseteq S
    BY <1>1, <1>5, <1>6, UpTo
  <2> QED
    BY <1>1, <2>1
<1>8. t[N] \in Nat
  BY <1>1, <1>3 DEF RunningPaid
<1> QED
  BY <1>1, <1>3, <1>4, <1>7, <1>8 DEF others

\* The instalments after the m-th have been gone through, the others not.
Rolled(items, amount, w, m) ==
  /\ \A j \in Instalments : j <= m => w.items[j] = items[j]
  /\ \A i \in Instalments :
       /\ w.items[i].paid \in 0..items[i].paid
       /\ i > m /\ w.items[i].paid > 0 =>
            /\ w.left = 0
            /\ \A j \in Instalments : j < i => w.items[j].paid = items[j].paid
  /\ Collected(w.items) + amount = Collected(items) + w.left

LEMMA TakeBackRolls ==
  ASSUME NEW items \in [Instalments -> Item], NEW amount \in Nat,
         NEW w \in RollbackState, NEW m \in Instalments, Rolled(items, amount, w, m)
  PROVE  Rolled(items, amount, TakeBack(w, m), m - 1)
<1> DEFINE v == TakeBack(w, m)
<1>1. /\ w.left \in Nat /\ w.items \in [Instalments -> Item] /\ m \in Int
      /\ \A i \in Instalments : i \in Int /\ items[i].paid \in Nat
  BY DEF RollbackState, Instalments, Item
<1>2. w.items[m] = items[m]
  BY <1>1 DEF Rolled
<1>3. \A j \in Instalments : j <= m - 1 => w.items[j] = items[j]
  BY <1>1 DEF Rolled
<1>4. CASE w.left = 0 \/ items[m].paid = 0
  <2>1. v = w
    BY <1>2, <1>4 DEF TakeBack
  <2> HIDE DEF v
  <2>2. ASSUME NEW i \in Instalments, i > m - 1, w.items[i].paid > 0
        PROVE  /\ w.left = 0
               /\ \A j \in Instalments : j < i => w.items[j].paid = items[j].paid
    <3>1. i \in Int /\ m \in Int
      BY <1>1
    <3>2. CASE i = m
      BY <1>1, <1>2, <1>3, <1>4, <2>2, <3>2
    <3>3. CASE i # m
      <4>1. i > m
        BY <2>2, <3>1, <3>3
      <4> QED
        BY <2>2, <4>1 DEF Rolled
    <3> QED
      BY <3>2, <3>3
  <2>3. Rolled(items, amount, w, m - 1)
    BY <1>3, <2>2 DEF Rolled
  <2> QED
    BY <2>1, <2>3 DEF v
<1>5. CASE ~(w.left = 0 \/ items[m].paid = 0)
  <2> DEFINE back == Lesser(w.left, items[m].paid)
             paid == items[m].paid - back
             outstanding == AtLeastZero(TotalDue(Dues[m]) - paid)
             x == [paid |-> paid, outstanding |-> outstanding,
                   status |-> IF outstanding = 0 THEN "PAID" ELSE "OVERDUE"]
  <2>1. v.left = w.left - back /\ v.items = [w.items EXCEPT ![m] = x]
    BY <1>2, <1>5 DEF TakeBack
  <2>2. /\ back \in Nat /\ paid \in 0..items[m].paid /\ paid = items[m].paid - back
        /\ paid > 0 => w.left = back
    BY <1>1 DEF Lesser
  <2>3. x \in Item /\ x.paid = paid
    <3>1. Dues[m] \in Due
      BY DuesType
    <3>2. outstanding \in Nat
      <4>1. TotalDue(Dues[m]) \in Nat
        BY <3>1 DEF Due, TotalDue
      <4> HIDE DEF paid
      <4> QED
        BY <2>2, <4>1, <1>1 DEF AtLeastZero
    <3> HIDE DEF paid, outstanding
    <3> QED
      BY <1>1, <2>2, <3>2 DEF Item
  <2> HIDE DEF x, back, paid, v
  <2>4. v.items[m].paid = paid /\ \A j \in Instalments : j # m => v.items[j] = w.items[j]
    BY <1>1, <2>1, <2>3
  <2>5. \A j \in Instalments : j <= m - 1 => v.items[j] = items[j]
    BY <1>1, <1>3, <2>4
  <2>6. ASSUME NEW i \in Instalments PROVE v.items[i].paid \in 0..items[i].paid
    <3>1. CASE i = m
      BY <2>2, <2>4, <3>1
    <3>2. CASE i # m
      BY <2>4, <3>2 DEF Rolled
    <3> QED
      BY <3>1, <3>2
  <2>7. ASSUME NEW i \in Instalments, i > m - 1, v.items[i].paid > 0
        PROVE  /\ v.left = 0
               /\ \A j \in Instalments : j < i => v.items[j].paid = items[j].paid
    <3>1. i \in Int /\ m \in Int /\ i >= m
      BY <1>1, <2>7
    <3>2. CASE i = m
      <4>1. v.left = 0
        BY <1>1, <2>1, <2>2, <2>4, <2>7, <3>2
      <4>2. \A j \in Instalments : j < m => v.items[j].paid = items[j].paid
        BY <1>1, <2>5
      <4> QED
        BY <3>2, <4>1, <4>2
    <3>3. CASE i # m
      <4>1. i > m /\ w.items[i].paid > 0
        BY <2>4, <2>7, <3>1, <3>3
      <4>2. w.left = 0
        BY <4>1 DEF Rolled
      <4> QED
        BY <1>5, <4>2
    <3> QED
      BY <3>2, <3>3
  <2>8. Collected(v.items) + amount = Collected(items) + v.left
    <3>1. /\ Collected(v.items) = (Collected(w.items) - w.items[m].paid) + x.paid
          /\ Collected(w.items) \in Nat
      BY <1>1, <2>1, <2>3, CollectedChanged
    <3>2. Collected(items) \in Nat
      BY <2>3, CollectedChanged
    <3>3. Collected(w.items) + amount = Collected(items) + w.left
      BY DEF Rolled
    <3> QED
      BY <1>1, <1>2, <2>1, <2>2, <2>3, <3>1, <3>2, <3>3
  <2>9. Rolled(items, amount, v, m - 1)
    BY <2>5, <2>6, <2>7, <2>8 DEF Rolled
  <2> QED
    BY <2>9 DEF v
<1> QED
  BY <1>4, <1>5

\* Whatever a schedule looks like, a reversal takes the whole amount back from
\* it, as far as it has been paid, beginning with the latest instalment.
THEOREM LatestAreTakenBack ==
  ASSUME NEW items \in [Instalments -> Item], NEW amount \in Nat
  PROVE  TakenFromLatest(items, RolledBack(items, amount), amount)
<1> DEFINE N == Len(Dues)
           after == RolledBack(items, amount)
<1>1. PICK w : Rollback(w, items, amount) /\ after = w[N].items
  BY RolledBackLoops
<1>2. N \in Nat /\ Instalments = 1..N
  BY DuesAssumption DEF Instalments
<1>3. after \in [Instalments -> Item]
  BY RolledBackType
<1> HIDE DEF after
<1> DEFINE S == {n \in 0..N : Rolled(items, amount, w[n], N - n)}
<1>4. 0 \in S
  <2>1. w[0].items = items /\ w[0].left = amount
    BY <1>1 DEF Rollback
  <2>2. \A i \in Instalments : ~(i > N) /\ items[i].paid \in 0..items[i].paid
    BY <1>2 DEF Item
  <2>3. Rolled(items, amount, w[0], N)
    BY <2>1, <2>2 DEF Rolled
  <2> QED
    BY <1>2, <2>3
<1>5. ASSUME NEW n \in 0..N, n < N, n \in S PROVE n + 1 \in S
  <2>1. /\ n + 1 \in 1..N /\ n + 1 \in 0..N /\ n + 1 - 1 = n
        /\ N - n \in Instalments /\ N + 1 - (n + 1) = N - n /\ N - (n + 1) = (N - n) - 1
    BY <1>2, <1>5
  <2>2. w[n] \in RollbackState /\ w[n + 1] = TakeBack(w[n], N - n)
    <3>1. w[n + 1] = TakeBack(w[(n + 1) - 1], N + 1 - (n + 1))
      BY <1>1, <2>1 DEF Rollback
    <3> QED
      BY <1>1, <2>1, <3>1 DEF Rollback
  <2>3. Rolled(items, amount, w[n + 1], (N - n) - 1)
    BY <1>5, <2>1, <2>2, TakeBackRolls
  <2> QED
    BY <2>1, <2>3
<1>6. Rolled(items, amount, w[N], 0) /\ w[N].left \in Nat
  <2>1. w[N] \in RollbackState
    BY <1>1, <1>2 DEF Rollback
  <2> HIDE DEF S, N
  <2>2. 0..N \subseteq S
    BY <1>2, <1>4, <1>5, UpTo
  <2>3. N \in S /\ N - N = 0
    BY <1>2, <2>2
  <2> QED
    BY <2>1, <2>3 DEF S, RollbackState
<1>7. \A i \in Instalments :
        /\ after[i].paid \in 0..items[i].paid
        /\ after[i].paid > 0 =>
             /\ w[N].left = 0
             /\ \A j \in Instalments : j < i => after[j].paid = items[j].paid
  BY <1>1, <1>2, <1>6 DEF Rolled
<1>8. Collected(after) = AtLeastZero(Collected(items) - amount)
  <2>1. Collected(after) + amount = Collected(items) + w[N].left
    BY <1>1, <1>6 DEF Rolled
  <2>2. CASE Instalments = {}
    <3>1. N = 0
      BY <1>2, <2>2
    <3>2. PICK t : RunningPaid(t, items) /\ Collected(items) = t[N]
      BY CollectedRuns
    <3>3. PICK u : RunningPaid(u, after) /\ Collected(after) = u[N]
      BY <1>3, CollectedRuns
    <3>4. Collected(items) = 0 /\ Collected(after) = 0
      BY <3>1, <3>2, <3>3 DEF RunningPaid
    <3> QED
      BY <3>4 DEF AtLeastZero
  <2>3. CASE Instalments # {}
    <3>1. PICK i \in Instalments : TRUE
      BY <2>3
    <3>2. /\ Collected(items) \in Nat /\ Collected(after) \in Nat
          /\ (\A j \in Instalments : after[j].paid = 0) => Collected(after) = 0
      BY <1>3, <3>1, CollectedChanged
    <3>3. CASE w[N].left = 0
      BY <1>6, <2>1, <3>2, <3>3 DEF AtLeastZero
    <3>4. CASE w[N].left # 0
      <4>1. \A j \in Instalments : after[j].paid = 0
        <5>1. \A j \in Instalments : after[j].paid \in Nat /\ ~(after[j].paid > 0)
          BY <1>3, <1>7, <3>4 DEF Item
        <5> QED
          BY <5>1
      <4> QED
        BY <1>6, <2>1, <3>2, <4>1 DEF AtLeastZero
    <3> QED
      BY <3>3, <3>4
  <2> QED
    BY <2>2, <2>3
<1>9. TakenFromLatest(items, after, amount)
  BY <1>7, <1>8 DEF TakenFromLatest
<1> QED
  BY <1>9 DEF after
=============================================================================
