------------------------ MODULE CreditFacilityProofs ------------------------
(***************************************************************************)
(* What CreditFacility guarantees for every set of customers, offers and   *)
(* requests, every amount and every bound.  Every operation moves at most  *)
(* one facility together with its ledger line, so the proofs rest on what  *)
(* one such move must satisfy.                                             *)
(***************************************************************************)
EXTENDS CreditFacility, Iteration, TLAPS

\* What holds of a facility and its ledger, slot by slot.
Sound(f, l) == Coherent(f) /\ l.new = Balances(f) /\ Conserved(f, l)

\* A request in flight names a facility that exists.
InFlightExists ==
  \A r \in Requests : req[r].phase # "idle" => Exists(req[r].slot)

\* A facility that exists was opened from an offer, so it has an owner.
OpenedFromOffer == \A i \in Slots : Exists(i) => facility[i].offer \in Offers

IInv ==
  /\ TypeOK
  /\ \A i \in Slots : Sound(facility[i], ledger[i])
  /\ \A i \in Slots : ~Exists(i) => ledger[i] = NoLedger
  /\ InFlightExists
  /\ OpenedFromOffer

\* A move of the facility in slot i to g, with ledger line l.
MovesTo(i, g, l) ==
  /\ i \in Slots /\ g \in Facility /\ l \in Ledger
  /\ count' \in 0..MaxFacilities /\ i <= count'
  /\ count' = count \/ (count' = i /\ i = count + 1)
  /\ g.offer \in Offers
  /\ Sound(g, l)
  /\ facility' = [facility EXCEPT ![i] = g]
  /\ ledger' = [ledger EXCEPT ![i] = l]

LEMMA AtLeastZeroType == \A n \in Int : AtLeastZero(n) \in Nat /\ AtLeastZero(n) >= n
  BY DEF AtLeastZero

\* Such a move keeps every slot well typed and sound.
LEMMA MoveKeeps ==
  ASSUME IInv, NEW i, NEW g, NEW l, MovesTo(i, g, l),
         req' \in [Requests -> Request], termLoan' \in [Customers -> LoanLevels],
         \A r \in Requests : req'[r].phase # "idle" => req'[r].slot = req[r].slot
                                                   /\ req[r].phase # "idle"
  PROVE  IInv'
  <1>1. TypeOK'
    BY DEF IInv, TypeOK, MovesTo
  <1>2. ASSUME NEW j \in Slots
        PROVE  /\ Sound(facility'[j], ledger'[j])
               /\ ~Exists(j)' => ledger'[j] = NoLedger
    <2>1. count \in Int /\ count' \in Int /\ i \in Int /\ j \in Int
      BY DEF IInv, TypeOK, MovesTo, Slots
    <2>2. CASE j = i
      BY <2>1, <2>2 DEF IInv, TypeOK, MovesTo, Exists
    <2>3. CASE j # i
      BY <2>1, <2>3 DEF IInv, TypeOK, MovesTo, Exists
    <2>4. QED BY <2>2, <2>3
  <1>3. InFlightExists'
    <2>1. count \in Int /\ count' \in Int /\ count' >= count
      BY DEF IInv, TypeOK, MovesTo, Slots
    <2>2. \A r \in Requests : req[r].slot \in Int
      BY DEF IInv, TypeOK, Request, Slots
    <2>3. QED BY <2>1, <2>2 DEF IInv, InFlightExists, Exists
  <1>4. OpenedFromOffer'
    <2> SUFFICES ASSUME NEW j \in Slots, j <= count' PROVE facility'[j].offer \in Offers
      BY DEF OpenedFromOffer, Exists
    <2>1. count \in Int /\ i \in Int /\ j \in Int
      BY DEF IInv, TypeOK, MovesTo, Slots
    <2>2. CASE j = i
      BY <2>2 DEF IInv, TypeOK, MovesTo
    <2>3. CASE j # i
      <3>1. j <= count BY <2>1, <2>3 DEF MovesTo
      <3>2. QED BY <2>3, <3>1 DEF IInv, TypeOK, MovesTo, OpenedFromOffer, Exists
    <2>4. QED BY <2>2, <2>3
  <1>5. QED BY <1>1, <1>2, <1>3, <1>4 DEF IInv

LEMMA BalancesType == \A f \in Facility : Balances(f) \in Balance
  BY DEF Facility, Balance, Balances

\* The balances of a facility form a balance record, and a ledger that takes a
\* new line stays a ledger.
LEMMA LineType ==
  ASSUME NEW f \in Facility, NEW b \in Balance, NEW l \in Ledger
  PROVE  /\ Balances(f) \in Balance
         /\ Line(l, b, Balances(f)) \in Ledger
         /\ Line(l, b, Balances(f)).new = Balances(f)
         /\ Line(l, b, Balances(f)).prev = b
         /\ Line(l, b, Balances(f)).drawn = l.drawn
         /\ Line(l, b, Balances(f)).restored = l.restored
         /\ Line(l, b, Balances(f)).reversed = l.reversed
  BY DEF Facility, Balance, Ledger, Balances, Line

\* Setting one balance of a facility leaves a facility.
LEMMA SetOneBalance ==
  ASSUME NEW f \in Facility
  PROVE  /\ \A n \in Nat : [f EXCEPT !.utilized = n] \in Facility
         /\ \A n \in Nat : [f EXCEPT !.approved = n] \in Facility
         /\ \A n \in Int : [f EXCEPT !.available = n] \in Facility
         /\ \A n \in Nat : [f EXCEPT !.excess = n] \in Facility
         /\ \A s \in Status : [f EXCEPT !.status = s] \in Facility
  BY DEF Facility

\* Recomputing the balances from a utilization makes them coherent.
LEMMA RebalancedSound ==
  ASSUME NEW f \in Facility, NEW used \in Nat
  PROVE  /\ Rebalanced(f, used) \in Facility
         /\ Coherent(Rebalanced(f, used))
         /\ Rebalanced(f, used).utilized = used
         /\ Rebalanced(f, used).offer = f.offer
         /\ Rebalanced(f, used).status = f.status
  <1> DEFINE g == Rebalanced(f, used)
  <1>1. /\ AtLeastZero(f.approved - used) \in Nat
        /\ AtLeastZero(used - f.approved) \in Nat
    BY AtLeastZeroType DEF Facility
  <1>2. g \in Facility
    <2> DEFINE f1 == [f EXCEPT !.utilized = used]
               f2 == [f1 EXCEPT !.available = AtLeastZero(f.approved - used)]
    <2>1. f1 \in Facility BY SetOneBalance
    <2> HIDE DEF f1
    <2>2. f2 \in Facility BY <1>1, <2>1, SetOneBalance
    <2> HIDE DEF f2
    <2>3. [f2 EXCEPT !.excess = AtLeastZero(used - f.approved)] \in Facility
      BY <1>1, <2>2, SetOneBalance
    <2>4. QED BY <2>3 DEF Rebalanced, f1, f2
  <1>3. /\ g.utilized = used /\ g.approved = f.approved
        /\ g.available = AtLeastZero(f.approved - used)
        /\ g.excess = AtLeastZero(used - f.approved)
        /\ g.offer = f.offer /\ g.status = f.status
    BY DEF Facility, Rebalanced
  <1>4. Coherent(g)
    BY <1>3 DEF Facility, Coherent, AtLeastZero
  <1>5. QED BY <1>2, <1>3, <1>4

-----------------------------------------------------------------------------

\* Type correctness and the three balance invariants hold initially.
LEMMA InitIInv == Init => IInv
  BY FacilityAssumption
     DEF Init, IInv, TypeOK, Sound, Coherent, Conserved, Balances, AtLeastZero,
         NoFacility, NoLedger, NoBalance, Idle, Slots, Status, Exists,
         Facility, Ledger, Balance, Request, InFlightExists, OpenedFromOffer

\* Opening a facility moves an empty slot to a facility with nothing drawn.
LEMMA CreateKeeps ==
  ASSUME IInv, NEW o \in Offers, CreateFacilityFromOffer(o)
  PROVE  IInv'
  <1> DEFINE i == count + 1
             f == [offer |-> o, status |-> "ACTIVE", lapsed |-> FALSE,
                   approved |-> OfferAmount[o], utilized |-> 0,
                   available |-> OfferAmount[o], excess |-> 0]
             l == Line(ledger[i], NoBalance, Balances(f))
  <1>1. f \in Facility /\ NoBalance \in Balance
    BY FacilityAssumption DEF Facility, Balance, NoBalance, Status
  <1>2. i \in Slots /\ i = count' /\ count' \in 0..MaxFacilities /\ count \in Int
    BY FacilityAssumption DEF CreateFacilityFromOffer, IInv, TypeOK, Slots
  <1>3. ledger[i] = NoLedger /\ ledger[i] \in Ledger
    BY <1>2 DEF IInv, TypeOK, Exists
  <1>4. l \in Ledger /\ l.new = Balances(f) /\ Conserved(f, l)
    BY <1>1, <1>3, LineType DEF Conserved, NoLedger
  <1>5. Coherent(f)
    BY FacilityAssumption DEF Coherent, AtLeastZero
  <1>6. MovesTo(i, f, l)
    BY <1>1, <1>2, <1>4, <1>5 DEF CreateFacilityFromOffer, MovesTo, Sound
  <1>7. /\ req' = req /\ req' \in [Requests -> Request]
        /\ termLoan' \in [Customers -> LoanLevels]
    BY DEF CreateFacilityFromOffer, IInv, TypeOK
  <1>8. QED
    <2> HIDE DEF f, l
    <2>1. QED BY <1>6, <1>7, MoveKeeps

\* A drawdown line credits what it adds to the utilization, and the available
\* amount is recomputed, possibly below zero, with the excess left behind.
LEMMA CommitKeeps ==
  ASSUME IInv, NEW r \in Requests, CommitDrawdown(r)
  PROVE  IInv'
  <1> DEFINE i == req[r].slot
             f == facility[i]
             used == f.utilized + req[r].amount
             f1 == [f EXCEPT !.utilized = used]
             g == [f EXCEPT !.utilized = used, !.available = f.approved - used]
             m == Line(ledger[i], Balances(f), Balances(g))
             l == [m EXCEPT !.drawn = ledger[i].drawn + req[r].amount]
  <1>1. i \in Slots /\ f \in Facility /\ ledger[i] \in Ledger /\ req[r].amount \in Nat
    BY DEF IInv, TypeOK, Request
  <1>2. used \in Nat /\ f.approved - used \in Int
    BY <1>1 DEF Facility
  <1>3. g \in Facility
    <2>1. f1 \in Facility BY <1>1, <1>2, SetOneBalance
    <2> HIDE DEF f1
    <2>2. [f1 EXCEPT !.available = f.approved - used] \in Facility
      BY <1>2, <2>1, SetOneBalance
    <2>3. QED BY <2>2 DEF f1
  <1>4. /\ g.utilized = used /\ g.available = f.approved - used
        /\ g.approved = f.approved /\ g.excess = f.excess /\ g.offer = f.offer
    BY <1>1 DEF Facility
  <1>5. Coherent(g)
    <2>1. Coherent(f) BY <1>1 DEF IInv, Sound
    <2>2. QED BY <1>1, <1>4, <2>1 DEF Coherent, AtLeastZero, Facility
  <1>6. /\ m \in Ledger /\ m.new = Balances(g) /\ m.drawn = ledger[i].drawn
        /\ m.restored = ledger[i].restored /\ m.reversed = ledger[i].reversed
    <2>1. Balances(f) \in Balance BY <1>1, BalancesType
    <2> HIDE DEF g
    <2>2. QED BY <1>1, <1>3, <2>1, LineType
  <1>7. l \in Ledger /\ l.new = Balances(g) /\ Conserved(g, l)
    <2>1. Conserved(f, ledger[i]) BY <1>1 DEF IInv, Sound
    <2> HIDE DEF m, g
    <2>2. /\ l \in Ledger /\ l.new = m.new /\ l.drawn = ledger[i].drawn + req[r].amount
          /\ l.restored = m.restored /\ l.reversed = m.reversed
      BY <1>1, <1>6 DEF Ledger
    <2>3. QED BY <1>1, <1>4, <1>6, <2>1, <2>2 DEF Conserved, Ledger, Facility
  <1>8. MovesTo(i, g, l)
    <2>1. Exists(i) /\ count' = count /\ count \in 0..MaxFacilities
      BY DEF CommitDrawdown, IInv, InFlightExists, TypeOK
    <2>2. facility' = [facility EXCEPT ![i] = g] /\ ledger' = [ledger EXCEPT ![i] = l]
      BY DEF CommitDrawdown
    <2> HIDE DEF g, l
    <2>3. QED
      BY <1>1, <1>3, <1>4, <1>5, <1>7, <2>1, <2>2
         DEF MovesTo, Sound, Exists, IInv, OpenedFromOffer
  <1>9. /\ req' \in [Requests -> Request] /\ termLoan' \in [Customers -> LoanLevels]
        /\ \A q \in Requests : req'[q].phase # "idle" => /\ req'[q].slot = req[q].slot
                                                        /\ req[q].phase # "idle"
    BY FacilityAssumption DEF CommitDrawdown, IInv, TypeOK, Request, Idle, Slots
  <1>10. QED
    <2> HIDE DEF g, l
    <2>1. QED BY <1>8, <1>9, MoveKeeps

\* A step that only rewrites one existing facility and its ledger.
LEMMA PostKeeps ==
  ASSUME IInv, NEW i \in Slots, Exists(i), NEW g \in Facility, NEW l \in Ledger,
         Coherent(g), l.new = Balances(g), Conserved(g, l),
         g.offer = facility[i].offer,
         facility' = [facility EXCEPT ![i] = g],
         ledger' = [ledger EXCEPT ![i] = l],
         UNCHANGED <<count, req, termLoan>>
  PROVE  IInv'
  <1>1. MovesTo(i, g, l)
    BY DEF MovesTo, Sound, IInv, TypeOK, Exists, OpenedFromOffer
  <1>2. /\ req' = req /\ req' \in [Requests -> Request]
        /\ termLoan' \in [Customers -> LoanLevels]
    BY DEF IInv, TypeOK
  <1>3. QED BY <1>1, <1>2, MoveKeeps

\* A line that leaves the utilization, and so the running totals, alone.
LEMMA LineKeeps ==
  ASSUME IInv, NEW i \in Slots, Exists(i), NEW g \in Facility, NEW b \in Balance,
         Coherent(g), g.utilized = facility[i].utilized, g.offer = facility[i].offer,
         facility' = [facility EXCEPT ![i] = g],
         ledger' = [ledger EXCEPT ![i] = Line(ledger[i], b, Balances(g))],
         UNCHANGED <<count, req, termLoan>>
  PROVE  IInv'
  <1> DEFINE l == Line(ledger[i], b, Balances(g))
  <1>1. ledger[i] \in Ledger /\ Conserved(facility[i], ledger[i])
    BY DEF IInv, TypeOK, Sound
  <1>2. /\ l \in Ledger /\ l.new = Balances(g) /\ l.drawn = ledger[i].drawn
        /\ l.restored = ledger[i].restored /\ l.reversed = ledger[i].reversed
    BY <1>1, LineType
  <1>3. Conserved(g, l)
    BY <1>1, <1>2 DEF Conserved
  <1> HIDE DEF l
  <1>4. ledger' = [ledger EXCEPT ![i] = l]
    BY DEF l
  <1>5. QED BY <1>2, <1>3, <1>4, PostKeeps

\* A restoration takes from the utilization what it adds to `restored`.
LEMMA RestoreKeeps ==
  ASSUME IInv, NEW c \in Customers, NEW a \in Amounts,
         ApplyRepaymentLimitRestoration(c, a)
  PROVE  IInv'
  <1>1. PICK i \in Slots :
          LET f == facility[i]
              g == Rebalanced(f, AtLeastZero(f.utilized - a))
          IN /\ FirstRestorable(i, c)
             /\ facility' = [facility EXCEPT ![i] = g]
             /\ ledger' = [ledger EXCEPT ![i] =
                  [Line(ledger[i], Balances(f), Balances(g))
                     EXCEPT !.restored = ledger[i].restored + (f.utilized - g.utilized)]]
             /\ UNCHANGED <<count, req, termLoan>>
    BY DEF ApplyRepaymentLimitRestoration
  <1> DEFINE f == facility[i]
             used == AtLeastZero(f.utilized - a)
             g == Rebalanced(f, used)
             m == Line(ledger[i], Balances(f), Balances(g))
             l == [m EXCEPT !.restored = ledger[i].restored + (f.utilized - g.utilized)]
  <1>2. /\ f \in Facility /\ ledger[i] \in Ledger /\ a \in Nat /\ f.utilized \in Nat
        /\ Conserved(f, ledger[i])
    BY FacilityAssumption DEF IInv, TypeOK, Facility, Sound
  <1>3. used \in Nat /\ f.utilized - used \in Nat
    BY <1>2 DEF AtLeastZero
  <1>4. g \in Facility /\ Coherent(g) /\ g.utilized = used /\ g.offer = f.offer
    <2> HIDE DEF used
    <2>1. QED BY <1>2, <1>3, RebalancedSound
  <1>5. facility' = [facility EXCEPT ![i] = g] /\ ledger' = [ledger EXCEPT ![i] = l]
    BY <1>1
  <1>6. Exists(i) /\ UNCHANGED <<count, req, termLoan>>
    BY <1>1 DEF FirstRestorable
  <1> HIDE DEF g, used
  <1>7. /\ m \in Ledger /\ m.new = Balances(g) /\ m.drawn = ledger[i].drawn
        /\ m.restored = ledger[i].restored /\ m.reversed = ledger[i].reversed
    BY <1>2, <1>4, LineType, BalancesType
  <1> HIDE DEF m
  <1>8. /\ l \in Ledger /\ l.new = m.new /\ l.drawn = m.drawn
        /\ l.restored = ledger[i].restored + (f.utilized - g.utilized)
        /\ l.reversed = m.reversed
    <2>1. ledger[i].restored + (f.utilized - g.utilized) \in Nat
      BY <1>2, <1>3, <1>4 DEF Ledger
    <2>2. \A n \in Nat : /\ [m EXCEPT !.restored = n] \in Ledger
                         /\ [m EXCEPT !.restored = n].new = m.new
                         /\ [m EXCEPT !.restored = n].drawn = m.drawn
                         /\ [m EXCEPT !.restored = n].restored = n
                         /\ [m EXCEPT !.restored = n].reversed = m.reversed
      BY <1>7 DEF Ledger
    <2>3. QED BY <2>1, <2>2
  <1> HIDE DEF l
  <1>9. Conserved(g, l)
    BY <1>2, <1>3, <1>4, <1>7, <1>8 DEF Conserved, Ledger
  <1>10. QED BY <1>4, <1>5, <1>6, <1>7, <1>8, <1>9, PostKeeps

\* A reversal adds the same amount to the utilization and to `reversed`.
LEMMA ReverseKeeps ==
  ASSUME IInv, NEW c \in Customers, NEW a \in Amounts,
         ReverseRepaymentLimitRestoration(c, a)
  PROVE  IInv'
  <1>1. PICK i \in Slots :
          LET f == facility[i]
              g == Rebalanced(f, f.utilized + a)
          IN /\ FirstChargeable(i, c)
             /\ facility' = [facility EXCEPT ![i] = g]
             /\ ledger' = [ledger EXCEPT ![i] =
                  [Line(ledger[i], Balances(f), Balances(g))
                     EXCEPT !.reversed = ledger[i].reversed + a]]
             /\ UNCHANGED <<count, req, termLoan>>
    BY DEF ReverseRepaymentLimitRestoration
  <1> DEFINE f == facility[i]
             g == Rebalanced(f, f.utilized + a)
             m == Line(ledger[i], Balances(f), Balances(g))
             l == [m EXCEPT !.reversed = ledger[i].reversed + a]
  <1>2. /\ f \in Facility /\ ledger[i] \in Ledger /\ a \in Nat /\ f.utilized \in Nat
        /\ Conserved(f, ledger[i])
    BY FacilityAssumption DEF IInv, TypeOK, Facility, Sound
  <1>3. g \in Facility /\ Coherent(g) /\ g.utilized = f.utilized + a /\ g.offer = f.offer
    <2> DEFINE used == f.utilized + a
    <2>1. used \in Nat BY <1>2
    <2> HIDE DEF used
    <2>2. /\ Rebalanced(f, used) \in Facility /\ Coherent(Rebalanced(f, used))
          /\ Rebalanced(f, used).utilized = used /\ Rebalanced(f, used).offer = f.offer
      BY <1>2, <2>1, RebalancedSound
    <2>3. QED BY <2>2 DEF used
  <1>4. facility' = [facility EXCEPT ![i] = g] /\ ledger' = [ledger EXCEPT ![i] = l]
    BY <1>1
  <1>5. Exists(i) /\ UNCHANGED <<count, req, termLoan>>
    BY <1>1 DEF FirstChargeable
  <1> HIDE DEF g
  <1>6. /\ m \in Ledger /\ m.new = Balances(g) /\ m.drawn = ledger[i].drawn
        /\ m.restored = ledger[i].restored /\ m.reversed = ledger[i].reversed
    BY <1>2, <1>3, LineType, BalancesType
  <1> HIDE DEF m
  <1>7. /\ l \in Ledger /\ l.new = m.new /\ l.drawn = m.drawn
        /\ l.restored = m.restored /\ l.reversed = ledger[i].reversed + a
    BY <1>2, <1>6 DEF Ledger
  <1> HIDE DEF l
  <1>8. Conserved(g, l)
    BY <1>2, <1>3, <1>6, <1>7 DEF Conserved, Ledger
  <1>9. QED BY <1>3, <1>4, <1>5, <1>6, <1>7, <1>8, PostKeeps

\* adjustLimit sets the available and excess amounts its limit implies.
LEMMA AdjustKeeps ==
  ASSUME IInv, NEW i \in Slots, NEW a \in Amounts, AdjustLimit(i, a)
  PROVE  IInv'
  <1> DEFINE f == facility[i]
             g == IF a < f.utilized
                  THEN [f EXCEPT !.approved = a, !.available = 0,
                                 !.excess = f.utilized - a]
                  ELSE [f EXCEPT !.approved = a, !.available = a - f.utilized,
                                 !.excess = 0]
             h == [f EXCEPT !.approved = a]
  <1>1. f \in Facility /\ a \in Nat /\ f.utilized \in Nat
    BY FacilityAssumption DEF IInv, TypeOK, Facility
  <1>2. g \in Facility
    <2>1. h \in Facility BY <1>1, SetOneBalance
    <2> HIDE DEF h
    <2>2. \A v \in Int : [h EXCEPT !.available = v] \in Facility
      BY <2>1, SetOneBalance
    <2>3. \A v \in Int, e \in Nat :
            [[h EXCEPT !.available = v] EXCEPT !.excess = e] \in Facility
      <3> SUFFICES ASSUME NEW v \in Int, NEW e \in Nat
                   PROVE  [[h EXCEPT !.available = v] EXCEPT !.excess = e] \in Facility
        OBVIOUS
      <3> DEFINE k == [h EXCEPT !.available = v]
      <3>1. k \in Facility BY <2>2
      <3> HIDE DEF k
      <3>2. [k EXCEPT !.excess = e] \in Facility BY <3>1, SetOneBalance
      <3>3. QED BY <3>2 DEF k
    <2>4. CASE a < f.utilized
      <3>1. f.utilized - a \in Nat /\ 0 \in Int BY <1>1, <2>4
      <3>2. g = [[h EXCEPT !.available = 0] EXCEPT !.excess = f.utilized - a]
        BY <2>4 DEF h
      <3> HIDE DEF g
      <3>3. QED BY <2>3, <3>1, <3>2
    <2>5. CASE ~(a < f.utilized)
      <3>1. a - f.utilized \in Int /\ 0 \in Nat BY <1>1
      <3>2. g = [[h EXCEPT !.available = a - f.utilized] EXCEPT !.excess = 0]
        BY <2>5 DEF h
      <3> HIDE DEF g
      <3>3. QED BY <2>3, <3>1, <3>2
    <2>6. QED BY <2>4, <2>5
  <1>3. Coherent(g) /\ g.utilized = f.utilized /\ g.offer = f.offer
    BY <1>1 DEF Coherent, AtLeastZero, Facility
  <1>4. Balances(f) \in Balance
    BY <1>1, BalancesType
  <1>5. /\ Exists(i)
        /\ facility' = [facility EXCEPT ![i] = g]
        /\ ledger' = [ledger EXCEPT ![i] = Line(ledger[i], Balances(f), Balances(g))]
        /\ UNCHANGED <<count, req, termLoan>>
    BY DEF AdjustLimit
  <1> HIDE DEF g
  <1>6. QED BY <1>2, <1>3, <1>4, <1>5, LineKeeps

\* A change of status leaves the balances alone.
LEMMA SetStatusKeeps ==
  ASSUME IInv, NEW i \in Slots, NEW s \in Status, SetStatus(i, s)
  PROVE  IInv'
  <1> DEFINE f == facility[i]
             g == [f EXCEPT !.status = s]
  <1>1. f \in Facility /\ Coherent(f)
    BY DEF IInv, TypeOK, Sound
  <1>2. g \in Facility /\ Balances(f) \in Balance
    BY <1>1, SetOneBalance, BalancesType
  <1>3. /\ Coherent(g) /\ g.utilized = f.utilized /\ g.offer = f.offer
        /\ Balances(g) = Balances(f)
    BY <1>1 DEF Facility, Coherent, Balances
  <1>4. /\ Exists(i) /\ UNCHANGED <<count, req, termLoan>>
        /\ facility' = [facility EXCEPT ![i] = g]
        /\ ledger' = [ledger EXCEPT ![i] = Line(ledger[i], Balances(f), Balances(f))]
    BY <1>1 DEF SetStatus, IInv, TypeOK
  <1> HIDE DEF g
  <1>5. QED BY <1>2, <1>3, <1>4, LineKeeps

\* A closed facility owes nothing and offers nothing.
LEMMA CloseKeeps ==
  ASSUME IInv, NEW i \in Slots, CloseFacility(i)
  PROVE  IInv'
  <1> DEFINE f == facility[i]
             h == [f EXCEPT !.status = "CLOSED"]
             g == [f EXCEPT !.status = "CLOSED", !.available = 0]
  <1>1. f \in Facility /\ Coherent(f) /\ f.utilized = 0
    BY DEF IInv, TypeOK, Sound, CloseFacility, Facility
  <1>2. g \in Facility
    <2>1. h \in Facility BY <1>1, SetOneBalance DEF Status
    <2> HIDE DEF h
    <2>2. [h EXCEPT !.available = 0] \in Facility BY <2>1, SetOneBalance
    <2>3. QED BY <2>2 DEF h
  <1>3. Coherent(g) /\ g.utilized = f.utilized /\ g.offer = f.offer
    BY <1>1 DEF Facility, Coherent, AtLeastZero
  <1>4. /\ Exists(i) /\ UNCHANGED <<count, req, termLoan>>
        /\ facility' = [facility EXCEPT ![i] = g]
        /\ ledger' = [ledger EXCEPT ![i] = Line(ledger[i], Balances(g), Balances(g))]
    BY DEF CloseFacility
  <1> HIDE DEF g
  <1>5. QED BY <1>2, <1>3, <1>4, LineKeeps, BalancesType

\* The steps that rewrite no balance: a request passes from phase to phase, a
\* facility expires or lapses, a term loan moves.
LEMMA QuietKeeps ==
  ASSUME IInv, ledger' = ledger, count' = count,
         \A i \in Slots : /\ facility'[i] \in Facility
                          /\ Balances(facility'[i]) = Balances(facility[i])
                          /\ facility'[i].excess = facility[i].excess
                          /\ facility'[i].offer = facility[i].offer,
         facility' = [i \in Slots |-> facility'[i]],
         req' \in [Requests -> Request], InFlightExists',
         termLoan' \in [Customers -> LoanLevels]
  PROVE  IInv'
  <1>1. TypeOK'
    <2>1. facility' \in [Slots -> Facility] OBVIOUS
    <2>2. QED BY <2>1 DEF IInv, TypeOK
  <1>2. ASSUME NEW i \in Slots PROVE Sound(facility'[i], ledger'[i])
    <2>1. Sound(facility[i], ledger[i]) BY DEF IInv
    <2>2. /\ facility'[i].approved = facility[i].approved
          /\ facility'[i].utilized = facility[i].utilized
          /\ facility'[i].available = facility[i].available
      BY DEF Balances
    <2>3. QED BY <2>1, <2>2 DEF Sound, Coherent, Conserved
  <1>3. \A i \in Slots : ~Exists(i)' => ledger'[i] = NoLedger
    BY DEF IInv, Exists
  <1>4. OpenedFromOffer'
    BY DEF IInv, OpenedFromOffer, Exists
  <1>5. QED BY <1>1, <1>2, <1>3, <1>4 DEF IInv

\* The named invariants are parts of IInv.
LEMMA IInvParts ==
  IInv => TypeOK /\ BalancesCoherent /\ LedgerAgrees /\ UtilizationConserved
  BY DEF IInv, Sound, BalancesCoherent, LedgerAgrees, UtilizationConserved

LEMMA RequestKeeps ==
  ASSUME IInv, NEW r \in Requests, NEW i \in Slots, NEW a \in Amounts,
         RequestDrawdown(r, i, a)
  PROVE  IInv'
  <1> DEFINE g == [facility[i] EXCEPT !.status = "EXPIRED"]
  <1>1. facility[i] \in Facility /\ a \in Nat /\ "EXPIRED" \in Status
    BY FacilityAssumption DEF IInv, TypeOK, Status
  <1>2. g \in Facility /\ Balances(g) = Balances(facility[i])
        /\ g.excess = facility[i].excess /\ g.offer = facility[i].offer
    <2>1. g \in Facility BY <1>1, SetOneBalance
    <2>2. QED BY <1>1, <2>1 DEF Balances, Facility
  <1> HIDE DEF g
  <1>3. facility' = [facility EXCEPT ![i] = g] \/ facility' = facility
    BY DEF RequestDrawdown, g
  <1>4. /\ facility' = [j \in Slots |-> facility'[j]]
        /\ \A j \in Slots : /\ facility'[j] \in Facility
                            /\ Balances(facility'[j]) = Balances(facility[j])
                            /\ facility'[j].excess = facility[j].excess
                            /\ facility'[j].offer = facility[j].offer
    BY <1>2, <1>3 DEF IInv, TypeOK
  <1>5. req' \in [Requests -> Request] /\ InFlightExists'
    BY <1>1 DEF RequestDrawdown, IInv, TypeOK, InFlightExists, Request, Exists
  <1>6. ledger' = ledger /\ count' = count /\ termLoan' \in [Customers -> LoanLevels]
    BY DEF RequestDrawdown, IInv, TypeOK
  <1>7. QED BY <1>4, <1>5, <1>6, QuietKeeps

\* Every step of the service keeps the inductive invariant.
LEMMA NextKeeps == IInv /\ [Next]_vars => IInv'
  <1> SUFFICES ASSUME IInv, [Next]_vars PROVE IInv'
    OBVIOUS
  <1> DEFINE FacilitySame ==
        /\ facility' = [i \in Slots |-> facility'[i]]
        /\ \A i \in Slots : /\ facility'[i] \in Facility
                            /\ Balances(facility'[i]) = Balances(facility[i])
                            /\ facility'[i].excess = facility[i].excess
                            /\ facility'[i].offer = facility[i].offer
  <1>1. ASSUME NEW o \in Offers, CreateFacilityFromOffer(o) PROVE IInv'
    BY <1>1, CreateKeeps
  <1>2. ASSUME NEW r \in Requests, NEW i \in Slots, NEW a \in Amounts,
               RequestDrawdown(r, i, a)
        PROVE  IInv'
    BY <1>2, RequestKeeps
  <1>3. ASSUME NEW r \in Requests, ReadTermLoans(r) \/ RefuseDrawdown(r) PROVE IInv'
    <2>1. facility' = facility /\ ledger' = ledger /\ count' = count
          /\ termLoan' \in [Customers -> LoanLevels]
      BY <1>3 DEF ReadTermLoans, RefuseDrawdown, IInv, TypeOK
    <2>2. req' \in [Requests -> Request] /\ InFlightExists'
      <3>1. CASE ReadTermLoans(r)
        <4>1. req[r].phase # "idle" /\ Exists(req[r].slot) /\ req[r] \in Request
          BY <3>1 DEF ReadTermLoans, IInv, TypeOK, InFlightExists
        <4>2. facility[req[r].slot].offer \in Offers
          BY <4>1 DEF IInv, TypeOK, Request, OpenedFromOffer
        <4>3. termLoan[Owner(facility[req[r].slot])] \in Nat
          BY <4>2, FacilityAssumption DEF IInv, TypeOK, Owner
        <4>4. PICK n \in Nat :
                req' = [req EXCEPT ![r] = [phase |-> "answered", slot |-> req[r].slot,
                                           amount |-> req[r].amount, loans |-> n]]
          BY <3>1, <4>3 DEF ReadTermLoans
        <4>5. QED BY <2>1, <4>1, <4>4 DEF IInv, TypeOK, InFlightExists, Request, Exists
      <3>2. CASE RefuseDrawdown(r)
        BY <3>2, FacilityAssumption
           DEF RefuseDrawdown, IInv, TypeOK, InFlightExists, Request, Exists, Idle, Slots
      <3>3. QED BY <1>3, <3>1, <3>2
    <2>3. FacilitySame BY <2>1 DEF IInv, TypeOK
    <2>4. QED BY <2>1, <2>2, <2>3, QuietKeeps
  <1>4. ASSUME NEW r \in Requests, CommitDrawdown(r) PROVE IInv'
    BY <1>4, CommitKeeps
  <1>5. ASSUME NEW c \in Customers, NEW a \in Amounts,
               \/ ApplyRepaymentLimitRestoration(c, a)
               \/ ReverseRepaymentLimitRestoration(c, a)
        PROVE  IInv'
    BY <1>5, RestoreKeeps, ReverseKeeps
  <1>6. ASSUME NEW i \in Slots, NEW a \in Amounts, AdjustLimit(i, a) PROVE IInv'
    BY <1>6, AdjustKeeps
  <1>7. ASSUME NEW i \in Slots,
               SuspendFacility(i) \/ FreezeFacility(i) \/ ResumeFacility(i)
        PROVE  IInv'
    BY <1>7, SetStatusKeeps
       DEF SuspendFacility, FreezeFacility, ResumeFacility, Status
  <1>8. ASSUME NEW i \in Slots, CloseFacility(i) PROVE IInv'
    BY <1>8, CloseKeeps
  <1>9. ASSUME NEW i \in Slots, Lapse(i) PROVE IInv'
    <2>1. FacilitySame
      BY <1>9 DEF Lapse, IInv, TypeOK, Facility, Balances
    <2>2. ledger' = ledger /\ count' = count /\ InFlightExists'
          /\ req' \in [Requests -> Request] /\ termLoan' \in [Customers -> LoanLevels]
      BY <1>9 DEF Lapse, IInv, TypeOK, InFlightExists, Exists
    <2>3. QED BY <2>1, <2>2, QuietKeeps
  <1>10. ASSUME NEW c \in Customers, NEW v \in LoanLevels, TermLoanMoves(c, v)
         PROVE  IInv'
    <2>1. FacilitySame
      BY <1>10 DEF TermLoanMoves, IInv, TypeOK
    <2>2. ledger' = ledger /\ count' = count /\ InFlightExists'
          /\ req' \in [Requests -> Request] /\ termLoan' \in [Customers -> LoanLevels]
      BY <1>10 DEF TermLoanMoves, IInv, TypeOK, InFlightExists, Exists
    <2>3. QED BY <2>1, <2>2, QuietKeeps
  <1>11. CASE UNCHANGED vars
    BY <1>11 DEF vars, IInv, TypeOK, InFlightExists, OpenedFromOffer, Exists
  <1>12. QED
    BY <1>1, <1>2, <1>3, <1>4, <1>5, <1>6, <1>7, <1>8, <1>9, <1>10, <1>11
       DEF Next, Drawdown, Repayment, Control

\* The state of the credit limit service is always well formed.
THEOREM TypeCorrect == Spec => []TypeOK
  <1>1. Spec => []IInv
    BY InitIInv, NextKeeps, PTL DEF Spec
  <1>2. QED BY <1>1, IInvParts, PTL

\* However drawdowns, repayments, adjustments and status changes interleave, the
\* available amount shown is real headroom and the excess is never overstated.
THEOREM BalancesAlwaysCoherent == Spec => []BalancesCoherent
  <1>1. Spec => []IInv
    BY InitIInv, NextKeeps, PTL DEF Spec
  <1>2. QED BY <1>1, IInvParts, PTL

\* The ledger always accounts for the facility: its last line shows the
\* facility's balances and its totals add up to the utilization.
THEOREM LedgerAccounts == Spec => [](LedgerAgrees /\ UtilizationConserved)
  <1>1. Spec => []IInv
    BY InitIInv, NextKeeps, PTL DEF Spec
  <1>2. QED BY <1>1, IInvParts, PTL

-----------------------------------------------------------------------------
\* The sum of the credit lines.

\* The running sums behind Total.
RunningTotal(t, w) ==
  /\ t \in [0..MaxFacilities -> Nat]
  /\ t[0] = 0
  /\ \A n \in Slots : t[n] = t[n - 1] + w[n]

LEMMA TotalRuns ==
  ASSUME NEW w \in [Slots -> Nat]
  PROVE  \E t : RunningTotal(t, w) /\ Total(w) = t[MaxFacilities]
  <1> DEFINE N == MaxFacilities
             G == [x \in Nat \X (1..N) |-> x[1] + w[x[2]]]
             Eq(t) == t = [n \in 0..N |-> IF n = 0 THEN 0 ELSE t[n - 1] + w[n]]
  <1>1. N \in Nat /\ Slots = 1..N
    BY FacilityAssumption DEF Slots
  <1>2. G \in [Nat \X (1..N) -> Nat]
    BY <1>1
  <1>3. \A x \in Nat, n \in 1..N : G[<<x, n>>] = x + w[n]
    OBVIOUS
  <1> HIDE DEF G
  <1>4. PICK v \in [0..N -> Nat] : Steps(v, G, 0, N)
    <2> HIDE DEF N
    <2>1. 0 \in Nat OBVIOUS
    <2>2. QED BY <1>1, <1>2, <2>1, Iterated
  <1>5. ASSUME NEW n \in 1..N PROVE v[n] = v[n - 1] + w[n]
    <2>1. n - 1 \in 0..N BY <1>1
    <2>2. QED BY <1>3, <1>4, <2>1 DEF Steps
  <1>6. Eq(v)
    BY <1>1, <1>4, <1>5 DEF Steps
  <1>7. PICK t : Eq(t) /\ Total(w) = t[N]
    <2> DEFINE chosen == CHOOSE t : Eq(t)
    <2>1. Total(w) = chosen[N] BY DEF Total
    <2> HIDE DEF Eq
    <2>2. QED BY <1>6, <2>1, Zenon
  <1>8. t[0] = 0 /\ \A n \in 1..N : t[n] = t[n - 1] + w[n]
    BY <1>1, <1>7
  <1>9. \A n \in 0..N : t[n] \in Nat
    <2> DEFINE W == Nat
    <2>1. \A n \in 1..N : t[n - 1] \in W => t[n] \in W
      BY <1>1, <1>8
    <2>2. t[0] \in W
      BY <1>8
    <2> HIDE DEF N, W
    <2>3. \A n \in 0..N : t[n] \in W
      BY <1>1, <2>1, <2>2, Stays
    <2>4. QED BY <2>3 DEF W
  <1>10. t \in [0..N -> Nat]
    BY <1>7, <1>9
  <1>11. QED BY <1>1, <1>7, <1>8, <1>10 DEF RunningTotal

\* What one credit line gains, the sum gains.
LEMMA TotalRaised ==
  ASSUME NEW w \in [Slots -> Nat], NEW i \in Slots, NEW a \in Nat
  PROVE  Total([w EXCEPT ![i] = w[i] + a]) = Total(w) + a
  <1> DEFINE N == MaxFacilities
             v == [w EXCEPT ![i] = w[i] + a]
  <1>1. /\ N \in Nat /\ Slots = 1..N /\ i \in 1..N
        /\ v \in [Slots -> Nat] /\ v[i] = w[i] + a
        /\ \A n \in Slots : w[n] \in Nat /\ (n # i => v[n] = w[n])
    BY FacilityAssumption DEF Slots
  <1> HIDE DEF v
  <1>2. PICK t : RunningTotal(t, w) /\ Total(w) = t[N]
    BY TotalRuns
  <1>3. PICK u : RunningTotal(u, v) /\ Total(v) = u[N]
    BY <1>1, TotalRuns
  <1> DEFINE S == {n \in 0..N : u[n] = IF n < i THEN t[n] ELSE t[n] + a}
  <1>4. 0 \in S
    BY <1>1, <1>2, <1>3 DEF RunningTotal
  <1>5. ASSUME NEW n \in 0..N, n < N, n \in S PROVE n + 1 \in S
    <2>1. n + 1 \in 1..N /\ n + 1 - 1 = n
      BY <1>1, <1>5
    <2>2. /\ t[n + 1] = t[n] + w[n + 1] /\ u[n + 1] = u[n] + v[n + 1]
          /\ t[n] \in Nat /\ w[n + 1] \in Nat
      <3>1. n + 1 \in Slots /\ n \in 0..MaxFacilities
        BY <1>1, <1>5, <2>1
      <3>2. t[n + 1] = t[(n + 1) - 1] + w[n + 1] /\ u[n + 1] = u[(n + 1) - 1] + v[n + 1]
        BY <1>2, <1>3, <3>1 DEF RunningTotal
      <3>3. t[n] \in Nat /\ w[n + 1] \in Nat
        BY <1>1, <1>2, <3>1 DEF RunningTotal
      <3>4. QED BY <2>1, <3>2, <3>3
    <2>3. CASE n + 1 = i
      <3>1. n < i /\ v[n + 1] = w[n + 1] + a
        BY <1>1, <2>1, <2>3
      <3>2. u[n] = t[n]
        BY <1>5, <3>1
      <3>3. u[n + 1] = t[n + 1] + a
        BY <2>2, <3>1, <3>2
      <3>4. QED BY <1>1, <2>1, <2>3, <3>3
    <2>4. CASE n + 1 < i BY <1>1, <1>5, <2>1, <2>2, <2>4
    <2>5. CASE n + 1 > i BY <1>1, <1>5, <2>1, <2>2, <2>5
    <2>6. QED BY <1>1, <2>3, <2>4, <2>5
  <1>6. N \in S
    <2> HIDE DEF S, N
    <2>1. 0..N \subseteq S BY <1>1, <1>4, <1>5, UpTo
    <2>2. QED BY <1>1, <2>1
  <1>7. Total(v) = Total(w) + a
    BY <1>1, <1>2, <1>3, <1>6
  <1>8. QED BY <1>7 DEF v

-----------------------------------------------------------------------------
\* What a step may do to a facility and its ledger line.

Chained(i) ==
  ledger'[i] # ledger[i] =>
    /\ ledger'[i].prev.approved = ledger[i].new.approved
    /\ ledger'[i].prev.utilized = ledger[i].new.utilized
    /\ \/ ledger'[i].prev.available = ledger[i].new.available
       \/ facility'[i].status = "CLOSED"

Escapes(i) ==
  /\ facility[i].status # "ACTIVE"
  /\ facility'[i].utilized > facility[i].utilized
  => \/ facility[i].status = "SUSPENDED"
     \/ \E r \in Requests : req[r].slot = i /\ req[r].phase = "answered"

Capped(i) ==
  /\ ledger'[i].drawn > ledger[i].drawn
  /\ facility[i].status # "CLOSED"
  => Utilization(Owner(facility[i]))' <= ExposureCap

\* A step that draws nothing: its line starts from the one before, and only a
\* reversal on an ACTIVE or SUSPENDED facility adds to the utilization.
LEMMA MoveChains ==
  ASSUME IInv, NEW i \in Slots, NEW g, NEW l,
         facility' = [facility EXCEPT ![i] = g],
         ledger' = [ledger EXCEPT ![i] = l],
         l.prev.approved = ledger[i].new.approved,
         l.prev.utilized = ledger[i].new.utilized,
         l.prev.available = ledger[i].new.available \/ g.status = "CLOSED",
         l.drawn = ledger[i].drawn,
         \/ ~(g.utilized > facility[i].utilized)
         \/ facility[i].status \in {"ACTIVE", "SUSPENDED"}
  PROVE  \A j \in Slots : Chained(j) /\ Escapes(j) /\ Capped(j)
  <1> TAKE j \in Slots
  <1>1. /\ facility[j] \in Facility /\ ledger[j] \in Ledger
        /\ facility \in [Slots -> Facility] /\ ledger \in [Slots -> Ledger]
    BY DEF IInv, TypeOK
  <1>2. facility[j].utilized \in Nat /\ ledger[j].drawn \in Nat
    BY <1>1 DEF Facility, Ledger
  <1>3. CASE j = i
    <2>1. facility'[j] = g /\ ledger'[j] = l
      BY <1>1, <1>3
    <2>2. QED BY <1>2, <1>3, <2>1 DEF Chained, Escapes, Capped
  <1>4. CASE j # i
    <2>1. facility'[j] = facility[j] /\ ledger'[j] = ledger[j]
      BY <1>1, <1>4
    <2>2. QED BY <1>2, <2>1 DEF Chained, Escapes, Capped
  <1>5. QED BY <1>3, <1>4

\* A step that leaves the ledger and the utilizations alone.
LEMMA QuietChains ==
  ASSUME IInv, ledger' = ledger,
         \A i \in Slots : facility'[i].utilized = facility[i].utilized
  PROVE  \A i \in Slots : Chained(i) /\ Escapes(i) /\ Capped(i)
  <1> TAKE i \in Slots
  <1>1. facility[i].utilized \in Nat /\ ledger[i].drawn \in Nat
    BY DEF IInv, TypeOK, Facility, Ledger
  <1>2. QED BY <1>1 DEF Chained, Escapes, Capped

\* A line and its totals keep the balances the line starts from.
LEMMA LineFields ==
  ASSUME NEW l \in Ledger, NEW b, NEW e
  PROVE  /\ Line(l, b, e).prev = b
         /\ Line(l, b, e).drawn = l.drawn
         /\ \A n : /\ [Line(l, b, e) EXCEPT !.drawn = n].prev = b
                   /\ [Line(l, b, e) EXCEPT !.drawn = n].drawn = n
                   /\ [Line(l, b, e) EXCEPT !.restored = n].prev = b
                   /\ [Line(l, b, e) EXCEPT !.restored = n].drawn = l.drawn
                   /\ [Line(l, b, e) EXCEPT !.reversed = n].prev = b
                   /\ [Line(l, b, e) EXCEPT !.reversed = n].drawn = l.drawn
  BY DEF Ledger, Line

\* The last line of a slot shows its balances.
LEMMA LastLine ==
  ASSUME IInv, NEW i \in Slots
  PROVE  /\ facility[i] \in Facility /\ ledger[i] \in Ledger
         /\ facility[i].utilized \in Nat
         /\ ledger[i].new.approved = Balances(facility[i]).approved
         /\ ledger[i].new.utilized = Balances(facility[i]).utilized
         /\ ledger[i].new.available = Balances(facility[i]).available
  BY DEF IInv, TypeOK, Sound, Facility

LEMMA CreateChains ==
  ASSUME IInv, NEW o \in Offers, CreateFacilityFromOffer(o)
  PROVE  \A j \in Slots : Chained(j) /\ Escapes(j) /\ Capped(j)
  <1> DEFINE i == count + 1
             f == [offer |-> o, status |-> "ACTIVE", lapsed |-> FALSE,
                   approved |-> OfferAmount[o], utilized |-> 0,
                   available |-> OfferAmount[o], excess |-> 0]
             l == Line(ledger[i], NoBalance, Balances(f))
  <1>1. i \in Slots /\ count \in Int
    BY FacilityAssumption DEF CreateFacilityFromOffer, IInv, TypeOK, Slots
  <1>2. ledger[i] = NoLedger /\ ledger[i] \in Ledger
    BY <1>1 DEF IInv, TypeOK, Exists
  <1>3. l.prev = NoBalance /\ l.drawn = ledger[i].drawn
    BY <1>2, LineFields
  <1>4. ledger[i].new = NoBalance
    BY <1>2 DEF NoLedger
  <1>5. ~(f.utilized > facility[i].utilized)
    BY <1>1, LastLine
  <1>6. facility' = [facility EXCEPT ![i] = f] /\ ledger' = [ledger EXCEPT ![i] = l]
    BY DEF CreateFacilityFromOffer
  <1> HIDE DEF f, l, i
  <1>7. QED BY <1>1, <1>3, <1>4, <1>5, <1>6, MoveChains

LEMMA RestoreChains ==
  ASSUME IInv, NEW c \in Customers, NEW a \in Amounts,
         ApplyRepaymentLimitRestoration(c, a)
  PROVE  \A j \in Slots : Chained(j) /\ Escapes(j) /\ Capped(j)
  <1>1. PICK i \in Slots :
          LET f == facility[i]
              g == Rebalanced(f, AtLeastZero(f.utilized - a))
          IN /\ facility' = [facility EXCEPT ![i] = g]
             /\ ledger' = [ledger EXCEPT ![i] =
                  [Line(ledger[i], Balances(f), Balances(g))
                     EXCEPT !.restored = ledger[i].restored + (f.utilized - g.utilized)]]
    BY DEF ApplyRepaymentLimitRestoration
  <1> DEFINE f == facility[i]
             used == AtLeastZero(f.utilized - a)
             g == Rebalanced(f, used)
             n == ledger[i].restored + (f.utilized - g.utilized)
             l == [Line(ledger[i], Balances(f), Balances(g)) EXCEPT !.restored = n]
  <1>2. a \in Nat
    BY FacilityAssumption
  <1>3. used \in Nat /\ ~(used > f.utilized)
    BY <1>2, LastLine DEF AtLeastZero
  <1>4. g.utilized = used
    <2> HIDE DEF used
    <2>1. QED BY <1>3, LastLine, RebalancedSound
  <1>5. facility' = [facility EXCEPT ![i] = g] /\ ledger' = [ledger EXCEPT ![i] = l]
    BY <1>1
  <1>6. ~(g.utilized > f.utilized)
    BY <1>3, <1>4
  <1> HIDE DEF g, n
  <1>7. l.prev = Balances(f) /\ l.drawn = ledger[i].drawn
    BY LastLine, LineFields
  <1> HIDE DEF l
  <1>8. QED BY <1>5, <1>6, <1>7, LastLine, MoveChains

LEMMA ReverseChains ==
  ASSUME IInv, NEW c \in Customers, NEW a \in Amounts,
         ReverseRepaymentLimitRestoration(c, a)
  PROVE  \A j \in Slots : Chained(j) /\ Escapes(j) /\ Capped(j)
  <1>1. PICK i \in Slots :
          LET f == facility[i]
              g == Rebalanced(f, f.utilized + a)
          IN /\ FirstChargeable(i, c)
             /\ facility' = [facility EXCEPT ![i] = g]
             /\ ledger' = [ledger EXCEPT ![i] =
                  [Line(ledger[i], Balances(f), Balances(g))
                     EXCEPT !.reversed = ledger[i].reversed + a]]
    BY DEF ReverseRepaymentLimitRestoration
  <1> DEFINE f == facility[i]
             g == Rebalanced(f, f.utilized + a)
             n == ledger[i].reversed + a
             l == [Line(ledger[i], Balances(f), Balances(g)) EXCEPT !.reversed = n]
  <1>2. facility[i].status \in {"ACTIVE", "SUSPENDED"}
    BY <1>1 DEF FirstChargeable, Chargeable
  <1>3. facility' = [facility EXCEPT ![i] = g] /\ ledger' = [ledger EXCEPT ![i] = l]
    BY <1>1
  <1> HIDE DEF g, n
  <1>4. l.prev = Balances(f) /\ l.drawn = ledger[i].drawn
    BY LastLine, LineFields
  <1> HIDE DEF l
  <1>5. QED BY <1>2, <1>3, <1>4, LastLine, MoveChains

LEMMA AdjustChains ==
  ASSUME IInv, NEW i \in Slots, NEW a \in Amounts, AdjustLimit(i, a)
  PROVE  \A j \in Slots : Chained(j) /\ Escapes(j) /\ Capped(j)
  <1> DEFINE f == facility[i]
             g == IF a < f.utilized
                  THEN [f EXCEPT !.approved = a, !.available = 0,
                                 !.excess = f.utilized - a]
                  ELSE [f EXCEPT !.approved = a, !.available = a - f.utilized,
                                 !.excess = 0]
             l == Line(ledger[i], Balances(f), Balances(g))
  <1>1. g.utilized = f.utilized
    BY LastLine DEF Facility
  <1>2. facility' = [facility EXCEPT ![i] = g] /\ ledger' = [ledger EXCEPT ![i] = l]
    BY DEF AdjustLimit
  <1>3. ~(g.utilized > f.utilized)
    BY <1>1, LastLine
  <1> HIDE DEF g
  <1>4. l.prev = Balances(f) /\ l.drawn = ledger[i].drawn
    BY LastLine, LineFields
  <1> HIDE DEF l
  <1>5. QED BY <1>2, <1>3, <1>4, LastLine, MoveChains

LEMMA SetStatusChains ==
  ASSUME IInv, NEW i \in Slots, NEW s \in Status, SetStatus(i, s)
  PROVE  \A j \in Slots : Chained(j) /\ Escapes(j) /\ Capped(j)
  <1> DEFINE f == facility[i]
             g == [f EXCEPT !.status = s]
             l == Line(ledger[i], Balances(f), Balances(f))
  <1>1. ~(g.utilized > f.utilized)
    BY LastLine DEF Facility
  <1>2. facility' = [facility EXCEPT ![i] = g] /\ ledger' = [ledger EXCEPT ![i] = l]
    BY DEF SetStatus, IInv, TypeOK
  <1>3. l.prev = Balances(f) /\ l.drawn = ledger[i].drawn
    BY LastLine, LineFields
  <1> HIDE DEF g, l
  <1>4. QED BY <1>1, <1>2, <1>3, LastLine, MoveChains

\* The closure's line starts from the zeroed available amount.
LEMMA CloseChains ==
  ASSUME IInv, NEW i \in Slots, CloseFacility(i)
  PROVE  \A j \in Slots : Chained(j) /\ Escapes(j) /\ Capped(j)
  <1> DEFINE f == facility[i]
             g == [f EXCEPT !.status = "CLOSED", !.available = 0]
             l == Line(ledger[i], Balances(g), Balances(g))
  <1>1. /\ Balances(g).approved = Balances(f).approved
        /\ Balances(g).utilized = Balances(f).utilized
        /\ g.status = "CLOSED" /\ ~(g.utilized > f.utilized)
    BY LastLine DEF Facility, Balances
  <1>2. facility' = [facility EXCEPT ![i] = g] /\ ledger' = [ledger EXCEPT ![i] = l]
    BY DEF CloseFacility
  <1> HIDE DEF g
  <1>3. l.prev = Balances(g) /\ l.drawn = ledger[i].drawn
    BY LastLine, LineFields
  <1> HIDE DEF l
  <1>4. QED BY <1>1, <1>2, <1>3, LastLine, MoveChains

\* What a drawdown adds to an open facility, the customer's utilization gains.
LEMMA UtilizationRaised ==
  ASSUME IInv, NEW i \in Slots, NEW a \in Nat, NEW g,
         Exists(i), facility[i].status # "CLOSED", count' = count,
         facility' = [facility EXCEPT ![i] = g],
         g.status = facility[i].status, g.offer = facility[i].offer,
         g.utilized = facility[i].utilized + a
  PROVE  /\ Owner(facility[i])' = Owner(facility[i])
         /\ Utilization(Owner(facility[i]))' = Utilization(Owner(facility[i])) + a
         /\ Utilization(Owner(facility[i])) \in Nat
  <1> DEFINE c == Owner(facility[i])
             Used(f, j) == IF j \in LinesOf(c) THEN f[j].utilized ELSE 0
             w == [j \in Slots |-> Used(facility, j)]
             v == [j \in Slots |-> Used(facility', j)]
  <1>1. facility \in [Slots -> Facility]
    BY DEF IInv, TypeOK
  <1>2. facility'[i] = g /\ \A j \in Slots : j # i => facility'[j] = facility[j]
    BY <1>1
  <1>3. Owner(facility[i])' = c
    BY <1>2 DEF Owner
  <1>4. \A j \in Slots : Owner(facility'[j]) = Owner(facility[j])
                         /\ facility'[j].status = facility[j].status
    BY <1>2 DEF Owner
  <1>5. LinesOf(Owner(facility[i]))' = LinesOf(c) /\ i \in LinesOf(c)
    BY <1>3, <1>4 DEF LinesOf, Exists, Owner
  <1>6. w \in [Slots -> Nat] /\ w[i] = facility[i].utilized
    <2>1. \A j \in Slots : facility[j].utilized \in Nat
      BY <1>1 DEF Facility
    <2>2. QED BY <1>5, <2>1
  <1>7. v = [w EXCEPT ![i] = w[i] + a]
    <2>1. v[i] = w[i] + a
      BY <1>2, <1>5, <1>6
    <2>2. \A j \in Slots : j # i => v[j] = w[j]
      BY <1>2
    <2>3. QED BY <2>1, <2>2
  <1>8. Utilization(c) = Total(w)
    BY DEF Utilization
  <1>9. Utilization(Owner(facility[i]))' = Total(v)
    BY <1>5 DEF Utilization
  <1>10. Total(w) \in Nat
    <2> HIDE DEF w
    <2>1. PICK t : RunningTotal(t, w) /\ Total(w) = t[MaxFacilities]
      BY <1>6, TotalRuns
    <2>2. QED BY <2>1, FacilityAssumption DEF RunningTotal
  <1> HIDE DEF w, v
  <1>11. Total(v) = Total(w) + a
    BY <1>6, <1>7, TotalRaised
  <1>12. QED BY <1>3, <1>8, <1>9, <1>10, <1>11

\* A drawdown is committed with the customer's utilization as it is then.
LEMMA CommitChains ==
  ASSUME IInv, NEW r \in Requests, CommitDrawdown(r)
  PROVE  \A j \in Slots : Chained(j) /\ Escapes(j) /\ Capped(j)
  <1>0. PICK i \in Slots, a \in Nat : i = req[r].slot /\ a = req[r].amount
    BY DEF IInv, TypeOK, Request
  <1> DEFINE f == facility[i]
             used == f.utilized + a
             g == [f EXCEPT !.utilized = used, !.available = f.approved - used]
             n == ledger[i].drawn + a
             l == [Line(ledger[i], Balances(f), Balances(g)) EXCEPT !.drawn = n]
  <1>1. req[r].loans \in Nat
    BY DEF IInv, TypeOK, Request
  <1>2. /\ facility \in [Slots -> Facility] /\ ledger \in [Slots -> Ledger]
        /\ req[r].phase = "answered" /\ count' = count /\ Exists(i)
        /\ facility' = [facility EXCEPT ![i] = g] /\ ledger' = [ledger EXCEPT ![i] = l]
    BY <1>0 DEF CommitDrawdown, IInv, TypeOK, InFlightExists
  <1>3. f \in Facility
    BY <1>2
  <1>4. g.utilized = f.utilized + a /\ g.status = f.status /\ g.offer = f.offer
    BY <1>3 DEF Facility
  <1>5. req[r].loans + Utilization(Owner(f)) + a <= ExposureCap
    BY <1>0 DEF CommitDrawdown, WithinCap
  <1> HIDE DEF g
  <1>6. l.prev = Balances(f)
    BY LastLine, LineFields
  <1> HIDE DEF l
  <1>7. facility'[i] = g /\ ledger'[i] = l
    BY <1>2
  <1>8. Chained(i)
    BY <1>6, <1>7, LastLine DEF Chained
  <1>9. Escapes(i)
    BY <1>0, <1>2 DEF Escapes
  <1>10. Capped(i)
    <2> SUFFICES ASSUME f.status # "CLOSED"
                 PROVE  Utilization(Owner(facility[i]))' <= ExposureCap
      BY DEF Capped
    <2> DEFINE now == Utilization(Owner(f))
               then == Utilization(Owner(facility[i]))'
    <2>1. then = now + a /\ now \in Nat
      BY <1>2, <1>4, UtilizationRaised
    <2>2. req[r].loans + now + a <= ExposureCap
      BY <1>5
    <2> HIDE DEF now, then
    <2>3. then <= ExposureCap
      BY <1>1, <2>1, <2>2, FacilityAssumption
    <2>4. QED BY <2>3 DEF then
  <1> SUFFICES ASSUME NEW j \in Slots, j # i
               PROVE  Chained(j) /\ Escapes(j) /\ Capped(j)
    BY <1>8, <1>9, <1>10
  <1>11. /\ facility'[j] = facility[j] /\ ledger'[j] = ledger[j]
         /\ facility[j].utilized \in Nat /\ ledger[j].drawn \in Nat
    BY <1>2 DEF Facility, Ledger
  <1>12. QED BY <1>11 DEF Chained, Escapes, Capped

LEMMA NextChains ==
  ASSUME IInv, [Next]_vars
  PROVE  \A j \in Slots : Chained(j) /\ Escapes(j) /\ Capped(j)
  <1> DEFINE Fine == \A j \in Slots : Chained(j) /\ Escapes(j) /\ Capped(j)
  <1>1. ASSUME NEW o \in Offers, CreateFacilityFromOffer(o) PROVE Fine
    BY <1>1, CreateChains
  <1>2. ASSUME NEW r \in Requests, NEW i \in Slots, NEW a \in Amounts,
               RequestDrawdown(r, i, a)
        PROVE  Fine
    <2>1. ledger' = ledger /\ \A j \in Slots : facility'[j].utilized = facility[j].utilized
      BY <1>2 DEF RequestDrawdown, IInv, TypeOK, Facility
    <2> HIDE DEF Fine
    <2>2. QED BY <2>1, QuietChains DEF Fine
  <1>3. ASSUME NEW r \in Requests, ReadTermLoans(r) \/ RefuseDrawdown(r) PROVE Fine
    BY <1>3, QuietChains DEF ReadTermLoans, RefuseDrawdown
  <1>4. ASSUME NEW r \in Requests, CommitDrawdown(r) PROVE Fine
    BY <1>4, CommitChains
  <1>5. ASSUME NEW c \in Customers, NEW a \in Amounts,
               \/ ApplyRepaymentLimitRestoration(c, a)
               \/ ReverseRepaymentLimitRestoration(c, a)
        PROVE  Fine
    BY <1>5, RestoreChains, ReverseChains
  <1>6. ASSUME NEW i \in Slots, NEW a \in Amounts, AdjustLimit(i, a) PROVE Fine
    BY <1>6, AdjustChains
  <1>7. ASSUME NEW i \in Slots,
               SuspendFacility(i) \/ FreezeFacility(i) \/ ResumeFacility(i)
        PROVE  Fine
    BY <1>7, SetStatusChains
       DEF SuspendFacility, FreezeFacility, ResumeFacility, Status
  <1>8. ASSUME NEW i \in Slots, CloseFacility(i) PROVE Fine
    BY <1>8, CloseChains
  <1>9. ASSUME NEW i \in Slots, Lapse(i) PROVE Fine
    <2>1. ledger' = ledger /\ \A j \in Slots : facility'[j].utilized = facility[j].utilized
      BY <1>9 DEF Lapse, IInv, TypeOK, Facility
    <2> HIDE DEF Fine
    <2>2. QED BY <2>1, QuietChains DEF Fine
  <1>10. ASSUME NEW c \in Customers, NEW v \in LoanLevels, TermLoanMoves(c, v)
         PROVE  Fine
    BY <1>10, QuietChains DEF TermLoanMoves
  <1>11. ASSUME UNCHANGED vars PROVE Fine
    BY <1>11, QuietChains DEF vars
  <1> HIDE DEF Fine
  <1>12. Drawdown => Fine
    BY <1>2, <1>3, <1>4 DEF Drawdown
  <1>13. Repayment => Fine
    BY <1>5 DEF Repayment
  <1>14. Control => Fine
    BY <1>6, <1>7, <1>8, <1>9 DEF Control
  <1>15. Fine
    BY <1>1, <1>10, <1>11, <1>12, <1>13, <1>14 DEF Next
  <1>16. QED BY <1>15 DEF Fine

\* Each line of a facility's ledger starts from the limit and utilization the
\* line before it ended with, although a drawdown's line is written after an
\* await in which other operations write theirs.
THEOREM LinesFollowOn == Spec => LedgerChained
  <1> DEFINE A == \A i \in Slots :
                    ledger'[i] # ledger[i] =>
                      /\ ledger'[i].prev.approved = ledger[i].new.approved
                      /\ ledger'[i].prev.utilized = ledger[i].new.utilized
                      /\ \/ ledger'[i].prev.available = ledger[i].new.available
                         \/ facility'[i].status = "CLOSED"
  <1>1. IInv /\ [Next]_vars => [A]_vars
    BY NextChains DEF Chained
  <1>2. [][A]_vars <=> LedgerChained
    BY DEF LedgerChained
  <1> HIDE DEF A
  <1>3. QED BY <1>1, <1>2, InitIInv, NextKeeps, PTL DEF Spec

\* A facility that is not ACTIVE takes on utilization only by a reversed
\* repayment while SUSPENDED, or by a drawdown that had been validated before
\* and was still waiting for the customer's exposure.
THEOREM OnlyInFlightEscapes == Spec => OnlyInFlightDrawdownsEscape
  <1> DEFINE A == \A i \in Slots :
                    /\ facility[i].status # "ACTIVE"
                    /\ facility'[i].utilized > facility[i].utilized
                    => \/ facility[i].status = "SUSPENDED"
                       \/ \E r \in Requests : req[r].slot = i /\ req[r].phase = "answered"
  <1>1. IInv /\ [Next]_vars => [A]_vars
    BY NextChains DEF Escapes
  <1>2. [][A]_vars <=> OnlyInFlightDrawdownsEscape
    BY DEF OnlyInFlightDrawdownsEscape
  <1> HIDE DEF A
  <1>3. QED BY <1>1, <1>2, InitIInv, NextKeeps, PTL DEF Spec

\* However many drawdowns wait on the exposure of one customer together, none
\* takes the customer's open credit lines past maxCustomerExposure.
THEOREM CapHolds == Spec => DrawdownRespectsCap
  <1> DEFINE A == \A i \in Slots :
                    /\ ledger'[i].drawn > ledger[i].drawn
                    /\ facility[i].status # "CLOSED"
                    => Utilization(Owner(facility[i]))' <= ExposureCap
  <1>1. IInv /\ [Next]_vars => [A]_vars
    BY NextChains DEF Capped
  <1>2. [][A]_vars <=> DrawdownRespectsCap
    BY DEF DrawdownRespectsCap
  <1> HIDE DEF A
  <1>3. QED BY <1>1, <1>2, InitIInv, NextKeeps, PTL DEF Spec
=============================================================================
