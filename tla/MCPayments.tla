----------------------------- MODULE MCPayments -----------------------------
(***************************************************************************)
(* Instances of Payments for TLC: a loan of two instalments; p1 pays part  *)
(* of it, p2 pays more than it owes.                                       *)
(***************************************************************************)
EXTENDS Payments, TLC

CONSTANTS p1, p2, h1, h2

Instalment(penalty, interest, principal) ==
  [fees |-> 0, penalty |-> penalty, interest |-> interest, principal |-> principal]

\* The late charge on the first instalment is booked on the row from outside.
MCDues == <<Instalment(1, 1, 1), Instalment(0, 0, 1)>>
MCSteepDues == <<Instalment(0, 1, 2), Instalment(0, 1, 1)>>

MCAmount == [p \in Payments |-> IF p = p1 THEN 2 ELSE 5]
MCPartialAmount == [p \in Payments |-> IF p = p1 THEN 2 ELSE 3]

HandlersInterchange == Permutations(Handlers)
=============================================================================
