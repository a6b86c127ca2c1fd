-------------------------- MODULE MCCreditFacility --------------------------
(***************************************************************************)
(* Instance of CreditFacility for TLC: one customer with two facilities,   *)
(* and two drawdowns that may be in flight together.                       *)
(***************************************************************************)
EXTENDS CreditFacility, TLC

CONSTANTS c1, o1, o2, r1, r2

MCOfferOwner == (o1 :> c1) @@ (o2 :> c1)
MCOfferAmount == (o1 :> 2) @@ (o2 :> 1)

RequestsInterchange == Permutations(Requests)
=============================================================================
