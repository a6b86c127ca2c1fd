-------------------------- MODULE MCLoanServicing --------------------------
(* Instances of LoanServicing for TLC: a loan of two instalments.          *)
EXTENDS LoanServicing, TLC

CONSTANTS h1, h2

HandlersInterchange == Permutations(Handlers)
=============================================================================
