--------------------------- MODULE MCDisbursement ---------------------------
(* Instances of Disbursement for TLC.                                      *)
EXTENDS Disbursement, TLC

CONSTANTS maker, officer, k1
=============================================================================
