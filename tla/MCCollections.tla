--------------------------- MODULE MCCollections ----------------------------
(* Instances of Collections for TLC.                                       *)
EXTENDS Collections, TLC

CONSTANTS maker, officer
=============================================================================
