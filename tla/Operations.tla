----------------------------- MODULE Operations -----------------------------
(***************************************************************************)
(* The requests a Node process has in flight.  A handler runs alone        *)
(* between two awaits; what it keeps across an await is a record in ops    *)
(* under the number of its request.  The components that share the process *)
(* (and the budget of requests) extend this module and give their records  *)
(* a kind of their own.                                                    *)
(***************************************************************************)
EXTENDS Integers

CONSTANT MaxOps   \* bound on the requests (but the checkers'), and restarts

ASSUME MaxOpsAssumption == MaxOps \in Nat

VARIABLES
  ops,      \* [Slots -> the record of the request, or NoOp]
  started   \* requests numbered so far

Slots == 1..MaxOps

NoOp == [kind |-> "none"]

OfKind(kind) == {i \in Slots : ops[i].kind = kind}

\* A request that is over at once leaves its slot empty.
Count ==
  /\ started < MaxOps
  /\ started' = started + 1

Start(op) ==
  /\ Count
  /\ ops' = [ops EXCEPT ![started + 1] = op]

Continue(i, op) ==
  /\ ops' = [ops EXCEPT ![i] = op]
  /\ UNCHANGED started

End(i) == Continue(i, NoOp)

\* The process goes down and with it every request in flight.
LoseAll ==
  /\ Count
  /\ ops' = [i \in Slots |-> NoOp]
=============================================================================
