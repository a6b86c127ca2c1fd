---------------------------- MODULE JobLifecycle ----------------------------
(***************************************************************************)
(* What the background worker promises to those who hand it jobs, whatever *)
(* its order, retries and timers: a job moves along the edges below, no    *)
(* more than Limit jobs run together, and every accepted job is ended.     *)
(* "failed" is the dead-letter list, from which an operator may call a job *)
(* back; "none" is a job not accepted yet, or forgotten by a restart.      *)
(***************************************************************************)
EXTENDS Naturals, FiniteSets

CONSTANTS
  Jobs,   \* the jobs that may be handed over
  Limit   \* jobs that may run together

VARIABLE phase

Phases == {"none", "waiting", "running", "done", "failed"}

Ended == {"done", "failed"}

\* The moves one step of the pool may make with one job.  A job that fails
\* and is taken up again in the same step stays "running".
Edges == { <<"none", "waiting">>, <<"none", "running">>, <<"none", "failed">>,
           <<"waiting", "running">>, <<"waiting", "failed">>,
           <<"running", "waiting">>, <<"running", "done">>, <<"running", "failed">>,
           <<"failed", "waiting">>, <<"failed", "running">> }

Init == phase = [j \in Jobs |-> "none"]

Work ==
  /\ phase' \in [Jobs -> Phases]
  /\ \A j \in Jobs : phase'[j] # phase[j] => <<phase[j], phase'[j]>> \in Edges
  /\ Cardinality({j \in Jobs : phase'[j] = "running"}) <= Limit

Restart == phase' = [j \in Jobs |-> "none"]

Next == Work \/ Restart

\* Whatever was accepted ends, unless a restart forgets it.
EveryJobEnds ==
  \A j \in Jobs : phase[j] \in {"waiting", "running"} ~> phase[j] \in Ended \cup {"none"}

Spec == Init /\ [][Next]_phase /\ EveryJobEnds
=============================================================================
