-------------------------- MODULE FinancialControl --------------------------
(***************************************************************************)
(* Maker-checker tasks of financial-control.service.ts: proposed by a      *)
(* maker, approved or rejected by somebody else, executed under an         *)
(* idempotency key while the domain logic is awaited.  The tasks of one    *)
(* application, in the order of the Map they live in.                      *)
(*                                                                         *)
(* The clock is left out: any check of expiresAt may find the task expired.*)
(* So is the fingerprint check (636): a payload that differs is refused    *)
(* and nothing changes.                                                    *)
(***************************************************************************)
EXTENDS Operations, Sequences

CONSTANTS
  Users,
  Nobody,     \* no checker yet
  Keys,       \* idempotency keys callers use
  NoKey,      \* no idempotency key: nothing is recorded
  MaxTasks    \* bound on the tasks created

ASSUME ControlAssumption ==
  /\ Nobody \notin Users
  /\ NoKey \notin Keys
  /\ MaxTasks \in Nat

VARIABLES
  tasks,    \* sequence of tasks; done counts the domain logic's successes
  replies   \* keys of idempotencyStore

TaskStatuses == {"PENDING_CHECKER", "APPROVED", "EXECUTING", "EXECUTED", "REJECTED",
                 "EXPIRED"}

Task == [status : TaskStatuses, maker : Users, checker : Users \cup {Nobody},
         done : Nat]

Execution == [kind : {"task"}, task : 1..MaxTasks, key : Keys \cup {NoKey}]

SetStatus(t, status) == tasks' = [tasks EXCEPT ![t].status = status]

\* proposeDisbursementTask, createFinancialTask.
ProposeTask(u) ==
  /\ Len(tasks) < MaxTasks
  /\ tasks' = Append(tasks, [status |-> "PENDING_CHECKER", maker |-> u,
                             checker |-> Nobody, done |-> 0])
  /\ Count
  /\ UNCHANGED <<ops, replies>>

\* Plausible bug: approveDisbursementTask does not compare maker and checker.
ApproveTaskOfAnyone(t, c) ==
  /\ tasks[t].status = "PENDING_CHECKER"
  /\ tasks' = [tasks EXCEPT ![t].status = "APPROVED", ![t].checker = c]
  /\ UNCHANGED <<ops, started, replies>>

\* Plausible bug: a rejected task may still be approved.
ApproveRejectedTask(t, c) ==
  /\ tasks[t].maker # c
  /\ tasks[t].status \in {"PENDING_CHECKER", "REJECTED"}
  /\ tasks' = [tasks EXCEPT ![t].status = "APPROVED", ![t].checker = c]
  /\ UNCHANGED <<ops, started, replies>>

\* approveDisbursementTask with decision APPROVE, approveFinancialTask.
ApproveTask(t, c) ==
  /\ tasks[t].maker # c
  /\ tasks[t].status = "PENDING_CHECKER"
  /\ tasks' = [tasks EXCEPT ![t].status = "APPROVED", ![t].checker = c]
  /\ UNCHANGED <<ops, started, replies>>

\* The same after expiresAt: the task expires whatever its status is.
ApproveExpiredTask(t, c) ==
  /\ tasks[t].maker # c
  /\ SetStatus(t, "EXPIRED")
  /\ UNCHANGED <<ops, started, replies>>

\* approveDisbursementTask with decision REJECT, rejectFinancialTask: no
\* status is excluded.
RejectTask(t, c) ==
  /\ tasks[t].maker # c
  /\ SetStatus(t, "REJECTED")
  /\ UNCHANGED <<ops, started, replies>>

-----------------------------------------------------------------------------
(* executeFinancialTask.  A key with a record is answered from it and      *)
(* changes nothing.                                                        *)

\* Plausible bug: a task an execution is running for may be executed.
ExecuteTaskAgain(t, key) ==
  /\ key \notin replies
  /\ tasks[t].status \in {"APPROVED", "EXECUTING"}
  /\ SetStatus(t, "EXECUTING")
  /\ Start([kind |-> "task", task |-> t, key |-> key])
  /\ UNCHANGED replies

ExecuteTask(t, key) ==
  /\ key \notin replies
  /\ tasks[t].status = "APPROVED"
  /\ SetStatus(t, "EXECUTING")
  /\ Start([kind |-> "task", task |-> t, key |-> key])
  /\ UNCHANGED replies

ExecuteExpiredTask(t, key) ==
  /\ key \notin replies
  /\ tasks[t].status = "APPROVED"
  /\ SetStatus(t, "EXPIRED")
  /\ UNCHANGED <<ops, started, replies>>

\* The domain logic resolves.
TaskExecuted(i) ==
  /\ ops[i].kind = "task"
  /\ tasks' = [tasks EXCEPT ![ops[i].task].status = "EXECUTED",
                            ![ops[i].task].done = @ + 1]
  /\ replies' = replies \cup ({ops[i].key} \ {NoKey})
  /\ End(i)

\* The domain logic throws: APPROVED again, whatever happened meanwhile.
TaskFailed(i) ==
  /\ ops[i].kind = "task"
  /\ SetStatus(ops[i].task, "APPROVED")
  /\ End(i)
  /\ UNCHANGED replies

FinancialControlNext ==
  \/ \E u \in Users : ProposeTask(u)
  \/ \E t \in 1..Len(tasks) :
       \/ \E c \in Users : ApproveTask(t, c) \/ ApproveExpiredTask(t, c) \/ RejectTask(t, c)
       \/ \E key \in Keys \cup {NoKey} : ExecuteTask(t, key) \/ ExecuteExpiredTask(t, key)
  \/ \E i \in Slots : TaskExecuted(i) \/ TaskFailed(i)

-----------------------------------------------------------------------------
(* Properties.                                                             *)

\* What runs or may run was approved by somebody who is not its maker:
\* neither a rejection that crosses an execution nor the failure that puts the
\* task back to APPROVED (financial-control.service.ts:652) gets around the
\* checker.
ApprovedByAnother ==
  \A t \in 1..Len(tasks) :
    tasks[t].status \in {"APPROVED", "EXECUTING"} =>
      tasks[t].checker \notin {Nobody, tasks[t].maker}

\* The EXECUTING mark is the only lock (comment "Optimistic lock", 642): at
\* most one execution of a task is in flight, and none that could still
\* succeed after one has, although rejecting, expiring and failing rewrite the
\* status under it.
ExecutedOnce ==
  \A t \in 1..Len(tasks) :
    LET running == {i \in OfKind("task") : ops[i].task = t} IN
    /\ \A i, j \in running : i = j
    /\ tasks[t].done <= 1
    /\ running # {} => tasks[t].done = 0 /\ tasks[t].status # "APPROVED"

\* A task that was rejected or has expired is approved again only by the
\* failure of an execution that was in flight for it (652).
RevivedOnlyByFailure ==
  \A t \in 1..Len(tasks) :
    (t <= Len(tasks') /\ tasks[t].status \in {"REJECTED", "EXPIRED"}
                      /\ tasks'[t].status = "APPROVED") =>
      \E i \in OfKind("task") : ops[i].task = t /\ ops'[i] = NoOp
=============================================================================
