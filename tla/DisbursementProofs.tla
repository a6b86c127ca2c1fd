------------------------ MODULE DisbursementProofs -------------------------
(***************************************************************************)
(* Theorems about Disbursement: its types, that tasks run once and signed  *)
(* by another, that a maker waits for the checker, what brings back a      *)
(* closed task or takes a disbursed application back, that the borrower is *)
(* paid once unless disturbed, and that the books follow the money.        *)
(***************************************************************************)
EXTENDS Disbursement, SequenceTheorems, FiniteSetTheorems, TLAPS

Op == {NoOp} \cup Execution \cup Write \cup Release \cup OtherMaker

LEMMA StatusesAre ==
  Statuses = {"DRAFT", "SUBMITTED", "KYC_PENDING", "KYC_VERIFIED", "UNDER_REVIEW",
              "CREDIT_ASSESSMENT", "UNDERWRITING", "APPROVED", "REJECTED",
              "AGREEMENT_PENDING", "READY_FOR_DISBURSEMENT", "DISBURSED", "CANCELLED"}
  BY DEF Statuses, Transitions

LEMMA StagesAre ==
  Stages = {"LEAD", "APPLICATION_STARTED", "APPLICATION_SUBMITTED",
            "DOCUMENT_VERIFICATION", "CREDIT_ASSESSMENT", "UNDERWRITING", "APPROVAL",
            "SANCTION", "DISBURSEMENT", "DISBURSED", "ACTIVE", "CLOSED", "REJECTED",
            "CANCELLED", "WITHDRAWN", "OFF_GRAPH"}
  BY DEF Stages, Lifecycle, OffGraph

\* The stage that goes with a status, and the status that goes with a stage.
LEMMA StageOfStatusTyped ==
  ASSUME NEW status \in Statuses PROVE StageOfStatus[status] \in Stages
  BY StagesAre, StatusesAre DEF StageOfStatus, OffGraph

LEMMA StatusOfStageTyped ==
  ASSUME NEW stage \in DOMAIN Lifecycle PROVE StatusOfStage[stage] \in Statuses
  BY StatusesAre DEF StatusOfStage, Lifecycle

\* The kinds tell the records apart.
LEMMA Kinds ==
  ASSUME NEW op \in Op
  PROVE  /\ op.kind = "none" => op = NoOp
         /\ op.kind = "task" => op \in Execution
         /\ op.kind = "write" => op \in Write
         /\ op.kind = "disburse" => op \in Release
         /\ op.kind \in {"convert", "lending", "mandate", "payout"} => op \in OtherMaker
  BY StatusesAre DEF Op, NoOp, Execution, Write, Release, OtherMaker

-----------------------------------------------------------------------------
(* The inductive invariant.                                                *)

\* Slots not handed out yet are empty.
FreeSlots == \A i \in Slots : i > started => ops[i] = NoOp

\* A record points at a task there is, and an update whose writer looked at
\* the status did not see DISBURSED.
SlotFits(i) ==
  /\ ops[i].kind = "task" => ops[i].task \in 1..Len(tasks)
  /\ ops[i].kind = "disburse" => ops[i].task \in 0..Len(tasks)
  /\ ops[i].kind = "write" /\ ops[i].by = "status" => ops[i].seen # "DISBURSED"

Running(t) == {i \in Slots : ops[i].kind = "task" /\ ops[i].task = t}

Signed(t) == tasks[t].checker \notin {Nobody, tasks[t].maker}

TaskFits(t) ==
  /\ tasks[t].status \in {"APPROVED", "EXECUTING"} => Signed(t)
  /\ \A i, j \in Running(t) : i = j
  /\ Running(t) # {} =>
       /\ tasks[t].status \notin {"PENDING_CHECKER", "APPROVED"}
       /\ tasks[t].done = 0
       /\ Signed(t)
  /\ tasks[t].done <= 1
  /\ tasks[t].done = 1 =>
       tasks[t].status \notin {"PENDING_CHECKER", "APPROVED", "EXECUTING"}

IInv ==
  /\ TypeOK
  /\ FreeSlots
  /\ \A i \in Slots : SlotFits(i)
  /\ \A t \in 1..Len(tasks) : TaskFits(t)
  /\ MakerWaits

-----------------------------------------------------------------------------
(* How a request changes the slots.                                        *)

LEMMA OpsTyped == TypeOK => ops \in [Slots -> Op]
  BY DEF TypeOK, Op

\* What one slot may become without touching the tasks' invariants: nothing
\* that runs a task, and no payout that was not under way.
Harmless(old, new) ==
  /\ old.kind # "task" /\ new.kind # "task"
  /\ new.kind = "write" /\ new.by = "status" => new.seen # "DISBURSED"
  /\ new.kind = "disburse" =>
       \/ new.phase \in {"read", "gated"} /\ new.task = 0
       \/ /\ old.kind = "disburse"
          /\ new.actor = old.actor /\ new.task = old.task
          /\ old.phase \in {"sent", "paid"} \/ new.phase \in {"read", "gated"}

LEMMA Started ==
  ASSUME IInv, NEW op \in Op, Start(op)
  PROVE  /\ started' \in 0..MaxOps /\ ops' \in [Slots -> Op] /\ FreeSlots'
         /\ started + 1 \in Slots /\ ops[started + 1] = NoOp
         /\ ops'[started + 1] = op
         /\ \A i \in Slots \ {started + 1} : ops'[i] = ops[i]
  <1>1. started \in 0..MaxOps /\ started < MaxOps /\ started' = started + 1
    BY DEF IInv, TypeOK, Start, Count
  <1>2. started + 1 \in Slots /\ started' \in 0..MaxOps
    BY <1>1, MaxOpsAssumption DEF Slots
  <1>3. ops[started + 1] = NoOp
    BY <1>1, <1>2 DEF IInv, FreeSlots
  <1>4. ops \in [Slots -> Op] /\ ops' = [ops EXCEPT ![started + 1] = op]
    BY OpsTyped DEF IInv, Start
  <1>5. \A i \in Slots : i > started + 1 => ops'[i] = NoOp
    BY <1>1, <1>4 DEF IInv, FreeSlots, Slots
  <1>6. QED BY <1>1, <1>2, <1>3, <1>4, <1>5 DEF FreeSlots, Slots

LEMMA Continued ==
  ASSUME IInv, NEW i \in Slots, ops[i].kind # "none", NEW op \in Op, Continue(i, op)
  PROVE  /\ started' \in 0..MaxOps /\ ops' \in [Slots -> Op] /\ FreeSlots'
         /\ ops'[i] = op
         /\ \A j \in Slots \ {i} : ops'[j] = ops[j]
  <1>1. ops \in [Slots -> Op] /\ started \in 0..MaxOps /\ started' = started
    BY OpsTyped DEF IInv, TypeOK, Continue
  <1>2. ops' = [ops EXCEPT ![i] = op] BY DEF Continue
  <1>3. ops[i] # NoOp BY DEF NoOp
  <1>4. i <= started BY <1>1, <1>3 DEF IInv, FreeSlots, Slots
  <1>5. FreeSlots' BY <1>1, <1>2, <1>4 DEF IInv, FreeSlots, Slots
  <1>6. QED BY <1>1, <1>2, <1>5

LEMMA Counted ==
  ASSUME IInv, Count, UNCHANGED ops
  PROVE  started' \in 0..MaxOps /\ FreeSlots'
  <1>1. started \in 0..MaxOps /\ started < MaxOps /\ started' = started + 1
    BY DEF IInv, TypeOK, Count
  <1>2. QED BY <1>1, MaxOpsAssumption DEF IInv, FreeSlots, Slots

LEMMA NoOpTyped == NoOp \in Op /\ NoOp.kind = "none"
  BY DEF NoOp, Op

\* A step that leaves the tasks alone and the slots harmless.
LEMMA Quiet ==
  ASSUME IInv, TypeOK', FreeSlots', tasks' = tasks,
         \A i \in Slots : ops'[i] = ops[i] \/ Harmless(ops[i], ops'[i])
  PROVE  IInv'
  <1>1. \A i \in Slots : SlotFits(i)'
    <2> SUFFICES ASSUME NEW i \in Slots PROVE SlotFits(i)'
      OBVIOUS
    <2>1. SlotFits(i) /\ Len(tasks) \in Nat BY DEF IInv, TypeOK
    <2>2. CASE ops'[i] = ops[i] BY <2>1, <2>2 DEF SlotFits
    <2>3. CASE Harmless(ops[i], ops'[i]) BY <2>1, <2>3 DEF SlotFits, Harmless
    <2>4. QED BY <2>2, <2>3
  <1>2. \A t : Running(t)' = Running(t)
    BY DEF Running, Harmless
  <1>3. \A t \in 1..Len(tasks) : TaskFits(t)'
    BY <1>2 DEF IInv, TaskFits, Signed
  <1>4. MakerWaits'
    BY DEF IInv, MakerWaits, OfKind, Harmless
  <1>5. QED BY <1>1, <1>3, <1>4 DEF IInv

\* The types of what is not a request.
RestTyped ==
  /\ tasks \in Seq(Task) /\ Len(tasks) <= MaxTasks
  /\ replies \subseteq Keys
  /\ app \in [status : Statuses, stage : Stages, loan : BOOLEAN, decision : Decisions]
  /\ offer \in OfferStatuses
  /\ approving \in {"NONE", "OPEN", "CLOSED"}
  /\ books \in [payouts : Nat, direct : Nat, journals : Nat]
  /\ past \in [overlap : BOOLEAN, reopened : BOOLEAN, unfinished : BOOLEAN]

LEMMA Rest == IInv => RestTyped
  BY DEF IInv, TypeOK, RestTyped

LEMMA Typed ==
  ASSUME started \in 0..MaxOps, ops \in [Slots -> Op], RestTyped PROVE TypeOK
  BY DEF TypeOK, RestTyped, Op

LEMMA TypedNext ==
  ASSUME started' \in 0..MaxOps, ops' \in [Slots -> Op], RestTyped' PROVE TypeOK'
  BY DEF TypeOK, RestTyped, Op

LEMMA StartQuiet ==
  ASSUME IInv, NEW op \in Op, Start(op), Harmless(NoOp, op), tasks' = tasks, RestTyped'
  PROVE  IInv'
  <1>1. /\ started' \in 0..MaxOps /\ ops' \in [Slots -> Op] /\ FreeSlots'
        /\ \A i \in Slots : ops'[i] = ops[i] \/ Harmless(ops[i], ops'[i])
    BY Started
  <1>2. QED BY <1>1, TypedNext, Quiet

LEMMA ContinueQuiet ==
  ASSUME IInv, NEW i \in Slots, ops[i].kind # "none", NEW op \in Op, Continue(i, op),
         Harmless(ops[i], op), tasks' = tasks, RestTyped'
  PROVE  IInv'
  <1>1. /\ started' \in 0..MaxOps /\ ops' \in [Slots -> Op] /\ FreeSlots'
        /\ \A j \in Slots : ops'[j] = ops[j] \/ Harmless(ops[j], ops'[j])
    BY Continued
  <1>2. QED BY <1>1, TypedNext, Quiet

LEMMA EndQuiet ==
  ASSUME IInv, NEW i \in Slots, ops[i].kind \notin {"none", "task"}, End(i),
         tasks' = tasks, RestTyped'
  PROVE  IInv'
  <1>1. Harmless(ops[i], NoOp) BY NoOpTyped DEF Harmless
  <1>2. QED BY <1>1, NoOpTyped, ContinueQuiet DEF End

LEMMA CountQuiet ==
  ASSUME IInv, Count, UNCHANGED <<ops, tasks>>, RestTyped' PROVE IInv'
  <1>1. started' \in 0..MaxOps /\ FreeSlots' BY Counted
  <1>2. ops' \in [Slots -> Op] BY OpsTyped DEF IInv
  <1>3. QED BY <1>1, <1>2, TypedNext, Quiet

-----------------------------------------------------------------------------
(* The writers of the application's status keep the invariant.             *)

LEMMA WritingQuiet ==
  ASSUME IInv, NEW by \in {"status", "stage", "nothing"},
         NEW seen \in Statuses \cup {Same}, NEW status \in Statuses,
         NEW stage \in Stages \cup {Same}, NEW decision \in Decisions \cup {Same},
         by = "status" => seen # "DISBURSED",
         WritingBy(by, seen, status, stage, decision), tasks' = tasks, RestTyped'
  PROVE  IInv'
  <1> DEFINE op == [kind |-> "write", by |-> by, seen |-> seen, status |-> status,
                    stage |-> stage, decision |-> decision]
  <1>1. op \in Write BY DEF Write
  <1>2. op \in Op BY <1>1 DEF Op
  <1>3. Harmless(NoOp, op) BY DEF Harmless, NoOp
  <1>4. Start(op) BY DEF WritingBy
  <1> HIDE DEF op
  <1>5. QED BY <1>2, <1>3, <1>4, StartQuiet

LEMMA StatusWritingKeeps ==
  ASSUME IInv, StatusWriting PROVE IInv'
  <1> USE Rest
  <1>0. RestTyped /\ UNCHANGED <<tasks, replies, books>> BY DEF StatusWriting, controlVars
  <1>1. past' \in [overlap : BOOLEAN, reopened : BOOLEAN, unfinished : BOOLEAN]
    BY <1>0 DEF StatusWriting, RestTyped
  <1>s. Same \in Stages \cup {Same} /\ Same \in Decisions \cup {Same}
        /\ Same \in Statuses \cup {Same} /\ OffGraph \in Stages \cup {Same}
    BY DEF Stages
  <1>r. ASSUME app' = app, offer' \in OfferStatuses, approving' \in {"NONE", "OPEN", "CLOSED"}
        PROVE  RestTyped'
    BY <1>0, <1>1, <1>r DEF RestTyped
  <1>b. ASSUME NEW status \in Statuses, NEW stage \in Stages \cup {Same},
               NEW decision \in Decisions \cup {Same},
               WritingBlindly(status, stage, decision),
               offer' \in OfferStatuses, approving' \in {"NONE", "OPEN", "CLOSED"}
        PROVE  IInv'
    <2>1. app' = app BY <1>b DEF WritingBlindly, WritingBy
    <2>2. QED BY <2>1, <1>0, <1>b, <1>r, <1>s, WritingQuiet DEF WritingBlindly
  <1>v. ASSUME NEW status \in Statuses, NEW stage \in Stages \cup {Same},
               NEW decision \in Decisions \cup {Same},
               WritingByStatus(status, stage, decision), app.status # "DISBURSED",
               UNCHANGED <<offer, approving>>
        PROVE  IInv'
    <2>1. app' = app /\ app.status \in Statuses
      BY <1>0, <1>v DEF WritingByStatus, WritingBy, RestTyped
    <2>2. RestTyped' BY <1>0, <1>r, <1>v, <2>1 DEF RestTyped
    <2>3. QED BY <2>1, <2>2, <1>0, <1>v, WritingQuiet DEF WritingByStatus
  <1>c. ASSUME Count, UNCHANGED ops, app' = app,
               offer' \in OfferStatuses, approving' \in {"NONE", "OPEN", "CLOSED"}
        PROVE  IInv'
    BY <1>0, <1>c, <1>r, CountQuiet
  <1>k. offer \in OfferStatuses /\ approving \in {"NONE", "OPEN", "CLOSED"}
    BY <1>0 DEF RestTyped
  <1>2. ASSUME NEW status \in Targets, Transition(status) PROVE IInv'
    <2>1. status \in Statuses BY StatusAssumption
    <2>2. StageOfStatus[status] \in Stages BY <2>1, StageOfStatusTyped
    <2>3. app.status # "DISBURSED"
      BY <1>2 DEF Transition, Transitions
    <2>4. QED BY <1>2, <1>v, <1>s, <2>1, <2>2, <2>3 DEF Transition
  <1>3. ASSUME NEW status \in {"APPROVED", "REJECTED", "SUBMITTED", "UNDER_REVIEW"},
               CommitDecision(status)
        PROVE  IInv'
    <2>1. status \in Statuses BY StatusesAre
    <2>2. (IF status = "APPROVED" THEN "APPROVE" ELSE "OTHER") \in Decisions \cup {Same}
      BY DEF Decisions
    <2>3. app.status # "DISBURSED" BY <1>3 DEF CommitDecision
    <2>4. QED BY <1>3, <1>v, <1>s, <2>1, <2>2, <2>3 DEF CommitDecision
  <1>4. ASSUME NEW stage \in StageTargets, NEW admin \in BOOLEAN,
               TransitionStage(stage, admin)
        PROVE  IInv'
    <2>1. stage \in DOMAIN Lifecycle BY StatusAssumption
    <2>2. StatusOfStage[stage] \in Statuses /\ stage \in Stages
      BY <2>1, StatusOfStageTyped DEF Stages
    <2>3. /\ WritingBy("stage", Same, StatusOfStage[stage], stage, Same)
          /\ UNCHANGED <<offer, approving>>
      BY <1>4 DEF TransitionStage
    <2>4. RestTyped' BY <1>r, <1>k, <2>3 DEF WritingBy
    <2>5. QED BY <1>0, <1>s, <2>2, <2>3, <2>4, WritingQuiet
  <1>5. ASSUME ForwardToFinance PROVE IInv'
    BY <1>5, <1>b, <1>s, <1>k, StatusesAre DEF ForwardToFinance
  <1>6. ASSUME GenerateOffer PROVE IInv'
    BY <1>6, <1>b, <1>s, <1>k, StatusesAre DEF GenerateOffer, OfferStatuses
  <1>7. ASSUME AcceptOffer PROVE IInv'
    BY <1>7, <1>b, <1>s, <1>k, StatusesAre DEF AcceptOffer, OfferStatuses
  <1>8. ASSUME DeclineOffer PROVE IInv'
    BY <1>8, <1>b, <1>s, <1>k, StatusesAre DEF DeclineOffer, OfferStatuses
  <1>9. ASSUME OfferEnds PROVE IInv'
    BY <1>9, <1>c, <1>k DEF OfferEnds, OfferStatuses
  <1>10. ASSUME CompleteESign PROVE IInv'
    BY <1>10, <1>b, <1>s, <1>k, StatusesAre DEF CompleteESign
  <1>11. ASSUME OpenApproval \/ DelegateApproval PROVE IInv'
    BY <1>11, <1>c, <1>k DEF OpenApproval, DelegateApproval
  <1>12. ASSUME NEW status \in {"APPROVED", "UNDERWRITING", "REJECTED", "UNDER_REVIEW"},
                ActOnApproval(status)
         PROVE  IInv'
    <2>1. status \in Statuses BY StatusesAre
    <2>2. approving' \in {"NONE", "OPEN", "CLOSED"} BY <1>12 DEF ActOnApproval
    <2>3. QED BY <1>12, <1>b, <1>s, <1>k, <2>1, <2>2 DEF ActOnApproval
  <1>13. ASSUME NEW status \in {"UNDER_REVIEW", "APPROVED", "UNDERWRITING", "SUBMITTED"},
                NEW decision \in {"APPROVE", "OTHER", Same}, Orchestrate(status, decision)
         PROVE  IInv'
    <2>1. status \in Statuses /\ decision \in Decisions \cup {Same}
      BY StatusesAre DEF Decisions
    <2>2. QED BY <1>13, <1>b, <1>s, <1>k, <2>1 DEF Orchestrate
  <1>14. ASSUME VerifyClearance PROVE IInv'
    <2>1. app' \in [status : Statuses, stage : Stages, loan : BOOLEAN, decision : Decisions]
      BY <1>0, <1>14 DEF VerifyClearance, RestTyped, Stages
    <2>2. RestTyped' BY <1>0, <1>1, <1>14, <2>1 DEF VerifyClearance, RestTyped
    <2>3. QED BY <1>0, <1>14, <2>2, CountQuiet DEF VerifyClearance
  <1>15. ASSUME NEW i \in Slots, LandWrite(i) PROVE IInv'
    <2>1. ops[i] \in Op /\ ops[i].kind = "write" BY <1>15, OpsTyped DEF IInv, LandWrite
    <2>2. ops[i] \in Write BY <2>1, Kinds
    <2>3. app' \in [status : Statuses, stage : Stages, loan : BOOLEAN, decision : Decisions]
      BY <1>0, <1>15, <2>2 DEF LandWrite, RestTyped, Write
    <2>4. RestTyped' BY <1>0, <1>1, <1>15, <2>3 DEF LandWrite, RestTyped
    <2>5. QED BY <1>0, <1>15, <2>1, <2>4, EndQuiet DEF LandWrite
  <1>16. QED
    BY <1>2, <1>3, <1>4, <1>5, <1>6, <1>7, <1>8, <1>9, <1>10, <1>11, <1>12, <1>13,
       <1>14, <1>15
    DEF StatusWriting, ApplicationStatusNext

-----------------------------------------------------------------------------
(* So do the requests that leave the tasks alone.                          *)

\* A request goes on to another phase, with its task and actor.
LEMMA MoveQuiet ==
  ASSUME IInv, NEW i \in Slots, NEW phase,
         \/ /\ ops[i].kind = "disburse" /\ phase \in {"read", "gated", "sent", "paid"}
            /\ phase \in {"sent", "paid"} => ops[i].phase \in {"sent", "paid"}
         \/ /\ ops[i].kind \in {"convert", "lending", "mandate", "payout"}
            /\ phase \in {"read", "created", "paid"},
         Move(i, phase), tasks' = tasks, RestTyped'
  PROVE  IInv'
  <1> DEFINE op == [ops[i] EXCEPT !.phase = phase]
  <1>1. ops[i] \in Op BY OpsTyped DEF IInv
  <1>2. op \in Op /\ Harmless(ops[i], op)
    <2>1. CASE ops[i].kind = "disburse"
      <3>1. ops[i] \in Release BY <1>1, <2>1, Kinds
      <3>2. op \in Release /\ op.kind = "disburse" /\ op.actor = ops[i].actor
            /\ op.task = ops[i].task /\ op.phase = phase
        BY <2>1, <3>1 DEF Release
      <3>3. QED BY <2>1, <3>2 DEF Op, Harmless
    <2>2. CASE ops[i].kind \in {"convert", "lending", "mandate", "payout"}
      <3>1. ops[i] \in OtherMaker BY <1>1, <2>2, Kinds
      <3>2. op \in OtherMaker /\ op.kind = ops[i].kind
        BY <2>2, <3>1 DEF OtherMaker
      <3>3. QED BY <2>2, <3>2 DEF Op, Harmless
    <2>3. QED BY <2>1, <2>2
  <1>3. Continue(i, op) BY DEF Move
  <1>4. ops[i].kind # "none" OBVIOUS
  <1> HIDE DEF op
  <1>5. QED BY <1>2, <1>3, <1>4, ContinueQuiet

LEMMA ReleaseKeeps ==
  ASSUME IInv, NEW i \in Slots,
         PassGate(i) \/ EndBeforePayout(i) \/ PayoutSucceeds(i) \/ PayoutDeclined(i)
           \/ PayoutUnanswered(i) \/ BookingFails(i)
  PROVE  IInv'
  <1>1. UNCHANGED <<tasks, replies, app, offer, approving>>
    BY DEF PassGate, EndBeforePayout, PayoutSucceeds, PayoutDeclined, PayoutUnanswered,
           BookingFails, controlVars, appVars
  <1>2. RestTyped BY Rest
  <1>3. books' \in [payouts : Nat, direct : Nat, journals : Nat]
    BY <1>2 DEF PassGate, EndBeforePayout, PayoutSucceeds, PayoutDeclined,
                PayoutUnanswered, BookingFails, Paid, RestTyped
  <1>4. past' \in [overlap : BOOLEAN, reopened : BOOLEAN, unfinished : BOOLEAN]
    BY <1>2 DEF PassGate, EndBeforePayout, PayoutSucceeds, PayoutDeclined,
                PayoutUnanswered, BookingFails, Unfinished, RestTyped
  <1>5. RestTyped' BY <1>1, <1>2, <1>3, <1>4 DEF RestTyped
  <1>6. ASSUME PassGate(i) PROVE IInv'
    BY <1>1, <1>5, <1>6, MoveQuiet DEF PassGate, Phase
  <1>7. ASSUME PayoutSucceeds(i) PROVE IInv'
    BY <1>1, <1>5, <1>7, MoveQuiet DEF PayoutSucceeds, Phase
  <1>8. ASSUME EndBeforePayout(i) \/ PayoutDeclined(i) \/ PayoutUnanswered(i) \/ BookingFails(i)
        PROVE  IInv'
    BY <1>1, <1>5, <1>8, EndQuiet
    DEF EndBeforePayout, PayoutDeclined, PayoutUnanswered, BookingFails, Phase
  <1>9. QED BY <1>6, <1>7, <1>8

LEMMA StartsKeep ==
  ASSUME IInv,
         \/ \E u \in Users : StartRelease(u)
         \/ \E kind \in {"convert", "lending", "mandate"} : StartOther(kind)
         \/ StartPayout
  PROVE  IInv'
  <1>1. UNCHANGED <<tasks, replies, app, offer, approving, books>>
    BY DEF StartRelease, StartOther, StartPayout, controlVars, appVars
  <1>2. RestTyped BY Rest
  <1>3. past' \in [overlap : BOOLEAN, reopened : BOOLEAN, unfinished : BOOLEAN]
    BY <1>2 DEF StartRelease, StartOther, StartPayout, StartMaking, RestTyped
  <1>4. RestTyped' BY <1>1, <1>2, <1>3 DEF RestTyped
  <1>5. ASSUME NEW u \in Users, StartRelease(u) PROVE IInv'
    <2> DEFINE op == [kind |-> "disburse", phase |-> "read", actor |-> u,
                      disbursed |-> app.status = "DISBURSED", task |-> 0]
    <2>1. (app.status = "DISBURSED") \in BOOLEAN /\ 0 \in 0..MaxTasks
      BY ControlAssumption
    <2>2. op \in Release BY <2>1 DEF Release
    <2>3. op \in Op BY <2>2 DEF Op
    <2>4. Harmless(NoOp, op) BY DEF Harmless, NoOp
    <2>5. Start(op) BY <1>5 DEF StartRelease, StartMaking
    <2> HIDE DEF op
    <2>6. QED BY <2>3, <2>4, <2>5, <1>1, <1>4, StartQuiet
  <1>6. ASSUME NEW kind \in {"convert", "lending", "mandate", "payout"},
               Start([kind |-> kind, phase |-> "read"])
        PROVE  IInv'
    <2> DEFINE op == [kind |-> kind, phase |-> "read"]
    <2>1. op \in OtherMaker BY DEF OtherMaker
    <2>2. op \in Op BY <2>1 DEF Op
    <2>3. Harmless(NoOp, op) BY DEF Harmless, NoOp
    <2>4. Start(op) BY <1>6
    <2> HIDE DEF op
    <2>5. QED BY <2>2, <2>3, <2>4, <1>1, <1>4, StartQuiet
  <1>7. QED BY <1>5, <1>6 DEF StartOther, StartMaking, StartPayout

LEMMA OthersKeep ==
  ASSUME IInv, NEW i \in Slots,
         \/ Convert(i) \/ CreateLoan(i) \/ MarkDisbursed(i)
         \/ \E success \in BOOLEAN : PayDirectLoan(i, success)
         \/ PayLoan(i) \/ JournalPayout(i) \/ RequestFails(i)
  PROVE  IInv'
  <1>1. UNCHANGED <<tasks, replies, offer, approving>>
    BY DEF Convert, CreateLoan, MarkDisbursed, PayDirectLoan, PayLoan, JournalPayout,
           RequestFails, controlVars, appVars
  <1>2. RestTyped BY Rest
  <1>3. app' \in [status : Statuses, stage : Stages, loan : BOOLEAN, decision : Decisions]
    <2>1. "DISBURSED" \in Statuses /\ "DISBURSED" \in Stages /\ OffGraph \in Stages
      BY StatusesAre, StagesAre DEF Stages
    <2>2. app \in [status : Statuses, stage : Stages, loan : BOOLEAN, decision : Decisions]
      BY <1>2 DEF RestTyped
    <2>3. ASSUME Convert(i) PROVE app' \in [status : Statuses, stage : Stages,
                                            loan : BOOLEAN, decision : Decisions]
      BY <2>1, <2>2, <2>3 DEF Convert
    <2>4. ASSUME CreateLoan(i) PROVE app' \in [status : Statuses, stage : Stages,
                                               loan : BOOLEAN, decision : Decisions]
      BY <2>1, <2>2, <2>4 DEF CreateLoan
    <2>5. ASSUME MarkDisbursed(i) PROVE app' \in [status : Statuses, stage : Stages,
                                                  loan : BOOLEAN, decision : Decisions]
      BY <2>1, <2>2, <2>5 DEF MarkDisbursed
    <2>6. QED
      BY <2>2, <2>3, <2>4, <2>5
      DEF PayDirectLoan, PayLoan, JournalPayout, RequestFails, appVars
  <1>4. books' \in [payouts : Nat, direct : Nat, journals : Nat]
    BY <1>2 DEF Convert, CreateLoan, MarkDisbursed, PayDirectLoan, PayLoan, JournalPayout,
                RequestFails, Paid, RestTyped
  <1>5. past' \in [overlap : BOOLEAN, reopened : BOOLEAN, unfinished : BOOLEAN]
    BY <1>2 DEF Convert, CreateLoan, MarkDisbursed, PayDirectLoan, PayLoan, JournalPayout,
                RequestFails, RestTyped
  <1>6. RestTyped' BY <1>1, <1>2, <1>3, <1>4, <1>5 DEF RestTyped
  <1>7. ASSUME Convert(i) \/ MarkDisbursed(i) \/ JournalPayout(i) \/ RequestFails(i)
        PROVE  IInv'
    BY <1>1, <1>6, <1>7, EndQuiet DEF Convert, MarkDisbursed, JournalPayout, RequestFails, Phase
  <1>8. ASSUME CreateLoan(i) \/ PayLoan(i) \/ \E success \in BOOLEAN : PayDirectLoan(i, success)
        PROVE  IInv'
    BY <1>1, <1>6, <1>8, MoveQuiet DEF CreateLoan, PayLoan, PayDirectLoan, Phase
  <1>9. QED BY <1>7, <1>8

-----------------------------------------------------------------------------
(* And the steps that change a task.                                       *)

LEMMA TaskSet ==
  ASSUME tasks \in Seq(Task), Len(tasks) <= MaxTasks, NEW t \in 1..Len(tasks),
         NEW r \in Task, tasks' = [tasks EXCEPT ![t] = r]
  PROVE  /\ tasks' \in Seq(Task) /\ Len(tasks') = Len(tasks) /\ Len(tasks') <= MaxTasks
         /\ tasks'[t] = r
         /\ \A u \in (1..Len(tasks)) \ {t} : tasks'[u] = tasks[u]
  BY ExceptSeq

LEMMA TaskTyped ==
  ASSUME IInv, NEW t \in 1..Len(tasks) PROVE tasks[t] \in Task
  BY DEF IInv, TypeOK

\* The maker of a slot's task is not its actor, or the task is not pending.
WaitsAt(i) ==
  ops[i].kind = "disburse" =>
    (ops[i].phase \in {"sent", "paid"} /\ ops[i].task # 0
       /\ tasks[ops[i].task].maker = ops[i].actor =>
     tasks[ops[i].task].status # "PENDING_CHECKER")

LEMMA WaitsEverywhere == MakerWaits <=> \A i \in Slots : WaitsAt(i)
  BY DEF MakerWaits, WaitsAt, OfKind

\* One task changes, not back to pending, while the slots but its own
\* executions stay or are emptied.
LEMMA OneTask ==
  ASSUME IInv, NEW t \in 1..Len(tasks), NEW r \in Task, tasks' = [tasks EXCEPT ![t] = r],
         r.maker = tasks[t].maker,
         r.status = "PENDING_CHECKER" => tasks[t].status = "PENDING_CHECKER",
         started' \in 0..MaxOps, ops' \in [Slots -> Op], FreeSlots',
         RestTyped',
         \A i \in Slots :
           \/ ops'[i] = ops[i]
           \/ ops'[i].kind = "none"
           \/ SlotFits(i)' /\ WaitsAt(i)',
         \A u \in (1..Len(tasks)) \ {t} : Running(u)' = Running(u),
         TaskFits(t)'
  PROVE  IInv'
  <1>1. /\ tasks \in Seq(Task) /\ Len(tasks) <= MaxTasks /\ Len(tasks) \in Nat
    BY DEF IInv, TypeOK
  <1>2. /\ Len(tasks') = Len(tasks) /\ tasks'[t] = r
        /\ \A u \in (1..Len(tasks)) \ {t} : tasks'[u] = tasks[u]
    BY <1>1, TaskSet
  <1>3. ASSUME NEW i \in Slots PROVE SlotFits(i)' /\ WaitsAt(i)'
    <2>1. SlotFits(i) /\ WaitsAt(i) BY WaitsEverywhere DEF IInv
    <2>2. CASE ops'[i] = ops[i]
      <3>1. SlotFits(i)' BY <1>2, <2>1, <2>2 DEF SlotFits
      <3>2. CASE ops[i].kind = "disburse" /\ ops[i].task # 0
        <4>1. ops[i].task \in 1..Len(tasks) BY <1>1, <2>1, <3>2 DEF SlotFits
        <4>2. QED BY <1>2, <2>1, <2>2, <3>1, <4>1 DEF WaitsAt
      <3>3. QED BY <2>2, <3>1, <3>2 DEF WaitsAt
    <2>3. CASE ops'[i].kind = "none" BY <2>3 DEF SlotFits, WaitsAt
    <2>4. QED BY <2>2, <2>3
  <1>4. \A u \in 1..Len(tasks) : TaskFits(u)'
    BY <1>2 DEF IInv, TaskFits, Signed
  <1>5. MakerWaits'
    <2>1. \A i \in Slots : WaitsAt(i)' BY <1>3
    <2>2. QED BY <2>1 DEF MakerWaits, WaitsAt, OfKind
  <1>6. TypeOK' BY TypedNext
  <1>7. QED BY <1>2, <1>3, <1>4, <1>5, <1>6 DEF IInv

\* The same when the requests stay as they are.
LEMMA OneTaskOnly ==
  ASSUME IInv, NEW t \in 1..Len(tasks), NEW r \in Task, tasks' = [tasks EXCEPT ![t] = r],
         r.maker = tasks[t].maker, r.status # "PENDING_CHECKER",
         UNCHANGED <<ops, started, replies, appVars, books, past>>,
         TaskFits(t)'
  PROVE  IInv'
  <1>1. started' \in 0..MaxOps /\ ops' \in [Slots -> Op] /\ FreeSlots'
    BY OpsTyped DEF IInv, TypeOK, FreeSlots
  <1>2. tasks' \in Seq(Task) /\ Len(tasks') <= MaxTasks
    BY TaskSet DEF IInv, TypeOK
  <1>3. RestTyped' BY <1>2, Rest DEF RestTyped, appVars
  <1>4. \A u : Running(u)' = Running(u) BY DEF Running
  <1>5. QED BY <1>1, <1>3, <1>4, OneTask

LEMMA ProposingKeeps ==
  ASSUME IInv, NEW u \in Users, ProposeTask(u), UNCHANGED <<appVars, books, past>>
  PROVE  IInv'
  <1> DEFINE r == [status |-> "PENDING_CHECKER", maker |-> u, checker |-> Nobody, done |-> 0]
             n == Len(tasks) + 1
  <1>1. r \in Task BY DEF Task, TaskStatuses
  <1>2. tasks \in Seq(Task) /\ Len(tasks) \in Nat /\ Len(tasks) < MaxTasks
        /\ tasks' = Append(tasks, r) /\ UNCHANGED <<ops, replies>>
    BY DEF IInv, TypeOK, ProposeTask
  <1>3. /\ tasks' \in Seq(Task) /\ Len(tasks') = n /\ Len(tasks') <= MaxTasks
        /\ tasks'[n] = r /\ \A t \in 1..Len(tasks) : tasks'[t] = tasks[t]
    <2> HIDE DEF r
    <2>1. QED BY <1>1, <1>2, ControlAssumption
  <1>4. started' \in 0..MaxOps /\ FreeSlots' BY <1>2, Counted DEF ProposeTask
  <1>5. TypeOK'
    <2>1. RestTyped' BY <1>2, <1>3, Rest DEF RestTyped, appVars
    <2>2. ops' \in [Slots -> Op] BY <1>2, OpsTyped DEF IInv
    <2>3. QED BY <1>4, <2>1, <2>2, TypedNext
  <1>6. \A i \in Slots : SlotFits(i)'
    BY <1>2, <1>3 DEF IInv, SlotFits
  <1>7. \A t : Running(t)' = Running(t) BY <1>2 DEF Running
  <1>8. ASSUME NEW t \in 1..Len(tasks') PROVE TaskFits(t)'
    <2>1. CASE t = n
      <3>1. Running(t) = {} BY <1>2, <2>1 DEF IInv, SlotFits, Running
      <3>2. QED BY <1>3, <1>7, <2>1, <3>1 DEF TaskFits
    <2>2. CASE t \in 1..Len(tasks)
      BY <1>3, <1>7, <2>2 DEF IInv, TaskFits, Signed
    <2>3. QED BY <1>2, <1>3, <2>1, <2>2
  <1>9. MakerWaits'
    <2>1. ASSUME NEW i \in Slots PROVE WaitsAt(i)'
      <3>1. WaitsAt(i) /\ SlotFits(i) BY WaitsEverywhere DEF IInv
      <3>2. CASE ops[i].kind = "disburse" /\ ops[i].task # 0
        <4>1. ops[i].task \in 1..Len(tasks) BY <1>2, <3>1, <3>2 DEF SlotFits
        <4>2. QED BY <1>2, <1>3, <3>1, <4>1 DEF WaitsAt
      <3>3. QED BY <1>2, <3>2 DEF WaitsAt
    <2>2. QED BY <2>1 DEF MakerWaits, WaitsAt, OfKind
  <1>10. QED BY <1>4, <1>5, <1>6, <1>8, <1>9 DEF IInv

\* A status that neither asks for a signature nor for a single execution.
LEMMA ClosingKeeps ==
  ASSUME IInv, NEW t \in 1..Len(tasks), NEW status \in {"REJECTED", "EXPIRED"},
         SetStatus(t, status),
         UNCHANGED <<ops, started, replies, appVars, books, past>>
  PROVE  IInv'
  <1> DEFINE r == [tasks[t] EXCEPT !.status = status]
  <1>1. tasks[t] \in Task BY TaskTyped
  <1>2. r \in Task /\ r.maker = tasks[t].maker /\ r.checker = tasks[t].checker
        /\ r.done = tasks[t].done /\ r.status = status
    BY <1>1 DEF Task, TaskStatuses
  <1>3. tasks' = [tasks EXCEPT ![t] = r] BY DEF SetStatus
  <1>4. tasks'[t] = r BY <1>2, <1>3, TaskSet DEF IInv, TypeOK
  <1>5. TaskFits(t)'
    <2>1. Running(t)' = Running(t) BY DEF Running
    <2>2. TaskFits(t) BY DEF IInv
    <2> HIDE DEF r
    <2>3. QED BY <1>2, <1>4, <2>1, <2>2 DEF TaskFits, Signed
  <1> HIDE DEF r
  <1>6. QED BY <1>2, <1>3, <1>5, OneTaskOnly

LEMMA ApprovingKeeps ==
  ASSUME IInv, NEW t \in 1..Len(tasks), NEW c \in Users, ApproveTask(t, c),
         UNCHANGED <<appVars, books, past>>
  PROVE  IInv'
  <1> DEFINE r == [tasks[t] EXCEPT !.status = "APPROVED", !.checker = c]
  <1>1. tasks[t] \in Task BY TaskTyped
  <1>2. r \in Task /\ r.maker = tasks[t].maker /\ r.checker = c
        /\ r.done = tasks[t].done /\ r.status = "APPROVED"
    BY <1>1 DEF Task, TaskStatuses
  <1>3. tasks' = [tasks EXCEPT ![t] = r] /\ UNCHANGED <<ops, started, replies>>
        /\ tasks[t].maker # c /\ tasks[t].status = "PENDING_CHECKER"
    BY DEF ApproveTask
  <1>4. tasks'[t] = r BY <1>2, <1>3, TaskSet DEF IInv, TypeOK
  <1>5. TaskFits(t)'
    <2>1. Running(t)' = Running(t) BY <1>3 DEF Running
    <2>2. TaskFits(t) BY DEF IInv
    <2>3. c # Nobody BY ControlAssumption
    <2> HIDE DEF r
    <2>4. QED BY <1>2, <1>3, <1>4, <2>1, <2>2, <2>3 DEF TaskFits, Signed
  <1> HIDE DEF r
  <1>6. QED BY <1>2, <1>3, <1>5, OneTaskOnly

LEMMA ExecutingKeeps ==
  ASSUME IInv, NEW t \in 1..Len(tasks), NEW key \in Keys \cup {NoKey},
         ExecuteTask(t, key), UNCHANGED <<appVars, books, past>>
  PROVE  IInv'
  <1> DEFINE r == [tasks[t] EXCEPT !.status = "EXECUTING"]
             op == [kind |-> "task", task |-> t, key |-> key]
  <1>1. tasks[t] \in Task /\ TaskFits(t) /\ Len(tasks) <= MaxTasks /\ Len(tasks) \in Nat
    BY TaskTyped DEF IInv, TypeOK
  <1>2. r \in Task /\ r.maker = tasks[t].maker /\ r.checker = tasks[t].checker
        /\ r.done = tasks[t].done /\ r.status = "EXECUTING"
    BY <1>1 DEF Task, TaskStatuses
  <1>3. tasks' = [tasks EXCEPT ![t] = r] /\ replies' = replies /\ Start(op)
        /\ tasks[t].status = "APPROVED"
    BY DEF ExecuteTask, SetStatus
  <1>4. op \in Op
    <2>1. t \in 1..MaxTasks BY <1>1, ControlAssumption
    <2>2. op \in Execution BY <2>1 DEF Execution
    <2>3. QED BY <2>2 DEF Op
  <1>5. op.kind = "task" /\ op.task = t OBVIOUS
  <1>6. tasks'[t] = r /\ Len(tasks') = Len(tasks) /\ tasks' \in Seq(Task)
    BY <1>1, <1>2, <1>3, TaskSet DEF IInv, TypeOK
  <1> HIDE DEF r, op
  <1>7. /\ started' \in 0..MaxOps /\ ops' \in [Slots -> Op] /\ FreeSlots'
        /\ started + 1 \in Slots /\ ops[started + 1] = NoOp
        /\ ops'[started + 1] = op
        /\ \A i \in Slots \ {started + 1} : ops'[i] = ops[i]
    BY <1>3, <1>4, Started
  <1>8. RestTyped' BY <1>1, <1>3, <1>6, Rest DEF RestTyped, appVars
  <1>9. Running(t) = {} BY <1>1, <1>3 DEF TaskFits
  <1>10. Running(t)' = {started + 1}
    BY <1>5, <1>7, <1>9 DEF Running
  <1>11. \A u \in (1..Len(tasks)) \ {t} : Running(u)' = Running(u)
    BY <1>5, <1>7, NoOpTyped DEF Running
  <1>12. tasks[t].done = 0
    BY <1>1, <1>3 DEF TaskFits, Task
  <1>13. TaskFits(t)'
    BY <1>1, <1>2, <1>3, <1>6, <1>10, <1>12 DEF TaskFits, Signed
  <1>14. \A i \in Slots : \/ ops'[i] = ops[i] \/ ops'[i].kind = "none"
                          \/ SlotFits(i)' /\ WaitsAt(i)'
    <2> TAKE i \in Slots
    <2>1. CASE i = started + 1
      <3>1. ops'[i].kind = "task" /\ ops'[i].task \in 1..Len(tasks')
        BY <1>5, <1>6, <1>7, <2>1
      <3>2. QED BY <3>1 DEF SlotFits, WaitsAt
    <2>2. CASE i # started + 1 BY <1>7, <2>2
    <2>3. QED BY <2>1, <2>2
  <1>15. QED BY <1>2, <1>3, <1>7, <1>8, <1>11, <1>13, <1>14, OneTask

\* An execution ends: nothing runs the task any more.
LEMMA FinishingKeeps ==
  ASSUME IInv, NEW i \in Slots, TaskExecuted(i) \/ TaskFailed(i),
         UNCHANGED <<appVars, books, past>>
  PROVE  IInv'
  <1>1. ops[i].kind = "task" BY DEF TaskExecuted, TaskFailed
  <1>2. ops[i] \in Execution BY <1>1, OpsTyped, Kinds DEF IInv
  <1>3. PICK t \in 1..Len(tasks) : t = ops[i].task BY <1>1 DEF IInv, SlotFits
  <1> DEFINE executed == [tasks[t] EXCEPT !.status = "EXECUTED", !.done = 1]
             failed == [tasks[t] EXCEPT !.status = "APPROVED"]
  <1>4. tasks[t] \in Task /\ TaskFits(t) /\ Len(tasks) <= MaxTasks /\ tasks \in Seq(Task)
    BY <1>3, TaskTyped DEF IInv, TypeOK
  <1>5. i \in Running(t) BY <1>1, <1>3 DEF Running
  <1>6. tasks[t].done = 0 /\ Signed(t) /\ \A j \in Running(t) : j = i
    BY <1>4, <1>5 DEF TaskFits
  <1>7. End(i) BY DEF TaskExecuted, TaskFailed
  <1>8. /\ started' \in 0..MaxOps /\ ops' \in [Slots -> Op] /\ FreeSlots'
        /\ ops'[i] = NoOp /\ \A j \in Slots \ {i} : ops'[j] = ops[j]
    BY <1>1, <1>7, NoOpTyped, Continued DEF End
  <1>9. Running(t)' = {} BY <1>6, <1>8, NoOpTyped DEF Running
  <1>10. \A u \in (1..Len(tasks)) \ {t} : Running(u)' = Running(u)
    BY <1>3, <1>8, NoOpTyped DEF Running
  <1>11. \A j \in Slots : ops'[j] = ops[j] \/ ops'[j].kind = "none"
    BY <1>8, NoOpTyped
  <1>12. replies' \subseteq Keys
    <2>1. ops[i].key \in Keys \cup {NoKey} BY <1>2 DEF Execution
    <2>2. replies \subseteq Keys BY Rest DEF RestTyped
    <2>3. QED BY <2>1, <2>2 DEF TaskExecuted, TaskFailed
  <1>13. ASSUME NEW r \in Task, tasks' = [tasks EXCEPT ![t] = r], r.maker = tasks[t].maker,
                r.checker = tasks[t].checker, r.status # "PENDING_CHECKER",
                r.status \in {"APPROVED", "EXECUTED"},
                r.done \in {0, 1}, r.done = 1 => r.status = "EXECUTED"
         PROVE  IInv'
    <2>1. tasks'[t] = r /\ tasks' \in Seq(Task) /\ Len(tasks') <= MaxTasks
      BY <1>3, <1>4, <1>13, TaskSet
    <2>2. RestTyped' BY <1>12, <2>1, Rest DEF RestTyped, appVars
    <2>3. TaskFits(t)' BY <1>6, <1>9, <1>13, <2>1 DEF TaskFits, Signed
    <2>4. QED BY <1>3, <1>8, <1>10, <1>11, <1>13, <2>2, <2>3, OneTask
  <1>14. CASE TaskExecuted(i)
    <2>1. tasks' = [tasks EXCEPT ![t] = executed]
      <3>1. tasks[t].done + 1 = 1 BY <1>6
      <3>2. QED BY <1>3, <1>4, <1>14, <3>1 DEF TaskExecuted
    <2>2. executed \in Task /\ executed.maker = tasks[t].maker
          /\ executed.checker = tasks[t].checker /\ executed.status = "EXECUTED"
          /\ executed.done = 1
      BY <1>4 DEF Task, TaskStatuses
    <2> HIDE DEF executed, failed
    <2>3. executed.status # "PENDING_CHECKER" BY <2>2
    <2>4. QED BY <1>13, <2>1, <2>2, <2>3
  <1>15. CASE TaskFailed(i)
    <2>1. tasks' = [tasks EXCEPT ![t] = failed]
      BY <1>3, <1>4, <1>15 DEF TaskFailed, SetStatus
    <2>2. failed \in Task /\ failed.maker = tasks[t].maker
          /\ failed.checker = tasks[t].checker /\ failed.status = "APPROVED"
          /\ failed.done = 0
      BY <1>4, <1>6 DEF Task, TaskStatuses
    <2> HIDE DEF executed, failed
    <2>3. failed.status # "PENDING_CHECKER" /\ (failed.done = 1 => failed.status = "EXECUTED")
      BY <2>2
    <2>4. QED BY <1>13, <2>1, <2>2, <2>3
  <1>16. QED BY <1>14, <1>15

LEMMA ControlKeeps ==
  ASSUME IInv, Control PROVE IInv'
  <1>1. UNCHANGED <<appVars, books, past>> BY DEF Control
  <1>2. ASSUME NEW t \in 1..Len(tasks), NEW c \in Users, ApproveExpiredTask(t, c) \/ RejectTask(t, c)
        PROVE  IInv'
    BY <1>1, <1>2, ClosingKeeps DEF ApproveExpiredTask, RejectTask
  <1>3. ASSUME NEW t \in 1..Len(tasks), NEW key \in Keys \cup {NoKey}, ExecuteExpiredTask(t, key)
        PROVE  IInv'
    BY <1>1, <1>3, ClosingKeeps DEF ExecuteExpiredTask
  <1>4. QED
    BY <1>1, <1>2, <1>3, ProposingKeeps, ApprovingKeeps, ExecutingKeeps, FinishingKeeps
    DEF Control, FinancialControlNext

\* The release sends its payout: it carries the first task from now on.
LEMMA SendingKeeps ==
  ASSUME IInv, NEW i \in Slots, SendPayout(i) PROVE IInv'
  <1> DEFINE op == [ops[i] EXCEPT !.phase = "sent", !.task = FirstTask]
             signed == [tasks[1] EXCEPT !.status = "APPROVED", !.checker = ops[i].actor]
             r == IF PendingTask /\ ops[i].actor \in Supervisors THEN signed ELSE tasks[1]
  <1>1. ops[i].kind = "disburse" BY DEF SendPayout, Phase
  <1>2. ops[i] \in Release BY <1>1, OpsTyped, Kinds DEF IInv
  <1>3. /\ tasks \in Seq(Task) /\ Len(tasks) \in Nat /\ Len(tasks) <= MaxTasks
        /\ replies' = replies /\ UNCHANGED <<appVars, books, past>>
    BY DEF IInv, TypeOK, SendPayout
  <1>4. FirstTask \in 0..Len(tasks)
    <2>1. tasks # <<>> => Len(tasks) # 0 BY <1>3
    <2>2. QED BY <1>3, <2>1 DEF FirstTask
  <1>5. /\ op \in Release /\ op.kind = "disburse" /\ op.actor = ops[i].actor
        /\ op.phase = "sent" /\ op.task = FirstTask
    <2>1. FirstTask \in 0..MaxTasks BY <1>3, <1>4, ControlAssumption
    <2>2. QED BY <1>1, <1>2, <2>1 DEF Release
  <1>6. Continue(i, op) BY DEF SendPayout
  <1> HIDE DEF op
  <1>7. /\ started' \in 0..MaxOps /\ ops' \in [Slots -> Op] /\ FreeSlots'
        /\ ops'[i] = op /\ \A j \in Slots \ {i} : ops'[j] = ops[j]
    <2>1. op \in Op /\ ops[i].kind # "none" BY <1>1, <1>5 DEF Op
    <2>2. QED BY <1>6, <2>1, Continued
  <1>8. \A u : Running(u)' = Running(u) BY <1>1, <1>5, <1>7 DEF Running
  <1>9. CASE tasks = <<>>
    <2>1. FirstTask = 0 /\ tasks' = tasks /\ Len(tasks) = 0
      BY <1>9 DEF SendPayout, FirstTask, PendingTask
    <2>2. TypeOK'
      <3>1. RestTyped' BY <1>3, <2>1, Rest DEF RestTyped, appVars
      <3>2. QED BY <1>7, <3>1, TypedNext
    <2>3. ASSUME NEW j \in Slots PROVE SlotFits(j)' /\ (ops'[j].kind = "disburse" => ops'[j].task = 0)
      <3>1. SlotFits(j) BY DEF IInv
      <3>2. CASE j = i BY <1>5, <1>7, <2>1, <3>2 DEF SlotFits
      <3>3. CASE j # i BY <1>7, <2>1, <3>1, <3>3 DEF SlotFits
      <3>4. QED BY <3>2, <3>3
    <2>4. MakerWaits' BY <2>3 DEF MakerWaits, OfKind
    <2>5. QED BY <1>7, <2>1, <2>2, <2>3, <2>4 DEF IInv
  <1>10. CASE tasks # <<>>
    <2>1. FirstTask = 1 /\ 1 \in 1..Len(tasks)
      <3>1. Len(tasks) # 0 BY <1>3, <1>10
      <3>2. QED BY <1>3, <1>10, <3>1 DEF FirstTask
    <2>2. tasks[1] \in Task /\ TaskFits(1) BY <2>1, TaskTyped DEF IInv
    <2>3. ops[i].actor \in Users /\ ops[i].actor # Nobody
      BY <1>2, ControlAssumption DEF Release
    <2>4. /\ signed \in Task /\ signed.maker = tasks[1].maker /\ signed.status = "APPROVED"
          /\ signed.checker = ops[i].actor /\ signed.done = tasks[1].done
      BY <2>2, <2>3 DEF Task, TaskStatuses
    <2>5. tasks' = [tasks EXCEPT ![1] = r]
      <3>1. CASE PendingTask /\ ops[i].actor \in Supervisors
        <4>1. tasks' = [tasks EXCEPT ![1].status = "APPROVED", ![1].checker = ops[i].actor]
          BY <3>1 DEF SendPayout
        <4>2. QED BY <1>3, <2>1, <3>1, <4>1
      <3>2. CASE ~(PendingTask /\ ops[i].actor \in Supervisors)
        <4>1. tasks' = tasks BY <3>2 DEF SendPayout
        <4>2. QED BY <1>3, <2>1, <3>2, <4>1
      <3>3. QED BY <3>1, <3>2
    <2>6. PendingTask <=> tasks[1].status = "PENDING_CHECKER" BY <2>1 DEF PendingTask
    <2>7. ~(PendingTask /\ tasks[1].maker = ops[i].actor) BY DEF SendPayout
    <2> HIDE DEF signed
    <2>8. /\ r \in Task /\ r.maker = tasks[1].maker /\ r.done = tasks[1].done
          /\ \/ r = tasks[1]
             \/ r = signed /\ tasks[1].status = "PENDING_CHECKER"
          /\ r.status = "PENDING_CHECKER" => tasks[1].status = "PENDING_CHECKER"
          /\ r.status = "PENDING_CHECKER" => r.maker # ops[i].actor
      BY <2>2, <2>4, <2>6, <2>7
    <2> HIDE DEF r
    <2>9. tasks'[1] = r /\ Len(tasks') = Len(tasks) /\ tasks' \in Seq(Task)
      BY <1>3, <2>1, <2>5, <2>8, TaskSet
    <2>10. RestTyped' BY <1>3, <2>9, Rest DEF RestTyped, appVars
    <2>11. TaskFits(1)'
      <3>1. CASE r = tasks[1] BY <1>8, <2>2, <2>9, <3>1 DEF TaskFits, Signed
      <3>2. CASE r = signed /\ tasks[1].status = "PENDING_CHECKER"
        <4>1. r.checker # Nobody /\ r.checker # r.maker /\ r.status = "APPROVED"
          BY <2>3, <2>4, <2>6, <2>7, <3>2
        <4>2. Running(1) = {} /\ tasks[1].done <= 1 /\ tasks[1].done # 1
          BY <2>2, <3>2 DEF TaskFits
        <4>3. QED BY <1>8, <2>8, <2>9, <4>1, <4>2 DEF TaskFits, Signed
      <3>3. QED BY <2>8, <3>1, <3>2
    <2>12. \A j \in Slots : \/ ops'[j] = ops[j] \/ ops'[j].kind = "none"
                            \/ SlotFits(j)' /\ WaitsAt(j)'
      <3> TAKE j \in Slots
      <3>1. CASE j = i
        <4>1. /\ ops'[j].kind = "disburse" /\ ops'[j].actor = ops[i].actor
              /\ ops'[j].task = 1
          BY <1>5, <1>7, <2>1, <3>1
        <4>2. QED BY <2>1, <2>8, <2>9, <4>1 DEF SlotFits, WaitsAt
      <3>2. CASE j # i BY <1>7, <3>2
      <3>3. QED BY <3>1, <3>2
    <2>13. QED BY <1>7, <1>8, <2>1, <2>5, <2>8, <2>10, <2>11, <2>12, OneTask
  <1>11. QED BY <1>9, <1>10

\* The loan is booked and the release's task marked EXECUTED, whatever it was.
LEMMA BookingKeeps ==
  ASSUME IInv, NEW i \in Slots, BookLoan(i) PROVE IInv'
  <1>1. ops[i].kind = "disburse" /\ ops[i] \in Release
    <2>1. ops[i].kind = "disburse" BY DEF BookLoan, Phase
    <2>2. QED BY <2>1, OpsTyped, Kinds DEF IInv
  <1>2. End(i) /\ UNCHANGED <<replies, offer, approving, past>> BY DEF BookLoan
  <1>3. /\ started' \in 0..MaxOps /\ ops' \in [Slots -> Op] /\ FreeSlots'
        /\ ops'[i] = NoOp /\ \A j \in Slots \ {i} : ops'[j] = ops[j]
    <2>1. ops[i].kind # "none" BY <1>1
    <2>2. QED BY <1>2, <2>1, NoOpTyped, Continued DEF End
  <1>4. RestTyped BY Rest
  <1>5. app' \in [status : Statuses, stage : Stages, loan : BOOLEAN, decision : Decisions]
    <2>1. "DISBURSED" \in Statuses BY StatusesAre
    <2>2. QED BY <1>4, <2>1 DEF BookLoan, RestTyped
  <1>6. books' \in [payouts : Nat, direct : Nat, journals : Nat]
    BY <1>4 DEF BookLoan, RestTyped
  <1>7. CASE ops[i].task = 0
    <2>1. tasks' = tasks BY <1>7 DEF BookLoan
    <2>2. RestTyped' BY <1>2, <1>4, <1>5, <1>6, <2>1 DEF RestTyped
    <2>3. ops[i].kind \notin {"none", "task"} BY <1>1
    <2>4. QED BY <1>2, <2>1, <2>2, <2>3, EndQuiet
  <1>8. CASE ops[i].task # 0
    <2>1. Len(tasks) \in Nat /\ Len(tasks) <= MaxTasks /\ tasks \in Seq(Task) /\ SlotFits(i)
      BY DEF IInv, TypeOK
    <2>2. PICK t \in 1..Len(tasks) : t = ops[i].task BY <1>1, <1>8, <2>1 DEF SlotFits
    <2>3. tasks[t] \in Task /\ TaskFits(t) BY TaskTyped DEF IInv
    <2> DEFINE r == [tasks[t] EXCEPT !.status = "EXECUTED"]
    <2>4. /\ r \in Task /\ r.maker = tasks[t].maker /\ r.status = "EXECUTED"
          /\ r.checker = tasks[t].checker /\ r.done = tasks[t].done
      BY <2>3 DEF Task, TaskStatuses
    <2>5. tasks' = [tasks EXCEPT ![t] = r] BY <1>8, <2>1, <2>2 DEF BookLoan
    <2> HIDE DEF r
    <2>6. tasks'[t] = r /\ tasks' \in Seq(Task) /\ Len(tasks') <= MaxTasks
      BY <2>1, <2>4, <2>5, TaskSet
    <2>7. RestTyped' BY <1>2, <1>4, <1>5, <1>6, <2>6 DEF RestTyped
    <2>8. \A u : Running(u)' = Running(u) BY <1>1, <1>3, NoOpTyped DEF Running
    <2>9. TaskFits(t)' BY <2>3, <2>4, <2>6, <2>8 DEF TaskFits, Signed
    <2>10. \A j \in Slots : ops'[j] = ops[j] \/ ops'[j].kind = "none"
      BY <1>3, NoOpTyped
    <2>11. r.status = "PENDING_CHECKER" => tasks[t].status = "PENDING_CHECKER" BY <2>4
    <2>12. QED BY <1>3, <2>4, <2>5, <2>7, <2>8, <2>9, <2>10, <2>11, OneTask
  <1>9. QED BY <1>7, <1>8

LEMMA RestartKeeps ==
  ASSUME IInv, Restart PROVE IInv'
  <1>1. started' \in 0..MaxOps /\ ops' = [i \in Slots |-> NoOp]
    BY MaxOpsAssumption DEF IInv, TypeOK, Restart, LoseAll, Count
  <1>2. ops' \in [Slots -> Op] /\ FreeSlots' /\ \A i \in Slots : ops'[i].kind = "none"
    BY <1>1, NoOpTyped DEF FreeSlots
  <1>3. tasks' = <<>> BY DEF Restart
  <1>4. tasks' \in Seq(Task) /\ Len(tasks') = 0 /\ Len(tasks') <= MaxTasks
    BY <1>3, ControlAssumption
  <1>5. RestTyped'
    BY <1>4, Rest DEF RestTyped, Restart, OfferStatuses
  <1>6. TypeOK' BY <1>1, <1>2, <1>5, TypedNext
  <1>7. \A i \in Slots : SlotFits(i)' BY <1>2 DEF SlotFits
  <1>8. MakerWaits' BY <1>2 DEF MakerWaits, OfKind
  <1>9. QED BY <1>2, <1>4, <1>6, <1>7, <1>8 DEF IInv

LEMMA InitEstablishes == Init => IInv
  <1> SUFFICES ASSUME Init PROVE IInv
    OBVIOUS
  <1>1. ops = [i \in Slots |-> NoOp] /\ started = 0 /\ tasks = <<>> BY DEF Init
  <1>2. ops \in [Slots -> Op] /\ FreeSlots /\ \A i \in Slots : ops[i].kind = "none"
    BY <1>1, NoOpTyped DEF FreeSlots
  <1>3. tasks \in Seq(Task) /\ Len(tasks) = 0 /\ Len(tasks) <= MaxTasks
    BY <1>1, ControlAssumption
  <1>4. app \in [status : Statuses, stage : Stages, loan : BOOLEAN, decision : Decisions]
    <2>1. /\ "READY_FOR_DISBURSEMENT" \in Statuses /\ "DISBURSEMENT" \in Stages
          /\ OffGraph \in Stages /\ "APPROVE" \in Decisions
      BY StatusesAre, StagesAre DEF Decisions, Stages
    <2>2. QED BY <2>1 DEF Init
  <1>5. RestTyped
    BY <1>3, <1>4 DEF Init, RestTyped, OfferStatuses
  <1>6. TypeOK
    <2>1. started \in 0..MaxOps BY <1>1, MaxOpsAssumption
    <2>2. QED BY <1>2, <1>5, <2>1, Typed
  <1>7. \A i \in Slots : SlotFits(i) BY <1>2 DEF SlotFits
  <1>8. MakerWaits BY <1>2 DEF MakerWaits, OfKind
  <1>9. QED BY <1>2, <1>3, <1>6, <1>7, <1>8 DEF IInv

LEMMA StepKeeps == IInv /\ [Next]_vars => IInv'
  <1> SUFFICES ASSUME IInv, [Next]_vars PROVE IInv'
    OBVIOUS
  <1>1. CASE UNCHANGED vars
    BY <1>1
    DEF vars, controlVars, appVars, IInv, TypeOK, FreeSlots, SlotFits, TaskFits, Running,
        Signed, MakerWaits, OfKind
  <1>2. CASE Next
    BY <1>2, ControlKeeps, StatusWritingKeeps, StartsKeep, ReleaseKeeps, SendingKeeps,
       BookingKeeps, OthersKeep, RestartKeeps
    DEF Next
  <1>3. QED BY <1>1, <1>2

\* What the theorems below rest on holds at every step of Disbursement: types,
\* numbers not started are free, tasks agree with the executions in flight for
\* them (the EXECUTING mark of executeFinancialTask) and with the releases.
THEOREM Invariant == Spec => []IInv
  <1>1. Init => IInv BY InitEstablishes
  <1>2. IInv /\ [Next]_vars => IInv' BY StepKeeps
  <1>3. QED BY <1>1, <1>2, PTL DEF Spec

-----------------------------------------------------------------------------
(* The theorems.                                                           *)

\* The state has its types at every step, however the requests of
\* finance.service.ts, the tasks and the writers of the status interleave.
THEOREM TypeCorrect == Spec => []TypeOK
  <1>1. IInv => TypeOK BY DEF IInv
  <1>2. QED BY <1>1, Invariant, PTL

\* A task of financial-control.service.ts that may run or runs was signed by
\* somebody other than its maker, through any rejections, expiries, failures
\* and marks of the release.
THEOREM SignedByAnother == Spec => []ApprovedByAnother
  <1>1. IInv => ApprovedByAnother
    BY DEF IInv, TaskFits, Signed, ApprovedByAnother
  <1>2. QED BY <1>1, Invariant, PTL

\* executeFinancialTask runs a task's domain logic once at a time and succeeds
\* once, with any number of callers, keys and restarts.
THEOREM RunsOnce == Spec => []ExecutedOnce
  <1>1. IInv => ExecutedOnce
    <2> SUFFICES ASSUME IInv, NEW t \in 1..Len(tasks)
                 PROVE  LET running == {i \in OfKind("task") : ops[i].task = t} IN
                        /\ \A i, j \in running : i = j
                        /\ tasks[t].done <= 1
                        /\ running # {} => tasks[t].done = 0 /\ tasks[t].status # "APPROVED"
      BY DEF ExecutedOnce
    <2>1. Running(t) = {i \in OfKind("task") : ops[i].task = t} BY DEF Running, OfKind
    <2>2. QED BY <2>1 DEF IInv, TaskFits
  <1>2. QED BY <1>1, Invariant, PTL

\* Money never leaves on its maker's behalf under a task still pending, the
\* check of executeDisbursementWithControls at line 816.
THEOREM NoPayoutOfMaker == Spec => []MakerWaits
  <1>1. IInv => MakerWaits BY DEF IInv
  <1>2. QED BY <1>1, Invariant, PTL

LEMMA StatusWritten ==
  ASSUME IInv, Next, app'.status # app.status
  PROVE  app'.status = "DISBURSED" \/ \E i \in Slots : LandWrite(i)
  <1>1. app \in [status : Statuses, stage : Stages, loan : BOOLEAN, decision : Decisions]
    BY Rest DEF RestTyped
  <1>2. ASSUME NEW i \in Slots, BookLoan(i) \/ Convert(i) \/ MarkDisbursed(i)
        PROVE  app'.status = "DISBURSED"
    BY <1>1, <1>2 DEF BookLoan, Convert, MarkDisbursed
  <1>3. ASSUME NEW i \in Slots, CreateLoan(i) PROVE FALSE
    BY <1>1, <1>3 DEF CreateLoan
  <1>4. ASSUME VerifyClearance PROVE FALSE
    BY <1>1, <1>4 DEF VerifyClearance
  <1>5. CASE StatusWriting
    BY <1>4, <1>5
    DEF StatusWriting, ApplicationStatusNext, Transition, CommitDecision, TransitionStage,
        ForwardToFinance, GenerateOffer, AcceptOffer, DeclineOffer, OfferEnds,
        CompleteESign, OpenApproval, ActOnApproval, DelegateApproval, Orchestrate,
        WritingByStatus, WritingBlindly, WritingBy
  <1>6. CASE Control BY <1>6 DEF Control, appVars
  <1>7. ASSUME NEW i \in Slots,
               \/ PassGate(i) \/ EndBeforePayout(i) \/ SendPayout(i)
               \/ PayoutSucceeds(i) \/ PayoutDeclined(i) \/ PayoutUnanswered(i)
               \/ BookingFails(i) \/ PayLoan(i) \/ JournalPayout(i) \/ RequestFails(i)
               \/ \E success \in BOOLEAN : PayDirectLoan(i, success)
        PROVE  FALSE
    BY <1>7
    DEF PassGate, EndBeforePayout, SendPayout, PayoutSucceeds, PayoutDeclined,
        PayoutUnanswered, BookingFails, PayLoan, JournalPayout, RequestFails,
        PayDirectLoan, appVars
  <1>8. CASE \/ \E u \in Users : StartRelease(u)
             \/ \E kind \in {"convert", "lending", "mandate"} : StartOther(kind)
             \/ StartPayout \/ Restart
    BY <1>8 DEF StartRelease, StartOther, StartPayout, Restart, appVars
  <1>9. QED BY <1>2, <1>3, <1>5, <1>6, <1>7, <1>8 DEF Next

\* A disbursed application leaves DISBURSED only by the update of a writer
\* that did not look at the status or looked before the disbursement:
\* transition() and commitDecision() never take it back themselves.
THEOREM KeptDisbursed == Spec => DisbursedIsKept
  <1>1. IInv /\ [Next]_vars => [DisbursedKept]_vars
    <2> SUFFICES ASSUME IInv, Next, app.status = "DISBURSED", app'.status # "DISBURSED"
                 PROVE  \E i \in OfKind("write") :
                          /\ ops'[i] = NoOp
                          /\ ops[i].by = "status" => ops[i].seen # "DISBURSED"
      BY DEF DisbursedKept
    <2>1. PICK i \in Slots : LandWrite(i) BY StatusWritten
    <2>2. ops[i].kind = "write" /\ End(i) BY <2>1 DEF LandWrite
    <2>3. ops'[i] = NoOp
      <3>1. ops[i].kind # "none" BY <2>2
      <3>2. QED BY <2>2, <3>1, NoOpTyped, Continued DEF End
    <2>4. SlotFits(i) BY DEF IInv
    <2>5. QED BY <2>2, <2>3, <2>4 DEF SlotFits, OfKind
  <1>2. QED BY <1>1, Invariant, PTL DEF Spec, DisbursedIsKept

\* A rejected or expired task comes back to APPROVED only by the failure of an
\* execution that was running for it, never by a checker or by the release.
THEOREM RevivedByFailure == Spec => RevivalNeedsFailure
  <1>1. IInv /\ [Next]_vars => [RevivedOnlyByFailure]_vars
    <2> SUFFICES ASSUME IInv, Next, NEW t \in 1..Len(tasks), t <= Len(tasks'),
                        tasks[t].status \in {"REJECTED", "EXPIRED"},
                        tasks'[t].status = "APPROVED"
                 PROVE  \E i \in OfKind("task") : ops[i].task = t /\ ops'[i] = NoOp
      BY DEF RevivedOnlyByFailure
    <2>1. /\ tasks \in Seq(Task) /\ Len(tasks) \in Nat /\ tasks[t] \in Task
      BY TaskTyped DEF IInv, TypeOK
    <2>2. tasks' # tasks OBVIOUS
    <2>3. ASSUME NEW u \in Users, ProposeTask(u) PROVE FALSE
      BY <2>1, <2>3 DEF ProposeTask
    <2>4. ASSUME NEW u \in 1..Len(tasks), NEW c \in Users,
                 ApproveTask(u, c) \/ ApproveExpiredTask(u, c) \/ RejectTask(u, c)
          PROVE  FALSE
      <3>1. ASSUME ApproveTask(u, c) PROVE FALSE
        <4>1. u # t BY <3>1 DEF ApproveTask
        <4>2. tasks'[t] = tasks[t] BY <2>1, <3>1, <4>1 DEF ApproveTask
        <4>3. QED BY <4>2
      <3>2. ASSUME ApproveExpiredTask(u, c) \/ RejectTask(u, c) PROVE FALSE
        BY <2>1, <3>2 DEF ApproveExpiredTask, RejectTask, SetStatus, Task
      <3>3. QED BY <2>4, <3>1, <3>2
    <2>5. ASSUME NEW u \in 1..Len(tasks), NEW key \in Keys \cup {NoKey},
                 ExecuteTask(u, key) \/ ExecuteExpiredTask(u, key)
          PROVE  FALSE
      BY <2>1, <2>5 DEF ExecuteTask, ExecuteExpiredTask, SetStatus, Task
    <2>6. ASSUME NEW i \in Slots, TaskExecuted(i) PROVE FALSE
      <3>1. ops[i].task \in 1..Len(tasks) BY <2>6 DEF IInv, SlotFits, TaskExecuted
      <3>2. PICK u \in 1..Len(tasks) : u = ops[i].task BY <3>1
      <3>3. tasks[u] \in Task BY TaskTyped
      <3>4. tasks' = [tasks EXCEPT ![u] = [tasks[u] EXCEPT !.status = "EXECUTED",
                                                         !.done = tasks[u].done + 1]]
        BY <2>1, <2>6, <3>2 DEF TaskExecuted
      <3>5. QED BY <2>1, <3>3, <3>4 DEF Task
    <2>7. ASSUME NEW i \in Slots, TaskFailed(i)
          PROVE  \E j \in OfKind("task") : ops[j].task = t /\ ops'[j] = NoOp
      <3>1. ops[i].kind = "task" /\ End(i) BY <2>7 DEF TaskFailed
      <3>2. ops'[i] = NoOp
        <4>1. ops[i].kind # "none" BY <3>1
        <4>2. QED BY <3>1, <4>1, NoOpTyped, Continued DEF End
      <3>3. ops[i].task = t
        <4>1. ops[i].task \in 1..Len(tasks) BY <3>1 DEF IInv, SlotFits
        <4>2. QED BY <2>1, <2>7, <4>1 DEF TaskFailed, SetStatus, Task
      <3>4. QED BY <3>1, <3>2, <3>3 DEF OfKind
    <2>8. ASSUME NEW i \in Slots, SendPayout(i) PROVE FALSE
      <3>1. PendingTask BY <2>2, <2>8 DEF SendPayout
      <3>2. tasks[1].status = "PENDING_CHECKER" /\ t # 1 BY <3>1 DEF PendingTask
      <3>3. QED BY <2>1, <2>8, <3>2 DEF SendPayout
    <2>9. ASSUME NEW i \in Slots, BookLoan(i) PROVE FALSE
      <3>1. ops[i].kind = "disburse" /\ ops[i].task # 0
        BY <2>2, <2>9 DEF BookLoan, Phase
      <3>2. ops[i].task \in 1..Len(tasks) BY <2>1, <3>1 DEF IInv, SlotFits
      <3>3. PICK u \in 1..Len(tasks) : u = ops[i].task BY <3>2
      <3>4. tasks[u] \in Task BY TaskTyped
      <3>5. tasks' = [tasks EXCEPT ![u] = [tasks[u] EXCEPT !.status = "EXECUTED"]]
        BY <2>1, <2>9, <3>1, <3>3 DEF BookLoan
      <3>6. QED BY <2>1, <3>4, <3>5 DEF Task
    <2>10. ASSUME Restart PROVE FALSE
      <3>1. tasks' = <<>> BY <2>10 DEF Restart
      <3>2. QED BY <2>1, <3>1
    <2>11. CASE Control
      BY <2>3, <2>4, <2>5, <2>6, <2>7, <2>11 DEF Control, FinancialControlNext
    <2>12. CASE StatusWriting BY <2>2, <2>12 DEF StatusWriting, controlVars
    <2>13. ASSUME NEW i \in Slots,
                  \/ PassGate(i) \/ EndBeforePayout(i)
                  \/ PayoutSucceeds(i) \/ PayoutDeclined(i) \/ PayoutUnanswered(i)
                  \/ BookingFails(i) \/ Convert(i) \/ CreateLoan(i) \/ MarkDisbursed(i)
                  \/ \E success \in BOOLEAN : PayDirectLoan(i, success)
                  \/ PayLoan(i) \/ JournalPayout(i) \/ RequestFails(i)
           PROVE  FALSE
      BY <2>2, <2>13
      DEF PassGate, EndBeforePayout, PayoutSucceeds, PayoutDeclined, PayoutUnanswered,
          BookingFails, Convert, CreateLoan, MarkDisbursed, PayDirectLoan, PayLoan,
          JournalPayout, RequestFails, controlVars
    <2>14. CASE \/ \E u \in Users : StartRelease(u)
                \/ \E kind \in {"convert", "lending", "mandate"} : StartOther(kind)
                \/ StartPayout
      BY <2>2, <2>14 DEF StartRelease, StartOther, StartPayout, controlVars
    <2>15. QED
      BY <2>8, <2>9, <2>10, <2>11, <2>12, <2>13, <2>14 DEF Next
  <1>2. QED BY <1>1, Invariant, PTL DEF Spec, RevivalNeedsFailure


-----------------------------------------------------------------------------
(* The borrower is paid once.                                               *)

Undisturbed == ~past.overlap /\ ~past.reopened /\ ~past.unfinished

Makers == {i \in Slots : ops[i].kind \in LoanMakers}

\* The loan is there and the application says so: no release passes its look
\* at DISBURSED, no direct lending finds its READY_FOR_DISBURSEMENT.
Booked == app.loan /\ app.status = "DISBURSED"

\* A request whose payout is behind it.
PayingNow(i) == ops[i].kind \in {"disburse", "lending"} /\ ops[i].phase = "paid"

\* Once money left, either the loan is booked or the request that sent it is
\* about to book it, and every other request that could send more has looked
\* at the booked application.
AfterPayment ==
  /\ Booked \/ \E i \in Slots : PayingNow(i)
  /\ \A i \in Slots :
       /\ ops[i].kind = "lending" => ops[i].phase = "paid"
       /\ ops[i].kind = "disburse" =>
            ops[i].phase = "paid" \/ (ops[i].phase = "read" /\ ops[i].disbursed)

\* Direct lending creates the loan before it pays.
LentIsMade ==
  \A i \in Slots :
    ops[i].kind = "lending" /\ ops[i].phase \in {"created", "paid"} => app.loan

PaidInv ==
  /\ LentIsMade
  /\ Undisturbed =>
       /\ \A i, j \in Makers : i = j
       /\ books.payouts \in {0, 1}
       /\ books.payouts = 1 => AfterPayment

\* One slot is all a request changes, and a number not handed out is free.
LEMMA SlotMoves ==
  ASSUME IInv, NEW i \in Slots, NEW op, Continue(i, op)
  PROVE  ops'[i] = op /\ \A j \in Slots \ {i} : ops'[j] = ops[j]
  <1>1. ops \in [Slots -> Op] BY OpsTyped DEF IInv
  <1>2. QED BY <1>1 DEF Continue

LEMMA SlotFills ==
  ASSUME IInv, NEW op, Start(op)
  PROVE  /\ started + 1 \in Slots /\ ops[started + 1].kind = "none"
         /\ ops'[started + 1] = op
         /\ \A j \in Slots \ {started + 1} : ops'[j] = ops[j]
  <1>1. started \in 0..MaxOps /\ started < MaxOps BY DEF IInv, TypeOK, Start, Count
  <1>2. started + 1 \in Slots BY <1>1, MaxOpsAssumption DEF Slots
  <1>3. ops[started + 1] = NoOp BY <1>1, <1>2 DEF IInv, FreeSlots
  <1>4. ops \in [Slots -> Op] BY OpsTyped DEF IInv
  <1>5. QED BY <1>2, <1>3, <1>4, NoOpTyped DEF Start

MoneyKinds == LoanMakers \cup {"payout"}

\* Tasks, offers, approvals and the writers of the status touch no request
\* that moves money and no books; the loan stays, and a writer that takes a
\* booked application out of DISBURSED is remembered.
LEMMA QuietMoney ==
  ASSUME IInv, Control \/ StatusWriting
  PROVE  /\ \A i \in Slots : \/ ops'[i] = ops[i]
                             \/ ops[i].kind \notin MoneyKinds /\ ops'[i].kind \notin MoneyKinds
         /\ books' = books /\ app'.loan = app.loan
         /\ past'.overlap = past.overlap /\ past'.unfinished = past.unfinished
         /\ past.reopened => past'.reopened
         /\ Booked => Booked' \/ past'.reopened
  <1>1. /\ app \in [status : Statuses, stage : Stages, loan : BOOLEAN, decision : Decisions]
        /\ past \in [overlap : BOOLEAN, reopened : BOOLEAN, unfinished : BOOLEAN]
    BY Rest DEF RestTyped
  <1>2. ASSUME NEW op, op.kind \in {"task", "write"}, Start(op)
        PROVE  \A i \in Slots : \/ ops'[i] = ops[i]
                                \/ ops[i].kind \notin MoneyKinds /\ ops'[i].kind \notin MoneyKinds
    BY <1>2, SlotFills DEF MoneyKinds, LoanMakers
  <1>3. ASSUME NEW i \in Slots, ops[i].kind \in {"task", "write"}, End(i)
        PROVE  \A j \in Slots : \/ ops'[j] = ops[j]
                                \/ ops[j].kind \notin MoneyKinds /\ ops'[j].kind \notin MoneyKinds
    BY <1>3, SlotMoves, NoOpTyped DEF End, MoneyKinds, LoanMakers
  <1>4. CASE Control
    <2>1. UNCHANGED <<app, books, past>> BY <1>4 DEF Control, appVars
    <2>2. \/ UNCHANGED ops
          \/ \E op : op.kind = "task" /\ Start(op)
          \/ \E i \in Slots : ops[i].kind = "task" /\ End(i)
      <3>1. ASSUME NEW t \in 1..Len(tasks), NEW key \in Keys \cup {NoKey}, ExecuteTask(t, key)
            PROVE  \E op : op.kind = "task" /\ Start(op)
        <4>1. Start([kind |-> "task", task |-> t, key |-> key]) BY <3>1 DEF ExecuteTask
        <4>2. [kind |-> "task", task |-> t, key |-> key].kind = "task" OBVIOUS
        <4>3. QED BY <4>1, <4>2
      <3>2. QED
        BY <1>4, <3>1
        DEF Control, FinancialControlNext, ProposeTask, ApproveTask, ApproveExpiredTask,
            RejectTask, ExecuteExpiredTask, TaskExecuted, TaskFailed
    <2>3. QED BY <1>2, <1>3, <2>1, <2>2 DEF Booked
  <1>5. CASE StatusWriting
    <2>1. books' = books /\ ApplicationStatusNext BY <1>5 DEF StatusWriting
    <2>2. /\ past'.overlap = past.overlap /\ past'.unfinished = past.unfinished
          /\ past'.reopened = (past.reopened \/ (app.loan /\ app.status = "DISBURSED"
                                                   /\ app'.status # "DISBURSED"))
      BY <1>1, <1>5 DEF StatusWriting
    <2>3. ASSUME NEW by, NEW seen, NEW status, NEW stage, NEW decision,
                 WritingBy(by, seen, status, stage, decision)
          PROVE  app' = app /\ \E op : op.kind = "write" /\ Start(op)
      <3>1. Start([kind |-> "write", by |-> by, seen |-> seen, status |-> status,
                   stage |-> stage, decision |-> decision]) /\ app' = app
        BY <2>3 DEF WritingBy
      <3>2. [kind |-> "write", by |-> by, seen |-> seen, status |-> status,
             stage |-> stage, decision |-> decision].kind = "write"
        OBVIOUS
      <3>3. QED BY <3>1, <3>2
    <2>4. /\ app'.loan = app.loan
          /\ \/ UNCHANGED ops
             \/ \E op : op.kind = "write" /\ Start(op)
             \/ \E i \in Slots : ops[i].kind = "write" /\ End(i)
      <3>1. ASSUME \E by, seen, status, stage, decision :
                     WritingBy(by, seen, status, stage, decision)
            PROVE  app'.loan = app.loan /\ \E op : op.kind = "write" /\ Start(op)
        BY <2>3, <3>1
      <3>2. ASSUME VerifyClearance PROVE app'.loan = app.loan /\ UNCHANGED ops
        BY <1>1, <3>2 DEF VerifyClearance
      <3>3. ASSUME OfferEnds \/ OpenApproval \/ DelegateApproval
            PROVE  app'.loan = app.loan /\ UNCHANGED ops
        BY <3>3 DEF OfferEnds, OpenApproval, DelegateApproval
      <3>4. ASSUME NEW i \in Slots, LandWrite(i)
            PROVE  app'.loan = app.loan /\ ops[i].kind = "write" /\ End(i)
        BY <1>1, <3>4 DEF LandWrite
      <3>5. QED
        BY <2>1, <3>1, <3>2, <3>3, <3>4
        DEF ApplicationStatusNext, Transition, CommitDecision, TransitionStage,
            ForwardToFinance, GenerateOffer, AcceptOffer, DeclineOffer, CompleteESign,
            ActOnApproval, Orchestrate, WritingByStatus, WritingBlindly
    <2>5. \A i \in Slots : \/ ops'[i] = ops[i]
                           \/ ops[i].kind \notin MoneyKinds /\ ops'[i].kind \notin MoneyKinds
      BY <1>2, <1>3, <2>4
    <2>6. QED BY <2>1, <2>2, <2>4, <2>5 DEF Booked
  <1>6. QED BY <1>4, <1>5

\* Makers of the loan, before and after: no slot becomes one but by a start.
LEMMA MakerEnds ==
  ASSUME IInv, NEW i \in Slots, End(i)
  PROVE  Makers' \subseteq Makers \ {i}
  <1>1. ops'[i] = NoOp /\ \A j \in Slots \ {i} : ops'[j] = ops[j]
    BY SlotMoves DEF End
  <1>2. QED BY <1>1, NoOpTyped DEF Makers, LoanMakers

LEMMA MakerMoves ==
  ASSUME IInv, NEW i \in Slots, NEW op, op.kind = ops[i].kind, Continue(i, op)
  PROVE  Makers' = Makers
  <1>1. ops'[i] = op /\ \A j \in Slots \ {i} : ops'[j] = ops[j]
    BY SlotMoves
  <1>2. QED BY <1>1 DEF Makers

\* A request ends: if its payout is behind it, it has booked the loan or its
\* end is remembered.
LEMMA EndPaid ==
  ASSUME IInv, PaidInv, NEW i \in Slots, End(i),
         app.loan => app'.loan,
         Undisturbed' => /\ Undisturbed
                         /\ books'.payouts = books.payouts
                         /\ Booked => Booked'
                         /\ PayingNow(i) => Booked'
  PROVE  PaidInv'
  <1>1. ops'[i].kind = "none" /\ \A j \in Slots \ {i} : ops'[j] = ops[j]
    BY SlotMoves, NoOpTyped DEF End
  <1>2. LentIsMade' BY <1>1 DEF PaidInv, LentIsMade
  <1>3. ASSUME Undisturbed'
        PROVE  /\ \A j, k \in Makers' : j = k
               /\ books'.payouts \in {0, 1}
               /\ books'.payouts = 1 => AfterPayment'
    <2>1. /\ \A j, k \in Makers : j = k
          /\ books.payouts \in {0, 1} /\ (books.payouts = 1 => AfterPayment)
          /\ books'.payouts = books.payouts
      BY <1>3 DEF PaidInv
    <2>2. ASSUME AfterPayment PROVE AfterPayment'
      <3>1. Booked' \/ \E j \in Slots : PayingNow(j)'
        BY <1>1, <1>3, <2>2 DEF AfterPayment, PayingNow
      <3>2. QED BY <1>1, <2>2, <3>1 DEF AfterPayment
    <2>3. QED BY <2>1, <2>2, MakerEnds
  <1>4. QED BY <1>2, <1>3 DEF PaidInv

\* A request moves on without money and without being one that could have paid.
LEMMA MovePaid ==
  ASSUME IInv, PaidInv, NEW i \in Slots, NEW op, op.kind = ops[i].kind, Continue(i, op),
         app.loan => app'.loan, UNCHANGED past,
         books'.payouts = books.payouts, Booked => Booked',
         op.kind = "lending" /\ op.phase \in {"created", "paid"} => app'.loan,
         Undisturbed /\ books.payouts = 1 => op.kind \notin {"lending", "disburse"}
  PROVE  PaidInv'
  <1>1. ops'[i] = op /\ \A j \in Slots \ {i} : ops'[j] = ops[j]
    BY SlotMoves
  <1>2. LentIsMade' BY <1>1 DEF PaidInv, LentIsMade
  <1>3. Undisturbed' <=> Undisturbed BY DEF Undisturbed
  <1>4. ASSUME Undisturbed
        PROVE  /\ \A j, k \in Makers' : j = k
               /\ books'.payouts \in {0, 1}
               /\ books'.payouts = 1 => AfterPayment'
    <2>1. /\ \A j, k \in Makers : j = k
          /\ books.payouts \in {0, 1} /\ (books.payouts = 1 => AfterPayment)
      BY <1>4 DEF PaidInv
    <2>2. ASSUME AfterPayment, books.payouts = 1 PROVE AfterPayment'
      <3>1. op.kind \notin {"lending", "disburse"} /\ ~PayingNow(i)
        BY <1>4, <2>2 DEF PayingNow
      <3>2. Booked' \/ \E j \in Slots : PayingNow(j)'
        BY <1>1, <2>2, <3>1 DEF AfterPayment, PayingNow
      <3>3. QED BY <1>1, <2>2, <3>1, <3>2 DEF AfterPayment
    <2>3. QED BY <2>1, <2>2, MakerMoves
  <1>5. QED BY <1>2, <1>3, <1>4 DEF PaidInv

\* The payout: it is the first, and no other request could send one.
LEMMA PayPaid ==
  ASSUME IInv, PaidInv, NEW i \in Slots, NEW op, op.kind = ops[i].kind, Continue(i, op),
         op.kind \in {"disburse", "lending"}, op.phase = "paid", UNCHANGED <<app, past>>,
         books'.payouts = books.payouts + 1,
         op.kind = "lending" => app.loan,
         Undisturbed => books.payouts # 1
  PROVE  PaidInv'
  <1>1. ops'[i] = op /\ \A j \in Slots \ {i} : ops'[j] = ops[j]
    BY SlotMoves
  <1>2. LentIsMade' BY <1>1 DEF PaidInv, LentIsMade
  <1>3. Undisturbed' <=> Undisturbed BY DEF Undisturbed
  <1>4. ASSUME Undisturbed
        PROVE  /\ \A j, k \in Makers' : j = k
               /\ books'.payouts \in {0, 1}
               /\ AfterPayment'
    <2>1. /\ \A j, k \in Makers : j = k
          /\ books.payouts = 0 /\ books'.payouts = 1
      BY <1>4 DEF PaidInv
    <2>2. i \in Makers BY DEF Makers, LoanMakers
    <2>3. \A j \in Slots \ {i} : ops'[j].kind \notin LoanMakers
      BY <1>1, <2>1, <2>2 DEF Makers
    <2>4. PayingNow(i)' BY <1>1 DEF PayingNow
    <2>5. AfterPayment' BY <1>1, <2>3, <2>4 DEF AfterPayment, LoanMakers
    <2>6. QED BY <2>1, <2>5, MakerMoves
  <1>5. QED BY <1>2, <1>3, <1>4 DEF PaidInv

\* While a request that makes the loan has not paid, no money has left that is
\* not booked.
LEMMA BookedWhileUnpaid ==
  ASSUME PaidInv, Undisturbed, books.payouts = 1, NEW i \in Makers, ~PayingNow(i)
  PROVE  Booked
  <1>1. AfterPayment /\ \A j \in Makers : j = i BY DEF PaidInv
  <1>2. ASSUME NEW j \in Slots, PayingNow(j) PROVE j \in Makers
    BY <1>2 DEF PayingNow, Makers, LoanMakers
  <1>3. QED BY <1>1, <1>2 DEF AfterPayment

LEMMA ReleasePaid ==
  ASSUME IInv, PaidInv, NEW i \in Slots,
         \/ PassGate(i) \/ EndBeforePayout(i) \/ SendPayout(i)
         \/ PayoutSucceeds(i) \/ PayoutDeclined(i) \/ PayoutUnanswered(i)
         \/ BookLoan(i) \/ BookingFails(i)
  PROVE  PaidInv'
  <1>0. /\ ops[i].kind = "disburse" /\ ops[i] \in Release /\ i \in Makers
        /\ ops[i].phase \in {"read", "gated", "sent", "paid"}
    <2>1. ops[i].kind = "disburse"
      BY DEF PassGate, EndBeforePayout, SendPayout, PayoutSucceeds, PayoutDeclined,
             PayoutUnanswered, BookLoan, BookingFails, Phase
    <2>2. ops[i] \in Release BY <2>1, OpsTyped, Kinds DEF IInv
    <2>3. QED BY <2>1, <2>2 DEF Release, Makers, LoanMakers
  <1>1. /\ app \in [status : Statuses, stage : Stages, loan : BOOLEAN, decision : Decisions]
        /\ books \in [payouts : Nat, direct : Nat, journals : Nat]
        /\ past \in [overlap : BOOLEAN, reopened : BOOLEAN, unfinished : BOOLEAN]
    BY Rest DEF RestTyped
  \* After a payout nobody is found at the gate or on the way to the gateway.
  <1>2. ASSUME Undisturbed, books.payouts = 1
        PROVE  \/ ops[i].phase = "paid"
               \/ ops[i].phase = "read" /\ AlreadyDisbursed(i)
    <2>1. ops[i].phase = "paid" \/ (ops[i].phase = "read" /\ ops[i].disbursed)
      BY <1>0, <1>2 DEF PaidInv, AfterPayment
    <2>2. ops[i].phase = "read" => app.loan
      BY <1>0, <1>2, BookedWhileUnpaid DEF PayingNow, Booked
    <2>3. QED BY <2>1, <2>2 DEF AlreadyDisbursed
  <1>3. CASE EndBeforePayout(i) \/ PayoutDeclined(i)
    BY <1>0, <1>3, EndPaid
    DEF EndBeforePayout, PayoutDeclined, Phase, PayingNow, Undisturbed, Booked, appVars
  <1>4. CASE PayoutUnanswered(i) \/ BookingFails(i)
    <2>1. past'.unfinished BY <1>1, <1>4 DEF PayoutUnanswered, BookingFails, Unfinished
    <2>2. End(i) /\ app' = app BY <1>4 DEF PayoutUnanswered, BookingFails, appVars
    <2>3. QED BY <2>1, <2>2, EndPaid DEF Undisturbed
  <1>5. CASE BookLoan(i)
    <2>1. End(i) /\ past' = past /\ app'.loan /\ app'.status = "DISBURSED"
      BY <1>1, <1>5 DEF BookLoan
    <2>2. books'.payouts = books.payouts BY <1>1, <1>5 DEF BookLoan
    <2>3. QED BY <2>1, <2>2, EndPaid DEF Undisturbed, Booked
  <1>6. CASE PassGate(i)
    <2> DEFINE op == [ops[i] EXCEPT !.phase = "gated"]
    <2>1. op.kind = ops[i].kind BY <1>0 DEF Release
    <2>2. Continue(i, op) /\ UNCHANGED <<app, books, past>>
      BY <1>6 DEF PassGate, Move, appVars
    <2>3. ~(Undisturbed /\ books.payouts = 1) BY <1>2, <1>6 DEF PassGate, Phase
    <2> HIDE DEF op
    <2>4. QED BY <1>0, <2>1, <2>2, <2>3, MovePaid DEF Booked
  <1>7. CASE SendPayout(i)
    <2> DEFINE op == [ops[i] EXCEPT !.phase = "sent", !.task = FirstTask]
    <2>1. op.kind = ops[i].kind BY <1>0 DEF Release
    <2>2. Continue(i, op) /\ UNCHANGED <<app, books, past>>
      BY <1>7 DEF SendPayout, appVars
    <2>3. ~(Undisturbed /\ books.payouts = 1) BY <1>2, <1>7 DEF SendPayout, Phase
    <2> HIDE DEF op
    <2>4. QED BY <1>0, <2>1, <2>2, <2>3, MovePaid DEF Booked
  <1>8. CASE PayoutSucceeds(i)
    <2> DEFINE op == [ops[i] EXCEPT !.phase = "paid"]
    <2>1. op.kind = ops[i].kind /\ op.phase = "paid" BY <1>0 DEF Release
    <2>2. Continue(i, op) /\ UNCHANGED <<app, past>> /\ books'.payouts = books.payouts + 1
      BY <1>1, <1>8 DEF PayoutSucceeds, Move, Paid, appVars
    <2>3. ~(Undisturbed /\ books.payouts = 1) BY <1>2, <1>8 DEF PayoutSucceeds, Phase
    <2> HIDE DEF op
    <2>4. QED BY <1>0, <2>1, <2>2, <2>3, PayPaid
  <1>9. QED BY <1>3, <1>4, <1>5, <1>6, <1>7, <1>8

LEMMA OthersPaid ==
  ASSUME IInv, PaidInv, NEW i \in Slots,
         \/ Convert(i) \/ CreateLoan(i) \/ MarkDisbursed(i)
         \/ \E success \in BOOLEAN : PayDirectLoan(i, success)
         \/ PayLoan(i) \/ JournalPayout(i) \/ RequestFails(i)
  PROVE  PaidInv'
  <1>0. ops[i].kind \in {"convert", "lending", "mandate", "payout"} /\ ops[i] \in OtherMaker
    <2>1. ops[i].kind \in {"convert", "lending", "mandate", "payout"}
      BY DEF Convert, CreateLoan, MarkDisbursed, PayDirectLoan, PayLoan, JournalPayout,
             RequestFails, Phase
    <2>2. QED BY <2>1, OpsTyped, Kinds DEF IInv
  <1>1. /\ app \in [status : Statuses, stage : Stages, loan : BOOLEAN, decision : Decisions]
        /\ books \in [payouts : Nat, direct : Nat, journals : Nat]
        /\ past \in [overlap : BOOLEAN, reopened : BOOLEAN, unfinished : BOOLEAN]
    BY Rest DEF RestTyped
  <1>2. ASSUME Undisturbed, books.payouts = 1, ops[i].kind = "lending"
        PROVE  ops[i].phase = "paid"
    BY <1>2 DEF PaidInv, AfterPayment
  <1>3. ops[i].kind = "lending" /\ ops[i].phase \in {"created", "paid"} => app.loan
    BY DEF PaidInv, LentIsMade
  <1>m. ASSUME NEW phase
        PROVE  LET op == [ops[i] EXCEPT !.phase = phase]
               IN  op.kind = ops[i].kind /\ op.phase = phase
    BY <1>0 DEF OtherMaker
  <1>4. CASE Convert(i)
    <2>1. /\ End(i) /\ UNCHANGED <<books, past>> /\ app'.loan /\ app'.status = "DISBURSED"
      BY <1>1, <1>4 DEF Convert
    <2>2. QED BY <2>1, EndPaid DEF Undisturbed, Booked
  <1>5. CASE MarkDisbursed(i)
    <2>1. /\ End(i) /\ UNCHANGED <<books, past>>
          /\ app'.loan = app.loan /\ app'.status = "DISBURSED"
      BY <1>1, <1>5 DEF MarkDisbursed
    <2>2. PayingNow(i) => app.loan BY <1>0, <1>3 DEF PayingNow
    <2>3. QED BY <2>1, <2>2, EndPaid DEF Undisturbed, Booked
  <1>6. CASE JournalPayout(i)
    <2>1. End(i) /\ UNCHANGED <<app, past>> /\ books'.payouts = books.payouts
      BY <1>1, <1>6 DEF JournalPayout, Paid, appVars
    <2>2. ~PayingNow(i) BY <1>6 DEF JournalPayout, Phase, PayingNow
    <2>3. QED BY <2>1, <2>2, EndPaid DEF Undisturbed, Booked
  <1>7. CASE RequestFails(i)
    <2>1. End(i) /\ UNCHANGED <<app, books>> BY <1>7 DEF RequestFails, appVars
    <2>2. /\ past'.overlap = past.overlap /\ past'.reopened = past.reopened
          /\ past'.unfinished = (past.unfinished
                                  \/ (ops[i].kind = "lending" /\ ops[i].phase # "read"))
      BY <1>1, <1>7 DEF RequestFails
    <2>3. PayingNow(i) => past'.unfinished BY <1>0, <2>2 DEF PayingNow
    <2>4. QED BY <2>1, <2>2, <2>3, EndPaid DEF Undisturbed, Booked
  <1>8. CASE CreateLoan(i)
    <2> DEFINE op == [ops[i] EXCEPT !.phase = "created"]
    <2>1. /\ Continue(i, op) /\ UNCHANGED <<books, past>>
          /\ app'.loan /\ app'.status = app.status
      BY <1>1, <1>8 DEF CreateLoan, Move
    <2>2. op.kind = ops[i].kind BY <1>m
    <2>3. Undisturbed /\ books.payouts = 1 => ops[i].kind # "lending"
      BY <1>2, <1>8 DEF CreateLoan, Phase
    <2> HIDE DEF op
    <2>4. QED BY <1>0, <2>1, <2>2, <2>3, MovePaid DEF Booked
  <1>9. CASE PayLoan(i)
    <2> DEFINE op == [ops[i] EXCEPT !.phase = "paid"]
    <2>1. /\ Continue(i, op) /\ UNCHANGED <<app, past>> /\ books'.payouts = books.payouts
          /\ ops[i].kind = "payout"
      BY <1>1, <1>9 DEF PayLoan, Move, Paid, appVars, Phase
    <2>2. op.kind = ops[i].kind BY <1>m
    <2> HIDE DEF op
    <2>3. QED BY <2>1, <2>2, MovePaid DEF Booked
  <1>10. ASSUME NEW success \in BOOLEAN, PayDirectLoan(i, success) PROVE PaidInv'
    <2> DEFINE op == [ops[i] EXCEPT !.phase = "paid"]
    <2>1. /\ Continue(i, op) /\ UNCHANGED <<app, past>>
          /\ ops[i].kind = "lending" /\ ops[i].phase = "created"
          /\ books'.payouts = books.payouts + 1 \/ books' = books
      BY <1>1, <1>10 DEF PayDirectLoan, Move, Paid, appVars, Phase
    <2>2. op.kind = ops[i].kind /\ op.phase = "paid" BY <1>m
    <2>3. app.loan /\ ~(Undisturbed /\ books.payouts = 1) BY <1>2, <1>3, <2>1
    <2> HIDE DEF op
    <2>4. CASE books' = books BY <2>1, <2>2, <2>3, <2>4, MovePaid DEF Booked
    <2>5. CASE books'.payouts = books.payouts + 1
      BY <2>1, <2>2, <2>3, <2>5, PayPaid
    <2>6. QED BY <2>1, <2>4, <2>5
  <1>11. QED BY <1>4, <1>5, <1>6, <1>7, <1>8, <1>9, <1>10

\* A request that makes the loan starts alone or is remembered as an overlap;
\* alone, it finds a payout booked.
LEMMA StartPaid ==
  ASSUME IInv, PaidInv, NEW op, op.kind \in LoanMakers, op.phase = "read", StartMaking(op),
         UNCHANGED <<app, books>>,
         op.kind = "lending" => app.status # "DISBURSED",
         op.kind = "disburse" => (app.status = "DISBURSED" => op.disbursed)
  PROVE  PaidInv'
  <1>1. /\ started + 1 \in Slots /\ ops'[started + 1] = op
        /\ \A j \in Slots \ {started + 1} : ops'[j] = ops[j]
    BY SlotFills DEF StartMaking
  <1>2. LentIsMade' BY <1>1 DEF PaidInv, LentIsMade
  <1>3. /\ past \in [overlap : BOOLEAN, reopened : BOOLEAN, unfinished : BOOLEAN]
        /\ past' = [past EXCEPT !.overlap =
                      past.overlap \/ \E i \in Slots : ops[i].kind \in LoanMakers]
    BY Rest DEF RestTyped, StartMaking
  <1>4. ASSUME Undisturbed'
        PROVE  /\ \A j, k \in Makers' : j = k
               /\ books'.payouts \in {0, 1}
               /\ books'.payouts = 1 => AfterPayment'
    <2>1. Undisturbed /\ \A i \in Slots : ops[i].kind \notin LoanMakers
      BY <1>3, <1>4 DEF Undisturbed
    <2>2. books.payouts \in {0, 1} /\ (books.payouts = 1 => AfterPayment)
      BY <2>1 DEF PaidInv
    <2>3. AfterPayment => Booked BY <2>1 DEF AfterPayment, PayingNow, LoanMakers
    <2>4. \A j \in Slots \ {started + 1} : ops'[j].kind \notin LoanMakers
      BY <1>1, <2>1
    <2>5. ASSUME Booked PROVE AfterPayment'
      <3>1. Booked' BY <2>5 DEF Booked
      <3>2. app.status = "DISBURSED" BY <2>5 DEF Booked
      <3>3. QED BY <1>1, <2>4, <3>1, <3>2 DEF AfterPayment, LoanMakers
    <2>6. \A j, k \in Makers' : j = k BY <2>4 DEF Makers
    <2>7. QED BY <2>2, <2>3, <2>5, <2>6
  <1>5. QED BY <1>2, <1>4 DEF PaidInv

LEMMA StartsPaid ==
  ASSUME IInv, PaidInv,
         \/ \E u \in Users : StartRelease(u)
         \/ \E kind \in {"convert", "lending", "mandate"} : StartOther(kind)
         \/ StartPayout
  PROVE  PaidInv'
  <1>1. ASSUME NEW u \in Users, StartRelease(u) PROVE PaidInv'
    <2> DEFINE op == [kind |-> "disburse", phase |-> "read", actor |-> u,
                      disbursed |-> app.status = "DISBURSED", task |-> 0]
    <2>1. /\ op.kind = "disburse" /\ op.phase = "read"
          /\ app.status = "DISBURSED" => op.disbursed
      OBVIOUS
    <2>2. StartMaking(op) /\ UNCHANGED <<app, books>> BY <1>1 DEF StartRelease, appVars
    <2> HIDE DEF op
    <2>3. QED BY <2>1, <2>2, StartPaid DEF LoanMakers
  <1>2. ASSUME NEW kind \in {"convert", "lending", "mandate"}, StartOther(kind)
        PROVE  PaidInv'
    <2> DEFINE op == [kind |-> kind, phase |-> "read"]
    <2>1. op.kind = kind /\ op.phase = "read" OBVIOUS
    <2>2. /\ StartMaking(op) /\ UNCHANGED <<app, books>>
          /\ kind = "lending" => app.status # "DISBURSED"
      BY <1>2 DEF StartOther, appVars
    <2> HIDE DEF op
    <2>3. QED BY <2>1, <2>2, StartPaid DEF LoanMakers
  <1>3. CASE StartPayout
    <2> DEFINE op == [kind |-> "payout", phase |-> "read"]
    <2>1. op.kind = "payout" OBVIOUS
    <2>2. Start(op) /\ UNCHANGED <<app, books, past>> BY <1>3 DEF StartPayout, appVars
    <2> HIDE DEF op
    <2>3. /\ started + 1 \in Slots /\ ops[started + 1].kind = "none"
          /\ ops'[started + 1] = op
          /\ \A j \in Slots \ {started + 1} : ops'[j] = ops[j]
      BY <2>2, SlotFills
    <2>4. Makers' = Makers BY <2>1, <2>3 DEF Makers, LoanMakers
    <2>5. \A j \in Slots : PayingNow(j)' <=> PayingNow(j)
      BY <2>1, <2>3 DEF PayingNow
    <2>6. AfterPayment => AfterPayment'
      BY <2>1, <2>2, <2>3, <2>5 DEF AfterPayment, Booked
    <2>7. QED BY <2>1, <2>2, <2>3, <2>4, <2>6 DEF PaidInv, LentIsMade, Undisturbed
  <1>4. QED BY <1>1, <1>2, <1>3

LEMMA QuietPaid ==
  ASSUME IInv, PaidInv, Control \/ StatusWriting
  PROVE  PaidInv'
  <1>1. /\ \A i \in Slots : \/ ops'[i] = ops[i]
                            \/ ops[i].kind \notin MoneyKinds /\ ops'[i].kind \notin MoneyKinds
        /\ books' = books /\ app'.loan = app.loan
        /\ past'.overlap = past.overlap /\ past'.unfinished = past.unfinished
        /\ past.reopened => past'.reopened
        /\ Booked => Booked' \/ past'.reopened
    BY QuietMoney
  <1>2. Makers' = Makers BY <1>1 DEF Makers, MoneyKinds
  <1>3. \A j \in Slots : PayingNow(j)' <=> PayingNow(j)
    BY <1>1 DEF PayingNow, MoneyKinds, LoanMakers
  <1>4. LentIsMade' BY <1>1 DEF PaidInv, LentIsMade, MoneyKinds, LoanMakers
  <1>5. Undisturbed' => Undisturbed /\ (Booked => Booked') BY <1>1 DEF Undisturbed
  <1>6. Undisturbed' /\ AfterPayment => AfterPayment'
    BY <1>1, <1>3, <1>5 DEF AfterPayment, MoneyKinds, LoanMakers
  <1>7. QED BY <1>1, <1>2, <1>4, <1>5, <1>6 DEF PaidInv

LEMMA RestartPaid ==
  ASSUME IInv, PaidInv, Restart
  PROVE  PaidInv'
  <1>1. \A i \in Slots : ops'[i].kind = "none" BY NoOpTyped DEF Restart, LoseAll
  <1>2. /\ past \in [overlap : BOOLEAN, reopened : BOOLEAN, unfinished : BOOLEAN]
        /\ books \in [payouts : Nat, direct : Nat, journals : Nat]
        /\ past' = [past EXCEPT !.unfinished =
                      past.unfinished \/ \E i \in Slots : ops[i].kind \in LoanMakers]
        /\ app' = app /\ books' = [books EXCEPT !.journals = 0]
    BY Rest DEF RestTyped, Restart
  <1>3. LentIsMade' /\ Makers' = {} BY <1>1 DEF LentIsMade, Makers, LoanMakers
  <1>4. ASSUME Undisturbed'
        PROVE  books'.payouts \in {0, 1} /\ (books'.payouts = 1 => AfterPayment')
    <2>1. Undisturbed /\ \A i \in Slots : ops[i].kind \notin LoanMakers
      BY <1>2, <1>4 DEF Undisturbed
    <2>2. books'.payouts = books.payouts BY <1>2
    <2>3. AfterPayment => Booked BY <2>1 DEF AfterPayment, PayingNow, LoanMakers
    <2>4. Booked => AfterPayment' BY <1>1, <1>2 DEF AfterPayment, Booked
    <2>5. QED BY <2>1, <2>2, <2>3, <2>4 DEF PaidInv
  <1>5. QED BY <1>3, <1>4 DEF PaidInv

\* The borrower is paid once while no two requests that make the loan overlap,
\* none ends between its money and its last write, and no writer takes the
\* application out of DISBURSED: finance.service.ts:770 holds on these terms,
\* for any number of requests, users and restarts.
THEOREM PaidOnce == Spec => []PaidOnceUndisturbed
  <1>1. Init => PaidInv
    <2> SUFFICES ASSUME Init PROVE PaidInv
      OBVIOUS
    <2>1. \A i \in Slots : ops[i].kind = "none" BY NoOpTyped DEF Init
    <2>2. books.payouts = 0 BY DEF Init
    <2>3. QED BY <2>1, <2>2 DEF PaidInv, LentIsMade, Makers, LoanMakers
  <1>2. IInv /\ PaidInv /\ [Next]_vars => PaidInv'
    <2> SUFFICES ASSUME IInv, PaidInv, [Next]_vars PROVE PaidInv'
      OBVIOUS
    <2>1. CASE UNCHANGED vars
      <3>1. UNCHANGED <<ops, app, books, past>> BY <2>1 DEF vars, appVars
      <3>2. QED
        BY <3>1
        DEF PaidInv, LentIsMade, Undisturbed, Makers, AfterPayment, Booked, PayingNow
    <2>2. CASE Next
      BY <2>2, QuietPaid, StartsPaid, ReleasePaid, OthersPaid, RestartPaid DEF Next
    <2>3. QED BY <2>1, <2>2
  <1>3. PaidInv => PaidOnceUndisturbed
    BY DEF PaidInv, PaidOnceUndisturbed, Undisturbed
  <1>4. QED BY <1>1, <1>2, <1>3, Invariant, PTL DEF Spec

-----------------------------------------------------------------------------
(* The books never run ahead of the money.                                  *)

\* Requests still to post the entry of a payout that left.
Posting == {i \in Slots : Phase(i, "disburse", "paid") \/ Phase(i, "payout", "paid")}

LEMMA PostingFinite ==
  /\ IsFiniteSet(Posting) /\ Cardinality(Posting) \in Nat
  /\ IsFiniteSet(Posting') /\ Cardinality(Posting') \in Nat
  <1>1. IsFiniteSet(Slots) BY FS_Interval, MaxOpsAssumption DEF Slots
  <1>2. Posting \subseteq Slots /\ Posting' \subseteq Slots BY DEF Posting
  <1>3. IsFiniteSet(Posting) /\ IsFiniteSet(Posting') BY <1>1, <1>2, FS_Subset
  <1>4. QED BY <1>3, FS_CardinalityType

Ahead == books.journals + Cardinality(Posting) <= books.payouts + books.direct

LEMMA BooksTyped ==
  ASSUME IInv
  PROVE  /\ books \in [payouts : Nat, direct : Nat, journals : Nat]
         /\ books.payouts \in Nat /\ books.direct \in Nat /\ books.journals \in Nat
  BY Rest DEF RestTyped

\* Nobody comes to post, and no money is taken back.
LEMMA FewerPosting ==
  ASSUME IInv, IInv', Ahead, Posting' \subseteq Posting,
         books'.journals <= books.journals,
         books'.payouts >= books.payouts, books'.direct >= books.direct
  PROVE  Ahead'
  <1>1. Cardinality(Posting') <= Cardinality(Posting) BY PostingFinite, FS_Subset
  <1>2. books'.payouts \in Nat /\ books'.direct \in Nat /\ books'.journals \in Nat
    BY Rest DEF IInv, TypeOK
  <1>3. QED BY <1>1, <1>2, BooksTyped, PostingFinite DEF Ahead

\* One posts its entry, or leaves without it.
LEMMA EntryPosted ==
  ASSUME IInv, IInv', Ahead, NEW i \in Posting, Posting' = Posting \ {i},
         books'.journals <= books.journals + 1,
         books'.payouts = books.payouts, books'.direct = books.direct
  PROVE  Ahead'
  <1>1. Cardinality(Posting') = Cardinality(Posting) - 1
    BY PostingFinite, FS_RemoveElement
  <1>2. books'.journals \in Nat BY DEF IInv, TypeOK
  <1>3. QED BY <1>1, <1>2, BooksTyped, PostingFinite DEF Ahead

\* Money leaves, and its request comes to post.
LEMMA MoneyLeft ==
  ASSUME IInv, Ahead, NEW i \in Slots, Posting' = Posting \cup {i},
         books'.journals = books.journals,
         \/ books'.payouts = books.payouts + 1 /\ books'.direct = books.direct
         \/ books'.payouts = books.payouts /\ books'.direct = books.direct + 1
  PROVE  Ahead'
  <1>1. Cardinality(Posting') <= Cardinality(Posting) + 1
    BY PostingFinite, FS_AddElement
  <1>2. QED BY <1>1, BooksTyped, PostingFinite DEF Ahead

LEMMA EndLeaves ==
  ASSUME IInv, NEW i \in Slots, End(i)
  PROVE  Posting' = Posting \ {i}
  <1>1. ops'[i].kind = "none" /\ \A j \in Slots \ {i} : ops'[j] = ops[j]
    BY SlotMoves, NoOpTyped DEF End
  <1>2. QED BY <1>1 DEF Posting, Phase

LEMMA StartPostsNothing ==
  ASSUME IInv, NEW op, op.kind # "none", op.phase = "read", Start(op)
  PROVE  Posting' = Posting
  <1>1. /\ started + 1 \in Slots /\ ops[started + 1].kind = "none"
        /\ ops'[started + 1] = op
        /\ \A j \in Slots \ {started + 1} : ops'[j] = ops[j]
    BY SlotFills
  <1>2. QED BY <1>1 DEF Posting, Phase

\* A request moves to a phase: it posts afterwards or it does not.
LEMMA MoveLeaves ==
  ASSUME IInv, NEW i \in Slots, NEW op, op.kind = ops[i].kind, Continue(i, op)
  PROVE  Posting' = IF op.kind \in {"disburse", "payout"} /\ op.phase = "paid"
                    THEN Posting \cup {i} ELSE Posting \ {i}
  <1>1. ops'[i] = op /\ \A j \in Slots \ {i} : ops'[j] = ops[j]
    BY SlotMoves
  <1>2. QED BY <1>1 DEF Posting, Phase

LEMMA ReleaseBooked ==
  ASSUME IInv, IInv', Ahead, NEW i \in Slots,
         \/ PassGate(i) \/ EndBeforePayout(i) \/ SendPayout(i)
         \/ PayoutSucceeds(i) \/ PayoutDeclined(i) \/ PayoutUnanswered(i)
         \/ BookLoan(i) \/ BookingFails(i)
  PROVE  Ahead'
  <1>0. ops[i].kind = "disburse" /\ ops[i] \in Release
    <2>1. ops[i].kind = "disburse"
      BY DEF PassGate, EndBeforePayout, SendPayout, PayoutSucceeds, PayoutDeclined,
             PayoutUnanswered, BookLoan, BookingFails, Phase
    <2>2. QED BY <2>1, OpsTyped, Kinds DEF IInv
  <1>1. CASE EndBeforePayout(i) \/ PayoutDeclined(i) \/ PayoutUnanswered(i) \/ BookingFails(i)
    <2>1. End(i) /\ \/ books' = books
                    \/ books' = [books EXCEPT !.payouts = books.payouts + 1]
      BY <1>1
      DEF EndBeforePayout, PayoutDeclined, PayoutUnanswered, BookingFails, Paid
    <2>2. /\ books'.journals <= books.journals /\ books'.payouts >= books.payouts
          /\ books'.direct >= books.direct
      BY <2>1, BooksTyped
    <2>3. QED BY <2>1, <2>2, EndLeaves, FewerPosting
  <1>2. CASE BookLoan(i)
    <2>1. i \in Posting BY <1>2 DEF BookLoan, Posting
    <2>2. End(i) /\ \/ books' = books
                    \/ books' = [books EXCEPT !.journals = books.journals + 1]
      BY <1>2 DEF BookLoan
    <2>3. /\ books'.journals <= books.journals + 1 /\ books'.payouts = books.payouts
          /\ books'.direct = books.direct
      BY <2>2, BooksTyped
    <2>4. QED BY <2>1, <2>2, <2>3, EndLeaves, EntryPosted
  <1>3. ASSUME NEW op, op.kind = "disburse", op.phase # "paid", Continue(i, op),
               books' = books
        PROVE  Ahead'
    BY <1>0, <1>3, MoveLeaves, BooksTyped, FewerPosting
  <1>4. CASE PassGate(i)
    <2> DEFINE op == [ops[i] EXCEPT !.phase = "gated"]
    <2>1. op.kind = "disburse" /\ op.phase # "paid" BY <1>0 DEF Release
    <2>2. Continue(i, op) /\ books' = books BY <1>4 DEF PassGate, Move
    <2> HIDE DEF op
    <2>3. QED BY <1>3, <2>1, <2>2
  <1>5. CASE SendPayout(i)
    <2> DEFINE op == [ops[i] EXCEPT !.phase = "sent", !.task = FirstTask]
    <2>1. op.kind = "disburse" /\ op.phase # "paid" BY <1>0 DEF Release
    <2>2. Continue(i, op) /\ books' = books BY <1>5 DEF SendPayout
    <2> HIDE DEF op
    <2>3. QED BY <1>3, <2>1, <2>2
  <1>6. CASE PayoutSucceeds(i)
    <2> DEFINE op == [ops[i] EXCEPT !.phase = "paid"]
    <2>1. op.kind = "disburse" /\ op.phase = "paid" BY <1>0 DEF Release
    <2>2. Continue(i, op) /\ books' = [books EXCEPT !.payouts = books.payouts + 1]
      BY <1>6 DEF PayoutSucceeds, Move, Paid
    <2>3. /\ books'.journals = books.journals /\ books'.payouts = books.payouts + 1
          /\ books'.direct = books.direct
      BY <2>2, BooksTyped
    <2> HIDE DEF op
    <2>4. Posting' = Posting \cup {i} BY <1>0, <2>1, <2>2, MoveLeaves
    <2>5. QED BY <2>3, <2>4, MoneyLeft
  <1>7. QED BY <1>1, <1>2, <1>4, <1>5, <1>6

LEMMA OthersBooked ==
  ASSUME IInv, IInv', Ahead, NEW i \in Slots,
         \/ Convert(i) \/ CreateLoan(i) \/ MarkDisbursed(i)
         \/ \E success \in BOOLEAN : PayDirectLoan(i, success)
         \/ PayLoan(i) \/ JournalPayout(i) \/ RequestFails(i)
  PROVE  Ahead'
  <1>0. ops[i].kind \in {"convert", "lending", "mandate", "payout"} /\ ops[i] \in OtherMaker
    <2>1. ops[i].kind \in {"convert", "lending", "mandate", "payout"}
      BY DEF Convert, CreateLoan, MarkDisbursed, PayDirectLoan, PayLoan, JournalPayout,
             RequestFails, Phase
    <2>2. QED BY <2>1, OpsTyped, Kinds DEF IInv
  <1>m. ASSUME NEW phase
        PROVE  LET op == [ops[i] EXCEPT !.phase = phase]
               IN  op.kind = ops[i].kind /\ op.phase = phase
    BY <1>0 DEF OtherMaker
  <1>1. CASE Convert(i) \/ MarkDisbursed(i) \/ RequestFails(i)
    <2>1. End(i) /\ books' = books BY <1>1 DEF Convert, MarkDisbursed, RequestFails
    <2>2. QED BY <2>1, BooksTyped, EndLeaves, FewerPosting
  <1>2. CASE JournalPayout(i)
    <2>1. i \in Posting /\ End(i) BY <1>2 DEF JournalPayout, Posting
    <2>2. books' = [books EXCEPT !.journals = books.journals + 1]
      BY <1>2 DEF JournalPayout, Paid
    <2>3. /\ books'.journals <= books.journals + 1 /\ books'.payouts = books.payouts
          /\ books'.direct = books.direct
      BY <2>2, BooksTyped
    <2>4. QED BY <2>1, <2>3, EndLeaves, EntryPosted
  <1>3. CASE CreateLoan(i)
    <2> DEFINE op == [ops[i] EXCEPT !.phase = "created"]
    <2>1. Continue(i, op) /\ books' = books BY <1>3 DEF CreateLoan, Move
    <2>2. op.kind = ops[i].kind /\ op.phase = "created" BY <1>m
    <2> HIDE DEF op
    <2>3. QED BY <2>1, <2>2, MoveLeaves, BooksTyped, FewerPosting
  <1>4. CASE PayLoan(i)
    <2> DEFINE op == [ops[i] EXCEPT !.phase = "paid"]
    <2>1. /\ Continue(i, op) /\ ops[i].kind = "payout"
          /\ books' = [books EXCEPT !.direct = books.direct + 1]
      BY <1>4 DEF PayLoan, Move, Paid, Phase
    <2>2. op.kind = ops[i].kind /\ op.phase = "paid" BY <1>m
    <2>3. /\ books'.journals = books.journals /\ books'.payouts = books.payouts
          /\ books'.direct = books.direct + 1
      BY <2>1, BooksTyped
    <2> HIDE DEF op
    <2>4. Posting' = Posting \cup {i} BY <2>1, <2>2, MoveLeaves
    <2>5. QED BY <2>3, <2>4, MoneyLeft
  <1>5. ASSUME NEW success \in BOOLEAN, PayDirectLoan(i, success) PROVE Ahead'
    <2> DEFINE op == [ops[i] EXCEPT !.phase = "paid"]
    <2>1. /\ Continue(i, op) /\ ops[i].kind = "lending"
          /\ \/ books' = books
             \/ books' = [books EXCEPT !.payouts = books.payouts + 1]
      BY <1>5 DEF PayDirectLoan, Move, Paid, Phase
    <2>2. op.kind = ops[i].kind BY <1>m
    <2>3. /\ books'.journals <= books.journals /\ books'.payouts >= books.payouts
          /\ books'.direct >= books.direct
      BY <2>1, BooksTyped
    <2> HIDE DEF op
    <2>4. QED BY <2>1, <2>2, <2>3, MoveLeaves, FewerPosting
  <1>6. QED BY <1>1, <1>2, <1>3, <1>4, <1>5

LEMMA StartsBooked ==
  ASSUME IInv, IInv', Ahead,
         \/ \E u \in Users : StartRelease(u)
         \/ \E kind \in {"convert", "lending", "mandate"} : StartOther(kind)
         \/ StartPayout
  PROVE  Ahead'
  <1>1. books' = books BY DEF StartRelease, StartOther, StartPayout
  <1>2. ASSUME NEW u \in Users, StartRelease(u) PROVE Posting' = Posting
    <2> DEFINE op == [kind |-> "disburse", phase |-> "read", actor |-> u,
                      disbursed |-> app.status = "DISBURSED", task |-> 0]
    <2>1. op.kind # "none" /\ op.phase = "read" OBVIOUS
    <2>2. Start(op) BY <1>2 DEF StartRelease, StartMaking
    <2> HIDE DEF op
    <2>3. QED BY <2>1, <2>2, StartPostsNothing
  <1>3. ASSUME NEW kind \in {"convert", "lending", "mandate", "payout"},
               Start([kind |-> kind, phase |-> "read"])
        PROVE  Posting' = Posting
    <2> DEFINE op == [kind |-> kind, phase |-> "read"]
    <2>1. op.kind # "none" /\ op.phase = "read" OBVIOUS
    <2>2. Start(op) BY <1>3
    <2> HIDE DEF op
    <2>3. QED BY <2>1, <2>2, StartPostsNothing
  <1>4. Posting' = Posting BY <1>2, <1>3 DEF StartOther, StartMaking, StartPayout
  <1>5. QED BY <1>1, <1>4, BooksTyped, FewerPosting

\* No disbursement entry is in the books without money that left for it,
\* whatever is declined, refused, unanswered or lost halfway: the entries and
\* the requests still to post theirs never outnumber the payouts.
THEOREM BooksFollowMoney == Spec => []BooksNeverAhead
  <1>1. Init => Ahead
    <2> SUFFICES ASSUME Init PROVE Ahead
      OBVIOUS
    <2>1. Posting = {} BY NoOpTyped DEF Init, Posting, Phase
    <2>2. QED BY <2>1, FS_EmptySet DEF Init, Ahead
  <1>2. IInv /\ Ahead /\ [Next]_vars /\ IInv' => Ahead'
    <2> SUFFICES ASSUME IInv, Ahead, [Next]_vars, IInv' PROVE Ahead'
      OBVIOUS
    <2>1. CASE UNCHANGED vars BY <2>1 DEF vars, Ahead, Posting, Phase
    <2>2. CASE Control \/ StatusWriting
      <3>1. Posting' = Posting /\ books' = books
        BY <2>2, QuietMoney DEF Posting, Phase, MoneyKinds, LoanMakers
      <3>2. QED BY <3>1, BooksTyped, FewerPosting
    <2>3. CASE Restart
      <3>1. Posting' = {}
        BY <2>3, NoOpTyped DEF Restart, LoseAll, Posting, Phase
      <3>2. books' = [books EXCEPT !.journals = 0] BY <2>3 DEF Restart
      <3>3. /\ books'.journals <= books.journals /\ books'.payouts >= books.payouts
            /\ books'.direct >= books.direct
        BY <3>2, BooksTyped
      <3>4. QED BY <3>1, <3>3, FewerPosting
    <2>4. QED
      BY <2>1, <2>2, <2>3, ReleaseBooked, OthersBooked, StartsBooked DEF Next
  <1>3. Ahead => BooksNeverAhead BY DEF Ahead, BooksNeverAhead, Posting
  <1>4. QED BY <1>1, <1>2, <1>3, Invariant, PTL DEF Spec

=============================================================================
