------------------------- MODULE ApplicationStatus --------------------------
(***************************************************************************)
(* The writers of LoanApplication.status and .stage, for one application   *)
(* past its sanction.  Each reads the application (or only a Map of the    *)
(* process), decides, and writes after further awaits with an update that  *)
(* names no expected status; the record in flight is that update.          *)
(*                                                                         *)
(* Checks on the borrower, the product, documents, scores, amounts, roles  *)
(* and tenants are left out: a writer may be refused for them at any time, *)
(* which changes nothing.  The stages STAGE_LIFECYCLE does not know (KYC,  *)
(* AGREEMENT, DISBURSAL, FINANCE_VERIFIED, READY_FOR_DISBURSEMENT, ...)    *)
(* are one value, OFF_GRAPH.                                               *)
(***************************************************************************)
EXTENDS Operations

CONSTANTS
  Targets,       \* statuses transition() is asked for
  StageTargets,  \* stages transitionStage() is asked for
  Outcomes       \* statuses the decisions taken lead to

VARIABLES
  app,        \* [status, stage, loan (there is one), decision (of underwriting)]
  offer,      \* status of the latest offer of offers.service.ts
  approving   \* the approval-authority tasks: NONE, one OPEN, or all CLOSED

appVars == <<app, offer, approving>>

\* TRANSITIONS.
Transitions ==
  LET closing == {"REJECTED", "CANCELLED"}
      intake == {"SUBMITTED", "KYC_PENDING", "KYC_VERIFIED", "UNDER_REVIEW",
                 "CREDIT_ASSESSMENT", "UNDERWRITING"} \cup closing
  IN [DRAFT |-> intake,
      SUBMITTED |-> intake,
      KYC_PENDING |-> {"KYC_VERIFIED", "SUBMITTED"} \cup closing,
      KYC_VERIFIED |-> {"UNDER_REVIEW", "CREDIT_ASSESSMENT", "UNDERWRITING",
                        "SUBMITTED"} \cup closing,
      UNDER_REVIEW |-> {"CREDIT_ASSESSMENT", "UNDERWRITING", "SUBMITTED",
                        "APPROVED"} \cup closing,
      CREDIT_ASSESSMENT |-> {"SUBMITTED", "UNDERWRITING", "APPROVED"} \cup closing,
      UNDERWRITING |-> {"UNDERWRITING", "APPROVED", "SUBMITTED",
                        "CREDIT_ASSESSMENT"} \cup closing,
      APPROVED |-> {"AGREEMENT_PENDING", "READY_FOR_DISBURSEMENT", "UNDERWRITING",
                    "SUBMITTED", "CANCELLED"},
      REJECTED |-> {},
      AGREEMENT_PENDING |-> {"READY_FOR_DISBURSEMENT", "CANCELLED"},
      READY_FOR_DISBURSEMENT |-> {"DISBURSED", "CANCELLED"},
      DISBURSED |-> {},
      CANCELLED |-> {}]

Statuses == DOMAIN Transitions

\* STAGE_LIFECYCLE: the next stages of each.
Lifecycle ==
  [LEAD |-> {"APPLICATION_STARTED", "APPLICATION_SUBMITTED", "CANCELLED", "REJECTED"},
   APPLICATION_STARTED |-> {"APPLICATION_SUBMITTED", "CANCELLED", "WITHDRAWN"},
   APPLICATION_SUBMITTED |-> {"DOCUMENT_VERIFICATION", "CANCELLED", "REJECTED"},
   DOCUMENT_VERIFICATION |-> {"CREDIT_ASSESSMENT", "REJECTED", "CANCELLED"},
   CREDIT_ASSESSMENT |-> {"UNDERWRITING", "DOCUMENT_VERIFICATION", "REJECTED"},
   UNDERWRITING |-> {"APPROVAL", "CREDIT_ASSESSMENT", "REJECTED"},
   APPROVAL |-> {"SANCTION", "UNDERWRITING", "REJECTED"},
   SANCTION |-> {"DISBURSEMENT", "WITHDRAWN", "CANCELLED"},
   DISBURSEMENT |-> {"DISBURSED", "CANCELLED"},
   DISBURSED |-> {"ACTIVE"},
   ACTIVE |-> {"CLOSED"},
   CLOSED |-> {}, REJECTED |-> {}, CANCELLED |-> {}, WITHDRAWN |-> {}]

ASSUME StatusAssumption ==
  /\ Targets \subseteq Statuses
  /\ StageTargets \subseteq DOMAIN Lifecycle

OffGraph == "OFF_GRAPH"

Stages == DOMAIN Lifecycle \cup {OffGraph}

\* legacyStatus: the status a stage stands for; CLOSED falls through to the
\* default.
StatusOfStage ==
  [LEAD |-> "DRAFT", APPLICATION_STARTED |-> "DRAFT",
   APPLICATION_SUBMITTED |-> "SUBMITTED", DOCUMENT_VERIFICATION |-> "KYC_PENDING",
   CREDIT_ASSESSMENT |-> "CREDIT_ASSESSMENT", UNDERWRITING |-> "UNDERWRITING",
   APPROVAL |-> "UNDERWRITING", SANCTION |-> "APPROVED",
   DISBURSEMENT |-> "READY_FOR_DISBURSEMENT", DISBURSED |-> "DISBURSED",
   ACTIVE |-> "DISBURSED", CLOSED |-> "UNDER_REVIEW", REJECTED |-> "REJECTED",
   CANCELLED |-> "CANCELLED", WITHDRAWN |-> "CANCELLED"]

\* stageMap of transition().
StageOfStatus ==
  [DRAFT |-> OffGraph, SUBMITTED |-> "CREDIT_ASSESSMENT", KYC_PENDING |-> OffGraph,
   KYC_VERIFIED |-> "CREDIT_ASSESSMENT", UNDER_REVIEW |-> "CREDIT_ASSESSMENT",
   CREDIT_ASSESSMENT |-> "CREDIT_ASSESSMENT", UNDERWRITING |-> "UNDERWRITING",
   APPROVED |-> "SANCTION", REJECTED |-> "REJECTED", AGREEMENT_PENDING |-> OffGraph,
   READY_FOR_DISBURSEMENT |-> OffGraph, DISBURSED |-> "DISBURSED",
   CANCELLED |-> "CANCELLED"]

\* ENDED: declined, expired or cancelled, which no request tells apart.
OfferStatuses == {"NONE", "PENDING", "ACCEPTED", "ENDED"}

\* OTHER: a decision that is not an approval.
Decisions == {"APPROVE", "OTHER"}

Same == "SAME"

\* An update on its way.  How its writer decided: by the status it read (seen),
\* by the stage it read, or blindly.
Write == [kind : {"write"}, by : {"status", "stage", "nothing"},
          seen : Statuses \cup {Same}, status : Statuses, stage : Stages \cup {Same},
          decision : Decisions \cup {Same}]

WritingBy(by, seen, status, stage, decision) ==
  /\ Start([kind |-> "write", by |-> by, seen |-> seen, status |-> status,
            stage |-> stage, decision |-> decision])
  /\ UNCHANGED app

WritingByStatus(status, stage, decision) ==
  WritingBy("status", app.status, status, stage, decision)

WritingBlindly(status, stage, decision) ==
  WritingBy("nothing", Same, status, stage, decision)

-----------------------------------------------------------------------------
(* Readings and decisions.                                                 *)

\* Plausible bug: a disbursed application may be cancelled.
TransitionAfterPayout(status) ==
  /\ app.status # status
  /\ status \in Transitions[app.status] \/ app.status = "DISBURSED"
  /\ WritingByStatus(status, StageOfStatus[status], Same)
  /\ UNCHANGED <<offer, approving>>

\* application.service.ts transition.
Transition(status) ==
  /\ app.status # status
  /\ status = "SUBMITTED" =>
       app.status \notin {"CREDIT_ASSESSMENT", "UNDER_REVIEW", "UNDERWRITING"}
  /\ status \in Transitions[app.status]
  /\ WritingByStatus(status, StageOfStatus[status], Same)
  /\ UNCHANGED <<offer, approving>>

\* The underwriting decision: APPROVE, REJECT, SEND_BACK, or HOLD and ESCALATE.
CommitDecision(status) ==
  /\ app.status \in {"UNDERWRITING", "CREDIT_ASSESSMENT", "UNDER_REVIEW", "APPROVED",
                     "REJECTED", "SUBMITTED"}
  /\ WritingByStatus(status, OffGraph, IF status = "APPROVED" THEN "APPROVE" ELSE "OTHER")
  /\ UNCHANGED <<offer, approving>>

\* transitionStage; a stage off the graph has no definition to look up and the
\* request fails, also for an administrator, who is otherwise not held to it.
TransitionStage(stage, admin) ==
  /\ \/ app.stage = stage
     \/ /\ app.stage # OffGraph
        /\ stage \in Lifecycle[app.stage] \/ admin
  /\ WritingBy("stage", Same, StatusOfStage[stage], stage, Same)
  /\ UNCHANGED <<offer, approving>>

\* forwardToFinanceOfficer.
ForwardToFinance ==
  /\ app.decision = "APPROVE"
  /\ offer \in {"NONE", "ACCEPTED"}
  /\ WritingBlindly("READY_FOR_DISBURSEMENT", OffGraph, Same)
  /\ UNCHANGED <<offer, approving>>

\* generateOffer, acceptOffer, declineOffer.
GenerateOffer ==
  /\ app.status # "REJECTED"
  /\ approving # "OPEN"
  /\ offer' = "PENDING"
  /\ WritingBlindly("APPROVED", Same, Same)
  /\ UNCHANGED approving

AcceptOffer ==
  /\ offer = "PENDING"
  /\ offer' = "ACCEPTED"
  /\ WritingBlindly("AGREEMENT_PENDING", Same, Same)
  /\ UNCHANGED approving

DeclineOffer ==
  /\ offer = "PENDING"
  /\ offer' = "ENDED"
  /\ WritingBlindly("CANCELLED", Same, Same)
  /\ UNCHANGED approving

\* acceptOffer after validUntil, and cancelOffer: no write to the application.
OfferEnds ==
  /\ offer = "PENDING"
  /\ offer' = "ENDED"
  /\ Count
  /\ UNCHANGED <<ops, app, approving>>

\* completeESign of a session of the application.
CompleteESign ==
  /\ WritingBlindly("READY_FOR_DISBURSEMENT", Same, Same)
  /\ UNCHANGED <<offer, approving>>

\* resolveAuthority opens a task for the application, once in a process.
OpenApproval ==
  /\ approving = "NONE"
  /\ approving' = "OPEN"
  /\ Count
  /\ UNCHANGED <<ops, app, offer>>

\* executeApprovalAction: the last approval, a rejection or a send-back closes
\* the task; an approval below the required level opens the next one.
ActOnApproval(status) ==
  /\ approving = "OPEN"
  /\ approving' = IF status = "UNDERWRITING" THEN "OPEN" ELSE "CLOSED"
  /\ WritingBlindly(status, Same, Same)
  /\ UNCHANGED offer

\* executeApprovalAction with DELEGATE, or ESCALATE to a level that was decided
\* before: the task is closed, nothing is written.
DelegateApproval ==
  /\ approving = "OPEN"
  /\ approving' = "CLOSED"
  /\ Count
  /\ UNCHANGED <<ops, app, offer>>

\* executeTransition: DISBURSED is not among the statuses it calls terminal, so
\* the status it reads protects nothing that is paid.
Orchestrate(status, decision) ==
  /\ app.status \notin {"REJECTED", "CANCELLED"}
  /\ WritingBlindly(status, Same, decision)
  /\ UNCHANGED <<offer, approving>>

\* verifyApplicationClearance.
VerifyClearance ==
  /\ app' = [app EXCEPT !.stage = OffGraph]
  /\ Count
  /\ UNCHANGED <<ops, offer, approving>>

-----------------------------------------------------------------------------
\* Plausible bug: an update that names no stage overwrites it all the same.
LandWriteOfAll(i) ==
  /\ ops[i].kind = "write"
  /\ app' = [app EXCEPT !.status = ops[i].status, !.stage = ops[i].stage]
  /\ End(i)
  /\ UNCHANGED <<offer, approving>>

\* The update lands.
LandWrite(i) ==
  /\ ops[i].kind = "write"
  /\ LET op == ops[i] IN
     app' = [app EXCEPT
       !.status = op.status,
       !.stage = IF op.stage = Same THEN @ ELSE op.stage,
       !.decision = IF op.decision = Same THEN @ ELSE op.decision]
  /\ End(i)
  /\ UNCHANGED <<offer, approving>>

ApplicationStatusNext ==
  \/ \E status \in Targets : Transition(status)
  \/ \E status \in Outcomes \cap {"APPROVED", "REJECTED", "SUBMITTED", "UNDER_REVIEW"} :
       CommitDecision(status)
  \/ \E stage \in StageTargets, admin \in BOOLEAN : TransitionStage(stage, admin)
  \/ ForwardToFinance
  \/ GenerateOffer \/ AcceptOffer \/ DeclineOffer
  \/ OfferEnds
  \/ CompleteESign
  \/ OpenApproval \/ DelegateApproval
  \/ \E status \in Outcomes \cap {"APPROVED", "UNDERWRITING", "REJECTED", "UNDER_REVIEW"} :
       ActOnApproval(status)
  \/ \E status \in Outcomes \cap {"UNDER_REVIEW", "APPROVED", "UNDERWRITING", "SUBMITTED"} :
       Orchestrate(status, Same)
  \/ Orchestrate("APPROVED", "APPROVE") \/ Orchestrate("UNDER_REVIEW", "OTHER")
  \/ VerifyClearance
  \/ \E i \in Slots : LandWrite(i)

-----------------------------------------------------------------------------
(* Properties.                                                             *)

\* transition() and the underwriting decision never take a disbursed
\* application back ("cannot be modified once disbursed or cancelled",
\* underwriting.service.ts:700) unless they read it before it was disbursed;
\* all the other ways out are the unguarded writers and the stage machine.
DisbursedKept ==
  app.status = "DISBURSED" /\ app'.status # "DISBURSED" =>
    \E i \in OfKind("write") :
      /\ ops'[i] = NoOp
      /\ ops[i].by = "status" => ops[i].seen # "DISBURSED"
=============================================================================
