--------------------------- MODULE ResponseStates ---------------------------
(***************************************************************************)
(* The tables of the two hand-written state machines of a compliance       *)
(* notice: the approval chain of its response                              *)
(* (services/response_state_machine.py) and the life of the notice itself  *)
(* (services/notice_state_machine.py), with the permission each step asks  *)
(* of the caller (routers/responses.py, routers/notices.py).               *)
(***************************************************************************)
EXTENDS PermissionRegistry

ResponseStatus == { "draft", "reviewer_pending", "legal_pending",
                    "cfo_pending", "approved", "rejected", "withdrawn" }

Stages == { "reviewer", "legal", "cfo" }

PendingStatus == { "reviewer_pending", "legal_pending", "cfo_pending" }

\* PENDING_STAGE_FOR_STATUS: the gate a pending response waits at.
PendingStage == [ reviewer_pending |-> "reviewer",
                  legal_pending    |-> "legal",
                  cfo_pending      |-> "cfo" ]

\* APPROVE_TRANSITIONS / REJECT_TRANSITIONS.  A caller's stage is always the
\* pending one, so both tables are keyed by the status alone.
StatusAfterApprove == [ reviewer_pending |-> "legal_pending",
                        legal_pending    |-> "cfo_pending",
                        cfo_pending      |-> "approved" ]

\* Seeded fault: the last gate hands back to a state outside the chain.
StatusAfterRejectFault == [ reviewer_pending |-> "draft",
                            legal_pending    |-> "reviewer_pending",
                            cfo_pending      |-> "sent_back" ]

StatusAfterReject == [ reviewer_pending |-> "draft",
                       legal_pending    |-> "reviewer_pending",
                       cfo_pending      |-> "legal_pending" ]

Decisions == { "approved", "rejected" }

StatusAfter(status, decision) ==
  IF decision = "approved" THEN StatusAfterApprove[status]
                           ELSE StatusAfterReject[status]

\* Seeded faults: a response stays editable while it is under review, and an
\* approved one can still be withdrawn.
CanEditUntilApproved(status) == status \in {"draft"} \cup PendingStatus
CanWithdrawApproved(status)  == status \notin {"rejected", "withdrawn"}

CanSubmitForReview(status) == status = "draft"
CanEditDraft(status)       == status = "draft"
CanWithdraw(status)        == status \notin {"approved", "rejected", "withdrawn"}

\* _STAGE_TO_PERMISSION.
StagePermission == [ reviewer |-> "notice:approve",
                     legal    |-> "notice:approve_legal",
                     cfo      |-> "notice:approve_cfo" ]

(***************************************************************************)
(* The notice.                                                             *)
(***************************************************************************)
NoticeStatus == { "received", "under_review", "response_drafted",
                  "submitted", "resolved", "dismissed" }

AllowedTransitions ==
  [ received         |-> {"under_review", "dismissed"},
    under_review     |-> {"response_drafted", "dismissed"},
    response_drafted |-> {"submitted", "under_review"},
    submitted        |-> {"resolved", "under_review"},
    resolved         |-> {},
    dismissed        |-> {} ]

\* _permissions_for_target_status: any of these admits the transition.
PermissionsForTarget(target) ==
  CASE target = "submitted"                   -> {"notice:submit"}
    [] target \in {"resolved", "dismissed"}   -> {"notice:approve"}
    [] target = "under_review"  -> {"notice:review", "notice:draft_response"}
    [] OTHER                                  -> {"notice:draft_response"}
=============================================================================
