----------------------- MODULE ResponseWorkflowProofs -----------------------
(***************************************************************************)
(* What the response workflow guarantees however many requests overlap, for*)
(* every team and every number of request slots.  Each invariant of the    *)
(* overlap run is proved from the inductive invariant IInv below: TypeOK,  *)
(* the shape of the rows and of the requests in progress (Shape), the two  *)
(* segregation-of-duties invariants, and GatesBehind, which says that a    *)
(* status - stored in the row or loaded into a session - is evidence that  *)
(* the gates before it were passed.  With one request at a time more holds:*)
(* the approved text cleared every gate, a filed notice keeps it, and the  *)
(* workflow implements ApprovalChain; that is the second part.             *)
(***************************************************************************)
EXTENDS ResponseWorkflow, TLAPS

\* The rows agree with one another.
RowsOK ==
  /\ ~Exists => versions = << >> /\ approvals = << >>
  /\ response.current <= Len(versions)
  /\ \A i \in DOMAIN approvals : approvals[i].version <= Len(versions)

\* A request that acts on the response was begun when there was one, and a
\* decision when it was pending.
RequestOK(request) ==
  /\ request.op \notin {"idle", "create"} => Exists
  /\ request.op # "idle" => request.user \in Users
  /\ request.op = "decide" =>
       /\ request.status \in PendingStatus
       /\ request.current <= Len(versions)

Shape == RowsOK /\ \A s \in Sessions : RequestOK(session[s])

\* The gates a response must have passed to be in a status.
Behind(status) ==
  CASE status = "legal_pending" -> {"reviewer"}
    [] status = "cfo_pending"   -> {"reviewer", "legal"}
    [] status = "approved"      -> Stages
    [] OTHER                    -> {}

GatesBehind ==
  /\ \A stage \in Behind(response.status) : Passed(stage)
  /\ \A s \in Sessions : session[s].op = "decide" =>
       \A stage \in Behind(session[s].status) : Passed(stage)

IInv == /\ TypeOK /\ Shape
        /\ MakerNeverChecks /\ OneActPerVersion
        /\ GatesBehind /\ FiledPassedEveryGate

-----------------------------------------------------------------------------
(***************************************************************************)
(* Type correctness.                                                       *)
(***************************************************************************)

LEMMA SetCurrent ==
  ASSUME NEW r \in ResponseRow, NEW v \in Nat
  PROVE  /\ [r EXCEPT !.current = v] \in ResponseRow
         /\ [r EXCEPT !.current = v].current = v
         /\ [r EXCEPT !.current = v].status = r.status
         /\ [r EXCEPT !.current = v].author = r.author
  BY DEF ResponseRow

LEMMA SetStatus ==
  ASSUME NEW r \in ResponseRow, NEW v \in ResponseStatus
  PROVE  /\ [r EXCEPT !.status = v] \in ResponseRow
         /\ [r EXCEPT !.status = v].status = v
         /\ [r EXCEPT !.status = v].current = r.current
         /\ [r EXCEPT !.status = v].author = r.author
  BY DEF ResponseRow

LEMMA IdleIsRequest == Idle \in Requests
  BY DEF Idle, Request, Requests, Ops

LEMMA RequestIsRequest ==
  ASSUME NEW op \in Ops, NEW u \in Users
  PROVE  Request(op, u) \in Requests
  BY DEF Request, Requests

\* The request a decision begins with.
Loaded(u) == [Request("decide", u) EXCEPT !.status  = response.status,
                                          !.current = response.current]

LEMMA LoadedIsRequest ==
  ASSUME TypeOK, NEW u \in Users
  PROVE  /\ Loaded(u) \in Requests
         /\ Loaded(u).op = "decide"
         /\ Loaded(u).user = u
         /\ Loaded(u).status = response.status
         /\ Loaded(u).current = response.current
  BY DEF Loaded, Request, Requests, Ops, TypeOK, ResponseRow

LEMMA TypeInit == Init => TypeOK
  BY UsersAssumption, IdleIsRequest
     DEF Init, TypeOK, NoticeStatus, NoResponse, ResponseRow

LEMMA TypeNext == TypeOK /\ Shape /\ [Next]_vars => TypeOK'
<1> SUFFICES ASSUME TypeOK, Shape, [Next]_vars
             PROVE  TypeOK'
  OBVIOUS
<1>1. ASSUME NEW s \in Sessions, NEW u \in Users, NEW op \in Ops,
             Begin(s, Request(op, u))
      PROVE  TypeOK'
  BY <1>1, RequestIsRequest DEF TypeOK, Begin
<1>2. ASSUME NEW s \in Sessions, NEW u \in Users, BeginDecide(s, u)
      PROVE  TypeOK'
  BY <1>2, LoadedIsRequest DEF TypeOK, BeginDecide, Begin, Loaded
<1>3. ASSUME NEW s \in Sessions, CreateResponse(s)
      PROVE  TypeOK'
  <2> DEFINE u == session[s].user
  <2>1. u \in Users
    BY <1>3 DEF CreateResponse, Running, Shape, RequestOK
  <2>2. response' \in ResponseRow /\ versions' \in Seq(Users)
    BY <1>3, <2>1 DEF CreateResponse, ResponseRow, ResponseStatus
  <2>3. session' \in [Sessions -> Requests]
    BY <1>3, <2>1, RequestIsRequest, IdleIsRequest
       DEF CreateResponse, Finish, TypeOK, Ops
  <2> QED
    BY <1>3, <2>2, <2>3 DEF CreateResponse, TypeOK
<1>4. ASSUME NEW s \in Sessions, UpdateDraft(s) \/ RollbackToVersion(s)
      PROVE  TypeOK'
  <2>1. session[s].user \in Users
    BY <1>4 DEF Shape, RequestOK, UpdateDraft, RollbackToVersion, Running
  <2>2. AppendVersion(session[s].user) /\ Finish(s)
        /\ UNCHANGED << notice, approvals >>
    BY <1>4 DEF UpdateDraft, RollbackToVersion
  <2>3. versions \in Seq(Users) /\ Len(versions) + 1 \in Nat
    BY DEF TypeOK
  <2>4. versions' \in Seq(Users)
    BY <2>1, <2>2, <2>3 DEF AppendVersion
  <2>5. response' \in ResponseRow
    BY <2>2, <2>3, SetCurrent DEF TypeOK, AppendVersion
  <2> QED
    BY <2>2, <2>4, <2>5, IdleIsRequest DEF TypeOK, Finish
<1>5. ASSUME NEW s \in Sessions, SubmitForReview(s) \/ Withdraw(s)
      PROVE  TypeOK'
  <2>1. "reviewer_pending" \in ResponseStatus /\ "withdrawn" \in ResponseStatus
    BY DEF ResponseStatus
  <2>2. response' \in ResponseRow
    BY <1>5, <2>1, SetStatus DEF TypeOK, SubmitForReview, Withdraw
  <2> QED
    BY <1>5, <2>2, IdleIsRequest DEF TypeOK, SubmitForReview, Withdraw, Finish
<1>6. ASSUME NEW s \in Sessions, NEW decision \in Decisions,
             ApplyApproval(s, decision)
      PROVE  TypeOK'
  <2>1. /\ session[s].status \in PendingStatus
        /\ session[s].user \in Users
        /\ session[s].current \in Nat
    BY <1>6 DEF TypeOK, Shape, RequestOK, ApplyApproval, Running, Requests
  <2>2. StatusAfter(session[s].status, decision) \in ResponseStatus
    BY <2>1 DEF StatusAfter, StatusAfterApprove, StatusAfterReject,
                PendingStatus, ResponseStatus
  <2>3. PendingStage[session[s].status] \in Stages
    BY <2>1 DEF PendingStage, PendingStatus, Stages
  <2>4. Decision(session[s], decision) \in ApprovalRow
    BY <2>1, <2>3 DEF Decision, ApprovalRow
  <2>5. response' \in ResponseRow
    BY <1>6, <2>2, SetStatus DEF TypeOK, ApplyApproval
  <2>6. approvals' \in Seq(ApprovalRow)
    BY <1>6, <2>4 DEF TypeOK, ApplyApproval
  <2> QED
    BY <1>6, <2>5, <2>6, IdleIsRequest DEF TypeOK, ApplyApproval, Finish
<1>7. ASSUME NEW s \in Sessions, Fail(s)
      PROVE  TypeOK'
  BY <1>7, IdleIsRequest DEF TypeOK, Fail, Finish
<1>8. ASSUME NEW u \in Users, NEW target \in NoticeStatus,
             TransitionNotice(u, target)
      PROVE  TypeOK'
  BY <1>8 DEF TypeOK, TransitionNotice
<1>9. CASE UNCHANGED vars
  BY <1>9 DEF TypeOK, vars
<1> QED
  BY <1>1, <1>2, <1>3, <1>4, <1>5, <1>6, <1>7, <1>8, <1>9
     DEF Next, BeginCreate, BeginEdit, BeginRollback, BeginSubmit,
         BeginWithdraw, Ops
-----------------------------------------------------------------------------
(***************************************************************************)
(* Shape.                                                                  *)
(***************************************************************************)

LEMMA IdleOK == RequestOK(Idle)'
  BY DEF RequestOK, Idle, Request

\* A response is never deleted and versions are only appended.
Grows ==
  /\ Exists => Exists'
  /\ Len(versions') \in Nat
  /\ Len(versions) <= Len(versions')

\* So what was true of the requests stays true when one of them moves on.
LEMMA RequestsStable ==
  ASSUME TypeOK, Shape, Grows,
         \/ session' = session
         \/ \E s \in Sessions, request \in Requests :
              /\ session' = [session EXCEPT ![s] = request]
              /\ RequestOK(request)'
  PROVE  \A t \in Sessions : RequestOK(session[t])'
<1> SUFFICES ASSUME NEW t \in Sessions
             PROVE  RequestOK(session[t])'
  OBVIOUS
<1>1. session[t] \in Requests /\ RequestOK(session[t])
  BY DEF TypeOK, Shape
<1>2. CASE session'[t] = session[t]
  BY <1>1, <1>2 DEF RequestOK, Grows, Requests, TypeOK
<1>3. CASE session'[t] # session[t]
  BY <1>1, <1>3 DEF TypeOK
<1> QED
  BY <1>2, <1>3

LEMMA ShapeInit == Init => Shape
  BY DEF Init, Shape, RowsOK, RequestOK, NoResponse, Idle, Request, Exists

LEMMA ApprovalsTyped ==
  ASSUME TypeOK
  PROVE  \A i \in DOMAIN approvals : approvals[i] \in ApprovalRow
  BY DEF TypeOK

LEMMA ShapeNext == TypeOK /\ Shape /\ [Next]_vars => Shape'
<1> SUFFICES ASSUME TypeOK, Shape, [Next]_vars
             PROVE  Shape'
  OBVIOUS
<1> USE IdleOK, IdleIsRequest
<1>1. ASSUME NEW s \in Sessions, NEW u \in Users, NEW op \in Ops,
             op # "decide", op # "create" => Exists,
             Begin(s, Request(op, u))
      PROVE  Shape'
  <2>1. Grows /\ RowsOK'
    BY <1>1 DEF Begin, Grows, RowsOK, Exists, Shape, TypeOK
  <2>2. RequestOK(Request(op, u))'
    BY <1>1 DEF RequestOK, Request, Begin, Exists
  <2> QED
    BY <1>1, <2>1, <2>2, RequestIsRequest, RequestsStable DEF Begin, Shape
<1>2. ASSUME NEW s \in Sessions, NEW u \in Users, BeginDecide(s, u)
      PROVE  Shape'
  <2>1. Grows /\ RowsOK'
    BY <1>2 DEF BeginDecide, Begin, Grows, RowsOK, Exists, Shape, TypeOK
  <2>2. response.status # "none"
    BY <1>2 DEF BeginDecide, PendingStatus
  <2>3. PICK request \in Requests :
          /\ request.op = "decide" /\ request.user = u
          /\ request.status = response.status
          /\ request.current = response.current
          /\ session' = [session EXCEPT ![s] = request]
    BY <1>2, LoadedIsRequest DEF BeginDecide, Begin, Loaded
  <2>4. UNCHANGED << response, versions >> /\ response.status \in PendingStatus
    BY <1>2 DEF BeginDecide, Begin
  <2>5. RequestOK(request)'
    BY <2>2, <2>3, <2>4 DEF RequestOK, Exists, Shape, RowsOK
  <2> QED
    BY <2>1, <2>3, <2>5, RequestsStable DEF Shape
<1>3. ASSUME NEW s \in Sessions, CreateResponse(s)
      PROVE  Shape'
  <2>0. PICK u \in Users : u = session[s].user
    BY <1>3 DEF CreateResponse, Shape, RequestOK, Running
  <2>1. /\ response' = [status |-> "draft", author |-> u, current |-> 1]
        /\ versions' = << u >> /\ versions = << >>
        /\ approvals' = << >>
    BY <1>3, <2>0 DEF CreateResponse, Shape, RowsOK
  <2>2. Grows /\ RowsOK'
    BY <2>1 DEF Grows, RowsOK, Exists
  <2>3. RequestOK(Request("edit", u))'
    BY <2>1 DEF RequestOK, Request, Exists
  <2>4. Request("edit", u) \in Requests
    BY RequestIsRequest DEF Ops
  <2> QED
    BY <1>3, <2>0, <2>2, <2>3, <2>4, RequestsStable
       DEF CreateResponse, Finish, Shape
<1>4. ASSUME NEW s \in Sessions, UpdateDraft(s) \/ RollbackToVersion(s)
      PROVE  Shape'
  <2> DEFINE u == session[s].user
  <2>1. /\ u \in Users /\ Exists
        /\ AppendVersion(u) /\ Finish(s) /\ approvals' = approvals
    BY <1>4
       DEF UpdateDraft, RollbackToVersion, Shape, RequestOK, Running
  <2>2. /\ Len(versions') = Len(versions) + 1
        /\ Len(versions) \in Nat
    BY <2>1 DEF AppendVersion, TypeOK
  <2>3. /\ response'.current = Len(versions) + 1
        /\ response'.status = response.status
    BY <2>1, <2>2, SetCurrent DEF AppendVersion, TypeOK
  <2>4. \A i \in DOMAIN approvals : approvals[i].version \in Nat
    BY ApprovalsTyped DEF ApprovalRow
  <2>5. Grows /\ RowsOK'
    BY <2>1, <2>2, <2>3, <2>4 DEF Grows, RowsOK, Exists, Shape
  <2> QED
    BY <2>1, <2>5, RequestsStable DEF Finish, Shape
<1>5. ASSUME NEW s \in Sessions, SubmitForReview(s) \/ Withdraw(s)
      PROVE  Shape'
  <2>1. /\ versions' = versions /\ approvals' = approvals
        /\ Exists /\ Finish(s)
    BY <1>5 DEF SubmitForReview, Withdraw, Shape, RequestOK, Running
  <2>2. /\ response'.current = response.current
        /\ response'.status \in {"reviewer_pending", "withdrawn"}
    <3>1. /\ "reviewer_pending" \in ResponseStatus
          /\ "withdrawn" \in ResponseStatus
          /\ response \in ResponseRow
      BY DEF ResponseStatus, TypeOK
    <3>2. CASE SubmitForReview(s)
      BY <3>1, <3>2, SetStatus DEF SubmitForReview
    <3>3. CASE Withdraw(s)
      BY <3>1, <3>3, SetStatus DEF Withdraw
    <3> QED
      BY <1>5, <3>2, <3>3
  <2>3. Grows /\ RowsOK'
    BY <2>1, <2>2 DEF Grows, RowsOK, Exists, Shape, TypeOK
  <2> QED
    BY <2>1, <2>3, RequestsStable DEF Finish, Shape
<1>6. ASSUME NEW s \in Sessions, NEW decision \in Decisions,
             ApplyApproval(s, decision)
      PROVE  Shape'
  <2> DEFINE req == session[s]
             row == Decision(req, decision)
  <2>1. /\ req.status \in PendingStatus /\ req \in Requests
        /\ req.current <= Len(versions)
        /\ versions' = versions /\ Finish(s) /\ Exists
        /\ approvals' = Append(approvals, row)
    BY <1>6 DEF ApplyApproval, Shape, RequestOK, Running, TypeOK
  <2>2. StatusAfter(req.status, decision) \in ResponseStatus
    BY <2>1 DEF StatusAfter, StatusAfterApprove, StatusAfterReject,
                PendingStatus, ResponseStatus
  <2>3. /\ response'.current = response.current
        /\ response'.status # "none"
    BY <1>6, <2>2, SetStatus DEF ApplyApproval, TypeOK, ResponseStatus
  <2>4. row.version = req.current
    BY DEF Decision
  <2>5. \A i \in DOMAIN approvals' : approvals'[i].version <= Len(versions)
    BY <2>1, <2>4 DEF TypeOK, Shape, RowsOK
  <2>6. Grows /\ RowsOK'
    BY <2>1, <2>3, <2>5 DEF Grows, RowsOK, Exists, Shape, TypeOK
  <2> QED
    BY <2>1, <2>6, RequestsStable DEF Finish, Shape
<1>7. ASSUME \/ \E s \in Sessions : Fail(s)
             \/ \E u \in Users, target \in NoticeStatus :
                  TransitionNotice(u, target)
             \/ UNCHANGED vars
      PROVE  Shape'
  <2>1. UNCHANGED << response, versions, approvals >>
    BY <1>7 DEF Fail, TransitionNotice, vars
  <2>2. Grows /\ RowsOK'
    BY <2>1 DEF Grows, RowsOK, Exists, Shape, TypeOK
  <2>3. session' = session \/ \E s \in Sessions : Finish(s)
    BY <1>7 DEF Fail, TransitionNotice, vars
  <2> QED
    BY <2>2, <2>3, RequestsStable DEF Finish, Shape
<1> QED
  BY <1>1, <1>2, <1>3, <1>4, <1>5, <1>6, <1>7
     DEF Next, BeginCreate, BeginEdit, BeginRollback, BeginSubmit,
         BeginWithdraw, Ops
-----------------------------------------------------------------------------
(***************************************************************************)
(* Segregation of duties.                                                  *)
(***************************************************************************)

\* What a step may do to the rows the duties speak of.
Drafts(u) ==
  /\ Exists
  /\ versions' = Append(versions, u)
  /\ approvals' = approvals /\ response'.author = response.author

Decides ==
  \E s \in Sessions, decision \in Decisions : ApplyApproval(s, decision)

LEMMA DutySteps ==
  ASSUME TypeOK, Shape, [Next]_vars
  PROVE  \/ approvals = << >> /\ approvals' = << >>
         \/ \E u \in Users : Drafts(u)
         \/ UNCHANGED << versions, approvals >> /\ response'.author = response.author
         \/ Decides
<1>1. ASSUME NEW s \in Sessions, CreateResponse(s)
      PROVE  approvals = << >> /\ approvals' = << >>
  BY <1>1 DEF CreateResponse, Shape, RowsOK
<1>2. ASSUME NEW s \in Sessions, UpdateDraft(s) \/ RollbackToVersion(s)
      PROVE  \E u \in Users : Drafts(u)
  <2>1. session[s].user \in Users /\ Exists
    BY <1>2 DEF UpdateDraft, RollbackToVersion, Shape, RequestOK, Running
  <2>2. AppendVersion(session[s].user) /\ approvals' = approvals
    BY <1>2 DEF UpdateDraft, RollbackToVersion
  <2>3. response \in ResponseRow /\ Len(versions) + 1 \in Nat
    BY DEF TypeOK
  <2>4. Drafts(session[s].user)
    BY <2>1, <2>2, <2>3, SetCurrent DEF AppendVersion, Drafts
  <2> QED
    BY <2>1, <2>4
<1>3. ASSUME NEW s \in Sessions, SubmitForReview(s) \/ Withdraw(s)
      PROVE  /\ UNCHANGED << versions, approvals >>
             /\ response'.author = response.author
  <2>1. /\ "reviewer_pending" \in ResponseStatus
        /\ "withdrawn" \in ResponseStatus
        /\ response \in ResponseRow
    BY DEF ResponseStatus, TypeOK
  <2>2. CASE SubmitForReview(s)
    BY <2>1, <2>2, SetStatus DEF SubmitForReview
  <2>3. CASE Withdraw(s)
    BY <2>1, <2>3, SetStatus DEF Withdraw
  <2> QED
    BY <1>3, <2>2, <2>3
<1>4. ASSUME \/ \E s \in Sessions : Fail(s)
             \/ \E s \in Sessions : \E request : Begin(s, request)
             \/ \E u \in Users, target \in NoticeStatus :
                  TransitionNotice(u, target)
             \/ UNCHANGED vars
      PROVE  UNCHANGED << response, versions, approvals >>
  BY <1>4 DEF Fail, Begin, TransitionNotice, vars
<1> QED
  BY <1>1, <1>2, <1>3, <1>4
     DEF Next, Decides, BeginCreate, BeginEdit, BeginRollback, BeginSubmit,
         BeginWithdraw, BeginDecide

\* The new row of a decision, as the checks under the lock leave it.
LEMMA NewDecision ==
  ASSUME TypeOK, Shape, Decides
  PROVE  \E row \in ApprovalRow :
           /\ approvals' = Append(approvals, row)
           /\ row.version <= Len(versions)
           /\ ~IsMaker(row.actor)
           /\ ~HasActedOn(row.actor, row.version)
           /\ versions' = versions
           /\ response'.author = response.author
<1>1. PICK s \in Sessions, decision \in Decisions : ApplyApproval(s, decision)
  BY DEF Decides
<1> DEFINE req == session[s]
           row == Decision(req, decision)
<1>2. /\ req.status \in PendingStatus /\ req \in Requests
      /\ req.current <= Len(versions) /\ req.user \in Users
      /\ req.current \in Nat
  BY <1>1 DEF ApplyApproval, Shape, RequestOK, Running, TypeOK, Requests
<1>3. /\ row \in ApprovalRow
      /\ row.version = req.current /\ row.actor = req.user
  <2>1. PendingStage[req.status] \in Stages
    BY <1>2 DEF PendingStage, PendingStatus, Stages
  <2> QED
    BY <1>2, <2>1 DEF Decision, ApprovalRow
<1>4. StatusAfter(req.status, decision) \in ResponseStatus
  BY <1>2 DEF StatusAfter, StatusAfterApprove, StatusAfterReject,
              PendingStatus, ResponseStatus
<1>5. response'.author = response.author
  BY <1>1, <1>4, SetStatus DEF ApplyApproval, TypeOK
<1> QED
  BY <1>1, <1>2, <1>3, <1>5 DEF ApplyApproval

LEMMA MakerNext ==
  TypeOK /\ Shape /\ MakerNeverChecks /\ [Next]_vars => MakerNeverChecks'
<1> SUFFICES ASSUME TypeOK, Shape, MakerNeverChecks, [Next]_vars
             PROVE  MakerNeverChecks'
  OBVIOUS
<1>0. /\ \A i \in DOMAIN approvals :
           /\ approvals[i] \in ApprovalRow
           /\ approvals[i].version \in Nat
           /\ approvals[i].version <= Len(versions)
      /\ versions \in Seq(Users) /\ approvals \in Seq(ApprovalRow)
  BY ApprovalsTyped DEF ApprovalRow, Shape, RowsOK, TypeOK
<1>1. CASE approvals' = << >>
  BY <1>1 DEF MakerNeverChecks
<1>2. ASSUME NEW u \in Users, Drafts(u)
      PROVE  MakerNeverChecks'
  <2>1. \A v \in 1..Len(versions) : versions'[v] = versions[v]
    BY <1>0, <1>2 DEF Drafts
  <2> QED
    BY <1>0, <1>2, <2>1 DEF MakerNeverChecks, Drafts
<1>3. CASE /\ UNCHANGED << versions, approvals >>
           /\ response'.author = response.author
  BY <1>3 DEF MakerNeverChecks
<1>4. CASE Decides
  <2>1. PICK row \in ApprovalRow :
           /\ approvals' = Append(approvals, row)
           /\ row.version <= Len(versions)
           /\ ~IsMaker(row.actor)
           /\ versions' = versions
           /\ response'.author = response.author
    BY <1>4, NewDecision
  <2>2. row.version \in Nat
    BY DEF ApprovalRow
  <2>3. \A v \in 1..row.version : versions[v] # row.actor
    BY <1>0, <2>1, <2>2 DEF IsMaker
  <2>4. ASSUME NEW i \in DOMAIN approvals'
        PROVE  \/ i \in DOMAIN approvals /\ approvals'[i] = approvals[i]
               \/ approvals'[i] = row
    BY <1>0, <2>1, <2>4
  <2> QED
    BY <2>1, <2>3, <2>4 DEF MakerNeverChecks, IsMaker, IsAuthor
<1> QED
  BY <1>1, <1>2, <1>3, <1>4, DutySteps

LEMMA OneActNext ==
  TypeOK /\ Shape /\ OneActPerVersion /\ [Next]_vars => OneActPerVersion'
<1> SUFFICES ASSUME TypeOK, Shape, OneActPerVersion, [Next]_vars
             PROVE  OneActPerVersion'
  OBVIOUS
<1>1. CASE approvals' = << >> \/ approvals' = approvals
  BY <1>1 DEF OneActPerVersion
<1>2. CASE Decides
  <2>1. PICK row \in ApprovalRow :
           /\ approvals' = Append(approvals, row)
           /\ ~HasActedOn(row.actor, row.version)
    BY <1>2, NewDecision
  <2>2. approvals \in Seq(ApprovalRow)
    BY DEF TypeOK
  <2>3. ASSUME NEW i \in DOMAIN approvals'
        PROVE  \/ i \in DOMAIN approvals /\ approvals'[i] = approvals[i]
               \/ i = Len(approvals) + 1 /\ approvals'[i] = row
    BY <2>1, <2>2, <2>3
  <2> QED
    BY <2>1, <2>3 DEF OneActPerVersion, HasActedOn
<1> QED
  BY <1>1, <1>2, DutySteps DEF Drafts
-----------------------------------------------------------------------------
(***************************************************************************)
(* The gates behind a status, and behind a filed notice.                   *)
(***************************************************************************)

\* Decisions are never deleted or changed.
LEMMA PassedStable ==
  ASSUME TypeOK, Shape, [Next]_vars, NEW stage, Passed(stage)
  PROVE  Passed(stage)'
<1>1. PICK i \in DOMAIN approvals :
        approvals[i].stage = stage /\ approvals[i].decision = "approved"
  BY DEF Passed
<1>2. CASE approvals' = approvals
  BY <1>1, <1>2 DEF Passed
<1>3. CASE Decides
  <2>1. PICK row \in ApprovalRow : approvals' = Append(approvals, row)
    BY <1>3, NewDecision
  <2>2. i \in DOMAIN approvals' /\ approvals'[i] = approvals[i]
    BY <1>1, <2>1 DEF TypeOK
  <2> QED
    BY <1>1, <2>2 DEF Passed
<1> QED
  BY <1>1, <1>2, <1>3, DutySteps DEF Drafts

\* A decision leads to a status that asks for no gate but those behind the
\* status it was taken in and, when it approves, the gate it was taken at.
LEMMA BehindAfter ==
  ASSUME NEW status \in PendingStatus, NEW decision \in Decisions,
         NEW stage \in Behind(StatusAfter(status, decision))
  PROVE  \/ stage \in Behind(status)
         \/ decision = "approved" /\ stage = PendingStage[status]
  BY DEF PendingStatus, Decisions, Behind, StatusAfter, StatusAfterApprove,
         StatusAfterReject, PendingStage, Stages

LEMMA GatesNext ==
  TypeOK /\ Shape /\ GatesBehind /\ [Next]_vars => GatesBehind'
<1> SUFFICES ASSUME TypeOK, Shape, GatesBehind, [Next]_vars
             PROVE  GatesBehind'
  OBVIOUS
<1> DEFINE Vouched(status) == \A stage \in Behind(status) : Passed(stage)
<1>0. ASSUME NEW status, Vouched(status)
      PROVE  \A stage \in Behind(status) : Passed(stage)'
  BY <1>0, PassedStable
\* It is enough that the new row and the one request that moved are vouched.
<1>1. ASSUME \A stage \in Behind(response'.status) : Passed(stage)',
             \/ session' = session
             \/ \E s \in Sessions, request \in Requests :
                  /\ session' = [session EXCEPT ![s] = request]
                  /\ request.op = "decide" => Vouched(request.status)
      PROVE  GatesBehind'
  <2> SUFFICES ASSUME NEW t \in Sessions, session'[t].op = "decide"
               PROVE  \A stage \in Behind(session'[t].status) : Passed(stage)'
    BY <1>1 DEF GatesBehind
  <2>1. CASE session'[t] = session[t]
    BY <1>0, <2>1 DEF GatesBehind
  <2>2. CASE session'[t] # session[t]
    BY <1>0, <1>1, <2>2 DEF TypeOK
  <2> QED
    BY <2>1, <2>2
<1>2. Idle \in Requests /\ Idle.op # "decide"
  BY IdleIsRequest DEF Idle, Request
<1>3. ASSUME NEW s \in Sessions, NEW u \in Users, NEW op \in Ops,
             op # "decide", Begin(s, Request(op, u))
      PROVE  GatesBehind'
  <2>1. Request(op, u) \in Requests /\ Request(op, u).op # "decide"
    BY <1>3, RequestIsRequest DEF Request
  <2>2. \A stage \in Behind(response'.status) : Passed(stage)'
    BY <1>0, <1>3 DEF Begin, GatesBehind
  <2>3. session' = [session EXCEPT ![s] = Request(op, u)]
    BY <1>3 DEF Begin
  <2> QED
    BY <1>1, <2>1, <2>2, <2>3
<1>4. ASSUME NEW s \in Sessions, NEW u \in Users, BeginDecide(s, u)
      PROVE  GatesBehind'
  <2>1. PICK request \in Requests :
          /\ request.status = response.status
          /\ session' = [session EXCEPT ![s] = request]
    BY <1>4, LoadedIsRequest DEF BeginDecide, Begin, Loaded
  <2>2. \A stage \in Behind(response'.status) : Passed(stage)'
    BY <1>0, <1>4 DEF BeginDecide, Begin, GatesBehind
  <2>3. Vouched(request.status)
    BY <2>1 DEF GatesBehind
  <2> QED
    BY <1>1, <2>1, <2>2, <2>3
<1>5. ASSUME NEW s \in Sessions, CreateResponse(s)
      PROVE  GatesBehind'
  <2>1. session[s].user \in Users
    BY <1>5 DEF CreateResponse, Shape, RequestOK, Running
  <2>2. /\ Request("edit", session[s].user) \in Requests
        /\ Request("edit", session[s].user).op # "decide"
    BY <2>1, RequestIsRequest DEF Ops, Request
  <2>3. Behind(response'.status) = {}
    BY <1>5 DEF CreateResponse, Behind
  <2> QED
    BY <1>1, <1>2, <1>5, <2>2, <2>3 DEF CreateResponse, Finish
<1>6. ASSUME NEW s \in Sessions, UpdateDraft(s) \/ RollbackToVersion(s)
      PROVE  GatesBehind'
  <2>1. AppendVersion(session[s].user) /\ Finish(s)
    BY <1>6 DEF UpdateDraft, RollbackToVersion
  <2>2. response'.status = response.status
    BY <2>1, SetCurrent DEF AppendVersion, TypeOK
  <2>3. \A stage \in Behind(response'.status) : Passed(stage)'
    BY <1>0, <2>2 DEF GatesBehind
  <2> QED
    BY <1>1, <1>2, <2>1, <2>3 DEF Finish
<1>7. ASSUME NEW s \in Sessions, SubmitForReview(s) \/ Withdraw(s)
      PROVE  GatesBehind'
  <2>1. /\ "reviewer_pending" \in ResponseStatus
        /\ "withdrawn" \in ResponseStatus
        /\ response \in ResponseRow
    BY DEF ResponseStatus, TypeOK
  <2>2. response'.status \in {"reviewer_pending", "withdrawn"}
    <3>1. CASE SubmitForReview(s)
      BY <2>1, <3>1, SetStatus DEF SubmitForReview
    <3>2. CASE Withdraw(s)
      BY <2>1, <3>2, SetStatus DEF Withdraw
    <3> QED
      BY <1>7, <3>1, <3>2
  <2>3. Behind(response'.status) = {}
    BY <2>2 DEF Behind
  <2>4. Finish(s)
    BY <1>7 DEF SubmitForReview, Withdraw
  <2> QED
    BY <1>1, <1>2, <2>3, <2>4 DEF Finish
<1>8. ASSUME NEW s \in Sessions, NEW decision \in Decisions,
             ApplyApproval(s, decision)
      PROVE  GatesBehind'
  <2> DEFINE req == session[s]
             row == Decision(req, decision)
  <2>1. /\ req.status \in PendingStatus
        /\ Vouched(req.status) /\ Finish(s)
        /\ approvals' = Append(approvals, row)
    BY <1>8 DEF ApplyApproval, Shape, RequestOK, Running, GatesBehind
  <2>2. StatusAfter(req.status, decision) \in ResponseStatus
    BY <2>1 DEF StatusAfter, StatusAfterApprove, StatusAfterReject,
                PendingStatus, ResponseStatus
  <2>3. response'.status = StatusAfter(req.status, decision)
    BY <1>8, <2>2, SetStatus DEF ApplyApproval, TypeOK
  <2>4. ASSUME decision = "approved", NEW stage, stage = PendingStage[req.status]
        PROVE  Passed(stage)'
    <3>1. /\ Len(approvals) + 1 \in DOMAIN approvals'
          /\ approvals'[Len(approvals) + 1] = row
      BY <2>1 DEF TypeOK
    <3>2. row.stage = PendingStage[req.status] /\ row.decision = decision
      BY DEF Decision
    <3> QED
      BY <2>4, <3>1, <3>2 DEF Passed
  <2>5. \A stage \in Behind(response'.status) : Passed(stage)'
    BY <1>0, <2>1, <2>3, <2>4, BehindAfter
  <2> QED
    BY <1>1, <1>2, <2>1, <2>5 DEF Finish
<1>9. ASSUME \/ \E s \in Sessions : Fail(s)
             \/ \E u \in Users, target \in NoticeStatus :
                  TransitionNotice(u, target)
             \/ UNCHANGED vars
      PROVE  GatesBehind'
  <2>1. response' = response
    BY <1>9 DEF Fail, TransitionNotice, vars
  <2>2. session' = session \/ \E s \in Sessions : Finish(s)
    BY <1>9 DEF Fail, TransitionNotice, vars
  <2>3. \A stage \in Behind(response'.status) : Passed(stage)'
    BY <1>0, <2>1 DEF GatesBehind
  <2> QED
    BY <1>1, <1>2, <2>2, <2>3 DEF Finish
<1> QED
  BY <1>3, <1>4, <1>5, <1>6, <1>7, <1>8, <1>9
     DEF Next, BeginCreate, BeginEdit, BeginRollback, BeginSubmit,
         BeginWithdraw, Ops

LEMMA FiledNext ==
  TypeOK /\ Shape /\ GatesBehind /\ FiledPassedEveryGate /\ [Next]_vars
    => FiledPassedEveryGate'
<1> SUFFICES ASSUME TypeOK, Shape, GatesBehind, FiledPassedEveryGate,
                    [Next]_vars, notice' \in {"submitted", "resolved"},
                    NEW stage \in Stages
             PROVE  Passed(stage)'
  BY DEF FiledPassedEveryGate
<1>1. CASE notice' = notice
  BY <1>1, PassedStable DEF FiledPassedEveryGate
<1>2. CASE notice' # notice
  <2>1. PICK u \in Users, target \in NoticeStatus : TransitionNotice(u, target)
    BY <1>2 DEF Next, vars, BeginCreate, BeginEdit, BeginRollback, BeginSubmit,
                BeginWithdraw, BeginDecide, Begin, CreateResponse, UpdateDraft,
                RollbackToVersion, SubmitForReview, Withdraw, ApplyApproval, Fail
  <2>2. CASE target = "submitted"
    <3>1. response.status = "approved"
      BY <2>1, <2>2 DEF TransitionNotice, IsResponseApproved
    <3>2. stage \in Behind(response.status)
      BY <3>1 DEF Behind
    <3> QED
      BY <3>2, PassedStable DEF GatesBehind
  <2>3. CASE target = "resolved"
    <3>1. notice = "submitted"
      BY <2>1, <2>3
         DEF TransitionNotice, AllowedTransitions, TypeOK, NoticeStatus
    <3> QED
      BY <3>1, PassedStable DEF FiledPassedEveryGate
  <2> QED
    BY <2>1, <2>2, <2>3 DEF TransitionNotice
<1> QED
  BY <1>1, <1>2
-----------------------------------------------------------------------------
(***************************************************************************)
(* The theorems.                                                           *)
(***************************************************************************)

\* IInv holds in every reachable state, whatever the team and the number of
\* overlapping requests: it starts true and every step of the routers, of
\* response_service and of notice_service keeps it.
THEOREM Invariance == Spec => []IInv
<1>1. Init => IInv
  <2> SUFFICES ASSUME Init PROVE IInv
    OBVIOUS
  <2>1. TypeOK /\ Shape
    BY TypeInit, ShapeInit
  <2>2. MakerNeverChecks /\ OneActPerVersion /\ FiledPassedEveryGate
    BY DEF Init, MakerNeverChecks, OneActPerVersion, FiledPassedEveryGate
  <2>3. GatesBehind
    BY DEF Init, GatesBehind, Behind, NoResponse, Idle, Request
  <2> QED
    BY <2>1, <2>2, <2>3 DEF IInv
<1>2. IInv /\ [Next]_vars => IInv'
  BY TypeNext, ShapeNext, MakerNext, OneActNext, GatesNext, FiledNext DEF IInv
<1> QED
  BY <1>1, <1>2, PTL DEF Spec

\* The rows and the requests in progress keep their types.
THEOREM TypeCorrect == Spec => []TypeOK
<1>1. IInv => TypeOK
  BY DEF IInv
<1> QED
  BY <1>1, Invariance, PTL

\* Whoever decides on a version wrote neither it nor an earlier one, nor opened
\* the response, however the drafting and deciding requests overlap (R1.1).
THEOREM MakerIsNeverChecker == Spec => []MakerNeverChecks
<1>1. IInv => MakerNeverChecks
  BY DEF IInv
<1> QED
  BY <1>1, Invariance, PTL

\* No one acts twice on one version, even from two requests at once (R1.2).
THEOREM OneActEach == Spec => []OneActPerVersion
<1>1. IInv => OneActPerVersion
  BY DEF IInv
<1> QED
  BY <1>1, Invariance, PTL

\* A notice on file had each of its three gates pass, although the decisions
\* act on loaded rows that may be stale.
THEOREM FiledIsVouched == Spec => []FiledPassedEveryGate
<1>1. IInv => FiledPassedEveryGate
  BY DEF IInv
<1> QED
  BY <1>1, Invariance, PTL
-----------------------------------------------------------------------------
(***************************************************************************)
(* One request at a time.  What a request loaded is then still so when it  *)
(* commits, and each commit is one of the seven things below.              *)
(***************************************************************************)
OneAtATime == \A s, t \in Sessions : s = t

Fresh ==
  \A s \in Sessions : LET req == session[s] IN
    /\ req.op \in {"edit", "rollback", "submit"} => response.status = "draft"
    /\ req.op = "withdraw" => Exists /\ CanWithdraw(response.status)
    /\ req.op = "decide" =>
         req.status = response.status /\ req.current = response.current

Created(u) ==
  /\ ~Exists /\ approvals = << >>
  /\ response' = [status |-> "draft", author |-> u, current |-> 1]
  /\ versions' = << u >>
  /\ UNCHANGED << notice, approvals >>

Revised(u) ==
  /\ response.status = "draft"
  /\ response' = [response EXCEPT !.current = Len(versions) + 1]
  /\ versions' = Append(versions, u)
  /\ UNCHANGED << notice, approvals >>

Submitted ==
  /\ response.status = "draft"
  /\ response' = [response EXCEPT !.status = "reviewer_pending"]
  /\ UNCHANGED << notice, versions, approvals >>

Withdrawn ==
  /\ Exists /\ CanWithdraw(response.status)
  /\ response' = [response EXCEPT !.status = "withdrawn"]
  /\ UNCHANGED << notice, versions, approvals >>

Row(u, decision) ==
  [stage   |-> PendingStage[response.status], decision |-> decision,
   actor   |-> u,                             version  |-> response.current]

Judged(u, decision) ==
  /\ response.status \in PendingStatus
  /\ ~IsMaker(u) /\ ~HasActedOn(u, response.current)
  /\ approvals' = Append(approvals, Row(u, decision))
  /\ response' = [response EXCEPT !.status = StatusAfter(response.status, decision)]
  /\ UNCHANGED << notice, versions >>

Moved(target) ==
  /\ target \in AllowedTransitions[notice]
  /\ target = "submitted" => response.status = "approved"
  /\ notice' = target
  /\ UNCHANGED << response, versions, approvals >>

RowsUnchanged == UNCHANGED << notice, response, versions, approvals >>

LEMMA SerialSteps ==
  ASSUME TypeOK, Shape, Fresh, [Next]_vars
  PROVE  \/ \E u \in Users : Created(u) \/ Revised(u)
         \/ Submitted \/ Withdrawn
         \/ \E u \in Users, decision \in Decisions : Judged(u, decision)
         \/ \E target \in NoticeStatus : Moved(target)
         \/ RowsUnchanged
<1>1. ASSUME NEW s \in Sessions, CreateResponse(s)
      PROVE  \E u \in Users : Created(u)
  BY <1>1 DEF CreateResponse, Created, Shape, RowsOK, RequestOK, Running
<1>2. ASSUME NEW s \in Sessions, UpdateDraft(s) \/ RollbackToVersion(s)
      PROVE  \E u \in Users : Revised(u)
  BY <1>2 DEF UpdateDraft, RollbackToVersion, AppendVersion, Revised, Fresh,
              Shape, RequestOK, Running
<1>3. ASSUME NEW s \in Sessions, SubmitForReview(s) \/ Withdraw(s)
      PROVE  Submitted \/ Withdrawn
  BY <1>3 DEF SubmitForReview, Withdraw, Submitted, Withdrawn, Fresh, Running
<1>4. ASSUME NEW s \in Sessions, NEW decision \in Decisions,
             ApplyApproval(s, decision)
      PROVE  \E u \in Users : Judged(u, decision)
  <2>1. /\ session[s].user \in Users /\ session[s].status \in PendingStatus
        /\ session[s].status = response.status
        /\ session[s].current = response.current
    BY <1>4 DEF ApplyApproval, Fresh, Shape, RequestOK, Running
  <2>2. Decision(session[s], decision) = Row(session[s].user, decision)
    BY <2>1 DEF Decision, Row
  <2> QED
    BY <1>4, <2>1, <2>2 DEF ApplyApproval, Judged
<1>5. ASSUME NEW u \in Users, NEW target \in NoticeStatus,
             TransitionNotice(u, target)
      PROVE  Moved(target)
  BY <1>5 DEF TransitionNotice, IsResponseApproved, Moved
<1>6. ASSUME \/ \E s \in Sessions : Fail(s) \/ \E request : Begin(s, request)
             \/ UNCHANGED vars
      PROVE  RowsUnchanged
  BY <1>6 DEF Fail, Begin, vars, RowsUnchanged
<1> QED
  BY <1>1, <1>2, <1>3, <1>4, <1>5, <1>6
     DEF Next, BeginCreate, BeginEdit, BeginRollback, BeginSubmit,
         BeginWithdraw, BeginDecide

LEMMA FreshNext == OneAtATime /\ TypeOK /\ Shape /\ Fresh /\ [Next]_vars => Fresh'
<1> SUFFICES ASSUME OneAtATime, TypeOK, Shape, Fresh, [Next]_vars,
                    NEW s \in Sessions
             PROVE  LET req == session'[s] IN
                      /\ req.op \in {"edit", "rollback", "submit"} => response'.status = "draft"
                      /\ req.op = "withdraw" => Exists' /\ CanWithdraw(response'.status)
                      /\ req.op = "decide" =>
                           req.status = response'.status /\ req.current = response'.current
  BY DEF Fresh
<1> USE DEF OneAtATime
<1>1. ASSUME NEW u \in Users, NEW op \in Ops, op # "decide",
             op \in {"edit", "rollback", "submit"} => response.status = "draft",
             op = "withdraw" => Exists /\ CanWithdraw(response.status),
             NEW t \in Sessions, Begin(t, Request(op, u))
      PROVE  /\ session'[s].op = op /\ response' = response
    BY <1>1 DEF Begin, Request, TypeOK
<1>2. ASSUME NEW u \in Users, NEW t \in Sessions, BeginDecide(t, u)
      PROVE  /\ session'[s].op = "decide" /\ response' = response
             /\ session'[s].status = response.status
             /\ session'[s].current = response.current
  BY <1>2, LoadedIsRequest DEF BeginDecide, Begin, Loaded, TypeOK
<1>3. ASSUME NEW t \in Sessions, CreateResponse(t)
      PROVE  session'[s].op \in {"idle", "edit"} /\ response'.status = "draft"
  BY <1>3 DEF CreateResponse, Finish, Idle, Request, TypeOK
<1>4. ASSUME NEW t \in Sessions,
             \/ UpdateDraft(t) \/ RollbackToVersion(t) \/ SubmitForReview(t)
             \/ Withdraw(t) \/ Fail(t) \/ \E decision \in Decisions : ApplyApproval(t, decision)
      PROVE  session'[s].op = "idle"
  BY <1>4 DEF UpdateDraft, RollbackToVersion, SubmitForReview, Withdraw, Fail,
              ApplyApproval, Finish, Idle, Request, TypeOK
<1>5. ASSUME \/ \E u \in Users, target \in NoticeStatus : TransitionNotice(u, target)
             \/ UNCHANGED vars
      PROVE  UNCHANGED << response, session >>
  BY <1>5 DEF TransitionNotice, vars
<1> QED
  BY <1>1, <1>2, <1>3, <1>4, <1>5
     DEF Next, BeginCreate, BeginEdit, BeginRollback, BeginSubmit, BeginWithdraw,
         Ops, Fresh, Exists, CanEditDraft, CanSubmitForReview

-----------------------------------------------------------------------------
(***************************************************************************)
(* The gates behind the present form of the text, and the answer on file.  *)
(***************************************************************************)
ClearedBehind ==
  \A stage \in Behind(response.status) : Cleared(stage, response.current)

LEMMA StatusAfterTyped ==
  ASSUME NEW status \in PendingStatus, NEW decision \in Decisions
  PROVE  StatusAfter(status, decision) \in ResponseStatus
  BY DEF StatusAfter, StatusAfterApprove, StatusAfterReject, PendingStatus, ResponseStatus

\* A decision adds its own row to those of the current version.
LEMMA JudgedRows ==
  ASSUME TypeOK, NEW u \in Users, NEW decision \in Decisions, Judged(u, decision)
  PROVE  /\ response'.status = StatusAfter(response.status, decision)
         /\ response'.current = response.current /\ response'.author = response.author
         /\ DOMAIN approvals' = DOMAIN approvals \cup {Len(approvals) + 1}
         /\ Len(approvals) + 1 \notin DOMAIN approvals
         /\ approvals'[Len(approvals) + 1] = Row(u, decision)
         /\ \A i \in DOMAIN approvals : approvals'[i] = approvals[i]
<1>1. StatusAfter(response.status, decision) \in ResponseStatus
  BY StatusAfterTyped DEF Judged
<1>2. /\ response'.status = StatusAfter(response.status, decision)
      /\ response'.current = response.current /\ response'.author = response.author
  BY <1>1, SetStatus DEF Judged, TypeOK
<1>3. Row(u, decision) \in ApprovalRow
  BY DEF Row, ApprovalRow, Judged, TypeOK, ResponseRow, PendingStatus, PendingStage, Stages
<1> QED
  BY <1>2, <1>3 DEF Judged, TypeOK

LEMMA JudgedClears ==
  ASSUME TypeOK, NEW u \in Users, NEW decision \in Decisions, Judged(u, decision),
         NEW stage
  PROVE  Cleared(stage, response.current)' <=>
           \/ Cleared(stage, response.current)
           \/ decision = "approved" /\ stage = PendingStage[response.status]
<1> DEFINE new == Len(approvals) + 1
           Clears(row) == /\ row.stage = stage /\ row.decision = "approved"
                          /\ row.version = response.current
<1>1. Clears(Row(u, decision)) <=>
        decision = "approved" /\ stage = PendingStage[response.status]
  BY DEF Row
<1>2. Cleared(stage, response.current) <=> \E i \in DOMAIN approvals : Clears(approvals[i])
  BY DEF Cleared
<1>3. Cleared(stage, response.current)' <=> \E i \in DOMAIN approvals' : Clears(approvals'[i])
  BY JudgedRows DEF Cleared
<1>4. (\E i \in DOMAIN approvals' : Clears(approvals'[i]))
        <=> (\E i \in DOMAIN approvals : Clears(approvals[i])) \/ Clears(Row(u, decision))
  <2> HIDE DEF Clears
  <2> QED
    BY JudgedRows
<1> QED
  BY <1>1, <1>2, <1>3, <1>4

LEMMA ClearedNext ==
  TypeOK /\ Shape /\ Fresh /\ ClearedBehind /\ [Next]_vars => ClearedBehind'
<1> SUFFICES ASSUME TypeOK, Shape, Fresh, ClearedBehind, [Next]_vars
             PROVE  ClearedBehind'
  OBVIOUS
<1>1. ASSUME NEW u \in Users, Created(u) \/ Revised(u)
      PROVE  Behind(response'.status) = {}
  <2>1. response \in ResponseRow /\ Len(versions) + 1 \in Nat
    BY DEF TypeOK
  <2>2. response'.status = "draft"
    <3>1. CASE Created(u)
      BY <3>1 DEF Created
    <3>2. CASE Revised(u)
      BY <2>1, <3>2, SetCurrent DEF Revised
    <3> QED
      BY <1>1, <3>1, <3>2
  <2> QED
    BY <2>2 DEF Behind
<1>2. ASSUME Submitted \/ Withdrawn
      PROVE  Behind(response'.status) = {}
  BY <1>2, SetStatus DEF Submitted, Withdrawn, Behind, TypeOK, ResponseStatus
<1>3. ASSUME NEW u \in Users, NEW decision \in Decisions, Judged(u, decision)
      PROVE  ClearedBehind'
  BY <1>3, JudgedRows, JudgedClears, BehindAfter DEF ClearedBehind, Judged
<1>4. ASSUME RowsUnchanged \/ \E target \in NoticeStatus : Moved(target)
      PROVE  UNCHANGED << response, approvals >>
  BY <1>4 DEF RowsUnchanged, Moved
<1>5. CASE UNCHANGED << response, approvals >>
  BY <1>5 DEF ClearedBehind, Cleared
<1> QED
  BY <1>1, <1>2, <1>3, <1>4, <1>5, SerialSteps DEF ClearedBehind

LEMMA FiledKept ==
  TypeOK /\ Shape /\ Fresh /\ FiledStaysApproved /\ [Next]_vars => FiledStaysApproved'
<1> SUFFICES ASSUME TypeOK, Shape, Fresh, FiledStaysApproved, [Next]_vars
             PROVE  FiledStaysApproved'
  OBVIOUS
<1>1. ASSUME \/ \E u \in Users : Created(u) \/ Revised(u)
             \/ Submitted \/ Withdrawn
             \/ \E u \in Users, decision \in Decisions : Judged(u, decision)
      PROVE  FiledStaysApproved'
  BY <1>1 DEF Created, Revised, Submitted, Withdrawn, Judged, FiledStaysApproved,
              Exists, CanWithdraw, PendingStatus
<1>2. ASSUME NEW target \in NoticeStatus, Moved(target)
      PROVE  FiledStaysApproved'
  BY <1>2 DEF Moved, FiledStaysApproved, AllowedTransitions, TypeOK, NoticeStatus
<1>3. CASE RowsUnchanged
  BY <1>3 DEF RowsUnchanged, FiledStaysApproved
<1> QED
  BY <1>1, <1>2, <1>3, SerialSteps

SerialInv == IInv /\ Fresh /\ ClearedBehind /\ FiledStaysApproved

\* With one request at a time, what a request loaded is what it commits on, and
\* each status is evidence about the present form of the text.
THEOREM SerialInvariance == ASSUME OneAtATime PROVE Spec => []SerialInv
<1>1. Init => Fresh /\ ClearedBehind /\ FiledStaysApproved
  BY DEF Init, Fresh, ClearedBehind, FiledStaysApproved, Behind, NoResponse, Idle, Request
<1>2. IInv /\ Fresh /\ ClearedBehind /\ FiledStaysApproved /\ [Next]_vars
        => (Fresh /\ ClearedBehind /\ FiledStaysApproved)'
  BY FreshNext, ClearedNext, FiledKept DEF IInv
<1>3. IInv /\ (Fresh /\ ClearedBehind /\ FiledStaysApproved) <=> SerialInv
  BY DEF SerialInv
<1> QED
  BY <1>1, <1>2, <1>3, Invariance, PTL DEF Spec

\* The text that is approved is the text every gate saw (update_draft,
\* apply_approval without overlap).
THEOREM ApprovedTextIsCleared ==
  ASSUME OneAtATime PROVE Spec => []ApprovedTextClearedEveryGate
<1>1. SerialInv => ApprovedTextClearedEveryGate
  BY DEF SerialInv, ClearedBehind, ApprovedTextClearedEveryGate, Behind
<1> QED
  BY <1>1, SerialInvariance, PTL

\* Nothing withdraws, reopens or sends back the answer on file.
THEOREM FiledIsApproved == ASSUME OneAtATime PROVE Spec => []FiledStaysApproved
<1>1. SerialInv => FiledStaysApproved
  BY DEF SerialInv
<1> QED
  BY <1>1, SerialInvariance, PTL
-----------------------------------------------------------------------------
(***************************************************************************)
(* The refinement: what ApprovalChain sees of the rows, and what each of   *)
(* the seven steps does to it.                                             *)
(***************************************************************************)
Where ==
  IF response.status \in PendingStatus
  THEN [kind |-> "gate", number |-> GateNumber[PendingStage[response.status]]]
  ELSE [kind |-> response.status, number |-> 0]

Makers == {versions[v] : v \in DOMAIN versions} \cup ({response.author} \ {NoUser})
Judges == {approvals[i].actor : i \in OnCurrent}
ClearedNow == {stage \in Stages : Cleared(stage, response.current)}
Filed  == notice \in {"submitted", "resolved"}

ChainView == << Where, Makers, Judges, ClearedNow, Filed >>

LEMMA WhereIs ==
  /\ response.status \notin PendingStatus => Where = Chain!Place(response.status)
  /\ response.status = "reviewer_pending" => Where = Chain!Gate(1)
  /\ response.status = "legal_pending" => Where = Chain!Gate(2)
  /\ response.status = "cfo_pending" => Where = Chain!Gate(3)
  BY DEF Where, PendingStatus, PendingStage, GateNumber, Chain!Place, Chain!Gate

LEMMA WhereGoes ==
  /\ response'.status \notin PendingStatus => Where' = Chain!Place(response'.status)
  /\ response'.status = "reviewer_pending" => Where' = Chain!Gate(1)
  /\ response'.status = "legal_pending" => Where' = Chain!Gate(2)
  /\ response'.status = "cfo_pending" => Where' = Chain!Gate(3)
  BY DEF Where, PendingStatus, PendingStage, GateNumber, Chain!Place, Chain!Gate

LEMMA ChainOpens ==
  ASSUME TypeOK, NEW u \in Users, Created(u)
  PROVE  Chain!Open(u)
<1>1. Where = Chain!Place("none") /\ Where' = Chain!Place("draft")
  BY WhereIs, WhereGoes DEF Created, Exists, PendingStatus
<1>2. Makers' = {u}
  BY UsersAssumption DEF Makers, Created
<1>3. Judges = {} /\ Judges' = {} /\ ClearedNow = {} /\ ClearedNow' = {}
  BY DEF Judges, OnCurrent, ClearedNow, Cleared, Created
<1>4. Filed' = Filed
  BY DEF Filed, Created
<1> QED
  BY <1>1, <1>2, <1>3, <1>4
     DEF Chain!Open, Chain!Place, Where, Makers, Judges, ClearedNow, Filed

LEMMA ChainRevises ==
  ASSUME TypeOK, Shape, NEW u \in Users, Revised(u)
  PROVE  Chain!Revise(u)
<1>1. /\ response \in ResponseRow /\ versions \in Seq(Users)
      /\ Len(versions) \in Nat /\ Len(versions) + 1 \in Nat
  BY DEF TypeOK
<1>2. /\ response'.status = "draft" /\ response.status = "draft"
      /\ response'.current = Len(versions) + 1
      /\ response'.author = response.author
  BY <1>1, SetCurrent DEF Revised
<1>3. Where = Chain!Place("draft") /\ Where' = Where
  BY <1>2, WhereIs, WhereGoes DEF PendingStatus
<1>4. Makers' = Makers \cup {u}
  <2>1. /\ DOMAIN versions' = DOMAIN versions \cup {Len(versions) + 1}
        /\ versions'[Len(versions) + 1] = u
        /\ \A v \in DOMAIN versions : versions'[v] = versions[v]
    BY <1>1 DEF Revised
  <2> QED
    BY <1>2, <2>1 DEF Makers
<1>5. \A i \in DOMAIN approvals' : approvals'[i].version # response'.current
  BY <1>1, <1>2, ApprovalsTyped DEF Shape, RowsOK, Revised, ApprovalRow
<1>6. Judges' = {} /\ ClearedNow' = {}
  BY <1>5 DEF Judges, OnCurrent, ClearedNow, Cleared
<1>7. Filed' = Filed
  BY DEF Filed, Revised
<1> QED
  BY <1>3, <1>4, <1>6, <1>7
     DEF Chain!Revise, Chain!Place, Where, Makers, Judges, ClearedNow, Filed

\* A status alone does not change who made or judged the text.
LEMMA OnlyMoved ==
  ASSUME UNCHANGED << notice, versions, approvals >>,
         response'.current = response.current, response'.author = response.author
  PROVE  UNCHANGED << Makers, Judges, ClearedNow, Filed >>
  BY DEF Makers, Judges, OnCurrent, ClearedNow, Cleared, Filed

LEMMA ChainEnters ==
  ASSUME TypeOK, Submitted
  PROVE  Chain!Enter
<1>1. response \in ResponseRow /\ "reviewer_pending" \in ResponseStatus
  BY DEF TypeOK, ResponseStatus
<1>2. /\ response'.status = "reviewer_pending" /\ response.status = "draft"
      /\ response'.current = response.current /\ response'.author = response.author
  BY <1>1, SetStatus DEF Submitted
<1>3. Where = Chain!Place("draft") /\ Where' = Chain!Gate(1)
  BY <1>2, WhereIs, WhereGoes DEF PendingStatus
<1>4. UNCHANGED << Makers, Judges, ClearedNow, Filed >>
  BY <1>2, OnlyMoved DEF Submitted
<1> QED
  BY <1>3, <1>4
     DEF Chain!Enter, Chain!Place, Chain!Gate, Where, Makers, Judges, ClearedNow, Filed

LEMMA GatesAre == Chain!Gates = 1..3
  BY DEF Chain!Gates

LEMMA ChainGivesUp ==
  ASSUME TypeOK, Withdrawn
  PROVE  Chain!GiveUp
<1>1. response \in ResponseRow /\ "withdrawn" \in ResponseStatus
  BY DEF TypeOK, ResponseStatus
<1>2. /\ response'.status = "withdrawn"
      /\ response.status \in {"draft"} \cup PendingStatus
      /\ response'.current = response.current /\ response'.author = response.author
  BY <1>1, SetStatus
     DEF Withdrawn, Exists, CanWithdraw, ResponseRow, ResponseStatus, PendingStatus
<1>3. \/ Where = Chain!Place("draft")
      \/ \E g \in 1..3 : Where = Chain!Gate(g)
  BY <1>2, WhereIs DEF PendingStatus
<1>4. Where' = Chain!Place("withdrawn")
  BY <1>2, WhereGoes DEF PendingStatus
<1>5. UNCHANGED << Makers, Judges, ClearedNow, Filed >>
  BY <1>2, OnlyMoved DEF Withdrawn
<1> QED
  BY <1>3, <1>4, <1>5, GatesAre
     DEF Chain!GiveUp, Chain!AtGate, Chain!Place, Chain!Gate,
         Where, Makers, Judges, ClearedNow, Filed

\* The gate a pending response waits at, and the stages below it.
GateOf(status) == GateNumber[PendingStage[status]]

LEMMA Gates ==
  ASSUME NEW status \in PendingStatus
  PROVE  /\ GateOf(status) \in 1..3
         /\ << "reviewer", "legal", "cfo" >>[GateOf(status)] = PendingStage[status]
         /\ PendingStage[status] \in Stages
         /\ \A below \in 1..(GateOf(status) - 1) :
              << "reviewer", "legal", "cfo" >>[below] \in Behind(status)
  BY DEF PendingStatus, GateOf, GateNumber, PendingStage, Behind, Stages

LEMMA ChainJudges ==
  ASSUME TypeOK, ClearedBehind,
         NEW u \in Users, NEW decision \in Decisions, Judged(u, decision)
  PROVE  LET g == GateOf(response.status) IN
         IF decision = "approved" THEN Chain!Pass(u, g) ELSE Chain!SendBack(u, g)
<1> DEFINE g     == GateOf(response.status)
           stage == PendingStage[response.status]
<1>1. response.status \in PendingStatus
  BY DEF Judged
<1>2. Where = Chain!Gate(g)
  BY <1>1 DEF Where, Chain!Gate, GateOf
<1>3. /\ decision = "approved" => Where' = Chain!Above(g)
      /\ decision = "rejected" => Where' = Chain!Below(g)
  BY <1>1, JudgedRows, WhereGoes
     DEF StatusAfter, StatusAfterApprove, StatusAfterReject, PendingStatus, PendingStage,
         GateOf, GateNumber, Chain!Above, Chain!Below
<1>4. UNCHANGED << Makers, Filed >>
  BY JudgedRows DEF Makers, Filed, Judged
<1>5. u \notin Makers
  BY DEF Judged, IsMaker, IsAuthor, Makers
<1>6. u \notin Judges
  BY DEF Judged, HasActedOn, Judges, OnCurrent
<1>7. Judges' = Judges \cup {u}
  <2>1. Row(u, decision).version = response.current /\ Row(u, decision).actor = u
    BY DEF Row
  <2>2. /\ DOMAIN approvals' = DOMAIN approvals \cup {Len(approvals) + 1}
        /\ approvals'[Len(approvals) + 1] = Row(u, decision)
        /\ \A i \in DOMAIN approvals : approvals'[i] = approvals[i]
        /\ response'.current = response.current
    BY JudgedRows
  <2>3. \A i : i \in OnCurrent' <=> i \in OnCurrent \/ i = Len(approvals) + 1
    BY <2>1, <2>2 DEF OnCurrent
  <2>4. \A i \in OnCurrent : approvals'[i].actor = approvals[i].actor
    BY <2>2 DEF OnCurrent
  <2>5. Judges' = {approvals'[i].actor : i \in OnCurrent'}
    BY DEF Judges
  <2> QED
    BY <2>1, <2>2, <2>3, <2>4, <2>5 DEF Judges
<1>8. \A st : Cleared(st, response.current)' <=>
                Cleared(st, response.current) \/ (decision = "approved" /\ st = stage)
  BY JudgedClears
<1>9. /\ decision = "approved" => ClearedNow' = ClearedNow \cup {stage}
      /\ decision = "rejected" => ClearedNow' = ClearedNow
  BY <1>1, <1>8, Gates DEF ClearedNow
<1>10. \A below \in 1..(g - 1) : << "reviewer", "legal", "cfo" >>[below] \in ClearedNow
  <2>1. Behind(response.status) \subseteq ClearedNow
    BY <1>1 DEF ClearedBehind, ClearedNow, Behind, PendingStatus, Stages
  <2> QED
    BY <1>1, <2>1, Gates
<1>11. << "reviewer", "legal", "cfo" >>[g] = stage
  BY <1>1, Gates
<1>12. CASE decision = "approved"
  BY <1>2, <1>3, <1>4, <1>5, <1>6, <1>7, <1>9, <1>10, <1>11, <1>12
     DEF Chain!Pass, Chain!Judge, Chain!Gate, Where, Makers, Judges, ClearedNow, Filed
<1>13. CASE decision = "rejected"
  BY <1>2, <1>3, <1>4, <1>5, <1>6, <1>7, <1>9, <1>13
     DEF Chain!SendBack, Chain!Judge, Chain!Gate, Where, Makers, Judges, ClearedNow, Filed
<1> QED
  BY <1>12, <1>13 DEF Decisions

LEMMA ChainFiles ==
  ASSUME TypeOK, ClearedBehind, NEW target \in NoticeStatus, Moved(target)
  PROVE  Chain!File \/ Chain!Unfile \/ UNCHANGED ChainView
<1>1. UNCHANGED << Where, Makers, Judges, ClearedNow >>
  BY DEF Moved, Where, Makers, Judges, OnCurrent, ClearedNow, Cleared
<1>2. CASE ~Filed /\ Filed'
  <2>1. response.status = "approved"
    BY <1>2 DEF Moved, Filed, AllowedTransitions, TypeOK, NoticeStatus
  <2>2. Where = Chain!Place("approved")
    BY <2>1, WhereIs DEF PendingStatus
  <2>3. ClearedNow = Stages
    BY <2>1 DEF ClearedBehind, Behind, ClearedNow
  <2>4. \A g \in 1..3 : << "reviewer", "legal", "cfo" >>[g] \in ClearedNow
    BY <2>3 DEF Stages
  <2> QED
    BY <1>1, <1>2, <2>2, <2>4, GatesAre
       DEF Chain!File, Chain!Place, Where, Makers, Judges, ClearedNow, Filed
<1>3. CASE Filed /\ ~Filed'
  <2>1. (Filed = TRUE) /\ (Filed' = FALSE)
    BY <1>3 DEF Filed
  <2> QED
    BY <1>1, <1>3, <2>1 DEF Chain!Unfile, Where, Makers, Judges, ClearedNow, Filed
<1>4. CASE Filed' = Filed
  BY <1>1, <1>4 DEF ChainView
<1> QED
  BY <1>2, <1>3, <1>4 DEF Filed

LEMMA ChainStep ==
  ASSUME TypeOK, Shape, Fresh, ClearedBehind, [Next]_vars
  PROVE  Chain!ChainNext \/ UNCHANGED ChainView
<1>1. ASSUME NEW u \in Users, Created(u) \/ Revised(u)
      PROVE  Chain!ChainNext
  BY <1>1, ChainOpens, ChainRevises DEF Chain!ChainNext
<1>2. ASSUME Submitted \/ Withdrawn
      PROVE  Chain!ChainNext
  BY <1>2, ChainEnters, ChainGivesUp DEF Chain!ChainNext
<1>3. ASSUME NEW u \in Users, NEW decision \in Decisions, Judged(u, decision)
      PROVE  Chain!ChainNext
  <2>1. GateOf(response.status) \in Chain!Gates
    BY <1>3, GatesAre, Gates DEF Judged
  <2> QED
    BY <1>3, <2>1, ChainJudges DEF Chain!ChainNext
<1>4. ASSUME NEW target \in NoticeStatus, Moved(target)
      PROVE  Chain!ChainNext \/ UNCHANGED ChainView
  BY <1>4, ChainFiles DEF Chain!ChainNext
<1>5. CASE RowsUnchanged
  BY <1>5 DEF RowsUnchanged, ChainView, Where, Makers, Judges, OnCurrent, ClearedNow,
              Cleared, Filed
<1> QED
  BY <1>1, <1>2, <1>3, <1>4, <1>5, SerialSteps

LEMMA ChainStarts == Init => Chain!ChainInit
<1> SUFFICES ASSUME Init PROVE Chain!ChainInit
  OBVIOUS
<1>1. Where = Chain!Place("none")
  BY WhereIs DEF Init, NoResponse, PendingStatus
<1>2. Makers = {} /\ Judges = {} /\ ClearedNow = {} /\ Filed = FALSE
  BY DEF Init, NoResponse, Makers, Judges, OnCurrent, ClearedNow, Cleared, Filed
<1> QED
  BY <1>1, <1>2 DEF Chain!ChainInit, Chain!Place, Where, Makers, Judges, ClearedNow, Filed

\* With one request at a time the workflow does what ApprovalChain promises:
\* every request is one step of the chain or nothing the promise speaks of.
THEOREM WorkflowIsAChain == ASSUME OneAtATime PROVE Spec => ImplementsChain
<1>1. SerialInv /\ [Next]_vars => [Chain!ChainNext]_(Chain!chainVars)
  <2> SUFFICES ASSUME SerialInv, [Next]_vars
               PROVE  Chain!ChainNext \/ UNCHANGED Chain!chainVars
    OBVIOUS
  <2>1. UNCHANGED ChainView => UNCHANGED Chain!chainVars
    BY DEF Chain!chainVars, ChainView, Where, Makers, Judges, ClearedNow, Filed
  <2> QED
    BY <2>1, ChainStep DEF SerialInv, IInv
<1> QED
  BY <1>1, ChainStarts, SerialInvariance, PTL DEF Spec, ImplementsChain, Chain!ChainSpec
=============================================================================
