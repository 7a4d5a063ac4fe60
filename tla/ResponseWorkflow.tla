-------------------------- MODULE ResponseWorkflow --------------------------
(***************************************************************************)
(* The reply to one compliance notice and the notice's own status:         *)
(* services/response_service.py behind routers/responses.py, and           *)
(* services/notice_service.py behind PATCH /notices/{id}/status.           *)
(*                                                                         *)
(* Every request owns a database session.  The router SELECTs the response *)
(* row into the session's identity map (a Begin action) and the service    *)
(* then acts on that object and commits (the second action of the          *)
(* request).  Between the two any other request may commit.  The session   *)
(* is created with autoflush=False, expire_on_commit=False, and no query   *)
(* of the application asks for populate_existing, so the later             *)
(* SELECT ... FOR UPDATE of rollback_to_version and apply_approval takes   *)
(* the row lock but leaves the attributes already loaded as they were:     *)
(* status and current_version_id keep the values of the Begin step.  That  *)
(* is why the tests on the status are guards of the Begin actions, where   *)
(* their value is decided, while the queries made under the lock           *)
(* (authorship, earlier decisions, next version number) read the tables    *)
(* as they are at the second step.  The row lock orders the commits.       *)
(*                                                                         *)
(* A notice has at most one response (notice_id is unique).  Not modelled: *)
(* the texts, the user-facing timeline, the audit rows written after each  *)
(* commit, and the tenant filter, which leaves one client's notice.        *)
(***************************************************************************)
EXTENDS ResponseStates, Naturals, Sequences

CONSTANTS Users,         \* members of the client
          NoUser,        \* not a user
          RoleOf,        \* the compliance role of each member
          Sessions,      \* request slots: how many requests may overlap
          MaxVersions,   \* bound: draft versions of the response
          MaxDecisions   \* bound: approve/reject decisions recorded

ASSUME UsersAssumption    == NoUser \notin Users
ASSUME RolesAssumption    == RoleOf \in [Users -> Roles]
ASSUME SessionsAssumption == Sessions # {}
ASSUME BoundsAssumption   == MaxVersions \in Nat /\ MaxDecisions \in Nat

VARIABLES
  notice,      \* status column of the compliance_notices row
  response,    \* the notice_responses row: status, author, current version
  versions,    \* notice_response_versions: who wrote version 1, 2, ...
  approvals,   \* notice_response_approvals, in the order they were committed
  session      \* per slot: the request in progress and the row it loaded

vars == << notice, response, versions, approvals, session >>

NoResponse == [status |-> "none", author |-> NoUser, current |-> 0]

\* A request; only a decision still reads the row it loaded after its checks.
Request(op, u) == [op |-> op, user |-> u, status |-> "none", current |-> 0]

Idle == Request("idle", NoUser)

May(u, perm) == HasPermission(RoleOf[u], perm)

Exists == response.status # "none"

\* The actor opened the response (created_by_user_id).
IsAuthor(u) == response.author = u

Init ==
  /\ notice    = "received"
  /\ response  = NoResponse
  /\ versions  = << >>
  /\ approvals = << >>
  /\ session   = [s \in Sessions |-> Idle]

-----------------------------------------------------------------------------
(***************************************************************************)
(* Begin: authenticate, check the permission, load the row.                *)
(***************************************************************************)
Begin(s, request) ==
  /\ session[s] = Idle
  /\ session' = [session EXCEPT ![s] = request]
  /\ UNCHANGED << notice, response, versions, approvals >>

\* POST /responses when get_or_create_response finds no row.
BeginCreate(s, u) ==
  /\ May(u, "notice:draft_response")
  /\ ~Exists
  /\ Begin(s, Request("create", u))

\* POST or PATCH /responses on an existing row.
BeginEdit(s, u) ==
  /\ May(u, "notice:draft_response")
  /\ Exists /\ CanEditDraft(response.status)
  /\ Begin(s, Request("edit", u))

BeginRollback(s, u) ==
  /\ May(u, "notice:draft_response")
  /\ Exists /\ CanEditDraft(response.status)
  /\ Begin(s, Request("rollback", u))

BeginSubmit(s, u) ==
  /\ May(u, "notice:draft_response")
  /\ Exists /\ CanSubmitForReview(response.status)
  /\ Begin(s, Request("submit", u))

\* The author, or a supervising role; both must also hold draft_response.
BeginWithdraw(s, u) ==
  /\ May(u, "notice:draft_response")
  /\ Exists /\ CanWithdraw(response.status)
  /\ \/ IsAuthor(u)
     \/ RoleOf[u] \in {"compliance_head", "ca_consultant"}
  /\ Begin(s, Request("withdraw", u))

\* POST /responses/approve and /reject up to the call of apply_approval: the
\* stage is the one the loaded row waits at, and the role must cover it.
BeginDecide(s, u) ==
  /\ response.status \in PendingStatus
  /\ May(u, StagePermission[PendingStage[response.status]])
  /\ Begin(s, [Request("decide", u) EXCEPT !.status  = response.status,
                                           !.current = response.current])

-----------------------------------------------------------------------------
(***************************************************************************)
(* The second step of each request: its transaction commits.               *)
(***************************************************************************)
Finish(s) == session' = [session EXCEPT ![s] = Idle]

Running(s, op) == session[s].op = op

\* A new version row; current_version_id is the only response column written.
\* version_no is MAX + 1 under a unique constraint: a lost race is a Fail.
AppendVersion(u) ==
  /\ Len(versions) < MaxVersions
  /\ versions' = Append(versions, u)
  /\ response' = [response EXCEPT !.current = Len(versions) + 1]

\* get_or_create_response inserts the row with an empty first version and
\* commits; a request with a payload goes on to update_draft on that row.
CreateResponse(s) ==
  /\ Running(s, "create")
  /\ ~Exists                       \* else the unique notice_id refuses it
  /\ MaxVersions > 0
  /\ LET u == session[s].user IN
     /\ response' = [status |-> "draft", author |-> u, current |-> 1]
     /\ versions' = << u >>
     /\ \/ Finish(s)
        \/ session' = [session EXCEPT ![s] = Request("edit", u)]
  /\ UNCHANGED << notice, approvals >>

\* update_draft takes no lock and reads no status again.
UpdateDraft(s) ==
  /\ Running(s, "edit")
  /\ AppendVersion(session[s].user)
  /\ Finish(s)
  /\ UNCHANGED << notice, approvals >>

\* rollback_to_version copies a version of this response into a new one; the
\* author of the copy is the caller.
RollbackToVersion(s) ==
  /\ Running(s, "rollback")
  /\ \E target \in DOMAIN versions : AppendVersion(session[s].user)
  /\ Finish(s)
  /\ UNCHANGED << notice, approvals >>

SubmitForReview(s) ==
  /\ Running(s, "submit")
  /\ response' = [response EXCEPT !.status = "reviewer_pending"]
  /\ Finish(s)
  /\ UNCHANGED << notice, versions, approvals >>

Withdraw(s) ==
  /\ Running(s, "withdraw")
  /\ response' = [response EXCEPT !.status = "withdrawn"]
  /\ Finish(s)
  /\ UNCHANGED << notice, versions, approvals >>

\* R1.1 and R1.1b: the actor opened the response or wrote a version of it.
IsMaker(u) == IsAuthor(u) \/ \E v \in DOMAIN versions : versions[v] = u

\* Seeded fault: only the latest decision is looked up.
ActedLast(u, version) ==
  /\ approvals # << >>
  /\ approvals[Len(approvals)].actor = u
  /\ approvals[Len(approvals)].version = version

\* R1.2: the actor has already decided on this version.
HasActedOn(u, version) ==
  \E i \in DOMAIN approvals :
     approvals[i].actor = u /\ approvals[i].version = version

\* The append-only row of notice_response_approvals.
Decision(req, decision) ==
  [stage    |-> PendingStage[req.status],
   decision |-> decision,
   actor    |-> req.user,
   version  |-> req.current]

\* apply_approval: the checks under the row lock, then the decision row and
\* the status the loaded one leads to.
ApplyApproval(s, decision) ==
  LET req == session[s] IN
  /\ Running(s, "decide")
  /\ Len(approvals) < MaxDecisions
  /\ ~IsMaker(req.user)
  /\ ~HasActedOn(req.user, req.current)
  /\ approvals' = Append(approvals, Decision(req, decision))
  /\ response' = [response EXCEPT !.status = StatusAfter(req.status, decision)]
  /\ Finish(s)
  /\ UNCHANGED << notice, versions >>

\* A request that is refused (403, 409, a constraint) or dies with its worker
\* before the commit: the transaction is rolled back.
Fail(s) ==
  /\ session[s] # Idle
  /\ Finish(s)
  /\ UNCHANGED << notice, response, versions, approvals >>

-----------------------------------------------------------------------------
\* Seeded fault: a response waiting for its last gate counts as approved.
IsResponseNearlyApproved == response.status \in {"cfo_pending", "approved"}

\* is_response_approved, on a row this session has not loaded before.
IsResponseApproved == response.status = "approved"

\* transition_notice_status: both rows are first loaded by FOR UPDATE, so the
\* checks see what is committed and the step is atomic.
TransitionNotice(u, target) ==
  /\ HasAnyPermission(RoleOf[u], PermissionsForTarget(target))
  /\ target \in AllowedTransitions[notice]
  /\ target = "submitted" => IsResponseApproved
  /\ notice' = target
  /\ UNCHANGED << response, versions, approvals, session >>

Next ==
  \/ \E s \in Sessions, u \in Users :
       \/ BeginCreate(s, u)
       \/ BeginEdit(s, u)
       \/ BeginRollback(s, u)
       \/ BeginSubmit(s, u)
       \/ BeginWithdraw(s, u)
       \/ BeginDecide(s, u)
  \/ \E s \in Sessions :
       \/ CreateResponse(s)
       \/ UpdateDraft(s)
       \/ RollbackToVersion(s)
       \/ SubmitForReview(s)
       \/ Withdraw(s)
       \/ \E decision \in Decisions : ApplyApproval(s, decision)
       \/ Fail(s)
  \/ \E u \in Users, target \in NoticeStatus : TransitionNotice(u, target)

Spec == Init /\ [][Next]_vars

-----------------------------------------------------------------------------
Ops == {"idle", "create", "edit", "rollback", "submit", "withdraw", "decide"}

ResponseRow == [status  : ResponseStatus \cup {"none"},
                author  : Users \cup {NoUser},
                current : Nat]

ApprovalRow == [stage : Stages, decision : Decisions, actor : Users, version : Nat]

Requests == [op : Ops, user : Users \cup {NoUser},
             status : ResponseStatus \cup {"none"}, current : Nat]

TypeOK ==
  /\ notice \in NoticeStatus
  /\ response \in ResponseRow
  /\ versions \in Seq(Users)
  /\ approvals \in Seq(ApprovalRow)
  /\ session \in [Sessions -> Requests]

-----------------------------------------------------------------------------
(***************************************************************************)
(* What holds however requests overlap.                                    *)
(***************************************************************************)

Passed(stage) ==
  \E i \in DOMAIN approvals :
     approvals[i].stage = stage /\ approvals[i].decision = "approved"

\* A notice is only on file with the authority when each of the three gates
\* has recorded an approval (the submitted gate of transition_notice_status
\* on top of the stage checks of apply_approval).
FiledPassedEveryGate ==
  notice \in {"submitted", "resolved"} => \A stage \in Stages : Passed(stage)

\* Maker is never checker: whoever decided on a version wrote neither it nor
\* any version before it, nor opened the response (checks R1.1 and R1.1b).
MakerNeverChecks ==
  \A i \in DOMAIN approvals :
    /\ approvals[i].actor # response.author
    /\ \A v \in 1..approvals[i].version : versions[v] # approvals[i].actor

\* No one acts at two gates, or twice at one, on the same version (check R1.2
\* made and the row inserted under one row lock).
OneActPerVersion ==
  \A i, j \in DOMAIN approvals :
    /\ i # j
    /\ approvals[i].version = approvals[j].version
    => approvals[i].actor # approvals[j].actor

-----------------------------------------------------------------------------
(***************************************************************************)
(* What holds when requests on one response do not overlap (one session).  *)
(***************************************************************************)

Cleared(stage, version) ==
  \E i \in DOMAIN approvals :
    /\ approvals[i].stage = stage
    /\ approvals[i].decision = "approved"
    /\ approvals[i].version = version

\* The text that was approved is the text every gate saw: the current version
\* of an approved response was itself cleared at all three stages.
ApprovedTextClearedEveryGate ==
  response.status = "approved" =>
    \A stage \in Stages : Cleared(stage, response.current)

\* While a notice is on file its response stays approved: nothing withdraws,
\* reopens or sends it back (the window is_response_approved describes).
FiledStaysApproved ==
  notice \in {"submitted", "resolved"} => response.status = "approved"

-----------------------------------------------------------------------------
(***************************************************************************)
(* The abstract chain this module implements while requests do not overlap.*)
(***************************************************************************)
GateNumber == [reviewer |-> 1, legal |-> 2, cfo |-> 3]

\* Decisions on the current version.
OnCurrent == {i \in DOMAIN approvals : approvals[i].version = response.current}

Chain == INSTANCE ApprovalChain WITH
  People  <- Users,
  Chain   <- << "reviewer", "legal", "cfo" >>,
  place   <- IF response.status \in PendingStatus
             THEN [kind   |-> "gate",
                   number |-> GateNumber[PendingStage[response.status]]]
             ELSE [kind |-> response.status, number |-> 0],
  makers  <- {versions[v] : v \in DOMAIN versions}
             \cup ({response.author} \ {NoUser}),
  judges  <- {approvals[i].actor : i \in OnCurrent},
  cleared <- {stage \in Stages : Cleared(stage, response.current)},
  filed   <- notice \in {"submitted", "resolved"}

\* Every run of the workflow is a run of the chain: what one request does to
\* the rows is one step of the promise, or nothing the promise speaks of.
ImplementsChain == Chain!ChainSpec
=============================================================================
