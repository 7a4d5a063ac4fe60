------------------------------- MODULE Tenancy -------------------------------
(***************************************************************************)
(* Whose rows a statement sees: middleware/tenant_context.py, the pooled   *)
(* connections of database.py, compliance/dependencies.py, the row-level   *)
(* security policies of alembic/versions and the handlers that rest on     *)
(* them: clients, memberships, reports, search, calendar, alerts, the      *)
(* audit log and the notification websocket.                               *)
(*                                                                         *)
(* A context is what the ContextVars of a request or task hold; a          *)
(* connection carries the session settings made from it.  guc is what a    *)
(* statement sees now, base what a rollback goes back to, cache and dirty  *)
(* what the listener keeps beside the connection.  A session has a         *)
(* connection only while a transaction is open: its first statement takes  *)
(* one from the pool, and the commit or the rollback gives it back.  A     *)
(* client stands for all the rows that belong to it.  The database is used *)
(* as app_runtime (DB_ENFORCE_RLS); without that the policies are not      *)
(* applied.                                                                *)
(*                                                                         *)
(* A request takes up to five steps: the check of the membership, the      *)
(* handler's statements, its commit, the re-read of the committed row in a *)
(* new transaction, and the audit row; the last one closes the session.    *)
(***************************************************************************)
EXTENDS Naturals, FiniteSets, PermissionRegistry

CONSTANTS Users, NoUser, Clients, NoClient,
          Admins,       \* users with users.role = 'admin'
          Founding,     \* members[u][c] at the start
          Grants,       \* memberships this instance hands out
          Invitees,     \* << user, client >>: whom this instance adds to which team
          Subscribers,  \* users who open a websocket
          Behalf,       \* users this instance's tasks look up for
          Touched,      \* clients whose rows this instance's tasks look up
          Workers, NoWorker,
          AsyncPool,    \* connections of the request path
          SyncPool,     \* connections of tasks and of the audit log
          Tasks,        \* workers that run background tasks
          AtOnce,       \* bound: requests and tasks in progress
          MaxFaults,    \* bound: failures of the database and crashes
          MaxUnread     \* bound: re-reads of a committed row that find nothing

Nobody == [role |-> "none", window |-> "none"]
Windows == {"future", "open", "ended"}
Memberships == {Nobody} \cup [role : Roles, window : Windows]

ASSUME TenancyAssumption ==
  /\ NoUser \notin Users /\ NoClient \notin Clients /\ NoWorker \notin Workers
  /\ Admins \subseteq Users /\ Subscribers \subseteq Users
  /\ Invitees \subseteq Users \X Clients /\ Touched \subseteq Clients
  /\ Behalf \subseteq Users \cup {NoUser} /\ Tasks \subseteq Workers
  /\ AsyncPool \cap SyncPool = {}
  /\ Founding \in [Users -> [Clients -> Memberships]]
  /\ Grants \subseteq [role : Roles, window : Windows]
  /\ IsFiniteSet(Workers) /\ AtOnce \in Nat
  /\ MaxFaults \in Nat /\ MaxUnread \in Nat

VARIABLES
  members,    \* compliance_client_memberships
  clients,    \* compliance_clients
  conns,      \* the pooled connections
  work,       \* requests and tasks in progress
  sockets,    \* clients each user's websocket is subscribed to
  unaudited,  \* history: committed changes with no audit row nor fallback line
  unread,     \* history: those of them whose re-read found nothing
  strays,     \* history: statements that saw or wrote what they should not
  faults      \* bound: failures so far

vars == << members, clients, conns, work, sockets, unaudited, unread, strays, faults >>

Context(client, cross, user) == [client |-> client, cross |-> cross, user |-> user]
Blank    == Context(NoClient, FALSE, NoUser)
Contexts == [client : Clients \cup {NoClient}, cross : BOOLEAN,
             user : Users \cup {NoUser}]

Conn(by, guc, base, cache, dirty) ==
  [by |-> by, guc |-> guc, base |-> base, cache |-> cache, dirty |-> dirty]
Fresh    == Conn(NoWorker, Blank, Blank, Blank, FALSE)

Change(op, user, client, grant) ==
  [op |-> op, user |-> user, client |-> client, grant |-> grant]
NoChange == Change("none", NoUser, NoClient, Nobody)

\* left is what the ContextVars of the process go back to at the end.
Doing(at, ctx, left, role, home, todo) ==
  [at |-> at, ctx |-> ctx, left |-> left, role |-> role, home |-> home, todo |-> todo]
Idle     == Doing("idle", Blank, Blank, "none", NoClient, NoChange)

Conns      == AsyncPool \cup SyncPool
Holding(w) == {k \in Conns : conns[k].by = w}
FreeIn(pool) == {k \in pool : conns[k].by = NoWorker}

\* The connection of the open transaction, or any that is free for a new one.
Usable(w) ==
  IF Holding(w) # {} THEN Holding(w)
  ELSE FreeIn(IF w \in Tasks THEN SyncPool ELSE AsyncPool)

TakenBy(k, w) == Conn(w, conns[k].guc, conns[k].base, conns[k].cache, conns[k].dirty)

\* Worker w goes on, in the context it has.
GoesOn(w, at, todo) ==
  work' = [work EXCEPT ![w] =
             Doing(at, work[w].ctx, work[w].left, "none", NoClient, todo)]

\* The end of w's request or task.  The middleware resets a request's ContextVars,
\* the copy of a document task is dropped.
Rests(w, ctx) ==
  work' = [work EXCEPT ![w] = Doing("idle", ctx, ctx, "none", NoClient, NoChange)]

\* Another request or task may begin.
Room == Cardinality({w \in Workers : work[w].at # "idle"}) < AtOnce

\* One of the failures this instance allows.
Fault == faults < MaxFaults /\ faults' = faults + 1

Init ==
  /\ members   = Founding
  /\ clients   = {c \in Clients : \E u \in Users : Founding[u][c] # Nobody}
  /\ conns     = [k \in Conns |-> Fresh]
  /\ work      = [w \in Workers |-> Idle]
  /\ sockets   = [u \in Users |-> {}]
  /\ unaudited = 0
  /\ unread    = 0
  /\ strays    = {}
  /\ faults    = 0

-----------------------------------------------------------------------------
(***************************************************************************)
(* The connection: the listener before each statement, the end of the      *)
(* transaction and the return to the pool.                                 *)
(***************************************************************************)
\* Connection c as the listener leaves it for a statement under ctx.
SetTenant(c, ctx) ==
  IF ctx = Blank \/ c.cache = ctx THEN c
  ELSE Conn(c.by, ctx, c.base, ctx, TRUE)

\* A rollback takes the settings of the transaction back with it; the listener
\* is not told.
RolledBack(c) == Conn(c.by, c.base, c.base, c.cache, c.dirty)
Committed(c)  == Conn(c.by, c.guc, c.guc, c.cache, c.dirty)

\* Seeded fault: the settings are reset, the listener's cache of them is not.
CheckinCached(c) ==
  IF c.dirty THEN Conn(NoWorker, Blank, Blank, c.cache, FALSE)
  ELSE Conn(NoWorker, c.guc, c.base, c.cache, c.dirty)

\* The return to the pool: what was made dirty is cleaned and committed or, when
\* that fails, the connection is discarded for a new one.
Checkin(c) ==
  IF c.dirty THEN Fresh ELSE Conn(NoWorker, c.guc, c.base, c.cache, c.dirty)

\* The end of a transaction gives the connection back.
AfterCommit(c)   == Checkin(Committed(c))
AfterRollback(c) == Checkin(RolledBack(c))

\* The close of w's session rolls back what is open.
Closed(w) ==
  [k \in Conns |-> IF conns[k].by = w THEN AfterRollback(conns[k]) ELSE conns[k]]

-----------------------------------------------------------------------------
(***************************************************************************)
(* Row-level security.                                                     *)
(***************************************************************************)
EligibleRoles == {"compliance_head", "ca_consultant", "cfo"}

\* The functions of migration 0018 look at access_end only.
IsCrossClientEligible(u) ==
  \E c \in Clients : members[u][c].role \in EligibleRoles /\ members[u][c].window # "ended"
UserHasClientMembership(u, c) ==
  members[u][c] # Nobody /\ members[u][c].window # "ended"

\* Seeded fault: the policy asks for a membership, as that of compliance_clients.
TenantByMembership(guc, c) == guc.user # NoUser /\ UserHasClientMembership(guc.user, c)

TenantIsolation(guc, c) == guc.client = c
CrossClientView(guc) ==
  guc.cross /\ guc.user # NoUser /\ IsCrossClientEligible(guc.user)
SelfMembershipView(guc, u) == guc.user = u

\* compliance_clients goes by membership, whatever the header names.
ClientIsolation(guc, c) == guc.user # NoUser /\ UserHasClientMembership(guc.user, c)

\* Clients whose notices, alerts, rules, bills and credentials are seen.
VisibleNotices(guc) ==
  {c \in clients : TenantIsolation(guc, c) \/ CrossClientView(guc)}

VisibleClients(guc) ==
  {c \in clients : ClientIsolation(guc, c) \/ CrossClientView(guc)}

MembershipVisible(guc, u, c) ==
  TenantIsolation(guc, c) \/ CrossClientView(guc) \/ SelfMembershipView(guc, u)

-----------------------------------------------------------------------------
(***************************************************************************)
(* The membership a request acts under.                                    *)
(***************************************************************************)
IsMembershipActive(m) == m # Nobody /\ m.window = "open"

\* The client of the membership get_active_membership returns: that of the
\* header, or in cross mode of any eligible membership.
ActiveMemberships(ctx, guc) ==
  {c \in Clients :
     /\ MembershipVisible(guc, ctx.user, c)
     /\ IsMembershipActive(members[ctx.user][c])
     /\ IF ctx.cross
        THEN ctx.user \in Admins /\ members[ctx.user][c].role \in EligibleRoles
        ELSE c = ctx.client}

\* TenantContextMiddleware: the header names a client, all of them, or none.
Dispatched(u, header) ==
  IF header = "all" THEN Context(NoClient, TRUE, u) ELSE Context(header, FALSE, u)

\* The middleware, get_active_client_id and get_active_membership, in a
\* transaction that the request then keeps open; a refusal ends it.
Check(w, u, header) ==
  LET ctx == Dispatched(u, header) IN
  /\ w \notin Tasks /\ work[w] = Idle /\ Room
  /\ \E k \in FreeIn(AsyncPool) :
       LET c == SetTenant(TakenBy(k, w), ctx) IN
       \E home \in ActiveMemberships(ctx, c.guc) :
         /\ conns' = [conns EXCEPT ![k] = c]
         /\ work' = [work EXCEPT ![w] =
                       Doing("handle", ctx, Blank, members[u][home].role, home, NoChange)]
  /\ UNCHANGED << members, clients, sockets, unaudited, unread, strays, faults >>

-----------------------------------------------------------------------------
(***************************************************************************)
(* What the endpoints return, as the clients whose rows are in the answer. *)
(* A request is its context and the membership it acts under.              *)
(***************************************************************************)
May(r, perm) == HasPermission(r.role, perm)

\* _reject_cross_client_mode.
InOneClient(r) == ~r.ctx.cross

Reports(r, guc, path) ==
  IF May(r, "report:view") /\ InOneClient(r) THEN {r.home} \cap VisibleNotices(guc) ELSE {}

HealthSummary(r, guc, path) ==
  IF May(r, "report:export") /\ InOneClient(r) /\ path = r.home
  THEN {path} \cap VisibleNotices(guc) ELSE {}

ComplianceScore(r, guc, path) ==
  IF ~May(r, "report:view") THEN {}
  ELSE IF r.ctx.cross THEN VisibleNotices(guc) ELSE {r.home} \cap VisibleNotices(guc)

PendingAlerts(r, guc, path) ==
  IF ~May(r, "notice:view") THEN {}
  ELSE IF r.ctx.cross THEN VisibleNotices(guc) ELSE {r.home} \cap VisibleNotices(guc)

AlertRules(r, guc, path) ==
  IF May(r, "notice:view") THEN {r.home} \cap VisibleNotices(guc) ELSE {}

\* The search and the credentials list have no filter but the policies; the
\* dashboard has only the client of its path.
UnifiedSearch(r, guc, path) == IF May(r, "notice:view") THEN VisibleNotices(guc) ELSE {}
ListCredentials(r, guc, path) ==
  IF May(r, "email_integration:use") THEN VisibleNotices(guc) ELSE {}
ClientDashboard(r, guc, path) ==
  IF May(r, "notice:view") THEN {path} \cap VisibleNotices(guc) ELSE {}
GetClient(r, guc, path) ==
  IF May(r, "notice:view") THEN {path} \cap VisibleClients(guc) ELSE {}

\* What a request may be answered with: its tenant, or in cross mode all; a
\* client's own card also for another client the user belongs to.
Scope(r) == IF r.ctx.cross THEN Clients ELSE {r.ctx.client}
OwnClients(r) == Scope(r) \cup {c \in Clients : members[r.ctx.user][c] # Nobody}

\* The endpoints whose answer leaves the scope.
Straying(r, guc) ==
  {e \in {"reports", "health_summary", "score", "alerts", "rules", "search",
          "credentials", "dashboard", "client"} :
     \E path \in Clients :
       LET rows == CASE e = "reports"        -> Reports(r, guc, path)
                     [] e = "health_summary" -> HealthSummary(r, guc, path)
                     [] e = "score"          -> ComplianceScore(r, guc, path)
                     [] e = "alerts"         -> PendingAlerts(r, guc, path)
                     [] e = "rules"          -> AlertRules(r, guc, path)
                     [] e = "search"         -> UnifiedSearch(r, guc, path)
                     [] e = "credentials"    -> ListCredentials(r, guc, path)
                     [] e = "dashboard"      -> ClientDashboard(r, guc, path)
                     [] OTHER                -> GetClient(r, guc, path) IN
       ~ rows \subseteq (IF e = "client" THEN OwnClients(r) ELSE Scope(r))}

\* Connection k as a statement of w finds it, after the listener.
Statement(k, w) == SetTenant(TakenBy(k, w), work[w].ctx)

\* A statement under another context than its worker's own.
Strayed(c, ctx) == IF c.guc = ctx THEN {} ELSE {"context"}

\* Any of the reading endpoints: none of them changes a row.
Read(w) ==
  /\ work[w].at = "handle"
  /\ Rests(w, Blank)
  /\ \E k \in Holding(w) :
       LET c == Statement(k, w) IN
       /\ conns' = [conns EXCEPT ![k] = AfterRollback(c)]
       /\ strays' = strays \cup Strayed(c, work[w].ctx) \cup Straying(work[w], c.guc)
  /\ UNCHANGED << members, clients, sockets, unaudited, unread, faults >>

-----------------------------------------------------------------------------
(***************************************************************************)
(* Changes to a client and its team.                                       *)
(***************************************************************************)
\* add_member: the client of the path is looked up, the user has no membership
\* of it yet.
AddMember(r, guc, u, c) ==
  /\ May(r, "client:manage_team")
  /\ c \in VisibleClients(guc)
  /\ ~ (members[u][c] # Nobody /\ MembershipVisible(guc, u, c))

\* remove_member: the membership of the path is found.
RemoveMember(r, guc, u, c) ==
  /\ May(r, "client:manage_team")
  /\ members[u][c] # Nobody /\ MembershipVisible(guc, u, c)

\* update_branding, upload_logo, delete_logo.
UpdateClient(r, guc, c) ==
  May(r, "client:manage_team") /\ c = r.home /\ c \in VisibleClients(guc)

\* The statements of w up to its commit of the change.
Begin(w, k, change) ==
  LET c == Statement(k, w) IN
  /\ GoesOn(w, "commit", change)
  /\ conns' = [conns EXCEPT ![k] = c]
  /\ strays' = strays \cup Strayed(c, work[w].ctx)
  /\ UNCHANGED << members, clients, sockets, unaudited, unread, faults >>

Write(w) ==
  /\ work[w].at = "handle"
  /\ \E k \in Holding(w), c \in Clients, u \in Users :
       LET r == work[w] guc == Statement(k, w).guc IN
       \/ \E g \in Grants :
            /\ << u, c >> \in Invitees /\ AddMember(r, guc, u, c)
            /\ Begin(w, k, Change("add", u, c, g))
       \/ /\ RemoveMember(r, guc, u, c)
          /\ Begin(w, k, Change("remove", u, c, Nobody))
       \/ /\ UpdateClient(r, guc, c)
          /\ u = r.ctx.user
          /\ Begin(w, k, Change("update", u, c, Nobody))

\* The row meets the policies when it is written: an insert for another client
\* is refused, as is a second membership; an update that no longer finds its row
\* raises (StaleDataError); a delete passes over it.
Allowed(change, guc) ==
  CASE change.op = "add"    -> /\ TenantIsolation(guc, change.client)
                               /\ members[change.user][change.client] = Nobody
    [] change.op = "update" -> ClientIsolation(guc, change.client)
    [] OTHER                -> TRUE
Effective(change, guc) ==
  change.op \in {"add", "remove"} /\ TenantIsolation(guc, change.client)

\* The commit of a change, which ends the transaction.  What was removed is not
\* read again.
Commit(w) ==
  /\ work[w].at = "commit"
  /\ \E k \in Holding(w) :
       LET change == work[w].todo effective == Effective(change, conns[k].guc) IN
       /\ Allowed(change, conns[k].guc)
       /\ conns' = [conns EXCEPT ![k] = AfterCommit(conns[k])]
       /\ IF effective
          THEN members' = [members EXCEPT ![change.user][change.client] = change.grant]
          ELSE UNCHANGED members
       /\ strays' = strays \cup
            (IF effective /\ change.client \notin Scope(work[w]) THEN {"change"} ELSE {})
       /\ IF change.op = "remove" THEN GoesOn(w, "audit", NoChange)
          ELSE GoesOn(w, "reread", change)
  /\ unaudited' = unaudited + 1
  /\ UNCHANGED << clients, sockets, unread, faults >>

\* The change is refused or the database fails: rollback, then an error.
Refuse(w) ==
  /\ work[w].at = "commit"
  /\ \E k \in Holding(w) :
       /\ IF Allowed(work[w].todo, conns[k].guc) THEN Fault ELSE UNCHANGED faults
       /\ conns' = [conns EXCEPT ![k] = AfterRollback(conns[k])]
  /\ Rests(w, Blank)
  /\ UNCHANGED << members, clients, sockets, unaudited, unread, strays >>

\* Whether the committed row is there to be read again.
StillThere(change, guc) ==
  CASE change.op = "add"    -> /\ members[change.user][change.client] # Nobody
                               /\ MembershipVisible(guc, change.user, change.client)
    [] change.op = "update" -> change.client \in VisibleClients(guc)
    [] OTHER                -> TRUE

\* db.refresh, in a transaction of its own; onboarding reads with the owner.
Reread(w) ==
  /\ work[w].at = "reread"
  /\ \E k \in Usable(w) :
       LET c == Statement(k, w) IN
       /\ StillThere(work[w].todo, c.guc)
       /\ conns' = [conns EXCEPT ![k] = c]
       /\ strays' = strays \cup Strayed(c, work[w].ctx)
  /\ GoesOn(w, "audit", NoChange)
  /\ UNCHANGED << members, clients, sockets, unaudited, unread, faults >>

\* The row is gone again, the caller may no longer see it, or no connection comes
\* free in time: refresh raises, and the request ends before it reaches
\* log_audit_event.  Or the database fails.
RereadFails(w) ==
  /\ work[w].at = "reread"
  /\ \/ /\ unread < MaxUnread /\ unread' = unread + 1 /\ UNCHANGED faults
        /\ \A k \in Usable(w) : ~StillThere(work[w].todo, Statement(k, w).guc)
     \/ Fault /\ UNCHANGED unread
  /\ conns' = Closed(w)
  /\ Rests(w, Blank)
  /\ UNCHANGED << members, clients, sockets, unaudited, strays >>

\* onboard_client: an admin, in a session of the owner, which the policies do not
\* bind; get_current_user holds one of the ordinary pool.  The admin heads the
\* new client.
OnboardClient(w, u, c) ==
  /\ w \notin Tasks /\ work[w] = Idle /\ Room /\ u \in Admins /\ c \notin clients
  /\ LET ctx == Dispatched(u, NoClient) IN
     /\ \E k \in FreeIn(AsyncPool) :
          conns' = [conns EXCEPT ![k] = SetTenant(TakenBy(k, w), ctx)]
     /\ work' = [work EXCEPT ![w] =
                   Doing("reread", ctx, Blank, "none", NoClient, Change("onboard", u, c, Nobody))]
  /\ clients' = clients \cup {c}
  /\ members' = [members EXCEPT ![u][c] = [role |-> "compliance_head", window |-> "open"]]
  /\ unaudited' = unaudited + 1
  /\ UNCHANGED << sockets, unread, strays, faults >>

\* Seeded fault: a failure to write the row is swallowed without a line.
RowOrNothing == IF FreeIn(SyncPool) # {} THEN unaudited - 1 ELSE unaudited

\* log_audit_event: a row if the pool has a connection in time, else a line in
\* the fallback file.
Recorded == unaudited - 1

\* The audit row, or its fallback line; neither when the file fails too.
LogAuditEvent(w) ==
  /\ work[w].at = "audit"
  /\ \/ unaudited' = Recorded /\ UNCHANGED faults
     \/ FreeIn(SyncPool) = {} /\ Fault /\ UNCHANGED unaudited
  /\ conns' = Closed(w)
  /\ Rests(w, Blank)
  /\ UNCHANGED << members, clients, sockets, unread, strays >>

-----------------------------------------------------------------------------
(***************************************************************************)
(* Background tasks.  A task finds its row in cross mode, then narrows the *)
(* context to the row's client, in the session it has open.                *)
(***************************************************************************)
\* The row of client c is looked up on behalf of u or of nobody.  The ContextVars
\* of the process stay as they are set here, but not those of a copied context,
\* whose task goes on in cross mode when it does not find the row.
Lookup(w, k, u, c, copied) ==
  LET all == Context(NoClient, TRUE, u)
      own == Context(c, FALSE, u)
      s   == SetTenant(TakenBy(k, w), all)
      left(ctx) == IF copied THEN work[w].left ELSE ctx IN
  /\ \/ /\ c \in VisibleNotices(s.guc)
        /\ conns' = [conns EXCEPT ![k] = s]
        /\ work' = [work EXCEPT ![w] =
                      Doing("scoped", own, left(own), "none", NoClient, NoChange)]
     \/ /\ c \notin VisibleNotices(s.guc) /\ copied
        /\ conns' = [conns EXCEPT ![k] = s]
        /\ work' = [work EXCEPT ![w] =
                      Doing("scoped", all, left(all), "none", NoClient, NoChange)]
     \/ /\ c \notin VisibleNotices(s.guc) /\ ~copied
        /\ conns' = [conns EXCEPT ![k] = AfterRollback(s)]
        /\ Rests(w, left(all))
  /\ strays' = strays \cup Strayed(s, all)
  /\ UNCHANGED << members, clients, sockets, unaudited, unread, faults >>

\* classify_and_score_notice, dispatch_notice_alert, fire_reminder, run_scan and
\* _dispatch_scheduled_alert begin with the lookup.
StartTask(w, u, c) ==
  /\ w \in Tasks /\ work[w].at = "idle" /\ Room /\ c \in clients \cap Touched
  /\ \E k \in FreeIn(SyncPool) : Lookup(w, k, u, c, FALSE)

\* process_document_task runs in a copy of the context its process was left with.
StartDocumentTask(w) ==
  /\ w \in Tasks /\ work[w].at = "idle" /\ Room
  /\ GoesOn(w, "document", NoChange)
  /\ UNCHANGED << members, clients, conns, sockets, unaudited, unread, strays, faults >>

\* _run_phase17_extraction, after statements, commits and rollbacks of the
\* document's own, in the same session.
ExtractFields(w, u, c) ==
  /\ work[w].at = "document" /\ c \in clients \cap Touched
  /\ \E k \in Usable(w) : Lookup(w, k, u, c, TRUE)

\* A statement, followed by a commit, a rollback or neither; the task may end.
TaskStep(w) ==
  /\ work[w].at \in {"document", "scoped"}
  /\ \E k \in Usable(w) :
       LET c == Statement(k, w) IN
       /\ \/ /\ conns' = [conns EXCEPT ![k] = c]
             /\ GoesOn(w, work[w].at, NoChange)
          \/ /\ \E d \in {AfterCommit(c), AfterRollback(c)} : conns' = [conns EXCEPT ![k] = d]
             /\ GoesOn(w, work[w].at, NoChange) \/ Rests(w, work[w].left)
       /\ strays' = strays \cup Strayed(c, work[w].ctx)
  /\ UNCHANGED << members, clients, sockets, unaudited, unread, faults >>

\* set_config fails: the listener marked the connection dirty before it tried,
\* the statement finds its transaction aborted, and the rollback follows.  The
\* request ends with an error; a task may go on.
ListenerFails(w) ==
  /\ work[w].at \in {"handle", "document", "scoped"} /\ Fault
  /\ \E k \in Usable(w) :
       conns' = [conns EXCEPT ![k] =
                   AfterRollback(Conn(w, conns[k].guc, conns[k].base, Blank, TRUE))]
  /\ \/ Rests(w, work[w].left)
     \/ work[w].at # "handle" /\ GoesOn(w, work[w].at, NoChange)
  /\ UNCHANGED << members, clients, sockets, unaudited, unread, strays >>

\* The process dies with its connection.
Crash(w) ==
  /\ work[w].at # "idle" /\ Fault
  /\ conns' = [k \in Conns |-> IF conns[k].by = w THEN Fresh ELSE conns[k]]
  /\ Rests(w, Blank)
  /\ UNCHANGED << members, clients, sockets, unaudited, unread, strays >>

-----------------------------------------------------------------------------
(***************************************************************************)
(* Time, and the notification websocket.                                   *)
(***************************************************************************)
AccessStarts(u, c) ==
  /\ members[u][c].window = "future"
  /\ members' = [members EXCEPT ![u][c] = [role |-> members[u][c].role, window |-> "open"]]
  /\ UNCHANGED << clients, conns, work, sockets, unaudited, unread, strays, faults >>

AccessEnds(u, c) ==
  /\ members[u][c].window = "open" /\ members[u][c].role = "auditor"
  /\ members' = [members EXCEPT ![u][c] = [role |-> "auditor", window |-> "ended"]]
  /\ UNCHANGED << clients, conns, work, sockets, unaudited, unread, strays, faults >>

\* _validate_session, in a session of its own.
Connect(u, c) ==
  /\ u \in Subscribers /\ c \notin sockets[u] /\ IsMembershipActive(members[u][c])
  /\ FreeIn(AsyncPool) # {}
  /\ sockets' = [sockets EXCEPT ![u] = @ \cup {c}]
  /\ UNCHANGED << members, clients, conns, work, unaudited, unread, strays, faults >>

\* Seeded fault: an open socket asks only whether a membership is there.
StillAMember(u, c) == members[u][c] # Nobody
MembershipStillActive(u, c) == IsMembershipActive(members[u][c])

\* Every MEMBERSHIP_RECHECK_SECONDS; with no connection to be had the loop
\* fails and disconnects too.
Recheck(u, c) ==
  /\ c \in sockets[u]
  /\ ~MembershipStillActive(u, c) \/ FreeIn(AsyncPool) = {}
  /\ sockets' = [sockets EXCEPT ![u] = @ \ {c}]
  /\ UNCHANGED << members, clients, conns, work, unaudited, unread, strays, faults >>

-----------------------------------------------------------------------------
Next ==
  \/ \E w \in Workers :
       \/ \E u \in Users, h \in Clients \cup {"all"} : Check(w, u, h)
       \/ Read(w)
       \/ Write(w)
       \/ Commit(w)
       \/ Refuse(w)
       \/ Reread(w)
       \/ RereadFails(w)
       \/ \E u \in Users, c \in Clients : OnboardClient(w, u, c)
       \/ LogAuditEvent(w)
       \/ \E u \in Behalf, c \in Clients : StartTask(w, u, c)
       \/ StartDocumentTask(w)
       \/ \E u \in Behalf, c \in Clients : ExtractFields(w, u, c)
       \/ TaskStep(w)
       \/ ListenerFails(w)
       \/ Crash(w)
  \/ \E u \in Users, c \in Clients :
       AccessStarts(u, c) \/ AccessEnds(u, c) \/ Connect(u, c) \/ Recheck(u, c)

\* The socket's own loop wakes up every minute.
Spec == Init /\ [][Next]_vars /\ \A u \in Users, c \in Clients : WF_vars(Recheck(u, c))

-----------------------------------------------------------------------------
(***************************************************************************)
(* Properties.                                                             *)
(***************************************************************************)
\* Rows, connections and contexts keep their types; a worker holds one connection
\* at most, and none when it is idle.
TenancyTypeOK ==
  /\ members \in [Users -> [Clients -> Memberships]]
  /\ clients \subseteq Clients
  /\ conns \in [Conns -> [by : Workers \cup {NoWorker}, guc : Contexts,
                          base : Contexts, cache : Contexts, dirty : BOOLEAN]]
  /\ work \in [Workers ->
       [at : {"idle", "handle", "commit", "reread", "audit", "document", "scoped"},
        ctx : Contexts, left : Contexts,
        role : Roles \cup {"none"}, home : Clients \cup {NoClient},
        todo : [op : {"none", "add", "remove", "update", "onboard"}, user : Users \cup {NoUser},
                client : Clients \cup {NoClient}, grant : Memberships]]]
  /\ sockets \in [Users -> SUBSET Clients]
  /\ unaudited \in Nat /\ unread \in 0..MaxUnread /\ faults \in 0..MaxFaults
  /\ \A w \in Workers : work[w].at = "idle" => Holding(w) = {}
  /\ \A k, l \in Conns : conns[k].by = conns[l].by /\ conns[k].by # NoWorker => k = l

\* A connection in the pool carries no one's settings, now or after a rollback,
\* and the listener knows it: the next transaction starts blank, also after a
\* failed clean-up (_clear_tenant_on_checkin).
PooledIsBlank ==
  \A k \in Conns : conns[k].by = NoWorker => conns[k] = Fresh

\* Every statement runs under the very context its request or task has set -
\* though the listener skips a context it believes is set already, a session
\* changes its connection with every transaction, a document task changes its
\* context between statements of one transaction, and its process goes on with
\* the context of an earlier task (register_tenant_listener).
StatementsInOwnContext == "context" \notin strays

\* No endpoint answers with rows of a client other than the one the header names,
\* nor changes the team of another, although add_member and remove_member take
\* the client from the path and a membership may end between the check and the
\* answer; a client's own card is shown to its members.
RequestsStayInTenant == strays \subseteq {"context"}

Auditing == {w \in Workers : work[w].at \in {"reread", "audit"}}

\* A committed change has its audit row or its line in the fallback file, or its
\* request is on the way to write one, or a failure took it - or the re-read
\* between the commit and log_audit_event found the row gone again, the caller's
\* access ended or the pool empty, and the change stands without a trace.
ChangesAreAudited ==
  unaudited <= Cardinality(Auditing) + unread + faults

\* A websocket does not outlive the membership it was opened for: once that is
\* revoked or has run out, the socket is closed unless the membership is back.
SocketsFollowMembership ==
  \A u \in Users, c \in Clients :
    (c \in sockets[u] /\ ~IsMembershipActive(members[u][c]))
      ~> (c \notin sockets[u] \/ IsMembershipActive(members[u][c]))

=============================================================================
