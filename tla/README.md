# Verification of the Smart Document Management System

TLA+ models of the stateful parts of this repository's back end, checked with
TLC, and proofs about them checked with TLAPS. Paths below are relative to
`src/backend/app/` unless they start with `src/`.

The system is a FastAPI application over PostgreSQL, with Celery workers, Redis
and an APScheduler whose jobs live in the database. Its business is the
*compliance notice*: a letter from an authority (GST, IT, MCA, RBI, SEBI) that
arrives by upload, by form or in a connected Gmail account, must be answered
before a deadline, and may only be answered with a text that three different
people have approved.

## 1. The system's parts

| Component | State it keeps | Operations | Hard behaviour | What makes it correct |
|---|---|---|---|---|
| Roles and permissions (`compliance/services/permission_registry.py`) | a constant role x permission matrix | look-ups | none by itself | the handlers ask for the right permission |
| Response workflow (`compliance/services/response_service.py`, `response_state_machine.py`, `compliance/routers/responses.py`) | one `notice_responses` row per notice, its versions, its decisions | create, edit, rollback, submit, withdraw, approve, reject | each request loads the row into its own session and commits later; only approve/reject and rollback lock it, and the lock does not refresh what was loaded | a maker never judges, nobody acts twice on a version, an approved text passed all three gates in its present form |
| Notice lifecycle (`compliance/services/notice_service.py`, `notice_state_machine.py`, `compliance/routers/notices.py`) | `status`, `response_deadline` of the notice | create, edit, transition, bulk transition, accept an extraction | `submitted` depends on the response; work on other stores follows the commit | only an approved response is filed |
| Alert scheduling (`compliance/services/scheduler.py`, `notice_pipeline.py`) | `apscheduler_jobs`: at most one job per notice and alert type | schedule, cancel, fire, misfire | runs after the commit of the request, best effort; one scheduler per process on one job store | an open notice has a job for every alert still to come, and none of another deadline |
| Alert dispatch (`compliance/services/alert_service.py`, `senders.py`) | `notice_alert_log`, unique per notice, type, recipient and channel | dispatch | two processes fire one job; a process dies after sending | an alert leaves once |
| Gmail scan and ingestion (`email/tasks/scanner_task.py`, `email/services/scanner_service.py`, `ingestion_service.py`, `classifier.py`) | the lock in Redis, `last_history_id`, `gmail_message_log`, the notices and bills made | scan, on an interval and on demand | the lock expires under a running scan; a message becomes a log row in one commit and a notice in another; errors and crashes half way | one record per message, none lost |
| Gmail credentials (`email/services/credential_vault.py`, `access_token_cache.py`, `email/routers/`, `email/mcp/`) | `gmail_credentials`, one scan job each, cached access tokens | connect, reconnect, disable, disconnect, refresh, notice a dead grant | revocation and reconnection cross each other; a cached token hides a dead grant | an active connection is polled, only a dead grant revokes it |
| Bills and reminders (`email/services/bill_service.py`, `email/tasks/bill_reminder_task.py`) | `bills` in series, reminder jobs | insert, remind, mark as paid | reminders counted after they left and without a lock, payment crossing a reminder, two scans starting one series | a reminder that goes out is due: at most three, none after payment |
| Field extraction (`compliance/services/extraction_routing_service.py`, `notice_extractor_service.py`, `tasks/document_tasks.py`) | `extraction_status`, `extracted_fields` and the columns they fill | upload, extract, route, accept | a slow model crosses an acceptance or an edit | what a person accepted or typed is not overwritten |
| Review queue (`compliance/services/review_queue_service.py`) | one row per notice | enqueue, open, label | the nightly scoring re-enqueues | a reviewed notice stays reviewed |
| Risk and escalation (`tasks/compliance_tasks.py`, `ml/compliance/`) | risk tier, `last_escalated_at`, alert log | score, escalate, announce | parallel workers, cooldown, a lock that a commit releases, alert tasks that give up | one escalation per cooldown, and the head hears of a critical notice |
| Documents (`routers/documents.py`, `tasks/document_tasks.py`, `services/storage_service.py`) | `documents`, versions, shares, files, Celery tasks | upload, new version, roll back, delete, share, import, process | files outside the transaction; retries, time limits, redelivery; stale tasks | history without gaps, no leaked file but in known cases, nothing stuck, no list beyond what is shared |
| Accounts and sessions (`routers/auth.py`, `routers/admin.py`, `routers/early_access.py`, `services/`) | users, refresh tokens, one-time codes, invitations | register, sign in, second factor, rotate, revoke, reset, switch off, delete, change role | rotation crosses revocation; first-admin exception; codes and invitations used twice; addresses that a deletion frees | one live token per sign-in, none for who is off |
| Tenancy (`compliance/middleware/tenant_context.py`, `database.py`, `compliance/dependencies.py`, `compliance/routers/`) | memberships, context variables, session settings on pooled connections, audit rows, websockets | check, read, change a team, audit, connect, re-check | settings cached beside a pooled connection, which changes with every transaction; a task that changes its tenant; memberships end under requests | a statement runs for its own request, a request stays in one client |
| Evidence, calendar, classification models, web client, start-up | their tables, or none | reads, single-row writes, pure functions | little | see `PROJECT.json` |

**How they interact.** The router of a request loads the row it acts on and
passes it to a service in the same database session. `transition_notice_status`
reads the response under a lock (workflow to lifecycle). Requests that change
the status or the deadline call the scheduler after their commit (lifecycle to
alerts); a fired job loads the notice again and dispatches. A Gmail scan writes
a log row, then a notice or a bill, then runs the same intake as the form; it
needs the connection's token, and a dead one takes the connection down. A
document task extracts text, then reads the notice's fields and queues it for
review and scoring; scoring escalates through the alert tasks. Every request
runs in a tenant context over pooled connections. All shared state is in
PostgreSQL rows, the job store, files, Celery's queue and a few Redis keys.

## 2. The modules

```
PermissionRegistry <- ResponseStates <- ResponseWorkflow   implements ApprovalChain
                   |                 <- DeadlineAlerts
                   <- Tenancy
GmailScan   AccountSessions   NoticeReview   NoticeEscalation
Documents                                                  implements VersionHistory
MailConnection, Bills <- Mail
```

Each state machine has an `MC...` module for its instance and a `...Proofs`
module; `MailProofs` is that of `MailConnection`, `Bills` and `GmailScan`.
Each follows one row, or the few rows whose interplay matters, through every
operation that writes it: what is per notice, per mailbox or per account in the
code is independent of the others of its kind.

### PermissionRegistry, ResponseStates
The matrix of `permission_registry.py` and the tables of the two hand-written
state machines, with the permission each step asks for. Operators only.

### ResponseWorkflow
One notice and its response. `notice`, `response`, `versions` and `approvals`
are the rows; `session[s]` is a request in progress. Each request is two
actions: *Begin* is the router, which checks the permission and loads the row;
the second is the service, which commits. The split is where SQLAlchemy puts it:
`AsyncSessionLocal` is built with `autoflush=False, expire_on_commit=False`, a
later `SELECT ... FOR UPDATE` of the same row takes the lock but returns the
object already in the identity map, and so the status a service compares is the
one its router loaded. Queries made under the lock (who wrote a version, who has
decided on it, the next version number) read the tables at the second step.
`transition_notice_status` loads both rows for the first time under their locks
and is one action. `Fail` stands for every refused request, lost race on a
unique constraint and dead worker: the transaction rolls back.

| Code | Action |
|---|---|
| `create_or_update_draft`, `get_or_create_response` | `BeginCreate`, `CreateResponse` (then an edit, when the request has a payload) |
| `update_response_draft`, `update_draft` | `BeginEdit`, `UpdateDraft` |
| `rollback_response`, `rollback_to_version` | `BeginRollback`, `RollbackToVersion` |
| `submit_response`, `submit_for_review` | `BeginSubmit`, `SubmitForReview` |
| `withdraw_response`, `withdraw` | `BeginWithdraw`, `Withdraw` |
| `_decide`, `_resolve_pending_stage`, `apply_approval` | `BeginDecide`, `ApplyApproval` |
| `transition_status`, `transition_notice_status`, `is_response_approved` | `TransitionNotice` |

### ApprovalChain
The promise, without requests, rows or roles: a text climbs a chain of gates,
each passed by someone who neither wrote it nor judged it in its present form; a
revision clears every earlier judgement; only a text that cleared the whole
chain is filed. `ResponseWorkflow!ImplementsChain` is the refinement: the gate is
the pending stage, the makers are the author and the writers of all versions,
the judges and the cleared gates are those of the current version.

### DeadlineAlerts
One notice: its status and deadline, the jobs of the shared store, the requests'
post-commit tails (`tail`), the dispatches in progress in each scheduler process
(`run`) and `notice_alert_log`. A request commits and sets its tail; `Cancel`
and `Schedule` are the tail; `LoseTail` is a process that dies, or a store that
refuses, in between. `Fire` takes a job from the store in one or several
processes at once, as APScheduler processes sharing a store without coordination
do; that a slower process may read the store while another already dispatches is
left out. A dispatch is `Load`, `Claim` (the `INSERT ... ON CONFLICT`, which
waits for another's uncommitted row), `Send` and `Commit`. Time is in days, the
unit of the offsets, and a day ends when its requests, due jobs and dispatches
are done. `AcceptExtraction` is the write of a deadline that no tail follows;
`silent` remembers it.

### GmailScan
One mailbox. A scan is `Start` (lock and credential), `ListHistory` or
`ListMailbox` and `GetProfile`, then for each message `IngestMessage` (fetch and
commit the log row) and `Downstream` (commit the notice or the bill, or swallow
the error), and `Finish`, which moves the anchor. `MessageGone`, `CallFails` and
`Crash` are its ways to stop early; `Expire` is the time to live of the lock. The
mailbox itself (`Arrive`, `Delete`, `Prune`) is external and answers as
`run_scan` uses it: history ids grow with each message, a listing gives ids, a
pruned anchor gives 404, and so does a deleted message.

### MailConnection, Bills, Mail
`MailConnection` is one user's connection of a mailbox to a client. Every
consent at Google is a new *grant*; `live` are those Google still honours.
`Connect` is the callback (commit, then `ScheduleGmailScan`), `UpdateCredential`
and `DeleteCredential` the routes, `GetAccessToken` the cache with its refresh,
`HandleInvalidGrant` and `RemoveJob` the two commits of a refusal. `user[u]` is
a request, a scan or a tool of the MCP server between two of them. `Bills` is
the series of one biller: a scan's insertion is `ReadParent` and `Insert`, whose
unique index refuses a second head; `Fetch`, `FireReminder`, `Remind` (the mails
leave), `CountReminder` (the commit of the count) and `RemoveJobs` are
schedulers sharing a job store; `ReminderFails` is a process that dies, or a
refused commit, before the mails left or after, when `uncounted` remembers it.
`Mail` is both together, as they share one scan and one job store and no row.

### NoticeReview
One notice, its review-queue row and its client's AI key. `slot[s]` is an
operation between what it read and what it writes; `overtaken` collects the
writes that came in between (`Told`), so that a property can tell a stale writer
from a wrong one. Uploads read inline (`UploadNoticeFile`, `UploadIsRead`), the
document task reads later (`StartExtraction`, `ModelAnswers`, `ApplyExtraction`,
or `TaskEndsUnread` when it never gets to the notice: no file, no text, no
engine, no retry left; `ExtractionLost` is the hard time limit, or a `failed`
that cannot be written; `unread` remembers both while the notice is pending),
acceptance is `StartAcceptance`, `CommitAcceptance`, labelling `OpenReview`,
`AssignReviewerLabel`, scoring's doubt `StartScoring`, `EnqueueLowConfidence`.
An envelope of a model is a function from the fields it gives to confidence and
structural soundness; `Confidence`, `Filled` and the routing tests are functions
of it as in `extraction_routing_service.py`.

### NoticeEscalation
The score of one notice by days to its deadline (`Points`, in 84ths, in which
every weight is whole), the nightly sweep, the queue and the workers. A worker's
stages end where `classify_and_score_notice` commits or waits: the score, the
advisory lock, the escalation, its audit row, its announcement. `Crash` is a
worker that dies or retries: its message comes back and the server frees its
lock; `AnnounceFails` and `EscalationFails` are the errors the code catches. An
announced alert is a queued `dispatch_notice_alert` with the retries it has
left: `Deliver` writes the head's row, `DeliverFails` is an attempt that raises,
the last of which returns `retries_exhausted` and leaves no row, and
`DeliverKilled` is the hard time limit. `cut` remembers that a fault cost the
latest escalation its alert; the next escalation starts anew.

### Documents
The documents of one file name, their versions, shares, files and tasks. A save
of bytes is a number, a text the number of the file it was read from. Uploads,
rollbacks and deletions are a load and a commit in a `slot`; a task is the
commit of PROCESSING and the commit of its result. Bytes are saved before the
row that names them: `ConflictUpload` refuses the row, `CrashBeforeCommit` is an
upload's process that dies in between, `ImportLosesFile` an import that dies
there or whose commit fails. `DispatchFails` is a broker that refuses the task,
or takes it before the commit of its id fails. `lost` and `orphans` remember why
a document is unsettled without a task and why a file belongs to nobody, for the
cases section 4 names.

### VersionHistory
The promise, without requests, tasks, statuses or texts: of each document the
files it has had, in order. A history is opened with a file no document has
(`Open`), extended by such a file (`Extend`) or by one of its own older ones
(`Restore`), and dropped for good (`Drop`). `Documents!KeepsHistory` is the
refinement: the history of a row is the file of each version number, the current
one last (`VersionsOf`). It is what a rollback can break, since it loads a row,
takes no lock and flushes only the columns that differ from what it loaded.

### AccountSessions
Accounts, their refresh tokens (each with the sign-in it descends from and how
that was proved), one-time codes and invitations. An account is a row of `users`;
several may have one address (`EmailOf`), one after the other, because a deletion
overwrites the address of its row, and the early-access request of an address
outlives them all. Requests of two commits, and
sweeps that revoke an account's tokens by a snapshot, hold a slot. Two histories
say what overlap costs: `overtaken` has the requests that met a sweep of their
account, whose tokens are marked `late`; `crossed` says that two requests have
overlapped that each take an admin away.

### Tenancy
`conns[k]` is a pooled connection: what its settings say now (`guc`), what a
rollback restores (`base`), what the listener believes (`cache`) and whether it
was set since it left the pool (`dirty`). A session holds one only while a
transaction is open: `AfterCommit` and `AfterRollback` give it back through
`Checkin`, which blanks it, and the next statement takes any that is free.
`work[w]` is a request or a task with the context of its variables: `Check`,
`Read` or `Write`, `Commit`, `Reread` (the `db.refresh` of the committed row, in
a transaction of its own, which raises when the row or the caller's access is
gone again: `RereadFails`), `LogAuditEvent`; or `StartTask`, whose lookup in
cross mode narrows the context to the row it found, and `TaskStep`. The document
task begins in what its process was left with (`StartDocumentTask`) and sets
cross mode and then the notice's tenant in the middle of its session, between
commits and rollbacks of its own (`ExtractFields`). The policies of the database
are predicates over a connection's settings. `strays` collects what must not
happen as it happens: a statement in another's context, an answer with another
client's rows, a change to another client's team.

## 3. The runs

Every run is exhaustive for its instance. Properties in *italics* are action or
temporal properties.

| Run | Instance | Shows |
|---|---|---|
| `response_serial` | 4 people (a drafter, two consultants, a legal reviewer), 1 request at a time, 2 versions, 5 decisions | `ApprovedTextClearedEveryGate`, `FiledStaysApproved`, *`ImplementsChain`* |
| `response_overlap` | the same people, 2 requests in progress, 3 decisions | what survives overlap: `TypeOK`, `FiledPassedEveryGate`, `MakerNeverChecks`, `OneActPerVersion` |
| `alerts_serial` | types T-1 and overdue, deadlines on day 0 and 2, 4 days, 1 request at a time, 1 scheduler, 1 fault | `OpenIsWatched`, `NoStrayJobs`, `OverdueIsReported` |
| `alerts_dispatch` | overdue only, deadlines on day 0 and 1, 3 days, 2 requests, 2 schedulers, 1 fault | `SentOnce` |
| `scan_overlap` | 2 scanners, 2 messages (one may be deleted), 2 faults | `OneRecordPerMessage`, `FreshScanHoldsLock` |
| `scan_serial` | 1 scanner, 3 messages of different kinds of which two may be deleted, 2 faults | `AnchorWaitsForWork`, *`ListedIsIngested`* |
| `accounts_signin` | a federated account and two local ones of one address, one after the other, 2 requests in progress, 3 tokens, 1 code | `OneLivePerLogin`, `InactiveHoldsNoSession`, `PasswordAloneIsNotEnough`, `BootstrapOnce`, `InvitationBuysOneAccount` |
| `documents_pipeline` | 2 users of whom one uploads, 2 documents, 3 files, 3 versions, 2 tasks, 1 retry, 2 requests in progress, 1 fault | `UnsettledHasTask`, `NoFileLeaks`, `ListsAgreeWithAccess`, *`KeepsHistory`* |
| `tenancy_isolation` | an admin who heads a client, a user to be made auditor of the other, 2 clients, 2 requests and a task of which 2 at once, a pool each of one connection, 1 fault, 1 fruitless re-read | `StatementsInOwnContext`, `RequestsStayInTenant`, `ChangesAreAudited`, *`SocketsFollowMembership`* |
| `review_extraction` | 2 authorities, 4 envelopes, 2 requests and a worker of which 2 at once, 1 document, 1 fault | *`FrozenForLaterUploads`*, *`HumanValueKept`*, *`ReviewSticks`*, *`QueuedIsConcluded`* |
| `escalation_nightly` | a notice under a penal section one day ahead of its deadline, 2 workers, 2 tasks, 1 retry of an alert, 2 faults | `OneEscalationPerCooldown`, `EscalationLeavesRow`, *`RiskNeverFalls`*, *`CriticalReachesHead`* |
| `mail_accounts` | 2 users of the token, 2 grants, 1 fault; 2 bills of which one has a date, 2 scans, 2 schedulers, 1 fault | `ActiveIsPolled`, *`RevokedForCause`*, *`RemindersAreDue`*, *`DeadGrantIsNoticed`* |

**Bounds.** Four people are the least team that takes a text through three
approvers who did not write it, and leave one spare consultant to act out of
turn. Two versions are an approved text and the one before it; three
decisions take a text through the chain, five leave room for a rejection and the
approval it costs again. Two overlapping requests suffice
for every race between a loaded row and a commit, since a request holds one
loaded row. For alerts, deadlines on day 0 and 2 give an alert still to come, one
due today and one already past, and the horizon lets each overdue alert fire; the
T-3 and T-7 alerts differ from T-1 in their offset only. Two schedulers are
enough for a job fired twice, and two deadlines on consecutive days for an
overdue alert that is planned again after it left. For the scan, two messages make
a listing that can be interrupted in the middle, two scanners an overlap after the
key ran out, and one page holds every listing.

Three refresh tokens, two of them from a sign-in, are two sessions and a
rotation, or one session rotated twice at a time; a code can be presented twice.
Two documents of one name are a failed one and its replacement; three files are
a first upload, a new version and one that is refused; one retry is enough to
have an attempt that may not retry. The four envelopes are one per route:
accepted, rejected for one critical field, rejected for its structure, and
empty. The notice of `escalation_nightly` is high on the eve of its deadline and
critical on the day, so that one night moves it across. One retry of an alert is
an attempt that is tried again and one that is the last. Two grants make an old
refusal meet a new consent, and the one dated bill has all three reminders; days
go to the last of them, and bill mails arrive in the first two days
(`LastMail`), after which a head is stored as before. Two deletions leave a scan
stuck behind one message and past another. Two connections would let a session
change between them; one makes it meet what the transaction before left there,
which is what could go wrong, and the proofs are for any pools. The bounds on
faults let one crash, one error or one expiry fall at each point; the counters
bound nothing else.

Some restrictions are not bounds on numbers. `Together` in `accounts_signin`
says which requests overlap: two registrations, two rotations, and a rotation
with the bulk revocation of a deactivation or of a new second factor, where a
token is born that the sweep cannot see; other requests have the system to
themselves there, and in the proofs any `Together` will do. `MCBounds` follows
the second row of an address only while no code and no second sign-in is issued,
since its subject is the invitation, which no sign-in reads, and a lock-out only
while no request is in progress, since who is locked out can do less and nothing
else. `Grants` in `documents_pipeline` has shares with permission to edit only,
which allows what the other one does, `Sharable` the second document only, and
`Single` one deletion at a time, which may overlap anything else; the proofs are
for any of the three. `Invitees`, `Touched` and `Behalf` in `tenancy_isolation`
say whom the admin adds to which team, and whose rows tasks look up for whom.
`Overlapping` in `review_extraction` says which requests may be in progress
together besides the worker. `OnePart` in `MCMail` explores the connection and
the bills one at a time, which loses nothing, since no action reads or writes
the variables of both.

**Deadlock** is checked in eight runs: no state of the alerts, the scan, the
mail, the tenants, the review or the escalation is one that nobody leaves. Four
runs leave it unchecked, because there the bounded system really stops: a response
can be approved or withdrawn with its notice closed and no request in progress,
and the tokens or the files can be used up.

**Fairness.** Scan (`ListedIsIngested`): the interval job starts scans again and
again (weak fairness of *some* scanner's `Start`), a running scan takes its next
step, and Redis removes a key when its time is up. Review (`QueuedIsConcluded`):
an operation in progress is finished (each `Work(s)`), and the broker hands a
waiting document to a worker whenever it can again and again (strong, since a
crash puts it back), without a promise that its task gets to the notice.
Escalation (`CriticalReachesHead`): the clock (`Midnight`), beat
(`RecomputeAllRiskScores`), the attempts of queued alert tasks, however each
ends (`Attempt`), and each worker go on, the cool-down runs out (`CooldownEnds`,
strong, since a worker at its check holds it up), and PostgreSQL grants a
contended advisory lock in the end (strong). Mail (`DeadGrantIsNoticed`): a
cached token expires, a request takes its next step, and the interval job scans
while no token is cached. Tenancy (`SocketsFollowMembership`): each socket's
re-check timer fires. Nothing is assumed of users, arrivals, failures,
reconnection or pruning of history; where such a thing ends the obligation the
property says so, because the code does.

**Why some properties are for one actor only.** They are false otherwise, and the
code shows it. `ApprovedTextClearedEveryGate` and `FiledStaysApproved` fail with
two overlapping requests, `NoStrayJobs` with two request slots.
`AnchorWaitsForWork` fails when two scans overlap, because the one that listed
later may finish first.

## 4. What the code does otherwise

Met while modelling. The models do what the code does; where a property would be
false for one of these reasons, its exception names it.

**Responses and alerts.**
- The compare-and-set of `apply_approval` (`response_service.py:357`) compares
  the loaded status with itself: two overlapping decisions are both recorded at
  one gate, and the later commit sets the status its stale value leads to. The
  segregation of duties survives, which is proved (section 5).
- With overlapping requests a stale decision or withdrawal can move a response
  away from approved after its notice was filed, which the docstring of
  `is_response_approved` excludes (give `ResponseWorkflow_serial.cfg` the
  sessions `{s1, s2}`). `rollback_to_version` advises to "revert to draft via
  withdraw first", and `withdraw` is terminal.
- The alert log does not know the deadline (`alert_service.py:152`), so the
  overdue alert of a moved deadline is skipped as already sent. A deadline
  accepted from an extraction schedules nothing. The tails of two overlapping
  edits can leave the jobs of the replaced deadline.
- The supervisor branch of `withdraw_response` admits a compliance head whom the
  route's permission has refused already; `notice_state_machine.py` speaks of
  dismissing from anywhere and its table allows it from two states.

**Mail.**
- A message logged by a scan that died, or whose notice could not be made, is
  skipped by every later scan (`scanner_task.py:246`). Uncertain regulatory mail
  is dropped by its route before the branch that makes its review-queue notice.
  A message deleted after it was listed fails every later scan at the same place,
  and what the history lists behind it waits until the history is pruned
  (`StuckBehindDeleted`, the exception of `ListedIsIngested`).
  A message that arrives between the listing of a mailbox and `getProfile` is
  behind the anchor and never listed; only the first page of a history is read.
- `alert_service.py:208` says the vault "enforces status=REVOKED once-only flip";
  `handle_invalid_grant` does not look at the status, so an outage reported as a
  `RefreshError`, or the late refusal of an older grant, revokes a good one.
- A reconnection between that commit and its `remove_job` is active without a
  job; so is one whose process dies before scheduling. `update_credential` adds
  the job of a disabled or revoked credential. The cached token and the last
  history id survive a reconnection with another account.
- `bill_reminder_task.py:87` says a reminder is only counted when its dispatch
  succeeded; `dispatch_non_notice_alert` swallows the senders' failures. A process
  that dies between the mails and the commit of the count, or a commit refused
  there, leaves a fourth reminder possible (`uncounted`), and so do two schedulers
  that fire one bill's reminders together (`stale`). The
  scan that loses `ux_bills_recurrence_key` loses its bill. A payment whose audit
  row fails keeps its jobs. A body that cannot be stored poisons the session the
  scan goes on with (`ingestion_service.py:118`).

**Reading and reviewing.**
- A document task that ends before the notice stage (no file or text, a refused
  engine, the soft limit, the last retry: `document_tasks.py:244-318`), or is
  killed in it by the hard limit, leaves the notice *pending* for good
  (`unread`, the exception of `QueuedIsConcluded`).
- A failing extraction writes `failed` over `accepted` without a second look
  (`document_tasks.py:134`); the acceptance's audit rows precede its commit. In a
  client without a key the upload parks what the patterns found, and the task then
  marks it failed.
- `assign_reviewer_label` commits *reviewed* over a prediction that came after
  what the reviewer saw. A label that gives only the authority leaves the type of
  another one, and the nightly heuristic puts such a notice back.
- A closed notice that is already queued is still scored and escalated. Alerts
  of a second escalation are never sent, and the row of a refused broker call
  blocks the head's later mail, since `dispatch_alert` takes both for sent. A
  failing audit row after the commit of `escalate` loses the alert for a
  cooldown, and so does an alert task that is killed or uses up its retries
  (`alert_tasks.py:89-94`), which leaves no row either (`cut`, the exception of
  `EscalationLeavesRow`); what is lost is made up for by the escalation after
  the next cooldown, which `CriticalReachesHead` promises without exception.
- A stale scoring can overwrite a tier when a night comes between. Without a
  critical section no notice can reach critical (83.75 points at most).
- `assign_notice` logs its activity after the commit and never commits it; its
  docstring asks for an active membership, its code for any.

**Documents.**
- A task that finishes after a new version was uploaded writes the text of the
  old file and COMPLETED onto the new version. A final failure removes the row's
  current file, which versions may refer to. A rollback can restore *pending*
  with no task; a hard time limit leaves *processing*; the soft one is swallowed
  by `except Exception`.
- A refused first upload, attachment or mail body leaves its file, and so does a
  process that dies between `save_file` and the commit (`documents.py:148-221`,
  `ingestion_service.py:182-206`) or an import whose commit fails there;
  `delete` removes files before the commit that may be refused, and one that
  overlaps a new version leaves that version's file. Imports only log that the
  broker refused their task. A task whose id could not be committed runs
  although its document was set to *failed*. A crash between commit and `delay`
  leaves *pending*. Recurring mails of one subject collide on the unique file
  name.

**Accounts.**
- Two concurrent demotions can leave no admin ("Cannot remove the last admin",
  `admin.py:153`; `crossed`). A rotation or a sign-in that overlaps a sweep leaves
  a live token (`auth.py:703`; `late`); no other request does, which is proved.
  A reset token is used up by a timestamp of whole seconds,
  without a lock. Of two acceptances of an invitation the later password wins.
  Failed attempts that overlap count once.
- A deletion frees the address and not its early-access request: the invitation
  page then shows a spent invitation as valid (`early_access.py:127-136`), which
  `register` refuses, and no new request can be made (`InvitationBuysOneAccount`).

**Tenancy.**
- A committed change has no audit row when the `db.refresh` before
  `log_audit_event` raises (`memberships.py:126`, `clients.py:298`, `376`, `415`):
  the row was removed again, the caller's access ended, or no connection came free
  (`unread`, an exception of `ChangesAreAudited`); nothing has to fail for it.
- Context variables of a task stay on its worker process, unless a copy is used. A
  document task that does not find its notice goes on in cross mode.
- `remove_member` of a member who is visible only to himself deletes nothing and
  answers 204 with an audit row; it removes the last compliance head. The policies
  look at the end of an access window, the application also at its start. The
  lookups of scheduler, bill and scan tasks in the cross-client view find nothing
  under the policies, for want of a user. Without `DB_ENFORCE_RLS` the dashboard,
  the search and two more reads are filtered by nothing.

## 5. The proofs

Eight modules. Each shows `Init => IInv`, `IInv /\ [Next]_vars => IInv'` with one
step per action, and derives its theorems; the temporal step combines the three.
The assumptions are those the modules state of their constants (roles are roles of
the registry, bounds are numbers, markers are not members of the sets they
mark), and whatever a theorem states itself.

`ResponseWorkflowProofs` proves, for every set of users, every assignment of
roles, any number of request slots and any bounds, that each invariant of
`response_overlap` holds: `TypeCorrect`, `MakerIsNeverChecker`, `OneActEach` and
`FiledIsVouched`, all from `Invariance`.

None of the three safety properties is inductive. A decision commits on a version
number and a status that were loaded earlier, so the invariant `IInv` has to
speak about the requests in progress:

- `Shape`: the rows agree (no version or decision without a response, no decision
  on a version that does not exist), and a request that acts on the response was
  begun when there was one, a decision when it was pending;
- `GatesBehind`: a status is evidence. A response at the legal gate has a recorded
  approval of the reviewer, one at the CFO's gate of both, an approved one of all
  three, and the same holds of the status *loaded* into a session. This is why a
  stale decision cannot skip a gate: decisions are never deleted, so what a loaded
  status was evidence of stays true (`PassedStable`), and one more approval makes
  the next status evidence (`BehindAfter`);
- `MakerNeverChecks` and `OneActPerVersion` are preserved by a decision because
  its queries run against the tables of that moment, and by an edit because a new
  version has a number no decision refers to.

Its second part assumes `OneAtATime` (any two request slots are the same), which
the code does not enforce and `response_serial` instantiates, and proves the
properties of that run from `SerialInv`. `Fresh` says that what a request loaded
is still so when it commits; then `ClearedBehind` can speak of the current
version where `GatesBehind` speaks of some version, and `FiledStaysApproved` is
inductive beside them. `SerialSteps` reduces every step to one of seven changes
of the rows (`Created`, `Revised`, `Submitted`, `Withdrawn`, `Judged`, `Moved`,
none), and each of the seven is a step of `ApprovalChain` or a stutter under the
refinement mapping: `WorkflowIsAChain`. Section 4 says what fails when requests
overlap.

`DeadlineAlertsProofs` proves `AlertsTypeCorrect` and `AlertLeavesOnce`
(`SentOnce`) for any number of requests, processes and deadlines and any of the
alert types, from `AlertInvariance`. `SentOnce` alone is not inductive, since a
second dispatch may be about to send. `OneRow` adds what the unique key of
`notice_alert_log` gives: the uncommitted row of an alert is held by one dispatch
and by none once it is committed, and when no sender holds it and none is
committed, whatever left before was sent by a dispatcher that died. The type
invariant is part of the argument: an alert that is dispatched is one of the
alerts, which goes back to the jobs `Planned` puts in the store (`PlannedTyped`).

With `OneAtATime` it also proves the three properties of `alerts_serial`, for any
calendar and any number of schedulers. `OpenIsWatched` is inductive beside
`TailsTell` (a pending tail knows the deadline of the row) and `JobsBelong` (a job
no tail will cancel is due or of this deadline), from which `NoStrayJobs` follows.
`Reporting` carries the overdue alert from hand to hand: a job, then a dispatch,
then a row of the log; the tick that makes a notice overdue finds the job because
the notice was watched the day before (`OverdueDays`).

`AccountSessionsProofs` has one invariant per concern, each on top of the types.
`SessionInv`: of the tokens of a sign-in at most one is alive, because the
rotation of one holds its row until its successor is there. `CodeInv`: a code in
a request or a token is burnt and is in one of them. `GateInv`: one registration
at a time, its invitation unspent until it commits; an address whose invitation
is spent has had its account, and no more than one of its rows was registered by
it. `QuietInv`: a sweep has seen all there is to sweep but what is late, and
whoever signs in is active and needs no second factor, unless overtaken; the
sweep that commits turns the first into `InactiveHoldsNoSession` and
`PasswordAloneIsNotEnough`. `AdminInv`: until two of them cross, whoever takes
an admin away leaves another, so the system is empty once. No theorem here
assumes anything about which requests overlap.

`TenancyProofs`: what the listener believes to be set is set, a connection that is
not dirty has nothing set, and one in the pool is as new (`PoolInv`). This is why
the shortcut of the listener is right: the cache lives no longer than the
transaction whose statements it speaks of. From it follow `StatementsInOwnContext`
and, with the gates of the handlers, `RequestsStayInTenant`; `AuditInv` counts
changes against the workers about to write their rows and the re-reads that
raised. The pools may have any size and any number of things may fail.

`NoticeReviewProofs`: `StaleKnow` says of every operation in progress that if
what it read is out of date in a way that matters to what it will write, it has
been overtaken by the write that made it so. The three action properties follow
for any authorities, envelopes and number of requests.

`NoticeEscalationProofs`: who has passed the check of the cooldown holds the
lock (`LockedCheck`), an escalation not yet told is in the hands of a worker or
of an alert task with its retries, or was cut short (`EscalationLeavesRow`), and
no tier stored or about to be stored exceeds that of today (`NoTierAhead`),
which needs the score to be monotone in the days left, whatever the profile.

`MailProofs`: `ConnectionInv` adds to `ActiveIsPolled` that whoever was refused
without an outage holds a grant that is gone; no consent brings one back.
`BillsInv` says that a scan about to hang a bill on a parent holds the head of
the series, that of a bill no two schedulers had in hand as many reminders were
sent as are counted, lost or in hand (`CountedRight`), and that who reminds of a
paid bill had begun before; from these `RemindersAreDue` follows for any number
of bills and schedulers. `OneHeadPerSeries` is proved without a run.

The second part of `MailProofs` is about `GmailScan`, which shares with the
connection only the scan it stands for. `ScanOwnsItsKey` (`FreshScanHoldsLock`)
and `NoSecondRecord` (`OneRecordPerMessage`) hold for any number of scanners and
messages and any page size, from `ScanInvariance`. `RowBeforeRecord` says why
overlapping scans do no harm: a message in hand has its log row and not yet its
record, and is in one hand only, because a second scanner finds the row and skips
it. `AnchorWaits` (`AnchorWaitsForWork`) needs to know more: what a listing
returns (`ListingsTyped`), and that a scan goes on from the anchor and has every
listed message up to the id it will leave there logged, deleted or still in hand
(`WorkInHand`). It assumes one scanner, as its run does, and that one page holds
a listing: of a longer one the code reads the newest page only, and a message
that a failed scan had listed can be off it when the next scan moves the anchor.

`DocumentsProofs` holds for any users, any number of requests, documents, files,
versions and tasks, and any faults. `DocsChange` and its companions reduce every
step to what it does to the rows, the disk and the slots; `DocInv` has a part for
each thing that outlives its reading. `UploadsHold`: what an upload holds
`FOR UPDATE` stays live and its owner's. `RollbacksKnow`: the row a rollback has
loaded is a past of the row; `uq_document_version` refuses its commit unless it
is the present, as far as versions and files go (`RollbackIsCurrent`).
`RunsOwnFile`: a task reads a file of its document. From it
follow `HistoryHasNoGap` (`HistoryIsComplete`: each number below the current one
is taken once), `OneLivePerName`, `TextsFromOwnFiles` and `ListsRespectAccess`.
`UnsettledIsAttended` (`UnsettledHasTask`) follows a document from the commit
through its dispatch to its task. For `NoFileIsLeaked` (`NoFileLeaks`) it is
enough to know that the files a deletion has loaded are gone for good
(`DiscardedAreGone`): what its commit leaves without a row came since, and is
recorded, like what a process leaves that dies with a file saved.

`DocumentsKeepHistory` is the refinement of `VersionHistory`. A row as a
sequence of files is only sound when no number is taken twice, and a new file is
only new when nobody else has it: `HistInv` adds that (`VersionsReal`,
`OneDocumentPerFile`, `UploadsFresh`). `HistoryChange` then leaves five kinds of
step: nothing the histories see, a row opened, a row extended by a new file, by
one of its own, and rows dropped, which are a stutter and the four actions.

The type invariants of `DeadlineAlerts`, `AccountSessions`, `Tenancy`,
`NoticeReview`, `NoticeEscalation`, `Documents` and `Mail` are proved, which is
why no run repeats them.

**Only model-checked**: the five liveness properties (`ListedIsIngested`,
`QueuedIsConcluded`, `CriticalReachesHead`, `DeadGrantIsNoticed`,
`SocketsFollowMembership`), since liveness under fairness and ENABLED are beyond
this prover. Every other property of the runs is proved, some for one actor as
their runs have them (above).

## 6. Not modelled, and why

`PROJECT.json` lists every component with its status. Left out for good: the user
interface, text processing and machine learning, calls to language models, the
contents of reports and searches, configuration. Evidence rows and the
working-day calendar carry no state that another operation races for: the first
are rows linked to a response and removed again, the second a function of a date
and a table. In the modelled parts: the texts of a response, other notices (each
module models what the tenant filter leaves), T-7 and T-3 in the runs though the
module has them, paging of the history listing, which the module has and the
runs do not exercise, rate limits, password hashes, the one-time Drive handle, a
Redis that fails.

## 7. What is left

1. Composition of `NoticeReview` with `DeadlineAlerts` through the deadline an
   acceptance writes, and of `MailConnection` with `GmailScan` through the token.
2. `WorkingDays`: `adjust_deadline` as a function against a reference definition.
