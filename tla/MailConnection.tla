--------------------------- MODULE MailConnection ---------------------------
(***************************************************************************)
(* One user's connection of a Gmail account to one client: the credential  *)
(* (credential_vault.py, routers/oauth.py and credentials.py), its scan    *)
(* job, the access token cache and the users of the token, which are the   *)
(* scans and the MCP tools.                                                *)
(*                                                                         *)
(* Every consent at Google makes a new grant, perhaps of another account.  *)
(* The access token cached under the credential's id belongs to a grant.   *)
(* A request or a scan that is between two of its commits holds a slot.    *)
(*                                                                         *)
(* Left out: what a scan reads (GmailScan); the permission checks, those   *)
(* of PermissionRegistry; the filter rules, which are plain rows; the      *)
(* per-credential scan lock, which an expiry can break.                    *)
(***************************************************************************)
EXTENDS Naturals, FiniteSets

CONSTANTS Users,     \* requests, scans and tool calls that may be in progress
          MaxGrants, \* bound: consents given at Google
          MaxFaults  \* bound: crashes and outages

ASSUME ConnectionAssumption == {MaxGrants, MaxFaults} \subseteq Nat

VARIABLES
  cred,    \* the gmail_credentials row: status and grant, 0 before the first
  job,     \* is gmail_scan_<id> in the job store?
  cache,   \* the grant of the cached access token, 0 without one
  live,    \* grants Google still honours
  user,    \* operations in progress
  lost,    \* history: why an active connection may have no job
  faults   \* bound: faults so far

connectionVars == << cred, job, cache, live, user, lost, faults >>

Away   == [at |-> "away", grant |-> 0, token |-> 0]

ConnectionInit ==
  /\ cred = [status |-> "none", grant |-> 0]
  /\ job = FALSE
  /\ cache = 0
  /\ live = {}
  /\ user = [u \in Users |-> Away]
  /\ lost = "no"
  /\ faults = 0

-----------------------------------------------------------------------------
Idle(u) == user[u].at = "away"
At(u, stage) == user[u].at = stage

Begin(u, stage, grant, token) ==
  user' = [user EXCEPT ![u] = [at |-> stage, grant |-> grant, token |-> token]]
To(u, stage) == user' = [user EXCEPT ![u].at = stage]
Leave(u)     == user' = [user EXCEPT ![u] = Away]

\* One of the faults this instance allows.
Fault == faults < MaxFaults /\ faults' = faults + 1

(***************************************************************************)
(* People.                                                                 *)
(***************************************************************************)
\* The callback after a consent: save_credential and its commit.  A new grant
\* makes the row active whatever it was.  (When the row was loaded active its
\* UPDATE leaves the status alone, and a revocation committed in between stays:
\* the two write different columns, as HandleInvalidGrant after Connect does.)
Connect(u) ==
  /\ Idle(u) /\ cred.grant < MaxGrants
  /\ LET g == cred.grant + 1 IN
     /\ cred' = [status |-> "active", grant |-> g]
     /\ live' = live \cup {g}
     /\ Begin(u, "schedule", g, 0)
  /\ UNCHANGED << job, cache, lost, faults >>

\* A changed cadence is committed, whatever the status.
UpdateCredential(u) ==
  /\ Idle(u) /\ cred.status # "none"
  /\ Begin(u, "schedule", cred.grant, 0)
  /\ UNCHANGED << cred, job, cache, live, lost, faults >>

\* Seeded fault: a job is only added for the first grant.
FirstTimeOnly(u) == job \/ user[u].grant = 1

Added(u) == TRUE

\* schedule_gmail_scan, replacing the job there may be.
ScheduleGmailScan(u) ==
  /\ At(u, "schedule")
  /\ job' = Added(u)
  /\ lost' = IF job' THEN "no" ELSE lost
  /\ Leave(u)
  /\ UNCHANGED << cred, cache, live, faults >>

\* delete_credential keeps the row, commits and then removes the job.
DeleteCredential(u) ==
  /\ Idle(u) /\ cred.status # "none"
  /\ cred' = [cred EXCEPT !.status = "disabled"]
  /\ Begin(u, "remove", cred.grant, 0)
  /\ UNCHANGED << job, cache, live, lost, faults >>

\* The user withdraws the consent in the Google account.
RevokeAtGoogle ==
  /\ \E g \in live : live' = live \ {g}
  /\ UNCHANGED << cred, job, cache, user, lost, faults >>

(***************************************************************************)
(* Scans and tools.                                                        *)
(***************************************************************************)
\* get_or_refresh_access_token.  The cached token is taken as it is; the
\* caller has seen the status before.
GetAccessToken(u) ==
  /\ Idle(u) /\ cred.status = "active"
  /\ Begin(u, IF cache = 0 THEN "refresh" ELSE "call", cred.grant, cache)
  /\ UNCHANGED << cred, job, cache, live, lost, faults >>

\* The job fires run_scan.
RunScan(u) == job /\ GetAccessToken(u)

\* Google answers the refresh.
Refreshed(u) ==
  /\ At(u, "refresh")
  /\ IF user[u].grant \in live
     THEN /\ cache' = user[u].grant
          /\ Begin(u, "call", user[u].grant, user[u].grant)
     ELSE To(u, "refused") /\ UNCHANGED cache
  /\ UNCHANGED << cred, job, live, lost, faults >>

\* A RefreshError of an outage, or a 401 or 403 that is not the grant's
\* fault: it counts as an invalid grant.
Outage(u) ==
  /\ user[u].at \in {"refresh", "call"} /\ Fault
  /\ To(u, "unanswered")
  /\ UNCHANGED << cred, job, cache, live, lost >>

\* Seeded fault: any failed call is taken for a revoked grant.
AnyFailure(u) == user[u].token \notin live

\* A dead token is refreshed by the client itself, and when that fails the
\* error is none that handle_invalid_grant is called for.
Condemned(u) == FALSE

\* The calls of Gmail, and the commit at the end of a scan.
CallGmail(u) ==
  /\ At(u, "call")
  /\ IF Condemned(u) THEN To(u, "refused") ELSE Leave(u)
  /\ UNCHANGED << cred, job, cache, live, lost, faults >>

Revoked == [cred EXCEPT !.status = "revoked"]

\* handle_invalid_grant: the status is set whatever it is by now ...
HandleInvalidGrant(u) ==
  /\ user[u].at \in {"refused", "unanswered"}
  /\ cred' = Revoked
  /\ To(u, "remove")
  /\ UNCHANGED << job, cache, live, lost, faults >>

\* ... and the job is removed after the commit.
RemoveJob(u) ==
  /\ At(u, "remove")
  /\ job' = FALSE
  /\ lost' = IF cred.status = "active" THEN "overtaken" ELSE lost
  /\ Leave(u)
  /\ UNCHANGED << cred, cache, live, faults >>

\* Seeded fault: the token is cached without a time to live.
Everlasting == cache

Expired == 0

\* setex with a time to live of at most an hour.
CacheExpires ==
  /\ cache # 0 /\ cache' = Expired
  /\ UNCHANGED << cred, job, live, user, lost, faults >>

\* The process dies, or the scheduler refuses after the commit.
Dies(u) ==
  /\ ~Idle(u) /\ Fault
  /\ lost' = IF At(u, "schedule") /\ ~job THEN "crash" ELSE lost
  /\ Leave(u)
  /\ UNCHANGED << cred, job, cache, live >>

-----------------------------------------------------------------------------
Work(u) ==
  \/ ScheduleGmailScan(u) \/ RemoveJob(u) \/ HandleInvalidGrant(u)
  \/ Refreshed(u) \/ CallGmail(u)

ConnectionNext ==
  \/ RevokeAtGoogle \/ CacheExpires
  \/ \E u \in Users :
       \/ Connect(u) \/ UpdateCredential(u) \/ DeleteCredential(u)
       \/ GetAccessToken(u) \/ Outage(u) \/ Dies(u) \/ Work(u)

(***************************************************************************)
(* A cached token expires, what was begun ends, and the job keeps firing   *)
(* as long as a thread is found for it again and again.                    *)
(***************************************************************************)
ConnectionFairness ==
  /\ WF_connectionVars(CacheExpires)
  /\ \A u \in Users : WF_connectionVars(Work(u))
  /\ SF_connectionVars(cache = 0 /\ \E u \in Users : RunScan(u))

-----------------------------------------------------------------------------
(***************************************************************************)
(* Properties.                                                             *)
(***************************************************************************)
\* The row, the cache and the operations keep their types; what is live, cached
\* or in use belongs to a grant given up to now.
ConnectionTypeOK ==
  /\ cred \in [status : {"none", "active", "revoked", "disabled"}, grant : Nat]
  /\ job \in BOOLEAN /\ cache \in Nat /\ live \subseteq Nat
  /\ user \in [Users -> [at : {"away", "schedule", "remove", "refresh", "call", "refused",
                               "unanswered"},
                         grant : Nat, token : Nat]]
  /\ lost \in {"no", "crash", "overtaken"} /\ faults \in 0..MaxFaults
  /\ \A g \in live : g <= cred.grant
  /\ cache <= cred.grant /\ cred.grant <= MaxGrants
  /\ \A u \in Users : user[u].grant <= cred.grant /\ user[u].token <= cred.grant

\* An active connection is scanned: it has a job or is about to get one,
\* unless a crash came between the commit and the scheduler, or a removal
\* that began before the connection was made again.
ActiveIsPolled ==
  cred.status = "active" /\ ~job =>
    lost # "no" \/ \E u \in Users : user[u].at = "schedule"

\* A connection Google still honours is only revoked for a grant it has
\* replaced in the meantime or in an outage.
RevokedForCause ==
  [][cred'.status = "revoked" /\ cred.status # "revoked" /\ cred.grant \in live =>
       \E u \in Users :
         /\ user'[u] # user[u]
         /\ At(u, "unanswered") \/ (At(u, "refused") /\ user[u].grant # cred.grant)]_connectionVars

\* A consent withdrawn at Google is noticed as long as the job is there.
DeadGrantIsNoticed ==
  (cred.status = "active" /\ cred.grant \notin live)
    ~> (cred.status # "active" \/ cred.grant \in live \/ ~job)
=============================================================================
