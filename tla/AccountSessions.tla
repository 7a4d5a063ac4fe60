-------------------------- MODULE AccountSessions ---------------------------
(***************************************************************************)
(* User accounts and their refresh tokens: routers/auth.py, the account    *)
(* half of routers/admin.py, routers/early_access.py and the services they *)
(* call (lockout, MFA, password reset, tenant invitations, OAuth).         *)
(*                                                                         *)
(* A request that takes two database transactions, or reads a row and      *)
(* writes it later, is two actions joined by a request slot: sign-in reads *)
(* the user and inserts the token pair in a commit of its own, refresh     *)
(* keeps the row lock of its SELECT ... FOR UPDATE until it commits, and   *)
(* the bulk UPDATE that revokes an account's tokens sees the tokens        *)
(* committed when it started, waits for the locked ones and skips those    *)
(* that were revoked meanwhile (READ COMMITTED).                           *)
(*                                                                         *)
(* An account stands for one users row.  Rows may have one address, which  *)
(* a deletion frees for the next; the early-access request of an address   *)
(* outlives them.  Local accounts sign in with a password, the others      *)
(* through Google or Microsoft.  Left out: access tokens, which are        *)
(* checked against the account on every request (get_current_user),        *)
(* password hashes, names, mail texts and rate limits.                     *)
(***************************************************************************)
EXTENDS Naturals, Sequences, FiniteSets

CONSTANTS Accounts,      \* users rows
          Local,         \* those of auth_provider "local"
          EmailOf,       \* the address each of them has until it is deleted
          NoAccount,
          TenantAsserted,\* MICROSOFT_TENANT_ID names one organisation
          Invitees,      \* accounts an admin invites to a client's team
          Slots,         \* requests in progress
          Together,      \* bound: the pairs of kinds of request an instance
                         \* overlaps, {kind} for two of a kind
          MaxTokens,     \* bound: refresh tokens issued
          MaxSignIns,    \* bound: those of them a sign-in issued
          MaxCodes       \* bound: one-time codes issued

ASSUME AccountsAssumption ==
  Local \subseteq Accounts /\ NoAccount \notin Accounts /\ DOMAIN EmailOf = Accounts
ASSUME TokensAssumption   == MaxTokens \in Nat /\ MaxCodes \in Nat

VARIABLES
  state,     \* users: life cycle
  role,      \* users: role
  password,  \* users with a password hash
  mfa,       \* users with totp_enabled
  invited,   \* users a tenant invitation was mailed to
  locked,    \* users whose locked_until lies ahead
  access,    \* early_access_requests: the latest of each address
  tokens,    \* refresh_tokens in the order of their ids
  live,      \* ids of those not revoked
  codes,     \* one-time codes: MFA challenges and OAuth exchange codes
  used,      \* numbers of those whose jti has been burnt
  slot,      \* the requests in progress
  overtaken, \* history: those that overlapped a sweep of their account
  bootstrap, \* history: accounts made admin because nobody was active
  crossed    \* history: requests that take an admin away have overlapped

users    == << state, role, password, mfa, invited >>
issued   == << tokens, live, codes, used >>
requests == << slot, overtaken, crossed >>
vars     == << users, locked, access, issued, requests, bootstrap >>

\* A request: what it does, for whom, the token or code it is about, what it
\* will write, and the tokens its sweep has seen.
Request(op, a, row, word, seen) ==
  [op |-> op, who |-> a, row |-> row, word |-> word, seen |-> seen]

Free == Request("free", NoAccount, 0, "", {})

\* What each operation may be about to write.
Ops == {"register", "signin", "rotate", "role", "sweep"}

Words(op) ==
  CASE op = "signin" -> {"password", "other"}
    [] op = "rotate" -> {""}
    [] op = "sweep"  -> {"off", "deleted", "mfa_on", "mfa_off", "reset", "reuse"}
    [] OTHER         -> {"admin", "editor"}

Requests == UNION {[op : {op}, who : Accounts, row : Nat, word : Words(op),
                    seen : SUBSET Nat] : op \in Ops}

Emails == {EmailOf[a] : a \in Accounts}

\* No users row has the address: the deletion of one overwrites its own.
FreeAddress(e) ==
  \A a \in Accounts : EmailOf[a] = e => state[a] \in {"absent", "deleted"}

\* The row can be inserted.
CanAppear(a) == state[a] = "absent" /\ FreeAddress(EmailOf[a])

Active(a)  == state[a] = "active"

\* get_current_user: an access token is worth the account behind it.
SignedIn(a) == Active(a)

\* The rows GET /admin/users lists and the account routes of the admin find.
ListUsers == {a \in Accounts : state[a] \notin {"absent", "deleted"}}

\* The count behind the three last-admin guards.
Admins == {a \in Accounts : Active(a) /\ role[a] = "admin"}

LiveTokens(a) == {t \in live : tokens[t].owner = a}

Init ==
  /\ state = [a \in Accounts |-> "absent"]
  /\ role = [a \in Accounts |-> "editor"]
  /\ password = {} /\ mfa = {} /\ invited = {} /\ locked = {}
  /\ access = [e \in Emails |-> "none"]
  /\ tokens = << >> /\ live = {}
  /\ codes = << >> /\ used = {}
  /\ slot = [s \in Slots |-> Free] /\ overtaken = {}
  /\ bootstrap = {} /\ crossed = FALSE

-----------------------------------------------------------------------------
(***************************************************************************)
(* Requests.                                                               *)
(***************************************************************************)
\* The request is going to take an admin away, if that is one.
Takes(r) ==
  \/ r.op = "role" /\ r.word # "admin"
  \/ r.op = "sweep" /\ r.word \in {"off", "deleted"}

\* The request ends with a new token.
Issues(r) == r.op \in {"register", "signin", "rotate"} \/ r.word = "reset"

\* A sweep goes by what it is for.
Kind(r) == IF r.op = "sweep" THEN r.word ELSE r.op

\* The request enters a free slot.  One that will issue a token and meets a
\* sweep of its own account is overtaken, whichever came first.
Admit(s, req) ==
  /\ slot[s] = Free
  /\ \A r \in Slots : slot[r] # Free => {Kind(slot[r]), Kind(req)} \in Together
  /\ slot' = [slot EXCEPT ![s] = req]
  /\ LET meets(r) == slot[r].who = req.who /\ "sweep" \in {slot[r].op, req.op} IN
     overtaken' = overtaken \cup {r \in Slots : meets(r) /\ Issues(slot[r])}
                            \cup {r \in {s} : Issues(req) /\ \E q \in Slots : meets(q)}
  /\ crossed' = \/ crossed
                \/ /\ Takes(req)
                   /\ \E r \in Slots : Takes(slot[r]) /\ slot[r].who # req.who

Start(s, op, a, row, word) == Admit(s, Request(op, a, row, word, {}))

Running(s, op) == slot[s].op = op

\* The request goes on to sign the user in.
SignInNext(s) ==
  /\ slot' = [slot EXCEPT ![s] = Request("signin", slot[s].who, 0, "other", {})]
  /\ UNCHANGED << overtaken, crossed >>

Finish(s) ==
  /\ slot' = [slot EXCEPT ![s] = Free]
  /\ overtaken' = overtaken \ {s}
  /\ UNCHANGED crossed

\* Rows another transaction holds FOR UPDATE.
Locked(s) == {slot[r].row : r \in {q \in Slots \ {s} : slot[q].op = "rotate"}}

\* Seeded fault: the row is read without FOR UPDATE.
ReadUnlocked(s, t) == t \in DOMAIN tokens

LockToken(s, t) == t \in DOMAIN tokens /\ t \notin Locked(s)

-----------------------------------------------------------------------------
(***************************************************************************)
(* Getting an account.                                                     *)
(***************************************************************************)
\* A rejected request blocks no new one and counts as none, an approved one
\* stays in the way for good.  A provider's account needs no invitation.
SubmitEarlyAccess(e) ==
  /\ \E a \in Local : EmailOf[a] = e
  /\ access[e] = "none" /\ FreeAddress(e)
  /\ access' = [access EXCEPT ![e] = "pending"]
  /\ UNCHANGED << users, locked, issued, requests, bootstrap >>

\* An approval stores the invitation token mailed with it.
ReviewEarlyAccess(e, approve) ==
  /\ Admins # {}
  /\ access[e] = "pending"
  /\ access' = [access EXCEPT ![e] = IF approve THEN "approved" ELSE "none"]
  /\ UNCHANGED << users, locked, issued, requests, bootstrap >>

\* The invitation page: the row is approved and nobody has the address.  It
\* reads no invitation_token, so a spent invitation still shows as valid.
ValidateInvitation(e) == access[e] \in {"approved", "consumed"} /\ FreeAddress(e)

\* Seeded fault: the decision is taken without the advisory lock.
NoRoleLock(s) == TRUE

\* pg_advisory_xact_lock, held until the registration's transaction ends.
RoleLock(s) == \A r \in Slots \ {s} : ~Running(r, "register")

SafeRole == IF \E a \in Accounts : Active(a) THEN "editor" ELSE "admin"

\* Seeded fault: the status of the row decides, as on the invitation page.
InvitationApproved(e) == access[e] \in {"approved", "consumed"}

\* _consume_invitation: approved and not spent.
InvitationUsable(e) == access[e] = "approved"

\* register and the account-creating branch of the OAuth callbacks: the role
\* is decided under the lock; only the password form asks for an invitation.
BeginRegister(s, a) ==
  /\ CanAppear(a)
  /\ RoleLock(s)
  /\ a \in Local /\ SafeRole = "editor" => InvitationUsable(EmailOf[a])
  /\ Start(s, "register", a, 0, SafeRole)
  /\ UNCHANGED << users, locked, access, issued, bootstrap >>

\* The insert and the spent invitation commit together; a provider's callback
\* then mints its code (OAuthCallback).
CommitRegister(s) ==
  /\ Running(s, "register")
  /\ LET a == slot[s].who  given == slot[s].word  e == EmailOf[a] IN
     /\ CanAppear(a)
     /\ state' = [state EXCEPT ![a] = "active"]
     /\ role' = [role EXCEPT ![a] = given]
     /\ password' = IF a \in Local THEN password \cup {a} ELSE password
     /\ access' = IF a \in Local /\ given = "editor" /\ access[e] = "approved"
                  THEN [access EXCEPT ![e] = "consumed"] ELSE access
     /\ bootstrap' = IF given = "admin" THEN bootstrap \cup {a} ELSE bootstrap
  /\ IF slot[s].who \in Local THEN SignInNext(s) ELSE Finish(s)
  /\ UNCHANGED << mfa, invited, locked, issued >>

\* The address was taken meanwhile: IntegrityError, all rolled back.  (Left out:
\* a provider's callback then signs in to the row that took it.)
RegisterConflict(s) ==
  /\ Running(s, "register")
  /\ ~CanAppear(slot[s].who)
  /\ Finish(s)
  /\ UNCHANGED << users, locked, access, issued, bootstrap >>

\* resolve_or_invite on an address: a pending local user is created, or the
\* mail is sent again to one that never accepted.
InviteMember(a) ==
  /\ Admins # {}
  /\ a \in Invitees
  /\ \/ a \in Local /\ CanAppear(a)
     \/ state[a] = "off" /\ a \notin password
  /\ state' = [state EXCEPT ![a] = "off"]
  /\ invited' = invited \cup {a}
  /\ UNCHANGED << role, password, mfa, locked, access, issued, requests, bootstrap >>

\* accept_invite: the link works until the account is active with a password,
\* so it also switches one on again that was switched off after it accepted.
InviteOpen(a) ==
  /\ a \in invited /\ state[a] \in {"off", "active"}
  /\ ~(Active(a) /\ a \in password)

AcceptInvite(s, a) ==
  /\ InviteOpen(a)
  /\ Start(s, "signin", a, 0, "other")
  /\ state' = [state EXCEPT ![a] = "active"]
  /\ password' = password \cup {a}
  /\ UNCHANGED << role, mfa, invited, locked, access, issued, bootstrap >>

-----------------------------------------------------------------------------
(***************************************************************************)
(* Signing in.                                                             *)
(***************************************************************************)
\* register_failure counts up to MAX_FAILED_LOGINS and then sets locked_until;
\* of the count only that moment is kept, and it may come with any failure.
RegisterFailure(a) == \/ locked' = locked \cup {a}
                      \/ UNCHANGED locked

LockExpires(a) ==
  /\ a \in locked
  /\ locked' = locked \ {a}
  /\ UNCHANGED << users, access, issued, requests, bootstrap >>

\* A one-time code is minted; its jti has not been burnt.
Mint(a, kind) ==
  /\ Len(codes) < MaxCodes
  /\ codes' = Append(codes, [owner |-> a, kind |-> kind])

CanLogin(a) == a \in Local /\ Active(a) /\ a \notin locked

\* Wrong password: the counter of the row as it was loaded, plus one.
LoginFails(a) ==
  /\ CanLogin(a)
  /\ RegisterFailure(a)
  /\ UNCHANGED << users, access, issued, requests, bootstrap >>

\* Right password, no second factor: the counter is cleared in one commit and
\* the token pair inserted in the next.
Login(s, a) ==
  /\ CanLogin(a) /\ a \in password /\ a \notin mfa
  /\ Start(s, "signin", a, 0, "password")
  /\ locked' = locked \ {a}
  /\ UNCHANGED << users, access, issued, bootstrap >>

\* Right password, second factor on: a challenge, and the counter stays.
LoginChallenge(a) ==
  /\ CanLogin(a) /\ a \in password /\ a \in mfa
  /\ Mint(a, "mfa")
  /\ UNCHANGED << users, locked, access, tokens, live, used, requests, bootstrap >>

\* Google's callback on an existing active account: one with a password is
\* refused, one without is linked.
GoogleCallback(a) == Active(a) /\ a \notin password

\* Microsoft's: a local account is linked only if the tenant vouches for mail
\* addresses; the others are found by the id they were created with.
MicrosoftCallback(a) == GoogleCallback(a) /\ (a \in Local => TenantAsserted)

\* Either mints an exchange code.
OAuthCallback(a) ==
  /\ GoogleCallback(a) \/ MicrosoftCallback(a)
  /\ Mint(a, "oauth")
  /\ UNCHANGED << users, locked, access, tokens, live, used, requests, bootstrap >>

\* Redis SET NX on the jti: the first presenter wins.
FirstUse(k) == k \in DOMAIN codes /\ k \notin used

\* POST /auth/mfa/verify with a right code.
MfaVerify(s, k) ==
  /\ FirstUse(k) /\ codes[k].kind = "mfa"
  /\ LET a == codes[k].owner IN
     /\ CanLogin(a) /\ a \in mfa
     /\ Start(s, "signin", a, k, "other")
     /\ used' = used \cup {k}
     /\ locked' = locked \ {a}
  /\ UNCHANGED << users, access, tokens, live, codes, bootstrap >>

\* A wrong code leaves the challenge usable.
MfaFails(k) ==
  /\ FirstUse(k) /\ codes[k].kind = "mfa"
  /\ LET a == codes[k].owner IN
     /\ CanLogin(a) /\ a \in mfa
     /\ RegisterFailure(a)
  /\ UNCHANGED << users, access, issued, requests, bootstrap >>

\* POST /auth/oauth/exchange: the code is burnt before the account is checked.
ExchangeCode(s, k) ==
  /\ FirstUse(k) /\ codes[k].kind = "oauth"
  /\ used' = used \cup {k}
  /\ IF Active(codes[k].owner)
     THEN Start(s, "signin", codes[k].owner, k, "other")
     ELSE UNCHANGED requests
  /\ UNCHANGED << users, locked, access, tokens, live, codes, bootstrap >>

\* login is the token its chain of rotations began with, by what obtained that
\* one (a password alone or something better), code the one-time code it spent;
\* late marks a token that a sweep of its account could not see.
NewToken(a, login, by, code, late) ==
  /\ Len(tokens) < MaxTokens
  /\ tokens' = Append(tokens, [owner |-> a, login |-> login, by |-> by, code |-> code,
                               late |-> late])

\* Bound: the instance has room for one more sign-in.
MoreSignIns == Cardinality({t \in DOMAIN tokens : tokens[t].login = t}) < MaxSignIns

\* _create_token_pair, the last commit of every sign-in.
CreateTokenPair(s) ==
  /\ Running(s, "signin")
  /\ MoreSignIns
  /\ NewToken(slot[s].who, Len(tokens) + 1, slot[s].word, slot[s].row, s \in overtaken)
  /\ live' = live \cup {Len(tokens) + 1}
  /\ Finish(s)
  /\ UNCHANGED << users, locked, access, codes, used, bootstrap >>

-----------------------------------------------------------------------------
(***************************************************************************)
(* Sessions: rotation, sign-out, and the sweeps that end all of them.      *)
(***************************************************************************)
\* POST /auth/refresh on a live token: the row lock is taken, the account
\* checked.
BeginRotate(s, t) ==
  /\ LockToken(s, t) /\ t \in live
  /\ Active(tokens[t].owner)
  /\ Start(s, "rotate", tokens[t].owner, t, "")
  /\ UNCHANGED << users, locked, access, issued, bootstrap >>

\* The old token is revoked and its successor inserted in one commit.
CommitRotate(s) ==
  /\ Running(s, "rotate")
  /\ LET t == slot[s].row IN
     /\ NewToken(tokens[t].owner, tokens[t].login, tokens[t].by, 0,
                 s \in overtaken \/ tokens[t].late)
     /\ live' = (live \ {t}) \cup {Len(tokens) + 1}
  /\ Finish(s)
  /\ UNCHANGED << users, locked, access, codes, used, bootstrap >>

\* logout, and refresh of an expired token: this token only.
RevokeOne(t) ==
  /\ t \in live
  /\ \A s \in Slots : ~(Running(s, "rotate") /\ slot[s].row = t)
  /\ live' = live \ {t}
  /\ UNCHANGED << users, locked, access, tokens, codes, used, requests, bootstrap >>

\* Seeded fault: the bulk UPDATE misses a token.
SweptButLatest(a) == {t \in LiveTokens(a) : t # Len(tokens)}

\* The rows the bulk UPDATE of an account's tokens sees.
Swept(a) == LiveTokens(a)

\* What each sweep commits along with the revocation.
AfterSweep(a, why) ==
  /\ state' = CASE why \in {"off", "deleted"} -> [state EXCEPT ![a] = why]
                [] OTHER -> state
  /\ password' = CASE why = "deleted" -> password \ {a}
                   [] why = "reset"   -> password \cup {a}
                   [] OTHER           -> password
  /\ mfa' = CASE why = "mfa_on"  -> mfa \cup {a}
              [] why = "mfa_off" -> mfa \ {a}
              [] OTHER           -> mfa

BeginSweep(s, a, why) ==
  /\ Admit(s, Request("sweep", a, 0, why, Swept(a)))
  /\ UNCHANGED << users, locked, access, issued, bootstrap >>

\* refresh with a token already revoked: reuse ends every session.
ReuseDetected(s, t) ==
  /\ LockToken(s, t) /\ t \notin live
  /\ BeginSweep(s, tokens[t].owner, "reuse")

\* totp_enroll hands such an account a pending secret.
CanEnroll(a) == a \in Local /\ SignedIn(a) /\ a \notin mfa

\* The enrolment is confirmed with a code of that secret.
TotpConfirm(s, a) ==
  /\ CanEnroll(a)
  /\ BeginSweep(s, a, "mfa_on")

TotpDisable(s, a) ==
  /\ SignedIn(a) /\ a \in mfa
  /\ BeginSweep(s, a, "mfa_off")

\* forgot-password mails a link to active local accounts.
ResetLinkMailed(a) == a \in Local /\ Active(a)

\* consume_reset_token: the link works while updated_at is what it was when it
\* was issued, so nothing changes the row between the two requests and they
\* act on it as one.
ResetLinkValid(a) == ResetLinkMailed(a)

ResetPassword(s, a) ==
  /\ ResetLinkValid(a)
  /\ BeginSweep(s, a, "reset")

\* The UPDATE waits for the rows a rotation holds; a reset signs in next.
CommitSweep(s) ==
  /\ Running(s, "sweep")
  /\ LET a == slot[s].who  why == slot[s].word  seen == slot[s].seen IN
     /\ seen \cap Locked(s) = {}
     /\ live' = live \ seen
     /\ AfterSweep(a, why)
     /\ IF why = "reset" THEN SignInNext(s) ELSE Finish(s)
  /\ UNCHANGED << role, invited, locked, access, tokens, codes, used, bootstrap >>

-----------------------------------------------------------------------------
(***************************************************************************)
(* The admin's routes.                                                     *)
(***************************************************************************)
\* The guard of the three routes that may take an admin away.
KeepsAnAdmin(a) == role[a] = "admin" => Cardinality(Admins) > 1

Manages(actor, a) == a # actor /\ SignedIn(actor) /\ a \in ListUsers /\ actor \in Admins

BeginSetRole(s, actor, a, given) ==
  /\ Manages(actor, a)
  /\ given # "admin" => KeepsAnAdmin(a)
  /\ Start(s, "role", a, 0, given)
  /\ UNCHANGED << users, locked, access, issued, bootstrap >>

CommitSetRole(s) ==
  /\ Running(s, "role")
  /\ role' = [role EXCEPT ![slot[s].who] = slot[s].word]
  /\ Finish(s)
  /\ UNCHANGED << state, password, mfa, invited, locked, access, issued, bootstrap >>

Activate(actor, a) ==
  /\ Manages(actor, a)
  /\ state' = [state EXCEPT ![a] = "active"]
  /\ UNCHANGED << role, password, mfa, invited, locked, access, issued, requests, bootstrap >>

Deactivate(s, actor, a) ==
  /\ Manages(actor, a) /\ KeepsAnAdmin(a)
  /\ BeginSweep(s, a, "off")

DeleteUser(s, actor, a) ==
  /\ Manages(actor, a) /\ KeepsAnAdmin(a)
  /\ BeginSweep(s, a, "deleted")

-----------------------------------------------------------------------------
Enter(s, a) ==
  \/ BeginRegister(s, a) \/ AcceptInvite(s, a) \/ Login(s, a)
  \/ TotpConfirm(s, a) \/ TotpDisable(s, a) \/ ResetPassword(s, a)

Manage(s, actor, a) ==
  \/ \E given \in {"admin", "editor"} : BeginSetRole(s, actor, a, given)
  \/ Activate(actor, a)
  \/ Deactivate(s, actor, a)
  \/ DeleteUser(s, actor, a)

OfAccount(a) ==
  \/ InviteMember(a) \/ LockExpires(a)
  \/ LoginFails(a) \/ LoginChallenge(a) \/ OAuthCallback(a)

Proceed(s) ==
  \/ CommitRegister(s) \/ RegisterConflict(s) \/ CreateTokenPair(s)
  \/ CommitRotate(s) \/ CommitSweep(s) \/ CommitSetRole(s)

Next ==
  \/ \E e \in Emails :
       SubmitEarlyAccess(e) \/ \E approve \in BOOLEAN : ReviewEarlyAccess(e, approve)
  \/ \E a \in Accounts : OfAccount(a)
  \/ \E s \in Slots :
       \/ Proceed(s)
       \/ \E a \in Accounts : Enter(s, a)
       \/ \E actor, a \in Accounts : Manage(s, actor, a)
       \/ \E t \in DOMAIN tokens : BeginRotate(s, t) \/ ReuseDetected(s, t)
       \/ \E k \in DOMAIN codes : MfaVerify(s, k) \/ ExchangeCode(s, k)
  \/ \E t \in DOMAIN tokens : RevokeOne(t)
  \/ \E k \in DOMAIN codes : MfaFails(k)

Spec == Init /\ [][Next]_vars

-----------------------------------------------------------------------------
\* Types, among them that a request is about to write what its operation may,
\* and that only issued tokens and codes are alive or burnt.
AccountTypeOK ==
  /\ state \in [Accounts -> {"absent", "off", "active", "deleted"}]
  /\ role \in [Accounts -> {"admin", "editor"}]
  /\ password \subseteq Accounts /\ mfa \subseteq Accounts /\ invited \subseteq Accounts
  /\ locked \subseteq Accounts
  /\ access \in [Emails -> {"none", "pending", "approved", "consumed"}]
  /\ tokens \in Seq([owner : Accounts, login : Nat, by : {"password", "other"}, code : Nat,
                     late : BOOLEAN])
  /\ live \subseteq DOMAIN tokens
  /\ codes \in Seq([owner : Accounts, kind : {"mfa", "oauth"}])
  /\ used \subseteq DOMAIN codes
  /\ slot \in [Slots -> {Free} \cup Requests]
  /\ overtaken \subseteq Slots /\ crossed \in BOOLEAN
  /\ bootstrap \subseteq Accounts

\* Rotation leaves one way in: of the tokens that descend from one sign-in at
\* most one is live, although refreshes of the same token overlap.
OneLivePerLogin ==
  \A t, u \in live : tokens[t].login = tokens[u].login => t = u

\* Switching an account off or deleting it leaves it no live refresh token to
\* wake up with if it is switched on again, unless the request that issued it
\* overlapped the sweep: a sign-in checks the account before it inserts the
\* token, and the sweep sees neither that token nor a rotation's successor.
InactiveHoldsNoSession ==
  \A a \in Accounts : ~Active(a) => \A t \in LiveTokens(a) : tokens[t].late

\* While the second factor is on, no live session was opened by a password
\* alone: those from before are gone and the login form opens no new one, the
\* sign-ins under way while it was switched on aside.
PasswordAloneIsNotEnough ==
  \A a \in mfa : \A t \in LiveTokens(a) : tokens[t].by = "password" => tokens[t].late

\* An MFA challenge or an OAuth exchange code opens one session, whoever
\* presents it and however often.
OneSessionPerCode ==
  \A t, u \in DOMAIN tokens :
     tokens[t].code # 0 /\ tokens[t].code = tokens[u].code => t = u

\* The exception for an empty system is made once, unless two admins were taken
\* away at a time: each guard then counts the admin the other takes.
BootstrapOnce == ~crossed => Cardinality(bootstrap) <= 1

\* Registered itself with a password and by invitation.
ByInvitation(a) ==
  a \in Local /\ state[a] # "absent" /\ a \notin bootstrap /\ a \notin invited

\* The early-access gate: an account that registered itself with a password
\* spent the approved invitation of its address, which buys no second one when
\* the first is deleted and the address free again; and an invitation that is
\* spent bought an account - a registration that fails gives it back.  (The page
\* that shows an invitation as valid is wrong about a spent one after that
\* deletion, and only then.)
InvitationBuysOneAccount ==
  /\ \A a, b \in Accounts :
       ByInvitation(a) => /\ access[EmailOf[a]] = "consumed"
                          /\ ByInvitation(b) /\ EmailOf[b] = EmailOf[a] => a = b
  /\ \A e \in Emails : access[e] = "consumed" =>
       \E a \in Local : EmailOf[a] = e /\ state[a] # "absent"
  /\ \A e \in Emails : ValidateInvitation(e) =>
       InvitationUsable(e) \/ \E a \in Local : EmailOf[a] = e /\ state[a] = "deleted"
=============================================================================
