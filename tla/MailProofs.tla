----------------------------- MODULE MailProofs -----------------------------
(***************************************************************************)
(* What holds of every run of Mail: for any number of requests, scans and  *)
(* schedulers, however often consent is given, whatever calls fail and     *)
(* processes die, and however many bills arrive.  And of every run of      *)
(* GmailScan: however many scanners overlap, whatever expires, fails or    *)
(* dies on the way; with one scanner, that the anchor waits for its work.  *)
(***************************************************************************)
EXTENDS Mail, GmailScan, FiniteSetTheorems, FunctionTheorems, SequenceTheorems, TLAPS

LEMMA MailBounds ==
  /\ MaxGrants \in Nat /\ MaxFaults \in Nat
  /\ MaxBills \in Nat /\ MaxBillFaults \in Nat
  BY ConnectionAssumption, BillsAssumption

-----------------------------------------------------------------------------
(***************************************************************************)
(* The connection.                                                         *)
(***************************************************************************)
\* Who was refused without an outage holds a grant that is gone: no later
\* consent brings it back.
RefusedIsDead ==
  \A u \in Users : user[u].at = "refused" => user[u].grant \notin live

ConnectionInv == ConnectionTypeOK /\ ActiveIsPolled /\ RefusedIsDead

\* The actions that move no request or scan.
OfNobody == RevokeAtGoogle \/ CacheExpires

OfUser(u) ==
  \/ Connect(u) \/ UpdateCredential(u) \/ DeleteCredential(u)
  \/ GetAccessToken(u) \/ Outage(u) \/ Dies(u) \/ Work(u)

\* The types apart: the job is Boolean, and the bounds are about numbers only.
RowsTyped ==
  /\ cred \in [status : {"none", "active", "revoked", "disabled"}, grant : Nat]
  /\ cache \in Nat /\ live \subseteq Nat
  /\ user \in [Users -> [at : {"away", "schedule", "remove", "refresh", "call", "refused",
                               "unanswered"},
                         grant : Nat, token : Nat]]
  /\ lost \in {"no", "crash", "overtaken"} /\ faults \in 0..MaxFaults

UpToNow ==
  /\ \A g \in live : g <= cred.grant
  /\ cache <= cred.grant /\ cred.grant <= MaxGrants
  /\ \A u \in Users : user[u].grant <= cred.grant /\ user[u].token <= cred.grant

LEMMA ConnectionTypes ==
  ConnectionTypeOK <=> RowsTyped /\ UpToNow /\ job \in BOOLEAN
  BY Zenon DEF ConnectionTypeOK, RowsTyped, UpToNow

LEMMA ConnectionInitially == ConnectionInit => ConnectionInv
<1> SUFFICES ASSUME ConnectionInit PROVE ConnectionInv
  OBVIOUS
<1>1. RowsTyped /\ UpToNow
  BY MailBounds DEF ConnectionInit, RowsTyped, UpToNow, Away
<1>2. job \in BOOLEAN
  BY DEF ConnectionInit
<1>3. ActiveIsPolled /\ RefusedIsDead
  BY DEF ConnectionInit, ActiveIsPolled, RefusedIsDead, Away
<1> QED
  BY <1>1, <1>2, <1>3, ConnectionTypes DEF ConnectionInv

LEMMA JobTyped ==
  ASSUME job \in BOOLEAN, [ConnectionNext]_connectionVars
  PROVE  job' \in BOOLEAN
  BY DEF ConnectionNext, connectionVars, RevokeAtGoogle, CacheExpires, Work, Connect,
         UpdateCredential, DeleteCredential, GetAccessToken, Outage, Dies,
         ScheduleGmailScan, Added, RemoveJob, HandleInvalidGrant, Refreshed, CallGmail

LEMMA RowsTypedKept ==
  ASSUME RowsTyped, [ConnectionNext]_connectionVars
  PROVE  RowsTyped'
<1> USE MailBounds
<1>1. CASE UNCHANGED connectionVars
  BY <1>1 DEF RowsTyped, connectionVars
<1>2. CASE OfNobody
  <2>1. CASE RevokeAtGoogle
    BY <2>1 DEF RevokeAtGoogle, RowsTyped
  <2>2. CASE CacheExpires
    BY <2>2 DEF CacheExpires, Expired, RowsTyped
  <2> QED
    BY <1>2, <2>1, <2>2 DEF OfNobody
<1>3. ASSUME NEW u \in Users, OfUser(u)
      PROVE  RowsTyped'
  <2>1. CASE Connect(u)
    <3>1. cred.grant + 1 \in Nat
      BY DEF RowsTyped
    <3>2. cred' \in [status : {"none", "active", "revoked", "disabled"}, grant : Nat]
      BY <2>1, <3>1 DEF Connect
    <3>3. user' = [user EXCEPT ![u] = [at |-> "schedule", grant |-> cred.grant + 1, token |-> 0]]
      BY <2>1 DEF Connect, Begin
    <3> QED
      BY <2>1, <3>1, <3>2, <3>3 DEF Connect, RowsTyped
  <2>2. CASE UpdateCredential(u) \/ DeleteCredential(u)
    BY <2>2 DEF UpdateCredential, DeleteCredential, Begin, RowsTyped
  <2>3. CASE GetAccessToken(u)
    BY <2>3 DEF GetAccessToken, Begin, RowsTyped
  <2>4. CASE Outage(u)
    BY <2>4 DEF Outage, Fault, To, RowsTyped
  <2>5. CASE Dies(u)
    BY <2>5 DEF Dies, Fault, Leave, Away, RowsTyped
  <2>6. CASE ScheduleGmailScan(u)
    BY <2>6 DEF ScheduleGmailScan, Leave, Away, RowsTyped
  <2>7. CASE RemoveJob(u)
    BY <2>7 DEF RemoveJob, Leave, Away, RowsTyped
  <2>8. CASE HandleInvalidGrant(u)
    BY <2>8 DEF HandleInvalidGrant, Revoked, To, RowsTyped
  <2>9. CASE Refreshed(u)
    BY <2>9 DEF Refreshed, Begin, To, RowsTyped
  <2>10. CASE CallGmail(u)
    BY <2>10 DEF CallGmail, To, Leave, Begin, Away, RowsTyped
  <2> QED
    BY <1>3, <2>1, <2>2, <2>3, <2>4, <2>5, <2>6, <2>7, <2>8, <2>9, <2>10 DEF OfUser, Work
<1> QED
  BY <1>1, <1>2, <1>3 DEF ConnectionNext, OfNobody, OfUser

\* Only the user of an action moves.
LEMMA OneUserMoves ==
  ASSUME RowsTyped, NEW u \in Users, OfUser(u)
  PROVE  /\ DOMAIN user' = Users
         /\ \A v \in Users \ {u} : user'[v] = user[v]
  BY DEF OfUser, Work, Connect, UpdateCredential, DeleteCredential, GetAccessToken, Outage,
         Dies, ScheduleGmailScan, RemoveJob, HandleInvalidGrant, Refreshed, CallGmail,
         To, Leave, Begin, RowsTyped

LEMMA UpToNowKept ==
  ASSUME RowsTyped, UpToNow, [ConnectionNext]_connectionVars
  PROVE  UpToNow'
<1> USE MailBounds
<1>1. CASE UNCHANGED connectionVars
  BY <1>1 DEF UpToNow, connectionVars
<1>2. CASE OfNobody
  <2>1. CASE RevokeAtGoogle
    BY <2>1 DEF RevokeAtGoogle, RowsTyped, UpToNow
  <2>2. CASE CacheExpires
    BY <2>2 DEF CacheExpires, Expired, RowsTyped, UpToNow
  <2> QED
    BY <1>2, <2>1, <2>2 DEF OfNobody
<1>3. ASSUME NEW u \in Users, OfUser(u)
      PROVE  UpToNow'
  <2>0. /\ DOMAIN user' = Users
        /\ \A v \in Users \ {u} : user'[v] = user[v]
    BY <1>3, OneUserMoves
  <2>1. CASE Connect(u)
    <3>1. user'[u].grant = cred'.grant /\ user'[u].token = 0
      BY <2>1 DEF Connect, Begin, RowsTyped
    <3>2. /\ cred'.grant = cred.grant + 1 /\ cred'.grant <= MaxGrants
          /\ live' = live \cup {cred.grant + 1} /\ cache' = cache
      BY <2>1 DEF Connect, RowsTyped
    <3>3. cred.grant \in Nat /\ MaxGrants \in Nat
      BY DEF RowsTyped
    <3>4. \A g \in live' : g <= cred'.grant
      BY <3>2, <3>3 DEF RowsTyped, UpToNow
    <3>5. cache' <= cred'.grant
      BY <3>2, <3>3 DEF RowsTyped, UpToNow
    <3>6. user'[u].grant <= cred'.grant /\ user'[u].token <= cred'.grant
      BY <3>1, <3>2, <3>3
    <3>7. ASSUME NEW v \in Users \ {u}
          PROVE  user'[v].grant <= cred'.grant /\ user'[v].token <= cred'.grant
      BY <2>0, <3>2, <3>3 DEF RowsTyped, UpToNow
    <3> QED
      BY <3>2, <3>4, <3>5, <3>6, <3>7 DEF UpToNow
  <2>2. CASE ~Connect(u)
    <3>1. cred'.grant = cred.grant /\ UNCHANGED live
      BY <1>3, <2>2 DEF OfUser, Work, UpdateCredential, DeleteCredential, GetAccessToken,
         Outage, Dies, ScheduleGmailScan, RemoveJob, HandleInvalidGrant, Revoked, Refreshed,
         CallGmail, RowsTyped
    <3>2. cache' \in {cache, user[u].grant}
      BY <1>3, <2>2 DEF OfUser, Work, UpdateCredential, DeleteCredential, GetAccessToken,
         Outage, Dies, ScheduleGmailScan, RemoveJob, HandleInvalidGrant, Refreshed, CallGmail
    <3>3. /\ user'[u].grant \in {0, cred.grant, user[u].grant}
          /\ user'[u].token \in {0, cache, user[u].grant, user[u].token}
      BY <1>3, <2>2 DEF OfUser, Work, UpdateCredential, DeleteCredential, GetAccessToken,
         Outage, Dies, ScheduleGmailScan, RemoveJob, HandleInvalidGrant, Refreshed, CallGmail,
         To, Leave, Begin, Away, RowsTyped
    <3> QED
      BY <2>0, <3>1, <3>2, <3>3 DEF RowsTyped, UpToNow
  <2> QED
    BY <2>1, <2>2
<1> QED
  BY <1>1, <1>2, <1>3 DEF ConnectionNext, OfNobody, OfUser

LEMMA PolledKept ==
  ASSUME RowsTyped, ActiveIsPolled, [ConnectionNext]_connectionVars
  PROVE  ActiveIsPolled'
<1>1. CASE UNCHANGED connectionVars
  BY <1>1 DEF ActiveIsPolled, connectionVars
<1>2. CASE OfNobody
  BY <1>2 DEF OfNobody, RevokeAtGoogle, CacheExpires, ActiveIsPolled
<1>3. ASSUME NEW u \in Users, OfUser(u)
      PROVE  ActiveIsPolled'
  <2>0. \A v \in Users \ {u} : user'[v] = user[v]
    BY <1>3, OneUserMoves
  \* Whoever was not about to add the job leaves those who are.
  <2>1. ASSUME user[u].at # "schedule", cred'.status = "active" => cred.status = "active",
               UNCHANGED << job, lost >>
        PROVE  ActiveIsPolled'
    BY <2>0, <2>1 DEF ActiveIsPolled
  <2>2. CASE Connect(u)
    <3>1. user'[u].at = "schedule"
      BY <2>2 DEF Connect, Begin, RowsTyped
    <3> QED
      BY <3>1 DEF ActiveIsPolled
  <2>3. CASE UpdateCredential(u)
    <3>1. user'[u].at = "schedule"
      BY <2>3 DEF UpdateCredential, Begin, Away, RowsTyped
    <3> QED
      BY <3>1 DEF ActiveIsPolled
  <2>4. CASE DeleteCredential(u)
    <3>1. cred'.status = "disabled"
      BY <2>4 DEF DeleteCredential, RowsTyped
    <3> QED
      BY <3>1 DEF ActiveIsPolled
  <2>5. CASE GetAccessToken(u)
    BY <2>1, <2>5 DEF GetAccessToken, Idle
  <2>6. CASE Outage(u)
    BY <2>1, <2>6 DEF Outage
  <2>7. CASE Refreshed(u) \/ CallGmail(u)
    BY <2>1, <2>7 DEF Refreshed, CallGmail, At
  <2>8. CASE HandleInvalidGrant(u)
    <3>1. cred'.status = "revoked"
      BY <2>8 DEF HandleInvalidGrant, Revoked, RowsTyped
    <3> QED
      BY <3>1 DEF ActiveIsPolled
  <2>9. CASE ScheduleGmailScan(u)
    BY <2>9 DEF ScheduleGmailScan, Added, ActiveIsPolled
  <2>10. CASE RemoveJob(u)
    <3>1. cred'.status = "active" => lost' # "no"
      BY <2>10 DEF RemoveJob
    <3> QED
      BY <3>1 DEF ActiveIsPolled
  <2>11. CASE Dies(u)
    <3>1. CASE user[u].at = "schedule"
      BY <2>11, <3>1 DEF Dies, At, ActiveIsPolled
    <3>2. CASE user[u].at # "schedule"
      BY <2>1, <2>11, <3>2 DEF Dies, At
    <3> QED
      BY <3>1, <3>2
  <2> QED
    BY <1>3, <2>2, <2>3, <2>4, <2>5, <2>6, <2>7, <2>8, <2>9, <2>10, <2>11 DEF OfUser, Work
<1> QED
  BY <1>1, <1>2, <1>3 DEF ConnectionNext, OfNobody, OfUser

LEMMA RefusedKept ==
  ASSUME RowsTyped, UpToNow, RefusedIsDead, [ConnectionNext]_connectionVars
  PROVE  RefusedIsDead'
<1>1. CASE UNCHANGED connectionVars
  BY <1>1 DEF RefusedIsDead, connectionVars
<1>2. CASE OfNobody
  BY <1>2 DEF OfNobody, RevokeAtGoogle, CacheExpires, RefusedIsDead
<1>3. ASSUME NEW u \in Users, OfUser(u)
      PROVE  RefusedIsDead'
  <2>1. /\ DOMAIN user' = Users
        /\ \A v \in Users \ {u} : user'[v] = user[v]
    BY <1>3, OneUserMoves
  <2>2. \A v \in Users : user[v].grant # cred.grant + 1
    BY DEF RowsTyped, UpToNow
  <2>3. live' \subseteq live \cup {cred.grant + 1}
    BY <1>3 DEF OfUser, Work, Connect, UpdateCredential, DeleteCredential, GetAccessToken,
           Outage, Dies, ScheduleGmailScan, RemoveJob, HandleInvalidGrant, Refreshed, CallGmail
  <2>4. user'[u].at = "refused" => user'[u].grant \notin live'
    <3>1. CASE Refreshed(u)
      BY <3>1 DEF Refreshed, Begin, To, RowsTyped
    <3>2. CASE Outage(u)
      BY <3>2 DEF Outage, To, RowsTyped
    <3>3. CASE CallGmail(u)
      BY <3>3 DEF CallGmail, Condemned, Leave, Away, RowsTyped
    <3>4. ASSUME ~Refreshed(u), ~Outage(u), ~CallGmail(u)
          PROVE  user'[u].at # "refused"
      BY <1>3, <3>4 DEF OfUser, Work, Connect, UpdateCredential, DeleteCredential,
             GetAccessToken, Dies, ScheduleGmailScan, RemoveJob, HandleInvalidGrant,
             To, Leave, Begin, Away, RowsTyped
    <3> QED
      BY <3>1, <3>2, <3>3, <3>4
  <2> QED
    BY <2>1, <2>2, <2>3, <2>4 DEF RefusedIsDead
<1> QED
  BY <1>1, <1>2, <1>3 DEF ConnectionNext, OfNobody, OfUser

LEMMA ConnectionInvariance == Spec => []ConnectionInv
<1>1. ConnectionInv /\ [Next]_vars => ConnectionInv'
  <2> SUFFICES ASSUME ConnectionInv, [Next]_vars PROVE ConnectionInv'
    OBVIOUS
  <2>1. [ConnectionNext]_connectionVars
    BY DEF Next, vars
  <2> QED
    <3>1. RowsTyped /\ UpToNow /\ job \in BOOLEAN
      BY ConnectionTypes DEF ConnectionInv
    <3>2. RowsTyped' /\ UpToNow' /\ job' \in BOOLEAN
      BY <2>1, <3>1, RowsTypedKept, UpToNowKept, JobTyped
    <3>3. ConnectionTypeOK'
      BY <3>2, Zenon DEF ConnectionTypeOK, RowsTyped, UpToNow
    <3> QED
      BY <2>1, <3>1, <3>3, PolledKept, RefusedKept DEF ConnectionInv
<1>2. Init => ConnectionInv
  BY ConnectionInitially DEF Init
<1> QED
  BY <1>1, <1>2, PTL DEF Spec

-----------------------------------------------------------------------------
(***************************************************************************)
(* The bills.                                                              *)
(***************************************************************************)
Row == [key : Keys, parent : Nat, status : {"pending", "paid"}, count : Nat]

BillRows ==
  /\ bills \in Seq(Row)
  /\ Len(bills) <= MaxBills
  /\ \A b \in Stored : bills[b].count <= ReminderMaxPerBill

LEMMA StoredIds ==
  ASSUME BillRows
  PROVE  /\ Len(bills) \in Nat /\ Stored = 1..Len(bills) /\ Stored \subseteq Ids /\ 0 \notin Stored
         /\ \A b \in Stored : bills[b] \in Row
  BY MailBounds DEF BillRows, Stored, Ids

Firings == [bill : Nat, count : Nat, late : {"no", "yes"}, sent : {"no", "yes"}]

\* Nobody is at work with a bill number 0.
LEMMA AtRest ==
  /\ NotFiring.bill = 0 /\ NotFiring.count = 0 /\ NotFiring.late = "no" /\ NotFiring.sent = "no"
  /\ NotFiring \in Firings
  /\ Quiet \in [at : {"away", "insert", "schedule"}, parent : Nat, key : Keys]
  /\ Quiet.at = "away"
  BY DEF NotFiring, Firings, Quiet, Keys

\* The three ways a row comes or changes.
LEMMA Inserted ==
  ASSUME BillRows, NEW s \in Scans, Insert(s), intake[s].key \in Keys, intake[s].parent \in Nat
  PROVE  /\ BillRows' /\ Len(bills') = Len(bills) + 1
         /\ \A b \in Stored : bills'[b] = bills[b]
         /\ bills'[Len(bills) + 1].key = intake[s].key
         /\ bills'[Len(bills) + 1].parent = intake[s].parent
         /\ bills'[Len(bills) + 1].status = "pending"
         /\ bills'[Len(bills) + 1].count = 0
<1> DEFINE row == [key |-> intake[s].key, parent |-> intake[s].parent, status |-> "pending", count |-> 0]
<1>1. row \in Row /\ row.count = 0 /\ row.key = intake[s].key /\ row.parent = intake[s].parent
      /\ row.status = "pending"
  BY DEF Row
<1>2. bills' = Append(bills, row) /\ Len(bills) < MaxBills
  BY DEF Insert
<1> HIDE DEF row
<1>3. Len(bills) \in Nat /\ Stored = 1..Len(bills) /\ bills \in Seq(Row)
  BY StoredIds DEF BillRows
<1>4. /\ bills' \in Seq(Row) /\ Len(bills') = Len(bills) + 1
      /\ bills'[Len(bills) + 1] = row /\ Stored' = 1..(Len(bills) + 1)
      /\ \A b \in Stored : bills'[b] = bills[b]
  BY <1>1, <1>2, <1>3 DEF Stored
<1>5. \A b \in Stored' : bills'[b].count <= ReminderMaxPerBill
  BY <1>1, <1>3, <1>4 DEF BillRows, ReminderMaxPerBill
<1> QED
  BY <1>1, <1>2, <1>3, <1>4, <1>5, MailBounds DEF BillRows

LEMMA OneRowChanges ==
  ASSUME BillRows, NEW b \in Stored, NEW row \in Row, row.count <= ReminderMaxPerBill,
         bills' = [bills EXCEPT ![b] = row]
  PROVE  /\ BillRows' /\ Len(bills') = Len(bills) /\ Stored' = Stored
         /\ bills'[b] = row
         /\ \A c \in Stored \ {b} : bills'[c] = bills[c]
<1>1. Len(bills) \in Nat /\ Stored = 1..Len(bills) /\ bills \in Seq(Row)
  BY StoredIds DEF BillRows
<1>2. /\ bills' \in Seq(Row) /\ Len(bills') = Len(bills)
      /\ \A c \in 1..Len(bills) : bills'[c] = IF c = b THEN row ELSE bills[c]
  BY <1>1, ExceptSeq
<1>3. Stored' = Stored
  BY <1>1, <1>2 DEF Stored
<1> QED
  BY <1>1, <1>2, <1>3 DEF BillRows

LEMMA Paid ==
  ASSUME BillRows, NEW b \in Stored, MarkPaid(b)
  PROVE  /\ BillRows' /\ Len(bills') = Len(bills) /\ Stored' = Stored
         /\ bills'[b].status = "paid" /\ bills'[b].key = bills[b].key
         /\ bills'[b].parent = bills[b].parent /\ bills'[b].count = bills[b].count
         /\ \A c \in Stored \ {b} : bills'[c] = bills[c]
<1> DEFINE row == [bills[b] EXCEPT !.status = "paid"]
<1>1. bills[b] \in Row /\ bills[b].count <= ReminderMaxPerBill
  BY StoredIds DEF BillRows
<1>2. /\ row \in Row /\ row.status = "paid" /\ row.key = bills[b].key
      /\ row.parent = bills[b].parent /\ row.count = bills[b].count
  BY <1>1 DEF Row
<1>3. bills' = [bills EXCEPT ![b] = row]
  BY DEF MarkPaid
<1> HIDE DEF row
<1> QED
  BY <1>1, <1>2, <1>3, OneRowChanges

LEMMA ReminderCounted ==
  ASSUME BillRows, NEW p \in Schedulers, CountReminder(p),
         firing[p].bill \in Stored, firing[p].count \in Nat, firing[p].count < ReminderMaxPerBill
  PROVE  LET b == firing[p].bill IN
         /\ BillRows' /\ Len(bills') = Len(bills) /\ Stored' = Stored
         /\ bills'[b].status = bills[b].status /\ bills'[b].key = bills[b].key
         /\ bills'[b].parent = bills[b].parent /\ bills'[b].count = firing[p].count + 1
         /\ \A c \in Stored \ {b} : bills'[c] = bills[c]
<1> DEFINE b   == firing[p].bill
           row == [bills[b] EXCEPT !.count = firing[p].count + 1]
<1>1. bills[b] \in Row /\ b \in Stored
  BY StoredIds
<1>2. /\ row \in Row /\ row.status = bills[b].status /\ row.key = bills[b].key
      /\ row.parent = bills[b].parent /\ row.count = firing[p].count + 1
  BY <1>1 DEF Row
<1>3. bills' = [bills EXCEPT ![b] = row]
  BY DEF CountReminder, Counted
<1>4. row.count <= ReminderMaxPerBill
  BY <1>2 DEF ReminderMaxPerBill
<1> HIDE DEF row, b
<1> QED
  BY <1>1, <1>2, <1>3, <1>4, OneRowChanges DEF b

\* The other variables, given how many bills there are.
WorkTyped(n) ==
  /\ jobs \subseteq (1..n) \X Tiers
  /\ day \in 0..3
  /\ intake \in [Scans -> [at : {"away", "insert", "schedule"}, parent : Nat, key : Keys]]
  /\ \A s \in Scans : intake[s].at = "schedule" => intake[s].parent \in 1..n
  /\ due \in [Schedulers -> SUBSET ((1..n) \X Tiers)]
  /\ firing \in [Schedulers -> Firings]
  /\ \A p \in Schedulers :
       /\ firing[p] = NotFiring \/ firing[p].bill \in 1..n
       /\ firing[p].count < ReminderMaxPerBill
  /\ paying \in (1..n) \cup {0}
  /\ reminded \in [Ids -> Nat] /\ uncounted \in [Ids -> Nat]
  /\ stale \subseteq 1..n
  /\ billFaults \in 0..MaxBillFaults

LEMMA BillsTypes == BillsTypeOK <=> BillRows /\ WorkTyped(Len(bills))
<1>1. ASSUME BillRows PROVE Stored = 1..Len(bills)
  BY <1>1, StoredIds
<1>2. BillsTypeOK <=> BillRows /\ BillsTypeOK
  BY Zenon DEF BillsTypeOK, BillRows, Row
<1>3. ASSUME BillRows PROVE BillsTypeOK <=> WorkTyped(Len(bills))
  BY <1>1, <1>3, Zenon DEF BillsTypeOK, WorkTyped, Firings, BillRows, Row
<1> QED
  BY <1>2, <1>3

\* What a process is at: a reminder that is sent is the same reminder, and one
\* that is counted was sent.
LEMMA Sends ==
  ASSUME NEW n \in Nat, WorkTyped(n), NEW p \in Schedulers, Remind(p)
  PROVE  /\ firing[p].bill \in 1..n /\ firing[p].sent = "no"
         /\ firing' \in [Schedulers -> Firings]
         /\ \A q \in Schedulers \ {p} : firing'[q] = firing[q]
         /\ firing'[p].bill = firing[p].bill /\ firing'[p].count = firing[p].count
         /\ firing'[p].late = firing[p].late /\ firing'[p].sent = "yes"
         /\ UNCHANGED bills
<1>1. firing[p] \in Firings /\ (firing[p] = NotFiring \/ firing[p].bill \in 1..n)
  BY DEF WorkTyped
<1>2. firing[p].bill \in 1..n
  BY <1>1, AtRest DEF Remind
<1>3. firing' = [firing EXCEPT ![p].sent = "yes"] /\ UNCHANGED bills /\ firing[p].sent = "no"
  BY DEF Remind
<1>4. firing' = [firing EXCEPT ![p] = [firing[p] EXCEPT !.sent = "yes"]]
  BY <1>3
<1>5. PICK f : f = [firing[p] EXCEPT !.sent = "yes"]
  OBVIOUS
<1>6. /\ f \in Firings /\ f.bill = firing[p].bill /\ f.count = firing[p].count
      /\ f.late = firing[p].late /\ f.sent = "yes"
  BY <1>1, <1>5 DEF Firings
<1>7. firing' = [firing EXCEPT ![p] = f] /\ firing \in [Schedulers -> Firings]
  BY <1>4, <1>5 DEF WorkTyped
<1> QED
  BY <1>2, <1>3, <1>6, <1>7

LEMMA Counts ==
  ASSUME NEW n \in Nat, WorkTyped(n), NEW p \in Schedulers, CountReminder(p)
  PROVE  /\ firing[p].bill \in 1..n /\ firing[p].count \in Nat
         /\ firing[p].count < ReminderMaxPerBill
         /\ firing' \in [Schedulers -> Firings]
         /\ firing'[p] = NotFiring
         /\ \A q \in Schedulers \ {p} : firing'[q] = firing[q]
<1>1. firing[p] \in Firings /\ (firing[p] = NotFiring \/ firing[p].bill \in 1..n)
      /\ firing[p].count < ReminderMaxPerBill
  BY DEF WorkTyped
<1>2. firing[p].bill \in 1..n /\ firing[p].count \in Nat
  BY <1>1, AtRest DEF CountReminder, Firings
<1>3. firing' = [firing EXCEPT ![p] = NotFiring] /\ firing \in [Schedulers -> Firings]
  BY DEF CountReminder, WorkTyped
<1> QED
  BY <1>1, <1>2, <1>3, AtRest

\* The actions that leave the rows alone.
Rowless ==
  \/ NextDay \/ Fetch \/ RemoveJobs
  \/ \E s \in Scans : ReadParent(s) \/ InsertFails(s) \/ ScheduleBillReminders(s)
  \/ \E p \in Schedulers : FireReminder(p) \/ Remind(p) \/ ReminderFails(p)

LEMMA WorkKept ==
  ASSUME NEW n \in Nat, WorkTyped(n), Rowless,
         Stored = 1..n, \A b \in Stored : bills[b] \in Row
  PROVE  WorkTyped(n)' /\ UNCHANGED bills
<1> USE MailBounds, AtRest
<1>1. CASE NextDay
  BY <1>1 DEF NextDay, WorkTyped
<1>2. CASE Fetch
  BY <1>2 DEF Fetch, WorkTyped
<1>3. CASE RemoveJobs
  BY <1>3 DEF RemoveJobs, BillFault, WorkTyped
<1>4. ASSUME NEW s \in Scans, ReadParent(s)
      PROVE  WorkTyped(n)' /\ UNCHANGED bills
  <2>1. PICK key \in Keys, parent \in Heads \cup {0} :
          intake' = [intake EXCEPT ![s] = [at |-> "insert", parent |-> parent, key |-> key]]
    BY <1>4 DEF ReadParent
  <2>2. parent \in Nat
    BY DEF Heads
  <2>3. intake' \in [Scans -> [at : {"away", "insert", "schedule"}, parent : Nat, key : Keys]]
    BY <2>1, <2>2 DEF WorkTyped
  <2>4. \A t \in Scans : intake'[t].at = "schedule" => intake'[t].parent \in 1..n
    BY <2>1 DEF WorkTyped
  <2> QED
    BY <1>4, <2>3, <2>4 DEF ReadParent, WorkTyped
<1>5. ASSUME NEW s \in Scans, InsertFails(s)
      PROVE  WorkTyped(n)' /\ UNCHANGED bills
  BY <1>5 DEF InsertFails, BillFault, WorkTyped
<1>6. ASSUME NEW s \in Scans, ScheduleBillReminders(s)
      PROVE  WorkTyped(n)' /\ UNCHANGED bills
  <2>1. jobs' \subseteq (1..n) \X Tiers
    BY <1>6 DEF ScheduleBillReminders, Future, WorkTyped
  <2> QED
    BY <1>6, <2>1 DEF ScheduleBillReminders, WorkTyped
<1>7. ASSUME NEW p \in Schedulers, FireReminder(p)
      PROVE  WorkTyped(n)' /\ UNCHANGED bills
  <2>1. PICK j \in due[p] :
          /\ due' = [due EXCEPT ![p] = @ \ {j}]
          /\ firing' = IF Wanted(j[1])
                       THEN [firing EXCEPT ![p] =
                               [bill |-> j[1], count |-> bills[j[1]].count,
                                late |-> "no", sent |-> "no"]]
                       ELSE firing
          /\ stale' \subseteq stale \cup {j[1]}
    BY <1>7 DEF FireReminder
  <2>2. j[1] \in 1..n /\ bills[j[1]].count \in Nat
    BY <2>1 DEF WorkTyped, Row
  <2>3. PICK b \in 1..n : b = j[1]
    BY <2>2
  <2>4. PICK c \in Nat : c = bills[b].count
    BY <2>2, <2>3
  <2>5. Wanted(b) => c < ReminderMaxPerBill
    BY <2>4 DEF Wanted
  <2>6. \/ firing' = firing
        \/ c < ReminderMaxPerBill /\ firing' = [firing EXCEPT ![p] = [bill |-> b, count |-> c, late |-> "no", sent |-> "no"]]
    BY <2>1, <2>3, <2>4, <2>5
  <2>7. firing' \in [Schedulers -> Firings]
    <3>1. [bill |-> b, count |-> c, late |-> "no", sent |-> "no"] \in Firings
      BY DEF Firings
    <3> QED
      BY <2>6, <3>1 DEF WorkTyped
  <2>8. \A q \in Schedulers : /\ firing'[q] = NotFiring \/ firing'[q].bill \in 1..n
                              /\ firing'[q].count < ReminderMaxPerBill
    BY <2>6 DEF WorkTyped
  <2>9. due' \in [Schedulers -> SUBSET ((1..n) \X Tiers)]
    BY <2>1 DEF WorkTyped
  <2>10. stale' \subseteq 1..n
    BY <2>1, <2>2 DEF WorkTyped
  <2> QED
    BY <1>7, <2>7, <2>8, <2>9, <2>10 DEF FireReminder, WorkTyped
<1>8. ASSUME NEW p \in Schedulers, ReminderFails(p)
      PROVE  WorkTyped(n)' /\ UNCHANGED bills
  <2>1. due' \in [Schedulers -> SUBSET ((1..n) \X Tiers)]
    BY <1>8 DEF ReminderFails, WorkTyped
  <2>2. /\ firing' \in [Schedulers -> Firings]
        /\ \A q \in Schedulers : firing'[q] \in {firing[q], NotFiring}
    BY <1>8 DEF ReminderFails, WorkTyped
  <2>3. \A q \in Schedulers : /\ firing'[q] = NotFiring \/ firing'[q].bill \in 1..n
                              /\ firing'[q].count < ReminderMaxPerBill
    BY <2>2 DEF WorkTyped, ReminderMaxPerBill
  <2>4. billFaults' \in 0..MaxBillFaults
    BY <1>8 DEF ReminderFails, BillFault, WorkTyped
  <2>5. uncounted' \in [Ids -> Nat]
    BY <1>8 DEF ReminderFails, WorkTyped
  <2> QED
    BY <1>8, <2>1, <2>2, <2>3, <2>4, <2>5 DEF ReminderFails, WorkTyped
<1>9. ASSUME NEW p \in Schedulers, Remind(p)
      PROVE  WorkTyped(n)' /\ UNCHANGED bills
  <2>1. reminded' \in [Ids -> Nat]
    <3>1. PICK b : b = firing[p].bill
      OBVIOUS
    <3>2. reminded' = [reminded EXCEPT ![b] = reminded[b] + 1] /\ reminded \in [Ids -> Nat]
      BY <1>9, <3>1 DEF Remind, WorkTyped
    <3>3. ASSUME NEW c \in Ids
          PROVE  reminded'[c] \in Nat
      BY <3>2
    <3> QED
      BY <3>2, <3>3
  <2>2. ASSUME NEW q \in Schedulers
        PROVE  /\ firing'[q] = NotFiring \/ firing'[q].bill \in 1..n
               /\ firing'[q].count < ReminderMaxPerBill
    <3>1. /\ firing[q] = NotFiring \/ firing[q].bill \in 1..n
          /\ firing[q].count < ReminderMaxPerBill
      BY Zenon DEF WorkTyped
    <3>2. CASE q = p
      BY <1>9, <3>1, <3>2, Sends
    <3>3. CASE q # p
      BY <1>9, <3>1, <3>3, Sends
    <3> QED
      BY <3>2, <3>3
  <2> QED
    BY <1>9, <2>1, <2>2, Sends DEF Remind, WorkTyped
<1> QED
  BY <1>1, <1>2, <1>3, <1>4, <1>5, <1>6, <1>7, <1>8, <1>9 DEF Rowless

\* More bills leave the types of the rest alone.
LEMMA MoreBills ==
  ASSUME NEW n \in Nat, NEW m \in Nat, n <= m, WorkTyped(n)
  PROVE  WorkTyped(m)
<1>1. 1..n \subseteq 1..m
  OBVIOUS
<1>2. (1..n) \X Tiers \subseteq (1..m) \X Tiers
  BY <1>1
<1> QED
  BY <1>1, <1>2 DEF WorkTyped

LEMMA BillsTypesKept ==
  ASSUME BillRows, WorkTyped(Len(bills)), [BillsNext]_billVars
  PROVE  BillRows' /\ WorkTyped(Len(bills))'
<1> USE MailBounds, AtRest
<1>0. PICK n \in Nat : /\ n = Len(bills) /\ Stored = 1..n /\ WorkTyped(n)
                      /\ \A b \in Stored : bills[b] \in Row
  BY StoredIds
<1>1. CASE UNCHANGED billVars
  BY <1>1 DEF BillRows, WorkTyped, Stored, billVars
<1>2. CASE Rowless
  <2>1. WorkTyped(n)' /\ UNCHANGED bills
    BY <1>0, <1>2, WorkKept
  <2> QED
    BY <1>0, <2>1 DEF BillRows, Stored
<1>3. ASSUME NEW s \in Scans, Insert(s)
      PROVE  BillRows' /\ WorkTyped(Len(bills))'
  <2>1. BillRows' /\ Len(bills') = n + 1
    BY <1>0, <1>3, Inserted DEF WorkTyped
  <2>2. WorkTyped(n + 1)
    BY <1>0, MoreBills
  <2>3. PICK new : /\ intake' = [intake EXCEPT ![s] = new]
                   /\ \/ new = [at |-> "schedule", parent |-> n + 1, key |-> "none"]
                      \/ new = Quiet
    BY <1>0, <1>3 DEF Insert
  <2>4. /\ new \in [at : {"away", "insert", "schedule"}, parent : Nat, key : Keys]
        /\ new.at = "schedule" => new.parent \in 1..(n + 1)
    BY <2>3 DEF Keys
  <2>5. /\ intake' \in [Scans -> [at : {"away", "insert", "schedule"}, parent : Nat, key : Keys]]
        /\ \A t \in Scans : intake'[t].at = "schedule" => intake'[t].parent \in 1..(n + 1)
    BY <2>2, <2>3, <2>4 DEF WorkTyped
  <2>6. WorkTyped(n + 1)'
    BY <1>3, <2>2, <2>5 DEF Insert, WorkTyped
  <2> QED
    BY <2>1, <2>6
<1>4. ASSUME NEW b \in Stored, MarkPaid(b)
      PROVE  BillRows' /\ WorkTyped(Len(bills))'
  <2>1. BillRows' /\ Len(bills') = n
    BY <1>0, <1>4, Paid
  <2>2. firing' \in [Schedulers -> Firings]
    BY <1>0, <1>4 DEF MarkPaid, WorkTyped, Firings
  <2>5. ASSUME NEW p \in Schedulers
        PROVE  /\ firing'[p].bill = firing[p].bill
               /\ firing'[p].count = firing[p].count
               /\ firing[p].bill # b => firing'[p] = firing[p]
    <3>1. firing[p] \in Firings
      BY <1>0 DEF WorkTyped
    <3>2. firing'[p] = [firing[p] EXCEPT !.late = IF firing[p].bill = b THEN "yes" ELSE @]
      BY <1>4 DEF MarkPaid
    <3> QED
      BY <3>1, <3>2 DEF Firings
  <2>3. \A p \in Schedulers : /\ firing'[p] = NotFiring \/ firing'[p].bill \in 1..n
                              /\ firing'[p].count < ReminderMaxPerBill
    <3>1. b # 0
      BY <1>0
    <3>2. ASSUME NEW p \in Schedulers
          PROVE  firing'[p] = NotFiring \/ firing'[p].bill \in 1..n
      <4>0. firing'[p].bill = firing[p].bill /\ (firing[p].bill # b => firing'[p] = firing[p])
        BY <2>5
      <4>1. CASE firing[p] = NotFiring
        <5>1. firing[p].bill # b
          BY <3>1, <4>1
        <5> QED
          BY <4>0, <4>1, <5>1
      <4>2. CASE firing[p].bill \in 1..n
        BY <4>0, <4>2
      <4> QED
        BY <1>0, <4>1, <4>2 DEF WorkTyped
    <3>3. ASSUME NEW p \in Schedulers
          PROVE  firing'[p].count < ReminderMaxPerBill
      <4>1. firing'[p].count = firing[p].count
        BY <2>5
      <4>2. firing[p].count < ReminderMaxPerBill
        BY <1>0 DEF WorkTyped
      <4> QED
        BY <4>1, <4>2
    <3> QED
      BY <3>2, <3>3
  <2>4. WorkTyped(n)'
    BY <1>0, <1>4, <2>2, <2>3 DEF MarkPaid, WorkTyped
  <2> QED
    BY <2>1, <2>4
<1>5. ASSUME NEW p \in Schedulers, CountReminder(p)
      PROVE  BillRows' /\ WorkTyped(Len(bills))'
  <2>1. /\ firing[p].bill \in Stored /\ firing[p].count \in Nat
        /\ firing[p].count < ReminderMaxPerBill
    BY <1>0, <1>5, Counts
  <2>2. BillRows' /\ Len(bills') = n
    BY <1>0, <1>5, <2>1, ReminderCounted
  <2>3. ASSUME NEW q \in Schedulers
        PROVE  /\ firing'[q] = NotFiring \/ firing'[q].bill \in 1..n
               /\ firing'[q].count < ReminderMaxPerBill
    <3>1. /\ firing[q] = NotFiring \/ firing[q].bill \in 1..n
          /\ firing[q].count < ReminderMaxPerBill
      BY <1>0 DEF WorkTyped
    <3>2. CASE q = p
      BY <1>0, <1>5, <3>2, Counts DEF ReminderMaxPerBill
    <3>3. CASE q # p
      BY <1>0, <1>5, <3>1, <3>3, Counts
    <3> QED
      BY <3>2, <3>3
  <2>4. WorkTyped(n)'
    BY <1>0, <1>5, <2>3, Counts DEF CountReminder, WorkTyped
  <2> QED
    BY <2>2, <2>4
<1> QED
  BY <1>1, <1>2, <1>3, <1>4, <1>5 DEF BillsNext, Rowless

\* One head, on which the others hang, also those about to be stored.
SeriesLinked ==
  /\ \A h, k \in Heads : h = k
  /\ \A b \in Stored : bills[b].key = "series" => bills[b].parent = 0 \/ bills[b].parent \in Heads
  /\ \A s \in Scans : intake[s].at = "insert" /\ intake[s].parent # 0 => intake[s].parent \in Heads

\* A reminder of the bill is sent and not yet counted.
Out(b) == \E p \in Schedulers : firing[p].bill = b /\ firing[p].sent = "yes"

\* What another bill's reminder does leaves it alone.
LEMMA OutElsewhere ==
  ASSUME NEW p \in Schedulers, NEW b, firing[p].bill # b, firing'[p].bill # b,
         \A q \in Schedulers \ {p} : firing'[q] = firing[q]
  PROVE  Out(b)' <=> Out(b)
<1>1. ASSUME NEW q \in Schedulers
      PROVE  firing'[q].bill = b /\ firing'[q].sent = "yes" <=>
             firing[q].bill = b /\ firing[q].sent = "yes"
  <2>1. CASE q = p
    BY <2>1
  <2>2. CASE q # p
    BY <2>2
  <2> QED
    BY <2>1, <2>2
<1> QED
  BY <1>1 DEF Out

\* Of a bill nobody fired twice at once as many reminders were sent as it counts,
\* a fault lost and one has in hand; and who reminds of it has read its count.
CountedRight ==
  \A b \in Ids \ stale :
    /\ b \in Stored /\ ~Out(b) => reminded[b] = bills[b].count + uncounted[b]
    /\ b \in Stored /\ Out(b) => reminded[b] = bills[b].count + uncounted[b] + 1
    /\ b \notin Stored => reminded[b] = 0 /\ uncounted[b] = 0
    /\ \A p \in Schedulers : firing[p].bill = b => firing[p].count = bills[b].count
    /\ \A p, q \in Schedulers : firing[p].bill = b /\ firing[q].bill = b => p = q

\* Who still reminds of a paid bill has begun before it was paid.
LateIsMarked ==
  \A p \in Schedulers :
    firing[p].bill \in Stored /\ bills[firing[p].bill].status = "paid" => firing[p].late = "yes"

BillsInv == BillRows /\ WorkTyped(Len(bills)) /\ SeriesLinked /\ CountedRight /\ LateIsMarked

LEMMA SeriesKept ==
  ASSUME BillRows, WorkTyped(Len(bills)), SeriesLinked, [BillsNext]_billVars
  PROVE  SeriesLinked'
<1>0. /\ Len(bills) \in Nat /\ Stored = 1..Len(bills) /\ 0 \notin Stored
      /\ \A b \in Stored : bills[b] \in Row
  BY StoredIds
<1>1. ASSUME UNCHANGED << bills, intake >>
      PROVE  SeriesLinked'
  BY <1>1 DEF SeriesLinked, Heads, Stored
<1>2. ASSUME UNCHANGED bills,
             \A s \in Scans : intake'[s].at = "insert" /\ intake'[s].parent # 0 =>
                              intake'[s].parent \in Heads
      PROVE  SeriesLinked'
  BY <1>2 DEF SeriesLinked, Heads, Stored
<1>3. ASSUME Stored' = Stored, UNCHANGED intake,
             \A b \in Stored : bills'[b].key = bills[b].key /\ bills'[b].parent = bills[b].parent
      PROVE  SeriesLinked'
  <2>1. Heads' = Heads
    BY <1>3 DEF Heads
  <2> QED
    BY <1>3, <2>1 DEF SeriesLinked
<1>4. ASSUME NEW s \in Scans, ReadParent(s)
      PROVE  SeriesLinked'
  <2>1. PICK key \in Keys, parent \in Heads \cup {0} :
          intake' = [intake EXCEPT ![s] = [at |-> "insert", parent |-> parent, key |-> key]]
    BY <1>4 DEF ReadParent
  <2>2. \A t \in Scans : intake'[t].at = "insert" /\ intake'[t].parent # 0 =>
                         intake'[t].parent \in Heads
    BY <2>1 DEF SeriesLinked, WorkTyped
  <2> QED
    BY <1>2, <1>4, <2>2 DEF ReadParent
<1>5. ASSUME NEW s \in Scans, InsertFails(s) \/ ScheduleBillReminders(s)
      PROVE  SeriesLinked'
  <2>1. \A t \in Scans : intake'[t].at = "insert" /\ intake'[t].parent # 0 =>
                         intake'[t].parent \in Heads
    BY <1>5, AtRest DEF InsertFails, ScheduleBillReminders, SeriesLinked, WorkTyped
  <2> QED
    BY <1>2, <1>5, <2>1 DEF InsertFails, ScheduleBillReminders
<1>6. ASSUME NEW s \in Scans, Insert(s)
      PROVE  SeriesLinked'
  <2>1. /\ BillRows' /\ Len(bills') = Len(bills) + 1
        /\ \A b \in Stored : bills'[b] = bills[b]
        /\ bills'[Len(bills) + 1].key = intake[s].key
        /\ bills'[Len(bills) + 1].parent = intake[s].parent
    BY <1>6, Inserted DEF WorkTyped
  <2>2. Stored' = Stored \cup {Len(bills) + 1} /\ Len(bills) + 1 \notin Stored
    <3>1. Stored' = 1..Len(bills')
      BY <2>1 DEF BillRows, Stored
    <3> QED
      BY <1>0, <2>1, <3>1
  <2>3. /\ intake[s].at = "insert"
        /\ intake[s].key = "series" /\ intake[s].parent = 0 => Heads = {}
        /\ \A t \in Scans : intake'[t].at = "insert" => intake'[t] = intake[t]
    BY <1>6, AtRest DEF Insert, KeyFree, WorkTyped
  <2>4. Heads \subseteq Heads'
    BY <2>1, <2>2 DEF Heads
  <2>5. \A h \in Heads' : h \in Heads \/ (h = Len(bills) + 1 /\ Heads = {})
    BY <2>1, <2>2, <2>3 DEF Heads
  <2>6. \A b \in Stored' : bills'[b].key = "series" => bills'[b].parent = 0 \/ bills'[b].parent \in Heads'
    BY <2>1, <2>2, <2>3, <2>4 DEF SeriesLinked
  <2>7. \A h, k \in Heads' : h = k
    BY <2>5 DEF SeriesLinked
  <2>8. \A t \in Scans : intake'[t].at = "insert" /\ intake'[t].parent # 0 => intake'[t].parent \in Heads'
    BY <2>3, <2>4 DEF SeriesLinked
  <2> QED
    BY <2>6, <2>7, <2>8 DEF SeriesLinked
<1>7. ASSUME NEW b \in Stored, MarkPaid(b)
      PROVE  SeriesLinked'
  BY <1>3, <1>7, Paid DEF MarkPaid
<1>8. ASSUME NEW p \in Schedulers, CountReminder(p)
      PROVE  SeriesLinked'
  <2>1. /\ firing[p].bill \in Stored /\ firing[p].count \in Nat
        /\ firing[p].count < ReminderMaxPerBill
    BY <1>0, <1>8, Counts
  <2> QED
    BY <1>3, <1>8, <2>1, ReminderCounted DEF CountReminder
<1>9. CASE NextDay \/ Fetch \/ RemoveJobs \/ UNCHANGED billVars
  BY <1>1, <1>9 DEF NextDay, Fetch, RemoveJobs, billVars
<1>10. ASSUME NEW p \in Schedulers, FireReminder(p) \/ Remind(p) \/ ReminderFails(p)
       PROVE  SeriesLinked'
  BY <1>1, <1>10 DEF FireReminder, Remind, ReminderFails
<1> QED
  BY <1>4, <1>5, <1>6, <1>7, <1>8, <1>9, <1>10 DEF BillsNext

LEMMA CountKept ==
  ASSUME BillRows, WorkTyped(Len(bills)), CountedRight, [BillsNext]_billVars
  PROVE  CountedRight'
<1>0. /\ Len(bills) \in Nat /\ Stored = 1..Len(bills) /\ 0 \notin Stored /\ Stored \subseteq Ids
      /\ \A b \in Stored : bills[b] \in Row /\ bills[b].count \in Nat
      /\ DOMAIN firing = Schedulers /\ \A p \in Schedulers : firing[p].bill \in Stored \cup {0}
      /\ reminded \in [Ids -> Nat] /\ uncounted \in [Ids -> Nat] /\ 0 \notin Ids
  BY StoredIds, AtRest, MailBounds DEF WorkTyped, Row, Ids
<1>1. ASSUME UNCHANGED << bills, firing, reminded, uncounted, stale >>
      PROVE  CountedRight'
  BY <1>1 DEF CountedRight, Out, Stored
<1>2. ASSUME NEW s \in Scans, Insert(s)
      PROVE  CountedRight'
  <2>1. /\ BillRows' /\ Len(bills') = Len(bills) + 1
        /\ \A b \in Stored : bills'[b] = bills[b]
        /\ bills'[Len(bills) + 1].count = 0
    BY <1>2, Inserted DEF WorkTyped
  <2>2. Stored' = Stored \cup {Len(bills) + 1} /\ Len(bills) + 1 \notin Stored
    <3>1. Stored' = 1..Len(bills')
      BY <2>1 DEF BillRows, Stored
    <3> QED
      BY <1>0, <2>1, <3>1
  <2>3. UNCHANGED << firing, reminded, uncounted, stale >>
    BY <1>2 DEF Insert
  <2>4. ASSUME NEW b \in Ids, NEW p \in Schedulers, firing[p].bill = b
        PROVE  b \in Stored
    BY <1>0, <2>4
  <2>5. \A b \in Ids : (Out(b)' <=> Out(b)) /\ (Out(b) => b \in Stored)
    BY <2>3, <2>4 DEF Out
  <2>6. ASSUME NEW b \in Ids \ stale
        PROVE  /\ b \in Stored' /\ ~Out(b) => reminded[b] = bills'[b].count + uncounted[b]
               /\ b \in Stored' /\ Out(b) => reminded[b] = bills'[b].count + uncounted[b] + 1
               /\ b \notin Stored' => reminded[b] = 0 /\ uncounted[b] = 0
    BY <2>1, <2>2, <2>5 DEF CountedRight
  <2>7. ASSUME NEW b \in Ids \ stale, NEW p \in Schedulers, firing[p].bill = b
        PROVE  /\ firing[p].count = bills'[b].count
               /\ \A q \in Schedulers : firing[q].bill = b => p = q
    BY <2>1, <2>4, <2>7 DEF CountedRight
  <2> QED
    BY <2>3, <2>5, <2>6, <2>7 DEF CountedRight
<1>3. ASSUME NEW c \in Stored, MarkPaid(c)
      PROVE  CountedRight'
  <2>1. Stored' = Stored /\ \A b \in Stored : bills'[b].count = bills[b].count
    BY <1>3, Paid
  <2>2. UNCHANGED << reminded, uncounted, stale >>
    BY <1>3 DEF MarkPaid
  <2>3. \A p \in Schedulers : /\ firing'[p].bill = firing[p].bill
                              /\ firing'[p].count = firing[p].count
                              /\ firing'[p].sent = firing[p].sent
    BY <1>3 DEF MarkPaid, WorkTyped, Firings
  <2>4. \A b \in Ids : (Out(b)' <=> Out(b))
    BY <2>3 DEF Out
  <2>5. ASSUME NEW b \in Ids \ stale, NEW p \in Schedulers, firing[p].bill = b
        PROVE  b \in Stored
    BY <1>0, <2>5
  <2> QED
    BY <2>1, <2>2, <2>3, <2>4, <2>5 DEF CountedRight
<1>4. ASSUME NEW p \in Schedulers, CountReminder(p)
      PROVE  CountedRight'
  <2>1. PICK c \in Stored : c = firing[p].bill
    BY <1>0, <1>4, Counts
  <2>2. /\ Stored' = Stored /\ bills'[c].count = firing[p].count + 1
        /\ \A b \in Stored \ {c} : bills'[b] = bills[b]
    BY <1>0, <1>4, <2>1, ReminderCounted, Counts
  <2>3. /\ firing'[p].bill = 0 /\ Out(c)
        /\ \A q \in Schedulers \ {p} : firing'[q] = firing[q]
        /\ UNCHANGED << reminded, uncounted, stale >>
    BY <1>0, <1>4, <2>1, Counts, AtRest DEF CountReminder, Out
  <2>4. ASSUME c \notin stale, NEW q \in Schedulers
        PROVE  firing'[q].bill # c
    <3>1. c # 0 /\ c \in Ids \ stale
      BY <1>0, <2>4
    <3>2. CASE q = p
      BY <2>3, <3>1, <3>2
    <3>3. CASE q # p
      <4>1. firing[q].bill # c
        BY <2>1, <3>1, <3>3 DEF CountedRight
      <4> QED
        BY <2>3, <3>3, <4>1
    <3> QED
      BY <3>2, <3>3
  <2>5. c \notin stale => ~Out(c)' /\ firing[p].count = bills[c].count
    BY <1>0, <2>1, <2>4 DEF Out, CountedRight
  <2>6. \A b \in Ids \ {c} : (Out(b)' <=> Out(b))
    <3>1. ASSUME NEW b \in Ids \ {c}
          PROVE  Out(b)' <=> Out(b)
      <4>1. firing[p].bill # b /\ firing'[p].bill # b
        BY <1>0, <2>1, <2>3
      <4> QED
        BY <2>3, <4>1, OutElsewhere
    <3> QED
      BY <3>1
  <2>7. ASSUME NEW b \in Ids \ stale
        PROVE  /\ b \in Stored /\ ~Out(b)' => reminded[b] = bills'[b].count + uncounted[b]
               /\ b \in Stored /\ Out(b)' => reminded[b] = bills'[b].count + uncounted[b] + 1
               /\ b \notin Stored => reminded[b] = 0 /\ uncounted[b] = 0
    <3>1. CASE b = c
      <4>1. reminded[c] = bills[c].count + uncounted[c] + 1 /\ bills[c].count \in Nat
        BY <1>0, <2>3, <2>7, <3>1 DEF CountedRight
      <4>2. bills'[c].count = bills[c].count + 1 /\ ~Out(c)' /\ uncounted[c] \in Nat
        BY <1>0, <2>2, <2>5, <2>7, <3>1
      <4> QED
        BY <3>1, <4>1, <4>2
    <3>2. CASE b # c
      BY <2>2, <2>6, <2>7, <3>2 DEF CountedRight
    <3> QED
      BY <3>1, <3>2
  <2>8. ASSUME NEW b \in Ids \ stale, NEW q \in Schedulers, firing'[q].bill = b
        PROVE  /\ firing'[q].count = bills'[b].count
               /\ \A r \in Schedulers : firing'[r].bill = b => q = r
    <3>1. q # p /\ firing[q].bill = b /\ b \in Stored /\ b # c
      BY <1>0, <2>3, <2>4, <2>8
    <3>2. firing'[q] = firing[q] /\ bills'[b] = bills[b] /\ firing[q].count = bills[b].count
      BY <2>2, <2>3, <3>1 DEF CountedRight
    <3>3. ASSUME NEW r \in Schedulers, firing'[r].bill = b
          PROVE  q = r
      <4>1. r # p
        BY <1>0, <2>3, <3>3
      <4>2. firing[r].bill = b
        BY <2>3, <3>3, <4>1
      <4> QED
        BY <3>1, <4>2 DEF CountedRight
    <3> QED
      BY <3>2, <3>3
  <2> QED
    BY <2>2, <2>3, <2>7, <2>8 DEF CountedRight
<1>5. ASSUME NEW p \in Schedulers, FireReminder(p)
      PROVE  CountedRight'
  <2>1. PICK j \in due[p] :
          /\ firing' = IF Wanted(j[1])
                       THEN [firing EXCEPT ![p] =
                               [bill |-> j[1], count |-> bills[j[1]].count,
                                late |-> "no", sent |-> "no"]]
                       ELSE firing
          /\ stale' = IF Wanted(j[1]) /\ \E q \in Schedulers : firing[q].bill = j[1]
                      THEN stale \cup {j[1]} ELSE stale
          /\ UNCHANGED << bills, reminded, uncounted >> /\ firing[p] = NotFiring
    BY <1>5 DEF FireReminder
  <2>2. PICK c \in Stored : c = j[1]
    BY <1>0, <2>1 DEF WorkTyped
  <2>3. CASE ~Wanted(c)
    BY <1>1, <2>1, <2>2, <2>3
  <2>4. CASE Wanted(c)
    <3>1. /\ firing'[p].bill = c /\ firing'[p].count = bills[c].count /\ firing'[p].sent = "no"
          /\ \A q \in Schedulers \ {p} : firing'[q] = firing[q]
      BY <1>0, <2>1, <2>2, <2>4
    <3>2. stale \subseteq stale' /\ (c \notin stale' => \A q \in Schedulers : firing[q].bill # c)
      BY <2>1, <2>2, <2>4
    <3>3. \A b \in Ids : (Out(b)' <=> Out(b))
      BY <2>1, <3>1, AtRest DEF Out
    <3> QED
      BY <2>1, <3>1, <3>2, <3>3 DEF CountedRight, Stored
  <2> QED
    BY <2>3, <2>4
<1>6. ASSUME NEW p \in Schedulers, ReminderFails(p)
      PROVE  CountedRight'
  <2>1. /\ UNCHANGED << bills, reminded, stale >>
        /\ firing'[p].bill = 0 /\ \A q \in Schedulers \ {p} : firing'[q] = firing[q]
        /\ firing[p].bill # 0
    BY <1>0, <1>6, AtRest DEF ReminderFails
  <2>2. PICK c \in Stored : c = firing[p].bill
    BY <1>0, <2>1
  <2>3. /\ \A b \in Ids \ {c} : uncounted'[b] = uncounted[b] /\ (Out(b)' <=> Out(b))
        /\ uncounted'[c] = IF firing[p].sent = "yes" THEN uncounted[c] + 1 ELSE uncounted[c]
    <3>1. \A b \in Ids \ {c} : (Out(b)' <=> Out(b))
      <4>1. ASSUME NEW b \in Ids \ {c}
            PROVE  Out(b)' <=> Out(b)
        <5>1. firing[p].bill # b /\ firing'[p].bill # b
          BY <1>0, <2>1, <2>2
        <5> QED
          BY <2>1, <5>1, OutElsewhere
      <4> QED
        BY <4>1
    <3>2. uncounted' = IF firing[p].sent = "yes"
                       THEN [uncounted EXCEPT ![c] = @ + 1] ELSE uncounted
      BY <1>6, <2>2 DEF ReminderFails
    <3> QED
      BY <1>0, <3>1, <3>2
  <2>4. ASSUME c \notin stale
        PROVE  /\ \A q \in Schedulers : firing'[q].bill # c
               /\ Out(c) <=> firing[p].sent = "yes"
    BY <1>0, <2>1, <2>2, <2>4 DEF CountedRight, Out
  <2>5. c \notin stale => ~Out(c)'
    BY <2>4 DEF Out
  <2>6. ASSUME NEW b \in Ids \ stale
        PROVE  /\ b \in Stored /\ ~Out(b)' => reminded[b] = bills[b].count + uncounted'[b]
               /\ b \in Stored /\ Out(b)' => reminded[b] = bills[b].count + uncounted'[b] + 1
               /\ b \notin Stored => reminded[b] = 0 /\ uncounted'[b] = 0
    <3>1. CASE b = c
      <4>1. /\ bills[c].count \in Nat /\ uncounted[c] \in Nat /\ ~Out(c)'
            /\ Out(c) <=> firing[p].sent = "yes"
        BY <1>0, <2>4, <2>5, <2>6, <3>1
      <4>2. /\ Out(c) => reminded[c] = bills[c].count + uncounted[c] + 1
            /\ ~Out(c) => reminded[c] = bills[c].count + uncounted[c]
        BY <2>6, <3>1 DEF CountedRight
      <4> QED
        BY <2>3, <3>1, <4>1, <4>2
    <3>2. CASE b # c
      BY <2>3, <2>6, <3>2 DEF CountedRight
    <3> QED
      BY <3>1, <3>2
  <2>7. ASSUME NEW b \in Ids \ stale, NEW q \in Schedulers, firing'[q].bill = b
        PROVE  /\ firing'[q].count = bills[b].count
               /\ \A r \in Schedulers : firing'[r].bill = b => q = r
    <3>1. q # p /\ firing[q].bill = b
      BY <1>0, <2>1, <2>7
    <3>2. firing'[q] = firing[q] /\ firing[q].count = bills[b].count
      BY <2>1, <3>1 DEF CountedRight
    <3>3. ASSUME NEW r \in Schedulers, firing'[r].bill = b
          PROVE  q = r
      <4>1. r # p
        BY <1>0, <2>1, <3>3
      <4>2. firing[r].bill = b
        BY <2>1, <3>3, <4>1
      <4> QED
        BY <3>1, <4>2 DEF CountedRight
    <3> QED
      BY <3>2, <3>3
  <2>8. Stored' = Stored
    BY <2>1 DEF Stored
  <2> QED
    BY <2>1, <2>6, <2>7, <2>8 DEF CountedRight
<1>7. CASE NextDay \/ Fetch \/ RemoveJobs \/ UNCHANGED billVars
  BY <1>1, <1>7 DEF NextDay, Fetch, RemoveJobs, billVars
<1>8. ASSUME NEW s \in Scans, ReadParent(s) \/ InsertFails(s) \/ ScheduleBillReminders(s)
      PROVE  CountedRight'
  BY <1>1, <1>8 DEF ReadParent, InsertFails, ScheduleBillReminders
<1>9. ASSUME NEW p \in Schedulers, Remind(p)
      PROVE  CountedRight'
  <2>1. PICK c \in Stored : c = firing[p].bill
    BY <1>0, <1>9, Sends
  <2>2. /\ firing[p].sent = "no" /\ firing'[p].sent = "yes" /\ firing'[p].bill = c
        /\ \A q \in Schedulers \ {p} : firing'[q] = firing[q]
        /\ \A q \in Schedulers : firing'[q].bill = firing[q].bill /\ firing'[q].count = firing[q].count
    BY <1>0, <1>9, <2>1, Sends
  <2>3. /\ UNCHANGED << bills, uncounted, stale >> /\ Stored' = Stored
        /\ reminded'[c] = reminded[c] + 1
        /\ \A b \in Ids \ {c} : reminded'[b] = reminded[b]
    BY <1>0, <1>9, <2>1 DEF Remind, Stored
  <2>4. Out(c)' /\ \A b \in Ids \ {c} : (Out(b)' <=> Out(b))
    BY <1>0, <2>1, <2>2 DEF Out
  <2>5. c \notin stale => ~Out(c)
    BY <1>0, <2>1, <2>2 DEF CountedRight, Out
  <2>6. ASSUME NEW b \in Ids \ stale
        PROVE  /\ b \in Stored /\ ~Out(b)' => reminded'[b] = bills[b].count + uncounted[b]
               /\ b \in Stored /\ Out(b)' => reminded'[b] = bills[b].count + uncounted[b] + 1
               /\ b \notin Stored => reminded'[b] = 0 /\ uncounted[b] = 0
    <3>1. CASE b = c
      BY <1>0, <2>3, <2>4, <2>5, <2>6, <3>1 DEF CountedRight
    <3>2. CASE b # c
      BY <2>3, <2>4, <2>6, <3>2 DEF CountedRight
    <3> QED
      BY <3>1, <3>2
  <2> QED
    BY <2>2, <2>3, <2>6 DEF CountedRight
<1> QED
  BY <1>2, <1>3, <1>4, <1>5, <1>6, <1>7, <1>8, <1>9 DEF BillsNext

LEMMA LateKept ==
  ASSUME BillRows, WorkTyped(Len(bills)), LateIsMarked, [BillsNext]_billVars
  PROVE  LateIsMarked'
<1>0. /\ Len(bills) \in Nat /\ Stored = 1..Len(bills) /\ 0 \notin Stored
      /\ \A b \in Stored : bills[b] \in Row
      /\ DOMAIN firing = Schedulers /\ \A p \in Schedulers : firing[p].bill \in Stored \cup {0}
  BY StoredIds, AtRest DEF WorkTyped
<1>1. ASSUME UNCHANGED << bills, firing >>
      PROVE  LateIsMarked'
  BY <1>1 DEF LateIsMarked, Stored
<1>2. ASSUME NEW s \in Scans, Insert(s)
      PROVE  LateIsMarked'
  <2>1. \A b \in Stored : bills'[b] = bills[b]
    BY <1>2, Inserted DEF WorkTyped
  <2>2. Len(bills') = Len(bills) + 1 /\ BillRows'
    BY <1>2, Inserted DEF WorkTyped
  <2>3. 0 \notin Stored'
    BY <2>2 DEF BillRows, Stored
  <2>4. UNCHANGED firing
    BY <1>2 DEF Insert
  <2> QED
    BY <1>0, <2>1, <2>3, <2>4 DEF LateIsMarked
<1>3. ASSUME NEW b \in Stored, MarkPaid(b)
      PROVE  LateIsMarked'
  <2>1. Stored' = Stored /\ \A c \in Stored \ {b} : bills'[c] = bills[c]
    BY <1>3, Paid
  <2>2. ASSUME NEW p \in Schedulers, firing'[p].bill \in Stored,
               bills'[firing'[p].bill].status = "paid"
        PROVE  firing'[p].late = "yes"
    <3>1. firing[p] \in Firings
      BY DEF WorkTyped
    <3>2. firing'[p] = [firing[p] EXCEPT !.late = IF firing[p].bill = b THEN "yes" ELSE @]
      BY <1>3 DEF MarkPaid
    <3>3. /\ firing'[p].bill = firing[p].bill
          /\ firing'[p].late = IF firing[p].bill = b THEN "yes" ELSE firing[p].late
      BY <3>1, <3>2 DEF Firings
    <3> QED
      BY <2>1, <2>2, <3>3 DEF LateIsMarked
  <2> QED
    BY <2>1, <2>2 DEF LateIsMarked
<1>4. ASSUME NEW p \in Schedulers, CountReminder(p)
      PROVE  LateIsMarked'
  <2>1. Stored' = Stored /\ \A b \in Stored : bills'[b].status = bills[b].status
    BY <1>0, <1>4, ReminderCounted, Counts
  <2>2. /\ firing'[p].bill = 0
        /\ \A q \in Schedulers \ {p} : firing'[q] = firing[q]
    BY <1>0, <1>4, AtRest, Counts
  <2> QED
    BY <1>0, <2>1, <2>2 DEF LateIsMarked
<1>9. ASSUME NEW p \in Schedulers, Remind(p)
      PROVE  LateIsMarked'
  <2>1. \A q \in Schedulers : firing'[q].bill = firing[q].bill /\ firing'[q].late = firing[q].late
    BY <1>0, <1>9, Sends
  <2>2. UNCHANGED bills
    BY <1>9 DEF Remind
  <2> QED
    BY <2>1, <2>2 DEF LateIsMarked, Stored
<1>5. ASSUME NEW p \in Schedulers, FireReminder(p)
      PROVE  LateIsMarked'
  <2>1. PICK j \in due[p] :
          /\ firing' = IF Wanted(j[1])
                       THEN [firing EXCEPT ![p] =
                               [bill |-> j[1], count |-> bills[j[1]].count,
                                late |-> "no", sent |-> "no"]]
                       ELSE firing
          /\ UNCHANGED bills
    BY <1>5 DEF FireReminder
  <2>2. CASE ~Wanted(j[1])
    BY <1>1, <2>1, <2>2
  <2>3. CASE Wanted(j[1])
    <3>1. /\ firing'[p].bill = j[1] /\ bills[j[1]].status # "paid"
          /\ \A q \in Schedulers \ {p} : firing'[q] = firing[q]
      BY <1>0, <2>1, <2>3 DEF Wanted
    <3> QED
      BY <2>1, <3>1 DEF LateIsMarked, Stored
  <2> QED
    BY <2>2, <2>3
<1>6. ASSUME NEW p \in Schedulers, ReminderFails(p)
      PROVE  LateIsMarked'
  <2>1. /\ UNCHANGED bills
        /\ \A q \in Schedulers : firing'[q] = firing[q] \/ firing'[q].bill = 0
    BY <1>0, <1>6, AtRest DEF ReminderFails
  <2> QED
    BY <1>0, <2>1 DEF LateIsMarked, Stored
<1>7. CASE NextDay \/ Fetch \/ RemoveJobs \/ UNCHANGED billVars
  BY <1>1, <1>7 DEF NextDay, Fetch, RemoveJobs, billVars
<1>8. ASSUME NEW s \in Scans, ReadParent(s) \/ InsertFails(s) \/ ScheduleBillReminders(s)
      PROVE  LateIsMarked'
  BY <1>1, <1>8 DEF ReadParent, InsertFails, ScheduleBillReminders
<1> QED
  BY <1>2, <1>3, <1>4, <1>5, <1>6, <1>7, <1>8, <1>9 DEF BillsNext

LEMMA BillsInitially == BillsInit => BillsInv
<1> SUFFICES ASSUME BillsInit PROVE BillsInv
  OBVIOUS
<1>1. bills = << >> /\ Stored = {} /\ Len(bills) = 0
  BY DEF BillsInit, Stored
<1>2. BillRows
  BY <1>1, MailBounds DEF BillRows
<1>3. WorkTyped(0)
  BY AtRest, MailBounds DEF BillsInit, WorkTyped, ReminderMaxPerBill
<1>4. SeriesLinked
  BY <1>1, AtRest DEF BillsInit, SeriesLinked, Heads
<1>5. CountedRight
  BY <1>1, AtRest, MailBounds DEF BillsInit, CountedRight, Ids
<1>6. LateIsMarked
  BY <1>1 DEF LateIsMarked
<1> QED
  BY <1>1, <1>2, <1>3, <1>4, <1>5, <1>6 DEF BillsInv

LEMMA BillsInvariance == Spec => []BillsInv
<1>1. BillsInv /\ [Next]_vars => BillsInv'
  <2> SUFFICES ASSUME BillsInv, [Next]_vars PROVE BillsInv'
    OBVIOUS
  <2>1. [BillsNext]_billVars
    BY DEF Next, vars
  <2> QED
    BY <2>1, BillsTypesKept, SeriesKept, CountKept, LateKept DEF BillsInv
<1>2. Init => BillsInv
  BY BillsInitially DEF Init
<1> QED
  BY <1>1, <1>2, PTL DEF Spec

-----------------------------------------------------------------------------
(***************************************************************************)
(* The theorems.                                                           *)
(***************************************************************************)
\* The rows, jobs and operations of both parts keep their types.
THEOREM MailTypesCorrect == Spec => [](ConnectionTypeOK /\ BillsTypeOK)
<1>1. ConnectionInv /\ BillsInv => ConnectionTypeOK /\ BillsTypeOK
  BY BillsTypes DEF ConnectionInv, BillsInv
<1> QED
  BY ConnectionInvariance, BillsInvariance, <1>1, PTL

\* However many requests and scans of a connection overlap: an active one has
\* its job or is about to get it, but for a crash or a removal begun before
\* (oauth_callback, delete_credential, handle_invalid_grant).
THEOREM ActiveStaysPolled == Spec => []ActiveIsPolled
<1>1. ConnectionInv => ActiveIsPolled
  BY DEF ConnectionInv
<1> QED
  BY ConnectionInvariance, <1>1, PTL

\* Nothing but an outage or the failure of an older grant revokes a connection
\* Google honours (handle_invalid_grant).
THEOREM RevocationHasCause == Spec => RevokedForCause
<1> DEFINE Turns == cred'.status = "revoked" /\ cred.status # "revoked" /\ cred.grant \in live
           Cause == \E u \in Users :
                      /\ user'[u] # user[u]
                      /\ At(u, "unanswered") \/ (At(u, "refused") /\ user[u].grant # cred.grant)
<1>1. ConnectionInv /\ [Next]_vars => [Turns => Cause]_connectionVars
  <2> SUFFICES ASSUME ConnectionInv, ConnectionNext, Turns PROVE Cause
    BY DEF Next, vars
  <2>1. RowsTyped
    BY ConnectionTypes DEF ConnectionInv
  <2>2. PICK u \in Users : HandleInvalidGrant(u)
    BY <2>1 DEF ConnectionNext, RevokeAtGoogle, CacheExpires, Work, Connect, UpdateCredential,
       DeleteCredential, GetAccessToken, Outage, Dies, ScheduleGmailScan, RemoveJob,
       Refreshed, CallGmail, RowsTyped
  <2>3. user'[u].at = "remove" /\ user[u].at \in {"refused", "unanswered"}
    BY <2>1, <2>2 DEF HandleInvalidGrant, To, RowsTyped
  <2>4. user[u].at = "refused" => user[u].grant # cred.grant
    BY DEF ConnectionInv, RefusedIsDead
  <2> QED
    BY <2>3, <2>4 DEF At
<1>2. Spec => [][Turns => Cause]_connectionVars
  BY ConnectionInvariance, <1>1, PTL DEF Spec
<1> QED
  BY <1>2 DEF RevokedForCause

\* However many scans store bills of the series at once, one is its head and
\* the others hang on it (detect_recurrence under ux_bills_recurrence_key).
THEOREM OneHead == Spec => []OneHeadPerSeries
<1>1. BillsInv => OneHeadPerSeries
  <2> SUFFICES ASSUME BillsInv PROVE OneHeadPerSeries
    OBVIOUS
  <2>1. Cardinality(Heads) <= 1
    <3>1. CASE Heads = {}
      BY <3>1, FS_EmptySet
    <3>2. ASSUME NEW h \in Heads
          PROVE  Cardinality(Heads) <= 1
      <4>1. Heads = {h}
        BY DEF BillsInv, SeriesLinked
      <4>2. Cardinality({h}) = 1
        BY FS_Singleton
      <4> QED
        BY <4>1, <4>2
    <3> QED
      BY <3>1, <3>2
  <2>2. \A b \in Stored : bills[b].key = "series" => b \in Heads \/ bills[b].parent \in Heads
    BY DEF BillsInv, SeriesLinked, Heads
  <2> QED
    BY <2>1, <2>2 DEF OneHeadPerSeries
<1> QED
  BY BillsInvariance, <1>1, PTL

\* However many processes run the jobs of the store, no reminder of a paid bill
\* goes out but one begun before the payment, and none above the maximum but for
\* those whose count a fault lost and for a bill two processes had in hand
\* (fire_reminder, mark_paid).
THEOREM RemindersStayDue == Spec => RemindersAreDue
<1> DEFINE Goes(b) == reminded'[b] # reminded[b]
           Due(b)  == /\ bills[b].status = "paid" =>
                           \E p \in Schedulers : firing[p].bill = b /\ firing[p].late = "yes"
                      /\ reminded[b] < ReminderMaxPerBill + uncounted[b] \/ b \in stale
           AllDue  == \A b \in Stored : Goes(b) => Due(b)
<1>1. BillsInv /\ [Next]_vars => [AllDue]_billVars
  <2> SUFFICES ASSUME BillsInv, BillsNext, NEW b \in Stored, Goes(b) PROVE Due(b)
    BY DEF Next, vars
  <2>1. PICK p \in Schedulers : Remind(p)
    BY DEF BillsNext, NextDay, Fetch, RemoveJobs, ReadParent, Insert, InsertFails,
       ScheduleBillReminders, FireReminder, CountReminder, ReminderFails, MarkPaid
  <2>2. firing[p].bill = b /\ firing[p].sent = "no"
    BY <2>1 DEF Remind
  <2>3. bills[b].status = "paid" => firing[p].late = "yes"
    BY <2>2 DEF BillsInv, LateIsMarked
  <2>4. ASSUME b \notin stale
        PROVE  reminded[b] < ReminderMaxPerBill + uncounted[b]
    <3>1. b \in Ids \ stale /\ b \in Stored /\ bills[b].count \in Nat
      BY <2>4, StoredIds DEF BillsInv, Row
    <3>2. ~Out(b) /\ firing[p].count = bills[b].count
      BY <2>2, <3>1 DEF BillsInv, CountedRight, Out
    <3>3. reminded[b] = bills[b].count + uncounted[b]
      BY <3>1, <3>2 DEF BillsInv, CountedRight
    <3>4. firing[p].count < ReminderMaxPerBill /\ uncounted[b] \in Nat
      BY <3>1 DEF BillsInv, WorkTyped
    <3> QED
      BY <3>1, <3>2, <3>3, <3>4 DEF ReminderMaxPerBill
  <2> QED
    BY <2>2, <2>3, <2>4
<1>2. Spec => [][AllDue]_billVars
  BY BillsInvariance, <1>1, PTL DEF Spec
<1> QED
  BY <1>2 DEF RemindersAreDue
-----------------------------------------------------------------------------
(***************************************************************************)
(* The scan of a mailbox.                                                  *)
(*                                                                         *)
(* The listings are left untyped at first: neither the lock nor the        *)
(* records depend on which messages a listing returns.                     *)
(***************************************************************************)
ScanFields == {"step", "from", "ids", "next", "fresh"}
ScanShape(s) == DOMAIN s = ScanFields

Shapes ==
  /\ DOMAIN scan = Scanners
  /\ \A p \in Scanners : ScanShape(scan[p])
  /\ records \in [Messages -> Nat]

Holds(p, m) == AtMessage(p, "logged") /\ Current(p) = m

\* Every record has its log row, the message in hand has the row and not yet
\* the record, and it is in one scanner's hand only.
RowBeforeRecord ==
  /\ \A m \in Messages : m \notin messageLog => records[m] = 0
  /\ \A p \in Scanners, m \in Messages :
       Holds(p, m) => m \in messageLog /\ records[m] = 0
  /\ \A p, q \in Scanners, m \in Messages : Holds(p, m) /\ Holds(q, m) => p = q

ScanInv == Shapes /\ FreshScanHoldsLock /\ OneRecordPerMessage /\ RowBeforeRecord

\* A step that takes no message in hand and writes no row and no record.
LEMMA QuietStep ==
  ASSUME Shapes, Shapes', OneRecordPerMessage, RowBeforeRecord,
         UNCHANGED << messageLog, records >>,
         \A p \in Scanners : scan'[p] = scan[p] \/ scan'[p].step # "logged"
  PROVE  OneRecordPerMessage' /\ RowBeforeRecord'
<1>1. \A p \in Scanners, m \in Messages : Holds(p, m)' => Holds(p, m)
  BY DEF Holds, AtMessage, Current
<1> QED
  BY <1>1 DEF OneRecordPerMessage, RowBeforeRecord

\* A scanner that moves on to the next message has nothing in hand.
LEMMA MovesOn ==
  ASSUME Shapes, NEW p \in Scanners, NextMessage(p)
  PROVE  /\ DOMAIN scan' = Scanners
         /\ \A q \in Scanners : ScanShape(scan'[q])
         /\ \A q \in Scanners \ {p} : scan'[q] = scan[q]
         /\ scan'[p].step = "working"
         /\ scan'[p].fresh = scan[p].fresh
  BY DEF Shapes, ScanShape, ScanFields, NextMessage

\* A scanner that reads a listing has nothing in hand yet.
LEMMA Lists ==
  ASSUME Shapes, NEW p \in Scanners, ListHistory(p) \/ ListMailbox(p)
  PROVE  /\ Shapes'
         /\ UNCHANGED << lock, messageLog, records >>
         /\ \A q \in Scanners \ {p} : scan'[q] = scan[q]
         /\ scan'[p].step # "logged"
         /\ scan'[p].fresh = scan[p].fresh
<1>1. ASSUME NEW step, NEW ids, NEW next, Listed(p, step, ids, next), step # "logged"
      PROVE  /\ Shapes'
             /\ UNCHANGED << lock, messageLog, records >>
             /\ \A q \in Scanners \ {p} : scan'[q] = scan[q]
             /\ scan'[p].step # "logged"
             /\ scan'[p].fresh = scan[p].fresh
  BY <1>1 DEF Listed, Shapes, ScanShape, ScanFields
<1>2. CASE ListHistory(p)
  BY <1>1, <1>2 DEF ListHistory
<1>3. CASE ListMailbox(p)
  BY <1>1, <1>3 DEF ListMailbox
<1> QED
  BY <1>2, <1>3

\* Nobody scans yet, and there is no record.
LEMMA InitEstablishes == MailInit => ScanInv
  BY DEF MailInit, ScanInv, Shapes, ScanShape, ScanFields, FreshScanHoldsLock, NoScan,
         OneRecordPerMessage, RowBeforeRecord, Holds, AtMessage

\* The lock: only its holder starts fresh, only its holder frees it, and its
\* expiry ends the freshness of the scan that held it.
LEMMA LockStep ==
  Shapes /\ FreshScanHoldsLock /\ [MailNext]_mailVars => FreshScanHoldsLock'
<1> SUFFICES ASSUME Shapes, FreshScanHoldsLock, [MailNext]_mailVars
             PROVE  FreshScanHoldsLock'
  OBVIOUS
<1>1. CASE \/ Arrive \/ Prune \/ Reconnect \/ UNCHANGED mailVars
           \/ \E m \in Messages : Delete(m)
  BY <1>1 DEF Arrive, Prune, Reconnect, Delete, mailVars, FreshScanHoldsLock
<1>2. CASE Expire
  BY <1>2, ScannersAssumption
     DEF Expire, Scanning, NoScan, Shapes, ScanShape, ScanFields, FreshScanHoldsLock
<1>3. ASSUME NEW p \in Scanners, Start(p)
      PROVE  FreshScanHoldsLock'
  BY <1>3, ScannersAssumption
     DEF Start, NoScan, Shapes, ScanShape, ScanFields, FreshScanHoldsLock
<1>4. ASSUME NEW p \in Scanners, ListHistory(p) \/ ListMailbox(p) \/ GetProfile(p)
      PROVE  FreshScanHoldsLock'
  <2>1. CASE ListHistory(p) \/ ListMailbox(p)
    BY <2>1, Lists DEF FreshScanHoldsLock
  <2>2. CASE GetProfile(p)
    BY <2>2 DEF GetProfile, Shapes, ScanShape, ScanFields, FreshScanHoldsLock
  <2> QED
    BY <1>4, <2>1, <2>2
<1>5. ASSUME NEW p \in Scanners, IngestMessage(p) \/ Downstream(p)
      PROVE  FreshScanHoldsLock'
  <2>1. lock' = lock
    BY <1>5 DEF IngestMessage, Downstream
  <2>2. CASE NextMessage(p)
    BY <2>1, <2>2, MovesOn DEF FreshScanHoldsLock
  <2>3. CASE scan' = [scan EXCEPT ![p].step = "logged"]
    BY <2>1, <2>3 DEF Shapes, ScanShape, ScanFields, FreshScanHoldsLock
  <2> QED
    BY <1>5, <2>2, <2>3 DEF IngestMessage, Downstream
<1>6. ASSUME NEW p \in Scanners, End(p)
      PROVE  FreshScanHoldsLock'
  BY <1>6, ScannersAssumption DEF End, Release, NoScan, Shapes, FreshScanHoldsLock
<1>7. ASSUME NEW p \in Scanners, Crash(p)
      PROVE  FreshScanHoldsLock'
  BY <1>7 DEF Crash, NoScan, Shapes, FreshScanHoldsLock
<1> QED
  BY <1>1, <1>2, <1>3, <1>4, <1>5, <1>6, <1>7
     DEF MailNext, Advance, Finish, MessageGone, CallFails, Abort

\* Every step keeps the fields of a scan and the domain of the records.
LEMMA ShapeStep == Shapes /\ [MailNext]_mailVars => Shapes'
<1> SUFFICES ASSUME Shapes, [MailNext]_mailVars
             PROVE  Shapes'
  OBVIOUS
<1>1. CASE \/ Arrive \/ Prune \/ Reconnect \/ UNCHANGED mailVars
           \/ \E m \in Messages : Delete(m)
  BY <1>1 DEF Arrive, Prune, Reconnect, Delete, mailVars, Shapes
<1>2. CASE Expire
  BY <1>2 DEF Expire, Shapes, ScanShape, ScanFields
<1>3. ASSUME NEW p \in Scanners, Start(p) \/ ListHistory(p) \/ ListMailbox(p) \/ GetProfile(p)
      PROVE  Shapes'
  <2>1. CASE ListHistory(p) \/ ListMailbox(p)
    BY <2>1, Lists
  <2>2. CASE Start(p) \/ GetProfile(p)
    BY <2>2 DEF Start, NoScan, GetProfile, Shapes, ScanShape, ScanFields
  <2> QED
    BY <1>3, <2>1, <2>2
<1>4. ASSUME NEW p \in Scanners, IngestMessage(p)
      PROVE  Shapes'
  BY <1>4, MovesOn DEF IngestMessage, Shapes, ScanShape, ScanFields
<1>5. ASSUME NEW p \in Scanners, Downstream(p)
      PROVE  Shapes'
  <2>1. records' \in [Messages -> Nat]
    BY <1>5 DEF Downstream, Shapes
  <2> QED
    BY <1>5, <2>1, MovesOn DEF Downstream, Shapes
<1>6. ASSUME NEW p \in Scanners, End(p) \/ Crash(p), UNCHANGED records
      PROVE  Shapes'
  BY <1>6 DEF End, Crash, NoScan, Shapes, ScanShape, ScanFields
<1> QED
  BY <1>1, <1>2, <1>3, <1>4, <1>5, <1>6
     DEF MailNext, Advance, Finish, MessageGone, CallFails, Abort, Crash

\* The unique key of the log lets one scanner take a message in hand, once;
\* its downstream makes the one record and lets go of it.
LEMMA RecordStep ==
  ASSUME Shapes, Shapes', OneRecordPerMessage, RowBeforeRecord, [MailNext]_mailVars
  PROVE  OneRecordPerMessage' /\ RowBeforeRecord'
<1>1. CASE \/ Arrive \/ Prune \/ Reconnect \/ UNCHANGED mailVars
           \/ \E m \in Messages : Delete(m)
  BY <1>1, QuietStep DEF Arrive, Prune, Reconnect, Delete, mailVars
<1>2. CASE Expire
  <2>1. CASE scan' = scan
    BY <1>2, <2>1, QuietStep DEF Expire
  <2>2. CASE scan' = [scan EXCEPT ![lock].fresh = FALSE]
    <3>1. \A p \in Scanners : scan'[p].step = scan[p].step /\ scan'[p].ids = scan[p].ids
      BY <2>2 DEF Shapes, ScanShape, ScanFields
    <3>2. \A p \in Scanners, m \in Messages : Holds(p, m)' <=> Holds(p, m)
      BY <3>1 DEF Holds, AtMessage, Current
    <3>3. UNCHANGED << messageLog, records >>
      BY <1>2 DEF Expire
    <3> QED
      BY <3>2, <3>3 DEF OneRecordPerMessage, RowBeforeRecord
  <2> QED
    BY <1>2, <2>1, <2>2 DEF Expire
<1>3. ASSUME NEW p \in Scanners, Start(p) \/ ListHistory(p) \/ ListMailbox(p) \/ GetProfile(p)
      PROVE  OneRecordPerMessage' /\ RowBeforeRecord'
  <2>1. CASE ListHistory(p) \/ ListMailbox(p)
    BY <2>1, Lists, QuietStep
  <2>2. CASE Start(p) \/ GetProfile(p)
    <3>1. \A q \in Scanners : scan'[q] = scan[q] \/ scan'[q].step # "logged"
      BY <2>2 DEF Start, NoScan, GetProfile, Shapes, ScanShape, ScanFields
    <3> QED
      BY <2>2, <3>1, QuietStep DEF Start, GetProfile
  <2> QED
    BY <1>3, <2>1, <2>2
<1>4. ASSUME NEW p \in Scanners, IngestMessage(p)
      PROVE  OneRecordPerMessage' /\ RowBeforeRecord'
  <2>1. CASE ~Created(Current(p))
    <3>1. messageLog' = messageLog /\ records' = records /\ NextMessage(p)
      BY <1>4, <2>1 DEF IngestMessage, Created
    <3> QED
      BY <3>1, MovesOn, QuietStep
  <2>2. CASE Created(Current(p))
    <3>1. /\ Current(p) \notin messageLog
          /\ messageLog' = messageLog \cup {Current(p)}
          /\ records' = records
          /\ scan' = [scan EXCEPT ![p].step = "logged"]
      BY <1>4, <2>2 DEF IngestMessage, Created
    <3>2. /\ \A q \in Scanners \ {p} : scan'[q] = scan[q]
          /\ scan'[p].ids = scan[p].ids
      BY <3>1 DEF Shapes, ScanShape, ScanFields
    <3>3. \A q \in Scanners \ {p}, m \in Messages : Holds(q, m)' => Holds(q, m)
      BY <3>2 DEF Holds, AtMessage, Current
    <3>4. \A m \in Messages : Holds(p, m)' => m = Current(p)
      BY <3>2 DEF Holds, Current
    <3>5. \A q \in Scanners, m \in Messages : Holds(q, m) => m # Current(p)
      BY <3>1 DEF RowBeforeRecord
    <3> QED
      BY <3>1, <3>3, <3>4, <3>5 DEF OneRecordPerMessage, RowBeforeRecord
  <2> QED
    BY <2>1, <2>2
<1>5. ASSUME NEW p \in Scanners, Downstream(p)
      PROVE  OneRecordPerMessage' /\ RowBeforeRecord'
  <2>1. NextMessage(p) /\ messageLog' = messageLog /\ AtMessage(p, "logged")
    BY <1>5 DEF Downstream
  <2>2. CASE records' = records
    BY <2>1, <2>2, MovesOn, QuietStep
  <2>3. CASE records' = [records EXCEPT ![Current(p)] = @ + 1]
    <3>1. /\ \A q \in Scanners, m \in Messages : Holds(q, m)' => Holds(q, m)
          /\ \A m \in Messages : ~Holds(p, m)'
      BY <2>1, MovesOn DEF Holds, AtMessage, Current
    <3>2. \A m \in Messages : Current(p) = m => Holds(p, m)
      BY <2>1 DEF Holds
    <3>3. \A m \in Messages : records'[m] = IF m = Current(p) THEN records[m] + 1 ELSE records[m]
      BY <2>3 DEF Shapes
    <3>4. \A m \in Messages : m = Current(p) => m \in messageLog /\ records[m] = 0
      BY <3>2 DEF RowBeforeRecord
    <3>5. \A q \in Scanners, m \in Messages : Holds(q, m)' => m # Current(p)
      BY <3>1, <3>2 DEF RowBeforeRecord
    <3> QED
      BY <2>1, <3>1, <3>3, <3>4, <3>5 DEF OneRecordPerMessage, RowBeforeRecord
  <2> QED
    BY <1>5, <2>2, <2>3 DEF Downstream
<1>6. ASSUME NEW p \in Scanners, End(p) \/ Crash(p), UNCHANGED << messageLog, records >>
      PROVE  OneRecordPerMessage' /\ RowBeforeRecord'
  <2>1. \A q \in Scanners : scan'[q] = scan[q] \/ scan'[q].step # "logged"
    BY <1>6 DEF End, Crash, NoScan, Shapes
  <2> QED
    BY <1>6, <2>1, QuietStep
<1> QED
  BY <1>1, <1>2, <1>3, <1>4, <1>5, <1>6
     DEF MailNext, Advance, Finish, MessageGone, CallFails, Abort, Crash

\* The inductive invariant of the lock and of the ingestion of one mailbox.
THEOREM ScanInvariance == MailSpec => []ScanInv
<1>1. ScanInv /\ [MailNext]_mailVars => ScanInv'
  BY ShapeStep, LockStep, RecordStep DEF ScanInv
<1> QED
  BY InitEstablishes, <1>1, PTL DEF MailSpec

\* A scan whose key has not run out owns it, so release_scan_lock never frees
\* the key of another scan that is still entitled to it.
THEOREM ScanOwnsItsKey == MailSpec => []FreshScanHoldsLock
  BY ScanInvariance, PTL DEF ScanInv

\* ingest_message and process_classified_email: a message makes one notice or
\* bill at most, even when scans outlive the lock and overlap.
THEOREM NoSecondRecord == MailSpec => []OneRecordPerMessage
  BY ScanInvariance, PTL DEF ScanInv
-----------------------------------------------------------------------------
(***************************************************************************)
(* The anchor, with one scanner and one page that holds every listing.     *)
(***************************************************************************)
OneScanner == \A p, q \in Scanners : p = q
OnePage    == MaxMessages <= PageSize

\* What the listings return, and that no id is ahead of the mailbox.
ListingsTyped ==
  /\ arrived \in 0..MaxMessages /\ oldest \in Nat
  /\ anchor \in 0..arrived \cup {None}
  /\ seen \subseteq 1..arrived
  /\ \A p \in Scanners :
       /\ scan[p].from \in 0..arrived \cup {None} /\ scan[p].next \in 0..arrived \cup {None}
       /\ scan[p].ids \in Seq(1..arrived)

InHand(p) == {scan[p].ids[i] : i \in DOMAIN scan[p].ids}

\* What a scan has listed and not yet dealt with.
Accounted(p) == messageLog \cup deleted \cup InHand(p)

\* A scan goes on from the anchor; until it ends, what was ever listed up to the
\* id it will leave there is logged, deleted or in its hands.
WorkInHand ==
  \A p \in Scanners :
    /\ scan[p].step # "idle" => scan[p].from = anchor
    /\ scan[p].step = "listed" => seen \subseteq Accounted(p)
    /\ scan[p].step \in {"working", "logged"} /\ scan[p].next # None =>
         \A m \in seen : m <= scan[p].next => m \in Accounted(p)
    /\ scan[p].step = "logged" => scan[p].ids # << >> /\ Current(p) \in messageLog

AnchorInv == ScanInv /\ ListingsTyped /\ WorkInHand /\ AnchorWaitsForWork

\* A listing of a mailbox returns each message that is there.
LEMMA NewestFirstLists ==
  ASSUME NEW n \in Nat, NEW S \in SUBSET (1..n), NEW ids \in NewestFirst(S)
  PROVE  /\ ids \in Seq(S) /\ Len(ids) <= n
         /\ \A m \in S : \E i \in 1..Len(ids) : ids[i] = m
<1>1. IsFiniteSet(S) /\ Cardinality(S) \in 0..n
  <2>1. IsFiniteSet(1..n) /\ Cardinality(1..n) = n
    BY FS_Interval
  <2>2. IsFiniteSet(S) /\ Cardinality(S) <= n
    BY <2>1, FS_Subset
  <2> QED
    BY <2>2, FS_CardinalityType
<1>2. ids \in [1..Cardinality(S) -> S]
  BY DEF NewestFirst
<1>3. ids \in Seq(S) /\ Len(ids) = Cardinality(S)
  BY <1>1, <1>2
<1>4. \A i, j \in 1..Cardinality(S) : ids[i] = ids[j] => i = j
  <2> SUFFICES ASSUME NEW i \in 1..Cardinality(S), NEW j \in 1..Cardinality(S), i < j
               PROVE  ids[i] # ids[j]
    BY <1>1
  <2>1. ids[i] > ids[j] /\ ids[i] \in 1..n /\ ids[j] \in 1..n
    BY <1>2 DEF NewestFirst
  <2> QED
    BY <2>1
<1>5. ids \in Injection(1..Cardinality(S), S)
  BY <1>2, <1>4 DEF Injection, IsInjective
<1>6. Cardinality(1..Cardinality(S)) = Cardinality(S)
  BY <1>1, FS_Interval
<1>7. ids \in Surjection(1..Cardinality(S), S)
  BY <1>1, <1>5, <1>6, FS_Injection
<1> QED
  BY <1>1, <1>3, <1>7 DEF Surjection

\* The first page of a listing.
LEMMA FirstPage ==
  ASSUME NEW S, NEW ids \in Seq(S)
  PROVE  /\ SubSeq(ids, 1, AtMost(Len(ids), PageSize)) \in Seq(S)
         /\ Len(ids) <= PageSize => SubSeq(ids, 1, AtMost(Len(ids), PageSize)) = ids
<1>1. PageSize \in Nat /\ Len(ids) \in Nat
  BY ScanBoundsAssumption
<1>2. AtMost(Len(ids), PageSize) \in 0..Len(ids)
  BY <1>1 DEF AtMost
<1>3. \A i \in 1..AtMost(Len(ids), PageSize) : ids[i] \in S
  BY <1>2
<1>4. SubSeq(ids, 1, AtMost(Len(ids), PageSize)) \in Seq(S)
  BY <1>2, <1>3, SubSeqProperties
<1>5. Len(ids) <= PageSize => AtMost(Len(ids), PageSize) = Len(ids)
  BY <1>1 DEF AtMost
<1> QED
  BY <1>4, <1>5, SubSeqFull

HistoryPage(n, from) == [i \in 1..AtMost(n - from, PageSize) |-> from + i]

\* The messages of a history, all of them if they fit the page.
LEMMA HistoryLists ==
  ASSUME NEW n \in Nat, NEW from \in 0..n
  PROVE  /\ HistoryPage(n, from) \in Seq(1..n)
         /\ n <= PageSize => \A m \in (from + 1)..n :
                               \E i \in DOMAIN HistoryPage(n, from) : HistoryPage(n, from)[i] = m
<1> DEFINE ids == HistoryPage(n, from)
<1>1. PageSize \in Nat
  BY ScanBoundsAssumption
<1>2. AtMost(n - from, PageSize) \in 0..(n - from)
  BY <1>1 DEF AtMost
<1>3. ids \in Seq(1..n)
  BY <1>2 DEF HistoryPage
<1>4. ASSUME n <= PageSize, NEW m \in (from + 1)..n
      PROVE  \E i \in DOMAIN ids : ids[i] = m
  <2>1. AtMost(n - from, PageSize) = n - from
    BY <1>1, <1>4 DEF AtMost
  <2>2. m - from \in 1..(n - from)
    OBVIOUS
  <2>3. m - from \in DOMAIN ids /\ ids[m - from] = m
    BY <2>1, <2>2 DEF HistoryPage
  <2> QED
    BY <2>3
<1> QED
  BY <1>3, <1>4

LEMMA IdsStay == ASSUME NEW n \in Nat, NEW k \in Nat, n <= k PROVE Seq(1..n) \subseteq Seq(1..k)
  BY SeqMonotonic, 1..n \subseteq 1..k

\* A scan that reads a listing.
LEMMA ListingRead ==
  ASSUME Shapes, ListingsTyped, NEW p \in Scanners, ListHistory(p) \/ ListMailbox(p)
  PROVE  /\ \A q \in Scanners \ {p} : scan'[q] = scan[q]
         /\ scan'[p].from = scan[p].from
         /\ scan'[p].ids \in Seq(1..arrived)
         /\ seen' = seen \cup InHand(p)'
         /\ UNCHANGED << arrived, deleted, oldest, anchor, messageLog >>
         /\ \/ /\ HasHistory(p)
               /\ scan'[p].step = "working" /\ scan'[p].next = arrived
               /\ OnePage => (scan[p].from + 1)..arrived \subseteq InHand(p)'
            \/ /\ ~HasHistory(p)
               /\ scan'[p].step = "listed" /\ scan'[p].next = None
               /\ OnePage => 1..arrived \subseteq deleted \cup InHand(p)'
<1>1. ASSUME NEW step, NEW ids, NEW next, Listed(p, step, ids, next)
      PROVE  /\ \A q \in Scanners \ {p} : scan'[q] = scan[q]
             /\ scan'[p].from = scan[p].from /\ scan'[p].ids = ids
             /\ scan'[p].step = step /\ scan'[p].next = next
             /\ seen' = seen \cup InHand(p)'
             /\ UNCHANGED << arrived, deleted, oldest, anchor, messageLog >>
  BY <1>1 DEF Listed, InHand, Shapes, ScanShape, ScanFields
<1>2. MaxMessages \in Nat /\ PageSize \in Nat /\ arrived \in Nat /\ arrived <= MaxMessages
  BY MessagesAssumption, ScanBoundsAssumption DEF ListingsTyped
<1>3. CASE ListHistory(p)
  <2> DEFINE ids == HistoryPage(arrived, scan[p].from)
  <2>1. HasHistory(p) /\ Listed(p, "working", ids, arrived)
    BY <1>3 DEF ListHistory, HistoryPage
  <2>2. scan[p].from \in 0..arrived
    BY <2>1 DEF HasHistory, ListingsTyped
  <2>3. /\ ids \in Seq(1..arrived)
        /\ arrived <= PageSize =>
             \A m \in (scan[p].from + 1)..arrived : \E i \in DOMAIN ids : ids[i] = m
    BY <1>2, <2>2, HistoryLists
  <2> HIDE DEF ids
  <2>4. scan'[p].ids = ids
    BY <1>1, <2>1
  <2>5. OnePage => (scan[p].from + 1)..arrived \subseteq InHand(p)'
    BY <1>2, <2>3, <2>4 DEF InHand, OnePage
  <2> QED
    BY <1>1, <2>1, <2>3, <2>4, <2>5
<1>4. CASE ListMailbox(p)
  <2>1. PICK all \in NewestFirst((1..arrived) \ deleted) :
               Listed(p, "listed", SubSeq(all, 1, AtMost(Len(all), PageSize)), None)
    BY <1>4 DEF ListMailbox
  <2>2. /\ all \in Seq((1..arrived) \ deleted) /\ Len(all) <= arrived
        /\ \A m \in (1..arrived) \ deleted : \E i \in 1..Len(all) : all[i] = m
    <3>1. (1..arrived) \ deleted \in SUBSET (1..arrived)
      OBVIOUS
    <3> QED
      BY <1>2, <2>1, <3>1, NewestFirstLists
  <2> DEFINE ids == SubSeq(all, 1, AtMost(Len(all), PageSize))
  <2>3. ids \in Seq((1..arrived) \ deleted) /\ (Len(all) <= PageSize => ids = all)
    BY <2>2, FirstPage
  <2>4. scan'[p].ids = ids
    BY <1>1, <2>1
  <2> HIDE DEF ids
  <2>5. ids \in Seq(1..arrived)
    BY <2>3, SeqMonotonic, (1..arrived) \ deleted \subseteq 1..arrived
  <2>6. OnePage => 1..arrived \subseteq deleted \cup InHand(p)'
    <3> SUFFICES ASSUME OnePage, NEW m \in (1..arrived) \ deleted PROVE m \in InHand(p)'
      OBVIOUS
    <3>1. Len(all) \in Nat /\ DOMAIN all = 1..Len(all)
      BY <2>2
    <3>2. ids = all
      BY <1>2, <2>2, <2>3, <3>1 DEF OnePage
    <3> QED
      BY <2>2, <2>4, <3>1, <3>2 DEF InHand
  <2> QED
    BY <1>1, <1>4, <2>1, <2>4, <2>5, <2>6 DEF ListMailbox
<1> QED
  BY <1>3, <1>4

\* The message in hand is put away, and the others stay.
LEMMA PutAway ==
  ASSUME Shapes, ListingsTyped, NEW p \in Scanners, scan[p].ids # << >>, NextMessage(p)
  PROVE  /\ \A q \in Scanners \ {p} : scan'[q] = scan[q]
         /\ scan'[p].step = "working" /\ scan'[p].ids \in Seq(1..arrived)
         /\ scan'[p].from = scan[p].from /\ scan'[p].next = scan[p].next
         /\ InHand(p) \subseteq {Current(p)} \cup InHand(p)'
<1>1. /\ \A q \in Scanners \ {p} : scan'[q] = scan[q]
      /\ scan'[p].step = "working" /\ scan'[p].ids = Tail(scan[p].ids)
      /\ scan'[p].from = scan[p].from /\ scan'[p].next = scan[p].next
  BY DEF NextMessage, Shapes, ScanShape, ScanFields
<1> DEFINE ids == scan[p].ids
<1>2. ids \in Seq(1..arrived) /\ ids # << >>
  BY DEF ListingsTyped
<1>3. /\ Tail(ids) \in Seq(1..arrived) /\ Len(Tail(ids)) = Len(ids) - 1
      /\ \A i \in 1..Len(Tail(ids)) : Tail(ids)[i] = ids[i + 1]
  BY <1>2, HeadTailProperties
<1>4. ASSUME NEW i \in DOMAIN ids
      PROVE  ids[i] = Head(ids) \/ \E j \in DOMAIN Tail(ids) : Tail(ids)[j] = ids[i]
  <2>1. i \in 1..Len(ids) /\ Len(ids) \in Nat
    BY <1>2, <1>4
  <2>2. CASE i = 1
    BY <1>2, <2>2
  <2>3. CASE i # 1
    <3>1. i - 1 \in DOMAIN Tail(ids) /\ Tail(ids)[i - 1] = ids[i]
      BY <1>3, <2>1, <2>3
    <3> QED
      BY <3>1
  <2> QED
    BY <2>2, <2>3
<1> QED
  BY <1>1, <1>3, <1>4 DEF InHand, Current

LEMMA BoundsAreNat == MaxMessages \in Nat /\ PageSize \in Nat \ {0} /\ None \notin Nat
  BY MessagesAssumption, ScanBoundsAssumption, ScannersAssumption

LEMMA NoScanIs ==
  /\ NoScan.step = "idle" /\ NoScan.from = None /\ NoScan.next = None /\ NoScan.ids = << >>
  /\ DOMAIN NoScan = ScanFields
  BY DEF NoScan, ScanFields

\* A step that lists nothing new.
LEMMA ListingsKept ==
  ASSUME ListingsTyped, UNCHANGED << arrived, oldest, seen >>,
         anchor' \in 0..arrived \cup {None},
         \A q \in Scanners : /\ scan'[q].from \in {scan[q].from, anchor, None}
                             /\ scan'[q].next \in {scan[q].next, arrived, None}
                             /\ scan'[q].ids \in {scan[q].ids, << >>}
  PROVE  ListingsTyped'
<1>1. arrived \in 0..arrived /\ << >> \in Seq(1..arrived)
  BY BoundsAreNat DEF ListingsTyped
<1>2. ASSUME NEW q \in Scanners
      PROVE  /\ scan'[q].from \in 0..arrived \cup {None} /\ scan'[q].next \in 0..arrived \cup {None}
             /\ scan'[q].ids \in Seq(1..arrived)
  BY <1>1 DEF ListingsTyped
<1>3. arrived' \in 0..MaxMessages /\ oldest' \in Nat /\ anchor' \in 0..arrived' \cup {None}
      /\ seen' \subseteq 1..arrived'
  BY DEF ListingsTyped
<1> QED
  BY <1>2, <1>3 DEF ListingsTyped

\* What a listing returns has arrived, and no id is ahead of the mailbox.
LEMMA ListingsStep ==
  Shapes /\ ListingsTyped /\ [MailNext]_mailVars => ListingsTyped'
<1> SUFFICES ASSUME Shapes, ListingsTyped, [MailNext]_mailVars
             PROVE  ListingsTyped'
  OBVIOUS
<1>1. CASE \/ Reconnect \/ UNCHANGED mailVars \/ \E m \in Messages : Delete(m)
  BY <1>1 DEF Reconnect, Delete, mailVars, ListingsTyped
<1>2. CASE Prune
  BY <1>2, BoundsAreNat DEF Prune, ListingsTyped
<1>3. CASE Arrive
  <2>1. /\ arrived \in Nat /\ arrived' = arrived + 1 /\ arrived' \in 0..MaxMessages
        /\ UNCHANGED << oldest, anchor, seen, scan >>
    BY <1>3, BoundsAreNat DEF Arrive, ListingsTyped
  <2>2. \A p \in Scanners : scan'[p].ids \in Seq(1..arrived')
    BY <2>1, IdsStay DEF ListingsTyped
  <2> QED
    BY <2>1, <2>2 DEF ListingsTyped
<1>4. CASE Expire
  <2>1. UNCHANGED << arrived, oldest, anchor, seen >>
    BY <1>4 DEF Expire
  <2>2. \A p \in Scanners : UNCHANGED << scan[p].from, scan[p].next, scan[p].ids >>
    BY <1>4 DEF Expire, Shapes, ScanShape, ScanFields
  <2> QED
    BY <2>1, <2>2 DEF ListingsTyped
<1>5. ASSUME NEW p \in Scanners, Start(p)
      PROVE  ListingsTyped'
  <2>1. UNCHANGED << arrived, oldest, anchor, seen >> /\ anchor \in 0..arrived \cup {None}
    BY <1>5 DEF Start, ListingsTyped
  <2>2. \A q \in Scanners :
          \/ scan'[q] = scan[q]
          \/ scan'[q].from = anchor /\ scan'[q].next = None /\ scan'[q].ids = << >>
    <3>1. /\ \A q \in Scanners \ {p} : scan'[q] = scan[q]
          /\ scan'[p] = [NoScan EXCEPT !.step = "started", !.from = anchor, !.fresh = TRUE]
      BY <1>5 DEF Start, Shapes
    <3>2. scan'[p].from = anchor /\ scan'[p].next = None /\ scan'[p].ids = << >>
      BY <3>1, NoScanIs DEF ScanFields
    <3> QED
      BY <3>1, <3>2
  <2> QED
    BY <2>1, <2>2, ListingsKept
<1>6. ASSUME NEW p \in Scanners, ListHistory(p) \/ ListMailbox(p)
      PROVE  ListingsTyped'
  <2>1. InHand(p)' \subseteq 1..arrived
    <3>1. scan'[p].ids \in Seq(1..arrived)
      BY <1>6, ListingRead
    <3>2. \A i \in DOMAIN scan'[p].ids : scan'[p].ids[i] \in 1..arrived
      BY <3>1, LenProperties, ElementOfSeq
    <3> QED
      BY <3>2 DEF InHand
  <2>2. arrived \in Nat
    BY BoundsAreNat DEF ListingsTyped
  <2>3. /\ UNCHANGED << arrived, oldest, anchor >> /\ seen' \subseteq 1..arrived
        /\ \A q \in Scanners \ {p} : scan'[q] = scan[q]
        /\ scan'[p].from = scan[p].from /\ scan'[p].next \in {arrived, None}
        /\ scan'[p].ids \in Seq(1..arrived)
    BY <1>6, <2>1, ListingRead DEF ListingsTyped
  <2>4. arrived \in 0..arrived
    BY <2>2
  <2>5. \A q \in Scanners :
          /\ scan'[q].from \in 0..arrived \cup {None} /\ scan'[q].next \in 0..arrived \cup {None}
          /\ scan'[q].ids \in Seq(1..arrived)
    BY <2>3, <2>4 DEF ListingsTyped
  <2> QED
    BY <2>3, <2>5 DEF ListingsTyped
<1>7. ASSUME NEW p \in Scanners, GetProfile(p)
      PROVE  ListingsTyped'
  <2>1. /\ UNCHANGED << arrived, oldest, anchor, seen >>
        /\ \A q \in Scanners : UNCHANGED << scan[q].from, scan[q].ids >>
        /\ \A q \in Scanners : scan'[q].next \in {scan[q].next, arrived, None}
    BY <1>7 DEF GetProfile, Shapes, ScanShape, ScanFields
  <2> QED
    BY <2>1, ListingsKept DEF ListingsTyped
<1>8. ASSUME NEW p \in Scanners, IngestMessage(p) \/ Downstream(p)
      PROVE  ListingsTyped'
  <2>1. UNCHANGED << arrived, oldest, anchor, seen >> /\ scan[p].ids # << >>
    BY <1>8 DEF IngestMessage, Downstream, AtMessage
  <2>2. CASE NextMessage(p)
    BY <2>1, <2>2, PutAway DEF ListingsTyped
  <2>3. CASE scan' = [scan EXCEPT ![p].step = "logged"]
    BY <2>1, <2>3 DEF Shapes, ScanShape, ScanFields, ListingsTyped
  <2> QED
    BY <1>8, <2>2, <2>3 DEF IngestMessage, Downstream
<1>9. ASSUME NEW p \in Scanners, Crash(p) \/ End(p), UNCHANGED << arrived, oldest, seen >>,
             anchor' \in 0..arrived \cup {None}
      PROVE  ListingsTyped'
  <2>1. \A q \in Scanners :
          \/ scan'[q] = scan[q]
          \/ scan'[q].from = None /\ scan'[q].next = None /\ scan'[q].ids = << >>
    BY <1>9, NoScanIs DEF Crash, End, Shapes
  <2> QED
    BY <1>9, <2>1, ListingsKept
<1>10. ASSUME NEW p \in Scanners, Finish(p) \/ MessageGone(p) \/ CallFails(p) \/ Crash(p)
       PROVE  ListingsTyped'
  BY <1>9, <1>10 DEF Finish, MessageGone, CallFails, Abort, Crash, ListingsTyped
<1> QED
  BY <1>1, <1>2, <1>3, <1>4, <1>5, <1>6, <1>7, <1>8, <1>10 DEF MailNext, Advance

\* With one scanner and one page the anchor waits for the messages it passes.
LEMMA AnchorStep ==
  ASSUME OneScanner, OnePage, AnchorInv, ListingsTyped', [MailNext]_mailVars
  PROVE  WorkInHand' /\ AnchorWaitsForWork'
<1> USE DEF AnchorInv, ScanInv
<1>1. CASE UNCHANGED mailVars
  BY <1>1 DEF mailVars, WorkInHand, AnchorWaitsForWork, Accounted, InHand, Current
<1>2. CASE Arrive \/ Prune \/ Reconnect \/ \E m \in Messages : Delete(m)
  <2>1. /\ UNCHANGED << scan, messageLog, seen, anchor >>
        /\ deleted \subseteq deleted' /\ oldest' \in Nat /\ oldest <= oldest'
    BY <1>2 DEF Arrive, Prune, Reconnect, Delete, ListingsTyped
  <2>2. \A p \in Scanners : Accounted(p) \subseteq Accounted(p)' /\ Current(p)' = Current(p)
    BY <2>1 DEF Accounted, InHand, Current
  <2>3. WorkInHand'
    BY <2>1, <2>2 DEF WorkInHand
  <2>4. AnchorWaitsForWork'
    BY <2>1, BoundsAreNat DEF AnchorWaitsForWork, ListingsTyped
  <2> QED
    BY <2>3, <2>4
<1>3. CASE Expire
  <2>1. /\ UNCHANGED << messageLog, seen, anchor, deleted, oldest >>
        /\ \A p \in Scanners : UNCHANGED << scan[p].step, scan[p].from, scan[p].next, scan[p].ids >>
    BY <1>3 DEF Expire, Shapes, ScanShape, ScanFields
  <2>2. \A p \in Scanners : Accounted(p)' = Accounted(p) /\ Current(p)' = Current(p)
    BY <2>1 DEF Accounted, InHand, Current
  <2> QED
    BY <2>1, <2>2 DEF WorkInHand, AnchorWaitsForWork
<1>4. ASSUME NEW p \in Scanners, Start(p)
      PROVE  WorkInHand' /\ AnchorWaitsForWork'
  <2>1. /\ UNCHANGED << messageLog, seen, anchor, deleted, oldest >>
        /\ scan'[p].step = "started" /\ scan'[p].from = anchor
    BY <1>4 DEF Start, NoScan, Shapes
  <2> QED
    BY <2>1 DEF WorkInHand, AnchorWaitsForWork, OneScanner
<1>5. ASSUME NEW p \in Scanners, ListHistory(p) \/ ListMailbox(p)
      PROVE  WorkInHand' /\ AnchorWaitsForWork'
  <2>1. /\ UNCHANGED << arrived, messageLog, anchor, deleted, oldest >>
        /\ seen' = seen \cup InHand(p)' /\ scan'[p].from = anchor
        /\ Accounted(p)' = messageLog \cup deleted \cup InHand(p)'
        /\ arrived \in Nat /\ oldest \in Nat
    <3>1. scan[p].from = anchor /\ arrived \in Nat /\ oldest \in Nat
      BY <1>5, BoundsAreNat DEF WorkInHand, ListingsTyped, ListHistory, ListMailbox
    <3>2. /\ UNCHANGED << arrived, messageLog, anchor, deleted, oldest >>
          /\ seen' = seen \cup InHand(p)' /\ scan'[p].from = scan[p].from
      BY <1>5, ListingRead
    <3> QED
      BY <3>1, <3>2 DEF Accounted
  <2>2. CASE HasHistory(p)
    <3>1. /\ scan'[p].step = "working" /\ scan'[p].next = arrived
          /\ (anchor + 1)..arrived \subseteq InHand(p)' /\ anchor \in 0..arrived /\ anchor >= oldest
      BY <1>5, <2>1, <2>2, ListingRead, BoundsAreNat DEF HasHistory, ListingsTyped
    <3>2. \A m \in seen : m \in 1..anchor => m \in messageLog \cup deleted
      BY <3>1, BoundsAreNat DEF AnchorWaitsForWork
    <3>3. \A m \in seen' : m \in Accounted(p)'
      BY <2>1, <3>1, <3>2 DEF ListingsTyped
    <3>4. WorkInHand'
      BY <2>1, <3>1, <3>3 DEF WorkInHand, OneScanner
    <3>5. ListHistory(p)
      BY <1>5, <2>2 DEF ListMailbox
    <3>6. InHand(p)' \subseteq (anchor + 1)..arrived
      <4>1. scan[p].from = anchor
        BY <3>5 DEF WorkInHand, ListHistory
      <4>2. Listed(p, "working", HistoryPage(arrived, anchor), arrived)
        BY <3>5, <4>1 DEF ListHistory, HistoryPage
      <4>3. scan'[p].ids = HistoryPage(arrived, anchor)
        BY <4>2 DEF Listed, Shapes, ScanShape, ScanFields
      <4>4. \A i \in DOMAIN HistoryPage(arrived, anchor) :
               HistoryPage(arrived, anchor)[i] \in (anchor + 1)..arrived
        <5>1. AtMost(arrived - anchor, PageSize) \in 0..(arrived - anchor)
          BY <3>1, <2>1, BoundsAreNat DEF AtMost
        <5> QED
          BY <5>1, <3>1, <2>1 DEF HistoryPage
      <4> QED
        BY <4>3, <4>4 DEF InHand
    <3>7. AnchorWaitsForWork'
      BY <2>1, <3>1, <3>2, <3>6 DEF AnchorWaitsForWork, ListingsTyped
    <3> QED
      BY <3>4, <3>7
  <2>3. CASE ~HasHistory(p)
    <3>1. /\ scan'[p].step = "listed"
          /\ 1..arrived \subseteq deleted \cup InHand(p)'
      BY <1>5, <2>3, ListingRead
    <3>2. WorkInHand'
      <4>1. seen' \subseteq Accounted(p)'
        BY <2>1, <3>1 DEF ListingsTyped
      <4> QED
        BY <2>1, <3>1, <4>1 DEF WorkInHand, OneScanner
    <3>3. anchor = None \/ ~(anchor >= oldest)
      BY <1>5, <2>3 DEF HasHistory, WorkInHand, ListHistory, ListMailbox
    <3> QED
      BY <2>1, <3>2, <3>3 DEF AnchorWaitsForWork
  <2> QED
    BY <2>2, <2>3
<1>6. ASSUME NEW p \in Scanners, GetProfile(p)
      PROVE  WorkInHand' /\ AnchorWaitsForWork'
  <2>1. /\ UNCHANGED << messageLog, seen, anchor, deleted, oldest >>
        /\ scan[p].step = "listed" /\ scan'[p].step = "working"
        /\ UNCHANGED << scan[p].ids, scan[p].from >>
    BY <1>6 DEF GetProfile, Shapes, ScanShape, ScanFields
  <2>2. Accounted(p)' = Accounted(p)
    BY <2>1 DEF Accounted, InHand
  <2> QED
    BY <2>1, <2>2 DEF WorkInHand, AnchorWaitsForWork, OneScanner
<1>7. ASSUME NEW p \in Scanners, IngestMessage(p) \/ Downstream(p)
      PROVE  WorkInHand' /\ AnchorWaitsForWork'
  <2>1. /\ UNCHANGED << seen, anchor, deleted, oldest >>
        /\ messageLog \subseteq messageLog' /\ Current(p) \in messageLog'
        /\ scan[p].step \in {"working", "logged"} /\ scan[p].ids # << >>
    BY <1>7 DEF IngestMessage, Downstream, AtMessage, WorkInHand
  <2>2. AnchorWaitsForWork'
    BY <2>1 DEF AnchorWaitsForWork
  <2>3. CASE NextMessage(p)
    <3>1. /\ scan'[p].step = "working"
          /\ UNCHANGED << scan[p].from, scan[p].next >>
          /\ InHand(p) \subseteq {Current(p)} \cup InHand(p)'
      BY <2>1, <2>3, PutAway
    <3>2. Accounted(p) \subseteq Accounted(p)'
      BY <2>1, <3>1 DEF Accounted
    <3> QED
      BY <2>1, <2>2, <3>1, <3>2 DEF WorkInHand, OneScanner
  <2>4. CASE scan' = [scan EXCEPT ![p].step = "logged"]
    <3>1. /\ scan'[p].step = "logged"
          /\ UNCHANGED << scan[p].from, scan[p].next, scan[p].ids >>
      BY <2>4 DEF Shapes, ScanShape, ScanFields
    <3>2. Accounted(p) \subseteq Accounted(p)' /\ Current(p)' = Current(p)
      BY <2>1, <3>1 DEF Accounted, InHand, Current
    <3> QED
      BY <2>1, <2>2, <3>1, <3>2 DEF WorkInHand, OneScanner
  <2> QED
    BY <1>7, <2>3, <2>4 DEF IngestMessage, Downstream
<1>8. ASSUME NEW p \in Scanners, Finish(p)
      PROVE  WorkInHand' /\ AnchorWaitsForWork'
  <2>1. /\ UNCHANGED << messageLog, seen, deleted, oldest >>
        /\ scan[p].step = "working" /\ scan[p].ids = << >> /\ scan'[p].step = "idle"
    BY <1>8 DEF Finish, End, NoScan, Shapes
  <2>2. InHand(p) = {}
    BY <2>1 DEF InHand
  <2>3. CASE scan[p].next = None
    <3>1. anchor' = anchor
      BY <1>8, <2>3 DEF Finish
    <3> QED
      BY <2>1, <3>1 DEF WorkInHand, AnchorWaitsForWork, OneScanner
  <2>4. CASE scan[p].next # None
    <3>1. anchor' = scan[p].next
      BY <1>8, <2>4 DEF Finish
    <3>2. \A m \in seen : m <= anchor' => m \in messageLog \cup deleted
      BY <2>1, <2>2, <2>4, <3>1 DEF WorkInHand, Accounted
    <3> QED
      BY <2>1, <3>2 DEF WorkInHand, AnchorWaitsForWork, OneScanner
  <2> QED
    BY <2>3, <2>4
<1>9. ASSUME NEW p \in Scanners, MessageGone(p) \/ CallFails(p) \/ Crash(p)
      PROVE  WorkInHand' /\ AnchorWaitsForWork'
  <2>1. UNCHANGED << messageLog, seen, anchor, deleted, oldest >> /\ scan'[p].step = "idle"
    BY <1>9 DEF MessageGone, CallFails, Abort, Crash, End, NoScan, Shapes
  <2> QED
    BY <2>1 DEF WorkInHand, AnchorWaitsForWork, OneScanner
<1> QED
  BY <1>1, <1>2, <1>3, <1>4, <1>5, <1>6, <1>7, <1>8, <1>9 DEF MailNext, Advance

\* The inductive invariant of the anchor.
THEOREM AnchorInvariance ==
  ASSUME OneScanner, OnePage PROVE MailSpec => []AnchorInv
<1>1. MailInit => AnchorInv
  <2> SUFFICES ASSUME MailInit PROVE AnchorInv
    OBVIOUS
  <2>1. ListingsTyped
    <3>1. << >> \in Seq(1..arrived) /\ 0 \in 0..MaxMessages
      BY BoundsAreNat
    <3> QED
      BY <3>1 DEF MailInit, ListingsTyped, NoScan
  <2>2. WorkInHand /\ AnchorWaitsForWork
    BY DEF MailInit, NoScan, WorkInHand, AnchorWaitsForWork
  <2> QED
    BY <2>1, <2>2, InitEstablishes DEF AnchorInv
<1>2. AnchorInv /\ [MailNext]_mailVars => AnchorInv'
  <2> SUFFICES ASSUME AnchorInv, [MailNext]_mailVars PROVE AnchorInv'
    OBVIOUS
  <2>1. ScanInv'
    BY ShapeStep, LockStep, RecordStep DEF AnchorInv, ScanInv
  <2>2. ListingsTyped'
    BY ListingsStep DEF AnchorInv, ScanInv
  <2> QED
    BY <2>1, <2>2, AnchorStep DEF AnchorInv
<1> QED
  BY <1>1, <1>2, PTL DEF MailSpec

\* run_scan saves the history id when its loop is over, and only then: with one
\* scan at a time and one page, what the anchor has passed is logged or deleted.
THEOREM AnchorWaits ==
  ASSUME OneScanner, OnePage PROVE MailSpec => []AnchorWaitsForWork
<1>1. AnchorInv => AnchorWaitsForWork
  BY DEF AnchorInv
<1> QED
  BY <1>1, AnchorInvariance, PTL
=============================================================================
