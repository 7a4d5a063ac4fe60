------------------------------ MODULE GmailScan ------------------------------
(***************************************************************************)
(* The scan of one connected mailbox: email/tasks/scanner_task.run_scan    *)
(* with the lock of email/services/scanner_service.py and the ingestion of *)
(* email/services/ingestion_service.py.                                    *)
(*                                                                         *)
(* A scan runs in a scheduler process every few minutes and in a thread of *)
(* the API process on scan-now and after the OAuth callback.  A Redis key  *)
(* with a time to live of 300 s keeps scans of one mailbox apart; a scan   *)
(* that takes longer goes on without it.  A message becomes a log row in   *)
(* one commit and a notice or a bill in a later one.                       *)
(*                                                                         *)
(* Messages are numbered as they arrive, and the number is also the        *)
(* mailbox's history id.  Gmail is external: what it lists is modelled as  *)
(* run_scan uses it.  Not modelled: attachments and stored bodies (their   *)
(* failures are swallowed and change nothing below), the fetch log and its *)
(* alert, the scheduler's job, a Redis that fails, and the operator's      *)
(* filter rules, which only change the kind of a message.                  *)
(***************************************************************************)
EXTENDS Naturals, Sequences, FiniteSets

CONSTANTS
  Scanners,      \* processes and threads that may run a scan
  None,          \* no lock holder, no anchor
  MaxMessages,   \* bound: messages that arrive
  KindOf,        \* what each message is
  PageSize,      \* ids one listing call returns (100)
  Deletable,     \* messages the owner of the mailbox may delete
  MaxScanFaults      \* bound: crashes, errors and expiries under a running scan

Kinds    == { "compliance", "uncertain", "bill", "other" }
Messages == 1..MaxMessages

ASSUME MessagesAssumption ==
  MaxMessages \in Nat /\ KindOf \in [Messages -> Kinds] /\ Deletable \subseteq Messages
ASSUME ScannersAssumption == None \notin Scanners /\ None \notin Nat
ASSUME ScanBoundsAssumption == PageSize \in Nat \ {0} /\ MaxScanFaults \in Nat

VARIABLES
  arrived,      \* messages in the mailbox: the current history id
  deleted,      \* messages its owner has deleted since
  oldest,       \* history before this id is pruned
  status,       \* gmail_credentials.status
  anchor,       \* gmail_credentials.last_history_id
  lock,         \* the Redis key: who set it
  scan,         \* per scanner: the run in progress
  messageLog,   \* gmail_message_log
  records,      \* notices and bills made from each message
  seen,         \* history variable: messages some scan has listed
  scanFaults

mailVars == << arrived, deleted, oldest, status, anchor, lock, scan,
               messageLog, records, seen, scanFaults >>

NoScan == [step |-> "idle", from |-> None, ids |-> << >>, next |-> None,
           fresh |-> FALSE]

Scanning(p) == scan[p] # NoScan

MailInit ==
  /\ arrived = 0 /\ deleted = {} /\ oldest = 0
  /\ status = "active" /\ anchor = None
  /\ lock = None
  /\ scan = [p \in Scanners |-> NoScan]
  /\ messageLog = {}
  /\ records = [m \in Messages |-> 0]
  /\ seen = {}
  /\ scanFaults = 0

-----------------------------------------------------------------------------
(***************************************************************************)
(* The mailbox and its owner.                                              *)
(***************************************************************************)
Arrive ==
  /\ arrived < MaxMessages
  /\ arrived' = arrived + 1
  /\ UNCHANGED << deleted, oldest, status, anchor, lock, scan, messageLog,
                  records, seen, scanFaults >>

Delete(m) ==
  /\ m \in (Deletable \cap 1..arrived) \ deleted
  /\ deleted' = deleted \cup {m}
  /\ UNCHANGED << arrived, oldest, status, anchor, lock, scan, messageLog,
                  records, seen, scanFaults >>

Prune ==
  /\ oldest' \in (oldest + 1)..arrived
  /\ UNCHANGED << arrived, deleted, status, anchor, lock, scan, messageLog,
                  records, seen, scanFaults >>

\* save_credential on the same pair of user and client keeps the anchor.
Reconnect ==
  /\ status = "revoked"
  /\ status' = "active"
  /\ UNCHANGED << arrived, deleted, oldest, anchor, lock, scan, messageLog,
                  records, seen, scanFaults >>

-----------------------------------------------------------------------------
(***************************************************************************)
(* The lock.                                                               *)
(***************************************************************************)
\* Seeded fault: the key is deleted whoever set it.
ReleaseAnyLock(p) == lock' = None

\* release_scan_lock: compare and delete.
Release(p) == lock' = IF lock = p THEN None ELSE lock

End(p) ==
  /\ scan' = [scan EXCEPT ![p] = NoScan]
  /\ Release(p)

\* Seeded fault: the key has no time to live.
NeverExpire == FALSE /\ UNCHANGED mailVars

\* The key's time to live runs out: under a scan that takes longer, or after
\* one that died.
Expire ==
  /\ lock # None
  /\ lock' = None
  /\ \/ /\ ~Scanning(lock)
        /\ UNCHANGED << scan, scanFaults >>
     \/ /\ Scanning(lock)
        /\ scanFaults < MaxScanFaults
        /\ scanFaults' = scanFaults + 1
        /\ scan' = [scan EXCEPT ![lock].fresh = FALSE]
  /\ UNCHANGED << arrived, deleted, oldest, status, anchor, messageLog,
                  records, seen >>

-----------------------------------------------------------------------------
(***************************************************************************)
(* One run of run_scan.                                                    *)
(***************************************************************************)
\* SET NX; the credential is loaded and must be active.
Start(p) ==
  /\ ~Scanning(p)
  /\ lock = None
  /\ status = "active"
  /\ lock' = p
  /\ scan' = [scan EXCEPT ![p] = [NoScan EXCEPT !.step = "started",
                                                !.from = anchor, !.fresh = TRUE]]
  /\ UNCHANGED << arrived, deleted, oldest, status, anchor, messageLog,
                  records, seen, scanFaults >>

Listed(p, step, ids, next) ==
  /\ scan' = [scan EXCEPT ![p].step = step, ![p].ids = ids, ![p].next = next]
  /\ seen' = seen \cup {ids[i] : i \in DOMAIN ids}
  /\ UNCHANGED << arrived, deleted, oldest, status, anchor, lock, messageLog,
                  records, scanFaults >>

HasHistory(p) == scan[p].from # None /\ scan[p].from >= oldest

AtMost(n, limit) == IF n < limit THEN n ELSE limit

\* history().list: the messages added since the anchor, those deleted in the
\* meantime included, oldest first.  Only the first page is read, though the
\* history id that comes with it is the current one.
ListHistory(p) ==
  /\ scan[p].step = "started"
  /\ HasHistory(p)
  /\ LET from == scan[p].from IN
     Listed(p, "working",
            [i \in 1..AtMost(arrived - from, PageSize) |-> from + i], arrived)

\* The messages still there, newest first.
NewestFirst(S) ==
  {ids \in [1..Cardinality(S) -> S] :
     \A i, j \in 1..Cardinality(S) : i < j => ids[i] > ids[j]}

\* messages().list, on the first scan and when the anchor is pruned (404).
ListMailbox(p) ==
  /\ scan[p].step = "started"
  /\ ~HasHistory(p)
  /\ \E all \in NewestFirst((1..arrived) \ deleted) :
       Listed(p, "listed", SubSeq(all, 1, AtMost(Len(all), PageSize)), None)

\* getProfile, a call of its own after the listing; an error leaves no id.
GetProfile(p) ==
  /\ scan[p].step = "listed"
  /\ \E next \in {arrived, None} :
       scan' = [scan EXCEPT ![p].step = "working", ![p].next = next]
  /\ UNCHANGED << arrived, deleted, oldest, status, anchor, lock, messageLog,
                  records, seen, scanFaults >>

Current(p) == Head(scan[p].ids)
AtMessage(p, step) == scan[p].step = step /\ scan[p].ids # << >>

NextMessage(p) ==
  scan' = [scan EXCEPT ![p].step = "working", ![p].ids = Tail(@)]

\* Seeded fault: a message already in the log is reported as created.
AlwaysCreated(m) == TRUE

\* What ingest_message returns as created.
Created(m) == m \notin messageLog

\* messages().get, then ingest_message: the log row is committed (its unique
\* key decides between overlapping scans); a message already there is skipped.
IngestMessage(p) ==
  /\ AtMessage(p, "working")
  /\ Current(p) \notin deleted
  /\ messageLog' = messageLog \cup {Current(p)}
  /\ IF Created(Current(p))
     THEN scan' = [scan EXCEPT ![p].step = "logged"]
     ELSE NextMessage(p)
  /\ UNCHANGED << arrived, deleted, oldest, status, anchor, lock, records,
                  seen, scanFaults >>

\* resolve_route without operator rules.
RouteTaken == [ compliance |-> "compliance_notice", uncertain |-> "dms_only",
                bill       |-> "bill",              other     |-> "ignore" ]

\* A bill (upsert_bill) or a notice; process_classified_email returns at once
\* on the other two routes.
MakesRecord(route) == route \in {"compliance_notice", "bill"}

\* The downstream of a created message commits, or its exception is swallowed.
Downstream(p) ==
  /\ AtMessage(p, "logged")
  /\ NextMessage(p)
  /\ \/ /\ records' = IF MakesRecord(RouteTaken[KindOf[Current(p)]])
                      THEN [records EXCEPT ![Current(p)] = @ + 1] ELSE records
        /\ UNCHANGED scanFaults
     \/ /\ scanFaults < MaxScanFaults
        /\ scanFaults' = scanFaults + 1
        /\ UNCHANGED records
  /\ UNCHANGED << arrived, deleted, oldest, status, anchor, lock, messageLog, seen >>

\* The loop is over: the anchor moves, and only now.
Finish(p) ==
  /\ scan[p].step = "working" /\ scan[p].ids = << >>
  /\ anchor' = IF scan[p].next = None THEN anchor ELSE scan[p].next
  /\ End(p)
  /\ UNCHANGED << arrived, deleted, oldest, status, messageLog, records, seen, scanFaults >>

\* Seeded fault: the anchor is saved whatever became of the messages.
AbortSaving(p) ==
  /\ anchor' = IF scan[p].next = None THEN anchor ELSE scan[p].next
  /\ End(p)
  /\ UNCHANGED << arrived, deleted, oldest, messageLog, records, seen >>

\* An exception leaves the loop: the anchor stays and the lock is released.
Abort(p) ==
  /\ End(p)
  /\ UNCHANGED << arrived, deleted, oldest, anchor, messageLog, records, seen >>

CallingGmail(p) == scan[p].step \in {"started", "listed", "working"}

\* messages().get answers 404 for a message deleted since it was listed.
MessageGone(p) ==
  /\ AtMessage(p, "working")
  /\ Current(p) \in deleted
  /\ Abort(p)
  /\ UNCHANGED << status, scanFaults >>

\* Any other failed call; 401 and 403 revoke the credential.
CallFails(p) ==
  /\ CallingGmail(p)
  /\ scanFaults < MaxScanFaults
  /\ scanFaults' = scanFaults + 1
  /\ status' \in {status, "revoked"}
  /\ Abort(p)

\* The process dies: nothing releases the lock.
Crash(p) ==
  /\ Scanning(p)
  /\ scanFaults < MaxScanFaults
  /\ scanFaults' = scanFaults + 1
  /\ scan' = [scan EXCEPT ![p] = NoScan]
  /\ UNCHANGED << arrived, deleted, oldest, status, anchor, lock, messageLog,
                  records, seen >>

Advance(p) ==
  \/ ListHistory(p)
  \/ ListMailbox(p)
  \/ GetProfile(p)
  \/ IngestMessage(p)
  \/ Downstream(p)
  \/ Finish(p)
  \/ MessageGone(p)

MailNext ==
  \/ Arrive
  \/ Prune
  \/ Reconnect
  \/ Expire
  \/ \E m \in Messages : Delete(m)
  \/ \E p \in Scanners : Start(p) \/ Advance(p) \/ CallFails(p) \/ Crash(p)

MailSpec == MailInit /\ [][MailNext]_mailVars

\* The interval job starts scans again and again, a running scan goes on, and
\* a key in Redis runs out.
MailFairness ==
  /\ WF_mailVars(\E p \in Scanners : Start(p))
  /\ \A p \in Scanners : WF_mailVars(Advance(p))
  /\ WF_mailVars(Expire)

FairMailSpec == MailSpec /\ MailFairness

-----------------------------------------------------------------------------
\* However scans overlap and repeat, a message makes at most one notice or
\* bill (G2/G6 of scanner_task.py, the unique key of gmail_message_log).
OneRecordPerMessage == \A m \in Messages : records[m] <= 1

\* A scan whose key has not run out still owns it: a scan that outlived its own
\* key does not free the next one's (the token of release_scan_lock).
FreshScanHoldsLock == \A p \in Scanners : scan[p].fresh => lock = p

\* A message the scan listed and did not reach is listed again by the next: it
\* is not behind the anchor, or the anchor is pruned.  One scan at a time, and
\* one page holds every listing.
AnchorWaitsForWork ==
  anchor # None /\ anchor >= oldest =>
    \A m \in seen \cap 1..anchor : m \in messageLog \cup deleted

\* The history lists m after a message deleted since, logged or not, at which
\* every scan ends (MessageGone): the anchor stays before both until pruned.
StuckBehindDeleted(m) ==
  anchor # None /\ anchor >= oldest
  /\ \E d \in deleted : anchor < d /\ d < m

\* A message listed once is in the log some day, whatever fails on the way,
\* unless it is deleted, the credential revoked, or a deleted message stands
\* before it in the history ("transient - let APScheduler retry",
\* scanner_task.py, where messages().get raises on the deleted one every time).
ListedIsIngested ==
  \A m \in Messages :
    m \in seen ~> \/ m \in messageLog \cup deleted
                  \/ status = "revoked"
                  \/ StuckBehindDeleted(m)

=============================================================================
