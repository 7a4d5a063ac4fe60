---------------------------- MODULE NoticeReview ----------------------------
(***************************************************************************)
(* Reading a notice's documents and reviewing what was read: the upload    *)
(* routes and accept-extraction of compliance/routers/notices.py, the      *)
(* extraction half of document_tasks.py, extraction_routing_service.py,    *)
(* the review queue and the AI credential of the tenant.                   *)
(*                                                                         *)
(* The model follows one notice.  `demand' stands for the columns an       *)
(* extraction may fill; a placeholder number (GMAIL-, DRIVE-, PORTAL-) is  *)
(* as good as empty.  A notice type belongs to an authority and is named   *)
(* by it.  An operation that reads the notice, waits for a model or for    *)
(* the database and then writes holds a slot between the two; it writes    *)
(* only the columns it changed from what it had read.                      *)
(*                                                                         *)
(* Roles are those of PermissionRegistry and the tenant filter that of     *)
(* Tenancy.  Left out: the wording of prompts and previews, which nothing  *)
(* stores; the deadline and its alerts (DeadlineAlerts); the risk score    *)
(* and the escalation of the scoring task (NoticeEscalation).              *)
(***************************************************************************)
EXTENDS Naturals, FiniteSets, Functions

CONSTANTS Requests,     \* requests that may be in progress
          Workers,      \* Celery workers
          Authorities,
          Identified,   \* authorities whose identifiers scoring finds in the text
          Replies,      \* envelopes a model may answer with
          Overlapping,  \* requests this instance lets be in progress together
          MaxBusy,      \* bound: operations in progress at once
          MaxDocuments, \* bound: documents waiting for the worker or with it
          MaxFaults     \* bound: crashes and outages

CriticalFields == {"notice_number", "authority"}

Slots == Requests \cup Workers

ASSUME ReviewAssumption ==
  /\ Identified \subseteq Authorities /\ "none" \notin Authorities
  /\ \A r \in Replies : \A f \in DOMAIN r :
       r[f].confidence \in 0..100 /\ r[f].ok \in BOOLEAN
  /\ {MaxBusy, MaxDocuments, MaxFaults} \subseteq Nat

VARIABLES
  notice,     \* the columns of the compliance_notices row
  row,        \* its notice_review_queue row
  key,        \* does resolve_credential find a key for the tenant?
  documents,  \* uploaded documents whose task is queued
  unread,     \* history: after the latest upload, the task of one of them ended
              \* and left the notice pending
  slot,       \* operations in progress
  faults      \* bound: faults so far

queue == << documents, unread >>
vars  == << notice, row, key, queue, slot, faults >>

Statuses == {"pending", "completed", "accepted", "failed"}
Free == [op |-> "free", ext |-> "pending", demand |-> "none", by |-> "none",
         authority |-> "none", type |-> "none", overtaken |-> {}]

Init ==
  /\ notice \in [ext : {"pending"}, env : {"none"}, demand : {"none", "human"},
                 authority : Authorities, type : {"none"}]
  /\ row = "absent"
  /\ key \in {"none", "some"}
  /\ documents = 0 /\ unread = FALSE
  /\ slot = [s \in Slots |-> Free]
  /\ faults = 0

-----------------------------------------------------------------------------
(***************************************************************************)
(* What an envelope is worth.  Confidences are in percent.                 *)
(***************************************************************************)
Gate      == 85   \* EXTRACTION_AVG_GATE and EXTRACTION_CRITICAL_GATE
Threshold == 75   \* CONFIDENCE_THRESHOLD of the review queue

\* A field that fails its structural rule keeps half of its confidence.
Annotate(field) == IF field.ok THEN field.confidence ELSE field.confidence \div 2

ValidateAndScore(reply) == [f \in DOMAIN reply |-> Annotate(reply[f])]

\* Is the average of the returned fields at least g?
AverageReaches(scores, g) ==
  /\ DOMAIN scores # {}
  /\ FoldFunction(+, 0, scores) >= g * Cardinality(DOMAIN scores)

RouteOrApply(reply) ==
  LET scores == ValidateAndScore(reply)
  IN  IF /\ AverageReaches(scores, Gate)
         /\ \A f \in CriticalFields : f \in DOMAIN scores /\ scores[f] >= Gate
      THEN "apply" ELSE "review_queue"

\* extract_notice_fields_regex: what a tenant without any key gets.
RegexReply == [notice_number |-> [confidence |-> 75, ok |-> TRUE],
               authority     |-> [confidence |-> 70, ok |-> TRUE]]

\* What may come of reading the file, with a model and without.
ModelDecisions == {RouteOrApply(reply) : reply \in Replies}
RegexDecisions == {RouteOrApply(RegexReply)}

\* compute_heuristic_confidence: how sure scoring is of the authority ...
AuthorityConfidence(n) == IF n.authority \in Identified THEN 92 ELSE 55

\* ... and of the type.  Seeded fault: the type is taken for a guess.
TypeAlwaysGuessed(n) == 40

TypeConfidence(n) == IF n.type # "none" THEN 90 ELSE 40

LowConfidence(n) ==
  AuthorityConfidence(n) < Threshold \/ TypeConfidence(n) < Threshold

-----------------------------------------------------------------------------
(***************************************************************************)
(* Operations in progress.                                                 *)
(***************************************************************************)
CanStart(s, op) ==
  /\ slot[s] = Free /\ Cardinality({r \in Slots : slot[r] # Free}) < MaxBusy
  /\ s \in (IF op \in {"extract", "classify"} THEN Workers ELSE Requests)
  /\ s \in Requests => \A r \in Requests : slot[r] # Free =>
       \E ops \in Overlapping : slot[r].op \in ops /\ op \in ops

\* What happens to the slots when s becomes rec and the others are told of
\* the events they were overtaken by, as far as it matters to them.
Minds(op) == CASE op \in {"upload", "apply"} -> {"accepted", "edited"}
               [] op = "extract"             -> {"accepted"}
               [] op = "classify"            -> {"reviewed", "edited"}
               [] OTHER                      -> {}

Told(t, events) == [t EXCEPT !.overtaken = @ \cup (events \cap Minds(t.op))]

Becomes(s, rec, events) ==
  slot' = [r \in Slots |-> IF r = s THEN rec ELSE Told(slot[r], events)]

Start(s, rec)     == Becomes(s, rec, {})
Finish(s, events) == Becomes(s, Free, events)

\* Extraction tasks under way.
Reading == {s \in Slots : slot[s].op \in {"extract", "apply"}}

\* One of the faults this instance allows.
Fault == faults < MaxFaults /\ faults' = faults + 1

\* A column after the flush of an object that had read `loaded'.
Written(loaded, new, now) == IF new = loaded THEN now ELSE new

\* Seeded fault: an accepted extraction does not freeze the notice.
NeverSkip(ext) == FALSE

ShouldSkipExtraction(ext) == ext = "accepted"

\* _enqueue_for_review: the type is never predicted, so the row is always due.
EnqueueForReview(decision) == IF decision = "review_queue" THEN "pending" ELSE row

\* Seeded fault: a confident extraction clobbers.
Clobbered(loaded) == "read"

\* _apply_fields_to_columns, as a flush leaves the column.
Filled(loaded) == IF loaded = "none" THEN "read" ELSE notice.demand

\* apply_extraction_to_notice and its commit, on the notice as s had read it.
Apply(s, decision) ==
  LET sure == decision = "apply" IN
  /\ notice' = [notice EXCEPT
       !.env = "some",
       !.ext = Written(slot[s].ext, IF sure THEN "accepted" ELSE "completed", @),
       !.demand = IF sure THEN Filled(slot[s].demand) ELSE @]
  /\ row' = EnqueueForReview(decision)
  /\ Finish(s, IF sure THEN {"accepted"} ELSE {})

-----------------------------------------------------------------------------
(***************************************************************************)
(* Uploads.  upload_notice_file queues the document's task and then, if    *)
(* nothing was extracted yet, reads the file in the request itself.  A     *)
(* broker failure is logged and the document stays where it is.            *)
(***************************************************************************)
UploadNoticeFile(s) ==
  /\ CanStart(s, "upload")
  /\ \/ /\ documents + Cardinality(Reading) < MaxDocuments
        /\ documents' = documents + 1 /\ unread' = FALSE
        /\ UNCHANGED faults
     \/ Fault /\ UNCHANGED queue
  /\ IF ShouldSkipExtraction(notice.ext) \/ notice.env # "none"
     THEN UNCHANGED slot
     ELSE Start(s, [Free EXCEPT !.op = "upload", !.ext = notice.ext,
                                !.demand = notice.demand,
                                !.by = IF key = "none" THEN "regex" ELSE "model"])
  /\ UNCHANGED << notice, row, key >>

UploadIsRead(s) ==
  /\ slot[s].op = "upload"
  /\ \E decision \in (IF slot[s].by = "regex" THEN RegexDecisions ELSE ModelDecisions) :
       Apply(s, decision)
  /\ UNCHANGED << key, queue, faults >>

\* No text, or the model fails: the file stays attached, nothing is written.
UploadIsNotRead(s) ==
  /\ slot[s].op = "upload"
  /\ Finish(s, {})
  /\ UNCHANGED << notice, row, key, queue, faults >>

-----------------------------------------------------------------------------
(***************************************************************************)
(* The worker: process_document_task up to the notice, an attempt that is  *)
(* retried aside, and _run_phase17_extraction.                             *)
(***************************************************************************)
Taken == documents - 1

\* Seeded fault: the message is acknowledged when the task starts.
AckedEarly == documents

\* acks_late and reject_on_worker_lost: the message of a lost worker returns.
Redelivered == documents + 1

\* The task ends before it gets to the notice: there is no file or no text, the
\* engine refuses the file, or the soft time limit or the last retry is used up.
TaskEndsUnread(s) ==
  /\ documents > 0 /\ CanStart(s, "extract")
  /\ documents' = Taken /\ unread' = (notice.ext = "pending")
  /\ UNCHANGED << notice, row, key, slot, faults >>

\* The check before the model is called.  Without a credential the notice is
\* marked failed; with the tenant's own key (not the server's) a commit in
\* between expires the notice, and a later `failed' is written regardless.
StartExtraction(s) ==
  /\ documents > 0 /\ CanStart(s, "extract")
  /\ documents' = Taken /\ UNCHANGED unread
  /\ \/ /\ ShouldSkipExtraction(notice.ext)
        /\ UNCHANGED << notice, slot >>
     \/ /\ ~ShouldSkipExtraction(notice.ext) /\ key = "none"
        /\ notice' = [notice EXCEPT !.ext = "failed"]
        /\ UNCHANGED slot
     \/ /\ ~ShouldSkipExtraction(notice.ext) /\ key # "none"
        /\ \E loaded \in {notice.ext, "expired"} :
             Start(s, [Free EXCEPT !.op = "extract", !.ext = loaded])
        /\ UNCHANGED notice
  /\ UNCHANGED << row, key, faults >>

\* The provider refuses, or its answer cannot be parsed; no second look.
ModelFails(s) ==
  /\ slot[s].op = "extract"
  /\ notice' = [notice EXCEPT !.ext = Written(slot[s].ext, "failed", @)]
  /\ Finish(s, {})
  /\ UNCHANGED << row, key, queue, faults >>

\* The answer is there: refresh, and look again whether it is still wanted.
ModelAnswers(s) ==
  /\ slot[s].op = "extract"
  /\ \/ /\ ShouldSkipExtraction(notice.ext)
        /\ Finish(s, {})
     \/ /\ ~ShouldSkipExtraction(notice.ext)
        /\ Start(s, [Free EXCEPT !.op = "apply", !.ext = notice.ext,
                                 !.demand = notice.demand])
  /\ UNCHANGED << notice, row, key, queue, faults >>

ApplyExtraction(s) ==
  /\ slot[s].op = "apply"
  /\ \E decision \in ModelDecisions : Apply(s, decision)
  /\ UNCHANGED << key, queue, faults >>

\* The flush or the commit fails; after the rollback `failed' is written.
ApplyFails(s) ==
  /\ slot[s].op = "apply" /\ Fault
  /\ notice' = [notice EXCEPT !.ext = "failed"]
  /\ Finish(s, {})
  /\ UNCHANGED << row, key, queue >>

WorkerDies(s) ==
  /\ s \in Reading /\ Fault
  /\ documents' = Redelivered
  /\ Finish(s, {})
  /\ UNCHANGED << notice, row, key, unread >>

\* The hard time limit kills the task, whose message is then acknowledged; or
\* the refresh or the commit of `failed' raises, which is only logged.
ExtractionLost(s) ==
  /\ s \in Reading /\ Fault
  /\ unread' = (notice.ext = "pending")
  /\ Finish(s, {})
  /\ UNCHANGED << notice, row, key, documents >>

-----------------------------------------------------------------------------
(***************************************************************************)
(* People: accept_extraction, update_notice and the AI settings.           *)
(***************************************************************************)
\* Only what was completed can be accepted, unless the client replays the
\* envelope of a preview, which is then stored as completed first.
StartAcceptance(s) ==
  /\ CanStart(s, "accept")
  /\ \E replayed \in BOOLEAN :
       LET parked == notice.ext \in {"completed", "accepted"} IN
       /\ parked \/ replayed
       /\ Start(s, [Free EXCEPT !.op = "accept", !.ext = notice.ext,
                                !.by = IF parked THEN "none" ELSE "preview"])
  /\ UNCHANGED << notice, row, key, queue, faults >>

\* The reviewed items are written: the demand, the authority, both or none.
CommitAcceptance(s) ==
  /\ slot[s].op = "accept"
  /\ \E demand \in {"human", notice.demand}, a \in Authorities :
       /\ notice' = [notice EXCEPT
            !.ext = Written(slot[s].ext, "accepted", @),
            !.env = IF slot[s].by = "preview" THEN "some" ELSE @,
            !.demand = demand, !.authority = a]
       /\ Finish(s, {"accepted"} \cup
                    (IF demand # notice.demand \/ a # notice.authority THEN {"edited"} ELSE {}))
  /\ UNCHANGED << row, key, queue, faults >>

\* An item that cannot be coerced, or the commit fails.
RefuseAcceptance(s) ==
  /\ slot[s].op = "accept"
  /\ Finish(s, {})
  /\ UNCHANGED << notice, row, key, queue, faults >>

\* PATCH of the metadata.  The type is not compared with the authority.
UpdateNotice ==
  /\ \E demand \in {"human", notice.demand}, t \in Authorities \cup {notice.type} :
       /\ notice' = [notice EXCEPT !.demand = demand, !.type = t]
       /\ notice' # notice
  /\ slot' = [r \in Slots |-> Told(slot[r], {"edited"})]
  /\ UNCHANGED << row, key, queue, faults >>

\* A tenant's own key; without one the server's default, if it has one.
SetKey    == key = "none" /\ key' = "some"
             /\ UNCHANGED << notice, row, queue, slot, faults >>

DeleteKey == key = "some" /\ key' = "none"
             /\ UNCHANGED << notice, row, queue, slot, faults >>

-----------------------------------------------------------------------------
(***************************************************************************)
(* The review queue.                                                       *)
(***************************************************************************)
\* enqueue_manual: anyone who sees the notice may ask for another look.
FlagNotice ==
  /\ row # "pending" /\ row' = "pending"
  /\ UNCHANGED << notice, key, queue, slot, faults >>

\* assign_reviewer_label loads the row and the notice, and compares a type
\* with the authority it is given or the notice has.
OpenReview(s) ==
  /\ row # "absent" /\ CanStart(s, "review")
  /\ \E a, t \in Authorities \cup {"none"} :
       /\ a # "none" \/ t # "none"
       /\ t # "none" => t = IF a = "none" THEN notice.authority ELSE a
       /\ Start(s, [Free EXCEPT !.op = "review",
                      !.authority = IF a = notice.authority THEN "none" ELSE a,
                      !.type = IF t = notice.type THEN "none" ELSE t])
  /\ UNCHANGED << notice, row, key, queue, faults >>

\* The commit marks the row reviewed, whatever it predicts by now.
AssignReviewerLabel(s) ==
  /\ slot[s].op = "review"
  /\ notice' = [notice EXCEPT !.authority = Written("none", slot[s].authority, @),
                              !.type = Written("none", slot[s].type, @)]
  /\ row' = "reviewed"
  /\ Finish(s, {"reviewed"} \cup (IF notice' # notice THEN {"edited"} ELSE {}))
  /\ UNCHANGED << key, queue, faults >>

\* classify_and_score_notice, from an intake, a transition or the nightly
\* recompute: it refreshes the notice and then puts a doubtful one in the queue.
StartScoring(s) ==
  /\ CanStart(s, "classify")
  /\ Start(s, [Free EXCEPT !.op = "classify",
                           !.by = IF LowConfidence(notice) THEN "doubt" ELSE "none"])
  /\ UNCHANGED << notice, row, key, queue, faults >>

EnqueueLowConfidence(s) ==
  /\ slot[s].op = "classify"
  /\ row' = IF slot[s].by = "doubt" THEN "pending" ELSE row
  /\ Finish(s, {})
  /\ UNCHANGED << notice, key, queue, faults >>

\* The upsert fails or the worker dies; scoring again is always possible.
ScoringFails(s) ==
  /\ slot[s].op = "classify"
  /\ Finish(s, {})
  /\ UNCHANGED << notice, row, key, queue, faults >>

-----------------------------------------------------------------------------
Work(s) ==
  \/ UploadIsRead(s) \/ UploadIsNotRead(s)
  \/ ModelFails(s) \/ ModelAnswers(s) \/ ApplyExtraction(s)
  \/ CommitAcceptance(s) \/ RefuseAcceptance(s)
  \/ AssignReviewerLabel(s) \/ EnqueueLowConfidence(s) \/ ScoringFails(s)

Next ==
  \/ UpdateNotice \/ FlagNotice \/ SetKey \/ DeleteKey
  \/ \E s \in Slots :
       \/ UploadNoticeFile(s) \/ TaskEndsUnread(s) \/ StartExtraction(s)
       \/ StartAcceptance(s) \/ OpenReview(s) \/ StartScoring(s) \/ Work(s)
       \/ ApplyFails(s) \/ WorkerDies(s) \/ ExtractionLost(s)

(***************************************************************************)
(* A request or task in progress ends, and the broker does not leave a     *)
(* document in the queue for ever while workers keep becoming idle; how   *)
(* the task then ends is left open.                                        *)
(***************************************************************************)
Fairness ==
  /\ \A s \in Slots : WF_vars(Work(s))
  /\ SF_vars(\E s \in Slots : StartExtraction(s) \/ TaskEndsUnread(s))

Spec == Init /\ [][Next]_vars /\ Fairness

-----------------------------------------------------------------------------
(***************************************************************************)
(* Properties.                                                             *)
(***************************************************************************)
\* The rows and the operations keep their types.
ReviewTypeOK ==
  /\ notice \in [ext : Statuses, env : {"none", "some"},
                 demand : {"none", "read", "human"}, authority : Authorities,
                 type : Authorities \cup {"none"}]
  /\ row \in {"absent", "pending", "reviewed"}
  /\ key \in {"none", "some"}
  /\ slot \in [Slots ->
       [op : {"free", "upload", "extract", "apply", "accept", "review", "classify"},
        ext : Statuses \cup {"expired"}, demand : {"none", "read", "human"},
        by : {"none", "regex", "model", "preview", "doubt"},
        authority : Authorities \cup {"none"}, type : Authorities \cup {"none"},
        overtaken : SUBSET {"accepted", "edited", "reviewed"}]]
  /\ documents \in Nat /\ unread \in BOOLEAN /\ faults \in 0..MaxFaults

\* Losing the accepted status is the mistake of an extraction that was under
\* way when the acceptance came; no upload that begins afterwards touches it.
FrozenForLaterUploads ==
  [][notice.ext = "accepted" /\ notice'.ext # "accepted" =>
       \E s \in Slots : "accepted" \in slot[s].overtaken /\ slot'[s] = Free]_vars

\* A value a person entered gives way to one a model read only in an
\* extraction that had loaded the notice before the person saved it.
HumanValueKept ==
  [][notice.demand = "human" /\ notice'.demand = "read" =>
       \E s \in Slots : {"edited", "accepted"} \cap slot[s].overtaken # {}
                        /\ slot'[s] = Free]_vars

\* Once a reviewer has settled the type, and the text carries the
\* identifiers of the authority, no scoring that begins later puts the
\* notice back in the queue.
ReviewSticks ==
  [][/\ row = "reviewed" /\ row' = "pending"
     /\ notice.type # "none" /\ notice.authority \in Identified
     => \/ FlagNotice
        \/ \E s \in Slots : slot[s].op \in {"upload", "apply"} /\ slot'[s] = Free
        \/ \E s \in Slots : slot[s].overtaken # {} /\ slot'[s] = Free]_vars

\* Reading comes to an end: once the worker has been asked to read a document,
\* the notice does not stay pending, whatever workers die on the way - unless the
\* task itself ended for good before it had an answer about the notice.
QueuedIsConcluded == documents > 0 ~> notice.ext # "pending" \/ unread
=============================================================================
