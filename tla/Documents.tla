------------------------------ MODULE Documents ------------------------------
(***************************************************************************)
(* Uploaded documents: routers/documents.py, the imports of the other      *)
(* components, services/storage_service.py and the Celery task that        *)
(* processes a document.                                                   *)
(*                                                                         *)
(* The model follows the uploads of one file name: a user has at most one  *)
(* document of that name that has not failed.  A file is the number of the *)
(* save that wrote it; a text is the number of the file it was read from.  *)
(* An upload, a rollback and a deletion take two steps, the statement that *)
(* loads the row and the commit, joined by a request slot; a task takes    *)
(* two, the commit of PROCESSING with the read of the file and the commit  *)
(* of the result.  A flush writes only the columns whose value differs     *)
(* from the loaded one.                                                    *)
(*                                                                         *)
(* Left out: categories, metadata and highlights, which are copied with    *)
(* the text; S3, which replaces the disk; audit rows; the notice pipeline  *)
(* that follows a completed notice document (DeadlineAlerts, NoticeReview).*)
(***************************************************************************)
EXTENDS Naturals, FiniteSets, Sequences

CONSTANTS Users, NoUser,
          Admin,        \* users with the role admin
          Uploaders,    \* users who bring in documents of the name
          Slots,        \* requests in progress
          Sharable,     \* documents this instance shares
          Grants,       \* permissions it shares them with
          Single,       \* requests this instance has one of at a time
          MaxDocs,      \* bound: documents rows
          MaxFiles,     \* bound: files saved
          MaxTasks,     \* bound: tasks dispatched
          MaxRetries,   \* process_document_task's max_retries
          MaxFaults,    \* bound: crashes, kills and outages
          MaxVersion    \* bound: versions of a document

ASSUME DocumentsAssumption ==
  /\ Admin \in SUBSET Users /\ Uploaders \in SUBSET Users /\ NoUser \notin Users
  /\ Grants \subseteq {"view", "edit"}
  /\ {MaxDocs, MaxFiles, MaxTasks, MaxRetries, MaxFaults, MaxVersion} \subseteq Nat

VARIABLES
  docs,     \* documents and, in snaps, their document_versions
  perms,    \* document_permissions
  disk,     \* the upload directory
  saved,    \* files saved so far
  tasks,    \* process_document_task messages in the order of their dispatch
  slot,     \* requests in progress
  faults,   \* bound: faults so far
  lost,     \* history: documents left unsettled with nobody to work on them
  orphans   \* history: files left behind by a row that was not committed or
            \* by a deletion

vars == << docs, perms, disk, saved, tasks, slot, faults, lost, orphans >>

DocIds  == 1..MaxDocs
TaskIds == 1..MaxTasks
Absent  == [status |-> "absent", owner |-> NoUser, file |-> 0, text |-> 0,
            version |-> 0, snaps |-> {}]
NoTask  == [stage |-> "none", doc |-> 0, retries |-> 0, file |-> 0, had |-> 0]
Free    == [op |-> "free", who |-> NoUser, docs |-> {}, file |-> 0,
            row |-> Absent, to |-> 0, files |-> {}]

Exists(d)    == docs[d].status # "absent"
Unsettled(d) == docs[d].status \in {"pending", "processing"}
Live(d)      == Exists(d) /\ docs[d].status # "failed"

\* The rows on which the path of a new version is taken.
LiveOf(u) == {d \in DocIds : Live(d) /\ docs[d].owner = u}

FilesOf(row) == ({row.file} \cup {v.file : v \in row.snaps}) \ {0}

\* A row an upload holds FOR UPDATE.
Locked(d) == \E s \in Slots : slot[s].op = "upload" /\ d \in slot[s].docs

\* uq_documents_user_filename: would row d of u be a second live one?
NameTaken(u, d) == LiveOf(u) \ {d} # {}

Init ==
  /\ docs    = [d \in DocIds |-> Absent]
  /\ perms   = [d \in DocIds |-> [u \in Users |-> "none"]]
  /\ disk    = {}
  /\ saved   = 0
  /\ tasks   = [t \in TaskIds |-> NoTask]
  /\ slot    = [s \in Slots |-> Free]
  /\ faults  = 0
  /\ lost    = {}
  /\ orphans = {}

-----------------------------------------------------------------------------
(***************************************************************************)
(* Who may see and change what.                                            *)
(***************************************************************************)
OwnerOrAdmin(u, d) == Exists(d) /\ (docs[d].owner = u \/ u \in Admin)

GetAccessibleDocument(u, d, requireEdit) ==
  \/ OwnerOrAdmin(u, d)
  \/ Exists(d) /\ perms[d][u] \in (IF requireEdit THEN {"edit"} ELSE {"view", "edit"})

\* Documents whose row each endpoint returns to u.
GetAllDocuments(u)  == {d \in DocIds : Exists(d) /\ docs[d].owner = u}
SearchDocuments(u)  == {d \in GetAllDocuments(u) : docs[d].status = "completed"}
GetDocument(u)      == {d \in DocIds : GetAccessibleDocument(u, d, FALSE)}
GetPermissions(u)   == {d \in DocIds : OwnerOrAdmin(u, d)}

GetSharedDocuments(u) == {d \in DocIds : Exists(d) /\ perms[d][u] # "none"}

\* The counts on the dashboard, which has no count of pending documents.
GetDocumentStats(u) ==
  [k \in {"processing", "completed", "failed"} |->
     Cardinality({d \in GetAllDocuments(u) : docs[d].status = k})]

\* Files u can download or preview: the current one and the versions'.
DownloadDocument(u) == {docs[d].file : d \in GetDocument(u)} \cap disk

\* Seeded fault: the version is found without asking for the document.
DownloadAnyVersion(u) ==
  (UNION {{v.file : v \in docs[d].snaps} : d \in DocIds}) \cap disk

DownloadVersion(u) ==
  (UNION {{v.file : v \in docs[d].snaps} : d \in GetDocument(u)}) \cap disk

-----------------------------------------------------------------------------
(***************************************************************************)
(* Requests.                                                               *)
(***************************************************************************)
CanStart(s, op) ==
  slot[s] = Free /\ (op \in Single => \A r \in Slots : slot[r].op # op)

Start(s, rec) == slot' = [slot EXCEPT ![s] = rec]
Finish(s)     == slot' = [slot EXCEPT ![s] = Free]

\* One of the faults this instance allows.
Fault == faults < MaxFaults /\ faults' = faults + 1

\* save_file under a fresh name.
SaveFile == saved' = saved + 1 /\ disk' = disk \cup {saved + 1}

\* The column as a flush leaves it: changed only if the object was.
Flushed(loaded, new, current) == IF new = loaded THEN current ELSE new

Snapshot(row) == [number |-> row.version, file |-> row.file, text |-> row.text,
                  status |-> row.status]

NewRow(u, f) == [Absent EXCEPT !.status = "pending", !.owner = u,
                               !.file = f, !.version = 1]

\* The next id; a deleted row keeps its version, so its id is not taken again.
FreshId == {d \in DocIds : docs[d] = Absent /\ \A e \in DocIds : e < d => docs[e] # Absent}

\* The row lock makes a second upload of the name wait; two live rows would
\* make scalar_one_or_none raise.
BeginUpload(s, u) ==
  /\ CanStart(s, "upload") /\ saved < MaxFiles
  /\ Cardinality(LiveOf(u)) <= 1
  /\ \A d \in LiveOf(u) : ~Locked(d) /\ docs[d].version < MaxVersion
  /\ SaveFile
  /\ Start(s, [Free EXCEPT !.op = "upload", !.who = u, !.docs = LiveOf(u),
                           !.file = saved + 1])
  /\ UNCHANGED << docs, perms, tasks, lost, orphans, faults >>

\* The new version replaces the row in place and clears its text.
CommitUpload(s) ==
  LET r == slot[s] IN
  /\ r.op = "upload"
  /\ \E d \in IF r.docs = {} THEN FreshId ELSE r.docs :
       /\ IF r.docs = {}
          THEN /\ ~NameTaken(r.who, d)
               /\ docs' = [docs EXCEPT ![d] = NewRow(r.who, r.file)]
          ELSE docs' = [docs EXCEPT
                 ![d].snaps = @ \cup {Snapshot(docs[d])}, ![d].version = @ + 1,
                 ![d].status = "pending", ![d].file = r.file, ![d].text = 0]
       /\ lost' = lost \ {d}
       /\ Start(s, [Free EXCEPT !.op = "dispatch", !.docs = {d}])
  /\ UNCHANGED << perms, disk, saved, tasks, orphans, faults >>

\* IntegrityError of a first upload that lost the race for the name, or
\* OperationalError: only the path of a new version removes the file.
ConflictUpload(s) ==
  /\ slot[s].op = "upload"
  /\ IF slot[s].docs = {}
     THEN orphans' = orphans \cup {slot[s].file} /\ UNCHANGED disk
     ELSE disk' = disk \ {slot[s].file} /\ UNCHANGED orphans
  /\ IF slot[s].docs = {} /\ NameTaken(slot[s].who, 0) THEN UNCHANGED faults ELSE Fault
  /\ Finish(s)
  /\ UNCHANGED << docs, perms, saved, tasks, lost >>

\* The API process dies after save_file: nothing is committed and nobody knows
\* of the file.
CrashBeforeCommit(s) ==
  /\ slot[s].op = "upload"
  /\ orphans' = orphans \cup {slot[s].file}
  /\ Finish(s)
  /\ Fault
  /\ UNCHANGED << docs, perms, disk, saved, tasks, lost >>

\* process_document_task.delay.
Queue(d) ==
  \E t \in TaskIds :
    /\ tasks[t] = NoTask /\ \A k \in TaskIds : k < t => tasks[k] # NoTask
    /\ tasks' = [tasks EXCEPT ![t] = [NoTask EXCEPT !.stage = "queued", !.doc = d]]

Dispatch(s) ==
  /\ slot[s].op = "dispatch"
  /\ \E d \in slot[s].docs : Queue(d)
  /\ Finish(s)
  /\ UNCHANGED << docs, perms, disk, saved, lost, orphans, faults >>

\* The broker is down, or the commit of celery_task_id fails when the task is
\* queued already: the document is failed.
DispatchFails(s) ==
  /\ slot[s].op = "dispatch" /\ \A d \in slot[s].docs : ~Locked(d)
  /\ docs' = [d \in DocIds |-> IF d \in slot[s].docs /\ Exists(d)
                               THEN [docs[d] EXCEPT !.status = "failed"] ELSE docs[d]]
  /\ UNCHANGED tasks \/ \E d \in slot[s].docs : Queue(d)
  /\ Finish(s)
  /\ Fault
  /\ UNCHANGED << perms, disk, saved, lost, orphans >>

\* The API process dies between the commit and the dispatch.
CrashBeforeDispatch(s) ==
  /\ slot[s].op = "dispatch"
  /\ lost' = lost \cup slot[s].docs
  /\ Finish(s)
  /\ Fault
  /\ UNCHANGED << docs, perms, disk, saved, tasks, orphans >>

\* An import stores a new row and never a new version.  A broker that is
\* down is only logged.
StoreRow(u, queued) ==
  /\ saved < MaxFiles
  /\ SaveFile
  /\ \E d \in FreshId :
       /\ ~NameTaken(u, d)
       /\ docs' = [docs EXCEPT ![d] = NewRow(u, saved + 1)]
       /\ IF queued THEN Queue(d) /\ UNCHANGED << lost, faults >>
                    ELSE lost' = lost \cup {d} /\ Fault /\ UNCHANGED tasks
  /\ UNCHANGED << perms, slot, orphans >>

\* The name is taken, and the file was saved before the row was refused.
RefuseRow(u, removed) ==
  /\ saved < MaxFiles /\ NameTaken(u, 0)
  /\ saved' = saved + 1
  /\ IF removed
     THEN UNCHANGED << disk, orphans >>
     ELSE disk' = disk \cup {saved + 1} /\ orphans' = orphans \cup {saved + 1}
  /\ UNCHANGED << docs, perms, tasks, slot, lost, faults >>

\* An import dies between save_file and its commit, or the commit fails for a
\* reason it does not expect.
ImportLosesFile ==
  /\ saved < MaxFiles
  /\ SaveFile
  /\ orphans' = orphans \cup {saved + 1}
  /\ Fault
  /\ UNCHANGED << docs, perms, tasks, slot, lost >>

ImportDriveFile(u, queued)    == StoreRow(u, queued) \/ RefuseRow(u, TRUE)
ImportPortalExport(u, queued) == StoreRow(u, queued) \/ RefuseRow(u, TRUE)
IngestAttachment(u, queued)   == StoreRow(u, queued) \/ RefuseRow(u, TRUE)

\* Neither of these removes the file.
UploadNoticeFile(u, queued) == StoreRow(u, queued) \/ RefuseRow(u, FALSE)
PersistBody(u, queued)      == StoreRow(u, queued) \/ RefuseRow(u, FALSE)

BeginRollback(s, u, d, n) ==
  /\ CanStart(s, "rollback")
  /\ GetAccessibleDocument(u, d, TRUE)
  /\ \E v \in docs[d].snaps : v.number = n
  /\ docs[d].version < MaxVersion
  /\ Start(s, [Free EXCEPT !.op = "rollback", !.docs = {d},
                           !.row = docs[d], !.to = n])
  /\ UNCHANGED << docs, perms, disk, saved, tasks, lost, orphans, faults >>

\* Seeded fault: no unique constraint on (document_id, version_number).
AnyNumber(d, n) == TRUE

\* uq_document_version.
NumberFree(d, n) == \A v \in docs[d].snaps : v.number # n

\* The snapshot holds the row as it was loaded; the restored columns are
\* flushed over the row as it is.
CommitRollback(s) ==
  LET r == slot[s] IN
  /\ r.op = "rollback"
  /\ \E d \in r.docs :
       /\ Exists(d) /\ ~Locked(d) /\ NumberFree(d, r.row.version)
       /\ \E v \in {w \in r.row.snaps : w.number = r.to} :
            LET status == Flushed(r.row.status, v.status, docs[d].status)
            IN  /\ status # "failed" => ~NameTaken(docs[d].owner, d)
                /\ docs' = [docs EXCEPT
                     ![d].snaps = @ \cup {Snapshot(r.row)}, ![d].version = r.row.version + 1,
                     ![d].status = status,
                     ![d].file = Flushed(r.row.file, v.file, @),
                     ![d].text = Flushed(r.row.text, v.text, @)]
                /\ lost' = IF status \in {"pending", "processing"}
                           THEN lost \cup {d} ELSE lost
  /\ Finish(s)
  /\ UNCHANGED << perms, disk, saved, tasks, orphans, faults >>

\* The number or the name is taken, or the document gone.
RollbackConflict(s) ==
  /\ slot[s].op = "rollback"
  /\ \E d \in slot[s].docs :
       \/ ~Exists(d) \/ ~NumberFree(d, slot[s].row.version)
       \/ NameTaken(slot[s].row.owner, d)
  /\ Finish(s)
  /\ UNCHANGED << docs, perms, disk, saved, tasks, lost, orphans, faults >>

\* Seeded fault: the files of the versions are forgotten.
CurrentFileOnly(row) == {row.file}

\* The files a deletion removes: of the versions it loaded, and the current.
Discarded(row) == FilesOf(row)

\* delete_file comes before the commit.  A batch takes the caller's own.  The
\* slot remembers the files of the rows as they were loaded.
BeginDelete(s, u, D) ==
  /\ CanStart(s, "delete")
  /\ \/ \E d \in D : D = {d} /\ OwnerOrAdmin(u, d)
     \/ D # {} /\ D \subseteq GetAllDocuments(u)
  /\ disk' = disk \ UNION {Discarded(docs[d]) : d \in D}
  /\ Start(s, [Free EXCEPT !.op = "delete", !.docs = D,
                           !.files = UNION {FilesOf(docs[d]) : d \in D}])
  /\ UNCHANGED << docs, perms, saved, tasks, lost, orphans, faults >>

\* Versions and permissions go with the row, also a version that came since:
\* its file is left behind.  Ids are not used again.
CommitDelete(s) ==
  /\ slot[s].op = "delete" /\ \A d \in slot[s].docs : ~Locked(d)
  /\ docs'  = [d \in DocIds |-> IF d \in slot[s].docs
                                THEN [Absent EXCEPT !.version = docs[d].version] ELSE docs[d]]
  /\ perms' = [d \in DocIds |-> IF d \in slot[s].docs
                                THEN [u \in Users |-> "none"] ELSE perms[d]]
  /\ lost' = lost \ slot[s].docs
  /\ orphans' = orphans \cup ((UNION {FilesOf(docs[d]) : d \in slot[s].docs}) \ slot[s].files)
  /\ Finish(s)
  /\ UNCHANGED << disk, saved, tasks, faults >>

\* The commit fails and the rows stay without their files.
DeleteFails(s) ==
  /\ slot[s].op = "delete"
  /\ Finish(s)
  /\ Fault
  /\ UNCHANGED << docs, perms, disk, saved, tasks, lost, orphans >>

ShareDocument(u, d, v, p) ==
  /\ OwnerOrAdmin(u, d) /\ v \notin {u, docs[d].owner} /\ perms[d][v] # p
  /\ perms' = [perms EXCEPT ![d][v] = p]
  /\ UNCHANGED << docs, disk, saved, tasks, slot, lost, orphans, faults >>

RevokeShare(u, d, v) ==
  /\ OwnerOrAdmin(u, d) /\ perms[d][v] # "none"
  /\ perms' = [perms EXCEPT ![d][v] = "none"]
  /\ UNCHANGED << docs, disk, saved, tasks, slot, lost, orphans, faults >>

-----------------------------------------------------------------------------
(***************************************************************************)
(* process_document_task.  acks_late with reject_on_worker_lost: a lost    *)
(* worker's message is delivered again; the hard time limit acknowledges   *)
(* it.                                                                     *)
(***************************************************************************)
End(t) == tasks' = [tasks EXCEPT ![t] = [NoTask EXCEPT !.stage = "done"]]

Requeue(t, n) ==
  tasks' = [tasks EXCEPT ![t] = [NoTask EXCEPT !.stage = "queued",
                                   !.doc = tasks[t].doc, !.retries = n]]

SetStatus(d, status) == docs' = [docs EXCEPT ![d].status = status]

\* The row may take part in uq_documents_user_filename again.
MayRevive(d) == docs[d].status = "failed" => ~NameTaken(docs[d].owner, d)

\* The task is delivered; a document that is gone ends it.
TaskFindsNothing(t) ==
  /\ tasks[t].stage = "queued" /\ ~Exists(tasks[t].doc)
  /\ End(t)
  /\ UNCHANGED << docs, perms, disk, saved, slot, lost, orphans, faults >>

\* PROCESSING is committed, the row is loaded again and its file read.
StartTask(t) ==
  LET d == tasks[t].doc IN
  /\ tasks[t].stage = "queued" /\ Exists(d) /\ ~Locked(d)
  /\ MayRevive(d)
  /\ IF docs[d].file \in disk
     THEN /\ SetStatus(d, "processing")
          /\ tasks' = [tasks EXCEPT ![t] = [@ EXCEPT !.stage = "running",
                         !.file = docs[d].file, !.had = docs[d].text]]
     ELSE SetStatus(d, "failed") /\ End(t)
  /\ UNCHANGED << perms, disk, saved, slot, lost, orphans, faults >>

\* The text that was read, and COMPLETED.  The AI stage may fail, or swallow
\* the soft time limit, without effect on either.
FinishTask(t) ==
  LET d == tasks[t].doc IN
  /\ tasks[t].stage = "running" /\ Exists(d) /\ ~Locked(d) /\ MayRevive(d)
  /\ docs' = [docs EXCEPT ![d].status = "completed",
                          ![d].text = Flushed(tasks[t].had, tasks[t].file, @)]
  /\ End(t)
  /\ UNCHANGED << perms, disk, saved, slot, lost, orphans, faults >>

\* Seeded fault: a timeout ends the task and leaves the status alone.
FailSilently(t) == End(t) /\ UNCHANGED docs

\* _safe_set_failed.
SafeSetFailed(t) == SetStatus(tasks[t].doc, "failed") /\ End(t)

\* The soft time limit, a corrupt file, no text, an error retrying cannot cure.
FailTask(t) ==
  /\ tasks[t].stage = "running" /\ Exists(tasks[t].doc) /\ ~Locked(tasks[t].doc)
  /\ SafeSetFailed(t)
  /\ UNCHANGED << perms, disk, saved, slot, lost, orphans, faults >>

\* A transient failure, or a commit the row or the index refuses.
Trips(t) ==
  \/ tasks[t].stage = "running"
  \/ tasks[t].stage = "queued" /\ Exists(tasks[t].doc) /\ ~MayRevive(tasks[t].doc)

RetriesLeft(t) == tasks[t].retries < MaxRetries

\* The status is set to the PROCESSING it was loaded with: nothing to flush.
RetryTask(t) ==
  /\ Trips(t) /\ RetriesLeft(t)
  /\ Requeue(t, tasks[t].retries + 1)
  /\ UNCHANGED << docs, perms, disk, saved, slot, lost, orphans, faults >>

\* The last attempt: FAILED, and the file of the row, reloaded after that
\* commit, is removed.
ExhaustTask(t) ==
  LET d == tasks[t].doc IN
  /\ Trips(t) /\ ~RetriesLeft(t)
  /\ IF Exists(d)
     THEN ~Locked(d) /\ SafeSetFailed(t) /\ disk' = disk \ {docs[d].file}
     ELSE End(t) /\ UNCHANGED << docs, disk >>
  /\ UNCHANGED << perms, saved, slot, lost, orphans, faults >>

WorkerLost(t) ==
  /\ tasks[t].stage = "running"
  /\ Requeue(t, tasks[t].retries)
  /\ Fault
  /\ UNCHANGED << docs, perms, disk, saved, slot, lost, orphans >>

\* The hard time limit, or a status commit that fails and is swallowed.
HardKill(t) ==
  /\ tasks[t].stage = "running"
  /\ End(t)
  /\ lost' = lost \cup ({tasks[t].doc} \cap {d \in DocIds : Exists(d)})
  /\ Fault
  /\ UNCHANGED << docs, perms, disk, saved, slot, orphans >>

EndTask(t) == FinishTask(t) \/ FailTask(t) \/ RetryTask(t) \/ ExhaustTask(t)
Deliver(t) == StartTask(t) \/ TaskFindsNothing(t) \/ EndTask(t)

Requests ==
  \/ \E s \in Slots, u \in Users :
       \/ u \in Uploaders /\ BeginUpload(s, u)
       \/ \E d \in DocIds, n \in 1..MaxVersion : BeginRollback(s, u, d, n)
       \/ \E D \in SUBSET DocIds : BeginDelete(s, u, D)
  \/ \E s \in Slots :
       \/ CommitUpload(s) \/ ConflictUpload(s) \/ CrashBeforeCommit(s)
       \/ Dispatch(s) \/ DispatchFails(s) \/ CrashBeforeDispatch(s)
       \/ CommitRollback(s) \/ RollbackConflict(s) \/ CommitDelete(s) \/ DeleteFails(s)
  \/ \E u \in Uploaders, queued \in BOOLEAN :
       \/ ImportDriveFile(u, queued) \/ ImportPortalExport(u, queued)
       \/ IngestAttachment(u, queued) \/ UploadNoticeFile(u, queued) \/ PersistBody(u, queued)
  \/ ImportLosesFile
  \/ \E u, v \in Users, d \in Sharable :
       (\E p \in Grants : ShareDocument(u, d, v, p)) \/ RevokeShare(u, d, v)

Next == Requests \/ \E t \in TaskIds : Deliver(t) \/ WorkerLost(t) \/ HardKill(t)

Spec == Init /\ [][Next]_vars

-----------------------------------------------------------------------------
(***************************************************************************)
(* The histories VersionHistory speaks of: the files of the versions in    *)
(* the order of their numbers, the current one last.                       *)
(***************************************************************************)
FileOfVersion(row, n) ==
  IF n = row.version THEN row.file ELSE (CHOOSE v \in row.snaps : v.number = n).file

VersionsOf(row) ==
  IF row.status = "absent" THEN << >> ELSE [n \in 1..row.version |-> FileOfVersion(row, n)]

Versions == INSTANCE VersionHistory WITH
  Docs    <- DocIds,
  Files   <- 1..MaxFiles,
  history <- [d \in DocIds |-> VersionsOf(docs[d])],
  used    <- {d \in DocIds : docs[d].version # 0}

-----------------------------------------------------------------------------
(***************************************************************************)
(* Properties.                                                             *)
(***************************************************************************)
\* The history of a document has no gap and no version twice, however uploads
\* and rollbacks of it overlap (the row lock of upload_document and
\* uq_document_version behind rollback_document, which takes none).
HistoryIsComplete ==
  \A d \in DocIds : Exists(d) =>
    /\ {v.number : v \in docs[d].snaps} = 1..(docs[d].version - 1)
    /\ Cardinality(docs[d].snaps) = docs[d].version - 1

\* A document that is PENDING or PROCESSING has a task or is about to be
\* given one, unless its worker was killed, its dispatch never happened or a
\* rollback restored such a status.
UnsettledHasTask ==
  \A d \in DocIds : Unsettled(d) =>
    \/ d \in lost
    \/ \E t \in TaskIds : tasks[t].doc = d /\ tasks[t].stage \in {"queued", "running"}
    \/ \E s \in Slots : slot[s].op = "dispatch" /\ d \in slot[s].docs

\* A file on the disk belongs to a document, to one of its versions or to an
\* upload in progress, save those left by a refused first upload, notice
\* attachment or mail body, by a process that died or an import whose commit
\* failed after the file was saved, and that of a version which was committed
\* while its document was being deleted.
NoFileLeaks ==
  disk \subseteq orphans \cup (UNION {FilesOf(docs[d]) : d \in DocIds})
                         \cup {slot[s].file : s \in Slots}

\* Nobody is listed, shown or handed a file of a document that is neither
\* theirs nor shared with them nor theirs as an administrator to see.
ListsAgreeWithAccess ==
  \A u \in Users :
    /\ GetSharedDocuments(u) \cup GetPermissions(u) \cup SearchDocuments(u) \subseteq GetDocument(u)
    /\ DownloadDocument(u) \cup DownloadVersion(u) \subseteq
         UNION {FilesOf(docs[d]) : d \in GetAllDocuments(u) \cup GetSharedDocuments(u)
                                         \cup (IF u \in Admin THEN DocIds ELSE {})}
    /\ GetDocumentStats(u)["completed"] = Cardinality(SearchDocuments(u))

\* Uploads, rollbacks and deletions are a VersionHistory however they overlap:
\* the file of a version never changes, a rollback restores the very file of
\* the version asked for, though it writes back only what differs from the row
\* it loaded, and no file is ever a version of two documents.
KeepsHistory == Versions!HistorySpec
=============================================================================
