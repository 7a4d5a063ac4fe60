--------------------------- MODULE DocumentsProofs ---------------------------
(***************************************************************************)
(* What holds of the documents of a name for any users, any number of      *)
(* requests, documents, files, versions and tasks, whatever fails, and     *)
(* however requests and tasks overlap.                                     *)
(***************************************************************************)
EXTENDS Documents, FiniteSetTheorems, SequenceTheorems, TLAPS

Statuses == {"absent", "pending", "processing", "completed", "failed"}
Entries  == [number : Nat, file : Nat, text : Nat, status : Statuses]
Rows     == [status : Statuses, owner : Users \cup {NoUser}, file : Nat, text : Nat,
             version : Nat, snaps : SUBSET Entries]
TaskRows == [stage : {"none", "queued", "running", "done"}, doc : 0..MaxDocs,
             retries : 0..MaxRetries, file : Nat, had : Nat]
SlotRows == [op : {"free", "upload", "dispatch", "rollback", "delete"},
             who : Users \cup {NoUser}, docs : SUBSET DocIds, file : Nat,
             row : Rows, to : Nat, files : SUBSET Nat]

DocsTyped  == docs \in [DocIds -> Rows]
TasksTyped == /\ tasks \in [TaskIds -> TaskRows]
              /\ \A t \in TaskIds : tasks[t].stage \in {"queued", "running"} => tasks[t].doc \in DocIds
SlotsTyped == slot \in [Slots -> SlotRows]
RestTyped  == /\ perms \in [DocIds -> [Users -> {"none", "view", "edit"}]]
              /\ saved \in Nat /\ disk \subseteq 1..saved
              /\ lost \subseteq DocIds /\ orphans \subseteq Nat /\ faults \in Nat

DocTypeOK == DocsTyped /\ TasksTyped /\ SlotsTyped /\ RestTyped

LEMMA DocumentBounds ==
  /\ MaxDocs \in Nat /\ MaxFiles \in Nat /\ MaxTasks \in Nat /\ MaxRetries \in Nat
  /\ MaxFaults \in Nat /\ MaxVersion \in Nat /\ NoUser \notin Users
  /\ Admin \subseteq Users /\ Uploaders \subseteq Users /\ Grants \subseteq {"view", "edit"}
  BY DocumentsAssumption

LEMMA BlankRows == Absent \in Rows /\ Free \in SlotRows /\ NoTask \in TaskRows
<1>1. Absent \in Rows
  BY DEF Absent, Rows, Statuses
<1>2. NoTask \in TaskRows
  BY DocumentBounds DEF NoTask, TaskRows
<1> QED
  BY <1>1, <1>2 DEF Free, SlotRows

\* A slot is overwritten.
LEMMA SlotSet ==
  ASSUME SlotsTyped, NEW s \in Slots, NEW rec, slot' = [slot EXCEPT ![s] = rec]
  PROVE  /\ slot'[s] = rec /\ \A r \in Slots \ {s} : slot'[r] = slot[r]
         /\ rec \in SlotRows => SlotsTyped'
  BY DEF SlotsTyped

\* A request ends.
LEMMA SlotFreed ==
  ASSUME SlotsTyped, NEW s \in Slots, Finish(s)
  PROVE  /\ slot'[s] = Free /\ \A r \in Slots \ {s} : slot'[r] = slot[r]
         /\ SlotsTyped'
  BY SlotSet, BlankRows DEF Finish

\* A row is overwritten.
LEMMA RowSet ==
  ASSUME DocsTyped, NEW d \in DocIds, NEW row, docs' = [docs EXCEPT ![d] = row]
  PROVE  /\ docs'[d] = row /\ \A e \in DocIds \ {d} : docs'[e] = docs[e]
         /\ row \in Rows => DocsTyped'
  BY DEF DocsTyped

LEMMA NewRowTyped ==
  ASSUME NEW u \in Users \cup {NoUser}, NEW f \in Nat
  PROVE  /\ NewRow(u, f) \in Rows
         /\ NewRow(u, f).status = "pending" /\ NewRow(u, f).owner = u /\ NewRow(u, f).file = f
         /\ NewRow(u, f).text = 0 /\ NewRow(u, f).version = 1 /\ NewRow(u, f).snaps = {}
  BY DEF NewRow, Absent, Rows, Statuses

LEMMA SnapshotTyped ==
  ASSUME NEW row \in Rows
  PROVE  /\ Snapshot(row) \in Entries
         /\ Snapshot(row).number = row.version /\ Snapshot(row).file = row.file
         /\ Snapshot(row).text = row.text /\ Snapshot(row).status = row.status
  BY DEF Snapshot, Entries, Rows

-----------------------------------------------------------------------------
(***************************************************************************)
(* What a step may do to the rows, the requests and the tasks.             *)
(***************************************************************************)
\* Status and text of one row: a task, or a dispatch that failed.
Restatus(d) ==
  /\ Exists(d) /\ ~Locked(d)
  /\ \E st \in Statuses \ {"absent"}, tx \in Nat :
       /\ docs' = [docs EXCEPT ![d].status = st, ![d].text = tx]
       /\ st = "failed" \/ MayRevive(d)
       /\ \/ tx = docs[d].text
          \/ \E t \in TaskIds : /\ tasks[t].stage = "running" /\ tasks[t].doc = d
                                /\ tx = tasks[t].file

Created(u, f) ==
  \E d \in FreshId : ~NameTaken(u, d) /\ docs' = [docs EXCEPT ![d] = NewRow(u, f)]

\* The file of a new row or version: its upload's, or saved with the row.
NewFile(f) ==
  \/ saved' = saved + 1 /\ f = saved + 1
  \/ \E s \in Slots : CommitUpload(s) /\ f = slot[s].file

Replaces(s) == CommitUpload(s) /\ slot[s].docs # {}

DispatchesOne ==
  \A s \in Slots : slot[s].op = "dispatch" => \E d \in DocIds : slot[s].docs = {d}

\* A step of a task changes one row's status and text, if any.
LEMMA TaskRewrites ==
  ASSUME DocTypeOK, NEW t \in TaskIds,
         StartTask(t) \/ FinishTask(t) \/ FailTask(t) \/ ExhaustTask(t)
  PROVE  (docs' = docs \/ Restatus(tasks[t].doc)) /\ tasks[t].doc \in DocIds
<1> USE DEF DocTypeOK, DocsTyped, TasksTyped
<1>1. tasks[t].stage \in {"queued", "running"} /\ tasks[t].doc \in DocIds
  BY DEF StartTask, FinishTask, FailTask, ExhaustTask, Trips
<1> DEFINE d == tasks[t].doc
<1>2. docs[d] \in Rows
  BY <1>1
<1>3. ASSUME NEW st \in {"processing", "failed"}, SetStatus(d, st), Exists(d), ~Locked(d),
             st = "failed" \/ MayRevive(d)
      PROVE  Restatus(d)
  <2>1. docs' = [docs EXCEPT ![d].status = st, ![d].text = docs[d].text]
    BY <1>1, <1>2, <1>3 DEF SetStatus, Rows
  <2> QED
    BY <1>2, <1>3, <2>1 DEF Restatus, Rows, Statuses
<1>4. CASE StartTask(t)
  BY <1>1, <1>3, <1>4 DEF StartTask
<1>5. CASE FinishTask(t)
  <2> DEFINE tx == Flushed(tasks[t].had, tasks[t].file, docs[d].text)
  <2>0. tx \in {docs[d].text, tasks[t].file}
    BY DEF Flushed
  <2>1. docs' = [docs EXCEPT ![d].status = "completed", ![d].text = tx]
    BY <1>1, <1>2, <1>5 DEF FinishTask
  <2> HIDE DEF tx
  <2>2. /\ tasks[t].stage = "running" /\ Exists(d) /\ ~Locked(d) /\ MayRevive(d)
        /\ tx \in Nat /\ "completed" \in Statuses \ {"absent"}
    BY <1>1, <1>2, <1>5, <2>0 DEF FinishTask, Rows, TaskRows, Statuses
  <2> QED
    BY <1>1, <2>0, <2>1, <2>2 DEF Restatus
<1>6. CASE FailTask(t)
  BY <1>1, <1>3, <1>6 DEF FailTask, SafeSetFailed
<1>7. CASE ExhaustTask(t)
  BY <1>1, <1>3, <1>7 DEF ExhaustTask, SafeSetFailed
<1> QED
  BY <1>4, <1>5, <1>6, <1>7

LEMMA DocsChange ==
  ASSUME DocTypeOK, DispatchesOne, [Next]_vars
  PROVE  \/ docs' = docs
         \/ \E d \in DocIds : Restatus(d)
         \/ \E u \in Users \cup {NoUser}, f \in Nat : Created(u, f) /\ NewFile(f)
         \/ \E s \in Slots : Replaces(s) \/ CommitRollback(s) \/ CommitDelete(s)
<1>1. CASE UNCHANGED vars
  BY <1>1 DEF vars
<1>2. ASSUME NEW s \in Slots, CommitUpload(s)
      PROVE  \/ Replaces(s)
             \/ \E u \in Users \cup {NoUser}, f \in Nat : Created(u, f) /\ NewFile(f)
  <2>1. slot[s].who \in Users \cup {NoUser} /\ slot[s].file \in Nat
    BY DEF DocTypeOK, SlotsTyped, SlotRows
  <2> QED
    BY <1>2, <2>1 DEF Replaces, CommitUpload, Created, NewFile
<1>3. ASSUME NEW s \in Slots, DispatchFails(s)
      PROVE  docs' = docs \/ \E d \in DocIds : Restatus(d)
  <2>1. PICK d \in DocIds : slot[s].docs = {d}
    BY <1>3 DEF DispatchFails, DispatchesOne
  <2>2. docs[d] \in Rows /\ docs = [e \in DocIds |-> docs[e]]
    BY DEF DocTypeOK, DocsTyped
  <2>3. CASE ~Exists(d)
    BY <1>3, <2>1, <2>2, <2>3 DEF DispatchFails
  <2>4. CASE Exists(d)
    <3>1. docs' = [docs EXCEPT ![d].status = "failed"]
      BY <1>3, <2>1, <2>2, <2>4 DEF DispatchFails
    <3>2. docs' = [docs EXCEPT ![d].status = "failed", ![d].text = docs[d].text]
      BY <2>2, <3>1 DEF Rows
    <3>3. ~Locked(d) /\ docs[d].text \in Nat /\ "failed" \in Statuses \ {"absent"}
      BY <1>3, <2>1, <2>2 DEF DispatchFails, Rows, Statuses
    <3> QED
      BY <2>4, <3>2, <3>3 DEF Restatus
  <2> QED
    BY <2>3, <2>4
<1>4. ASSUME NEW u \in Users, NEW queued \in BOOLEAN, StoreRow(u, queued)
      PROVE  \E v \in Users \cup {NoUser}, f \in Nat : Created(v, f) /\ NewFile(f)
  <2>1. saved + 1 \in Nat
    BY DEF DocTypeOK, RestTyped
  <2> QED
    BY <1>4, <2>1 DEF StoreRow, SaveFile, Created, NewFile
<1>5. ASSUME NEW t \in TaskIds, Deliver(t) \/ WorkerLost(t) \/ HardKill(t)
      PROVE  docs' = docs \/ \E d \in DocIds : Restatus(d)
  BY <1>5, TaskRewrites DEF Deliver, EndTask, TaskFindsNothing, RetryTask, WorkerLost, HardKill
<1>6. ASSUME NEW u \in Uploaders, NEW queued \in BOOLEAN,
             \/ ImportDriveFile(u, queued) \/ ImportPortalExport(u, queued)
             \/ IngestAttachment(u, queued) \/ UploadNoticeFile(u, queued) \/ PersistBody(u, queued)
      PROVE  \/ docs' = docs
             \/ \E v \in Users \cup {NoUser}, f \in Nat : Created(v, f) /\ NewFile(f)
  BY <1>4, <1>6, DocumentBounds
     DEF ImportDriveFile, ImportPortalExport, IngestAttachment, UploadNoticeFile, PersistBody, RefuseRow
<1>7. ASSUME NEW s \in Slots, NEW u \in Users,
             \/ u \in Uploaders /\ BeginUpload(s, u)
             \/ \E d \in DocIds, n \in 1..MaxVersion : BeginRollback(s, u, d, n)
             \/ \E D \in SUBSET DocIds : BeginDelete(s, u, D)
      PROVE  docs' = docs
  BY <1>7 DEF BeginUpload, BeginRollback, BeginDelete
<1>8. ASSUME NEW s \in Slots,
             \/ ConflictUpload(s) \/ CrashBeforeCommit(s) \/ Dispatch(s) \/ CrashBeforeDispatch(s)
             \/ RollbackConflict(s) \/ DeleteFails(s)
      PROVE  docs' = docs
  BY <1>8 DEF ConflictUpload, CrashBeforeCommit, Dispatch, CrashBeforeDispatch, RollbackConflict,
              DeleteFails
<1>9. ASSUME NEW u \in Users, NEW v \in Users, NEW d \in Sharable,
             (\E p \in Grants : ShareDocument(u, d, v, p)) \/ RevokeShare(u, d, v)
      PROVE  docs' = docs
  BY <1>9 DEF ShareDocument, RevokeShare
<1>10. CASE ImportLosesFile
  BY <1>10 DEF ImportLosesFile
<1> QED
  BY <1>1, <1>2, <1>3, <1>5, <1>6, <1>7, <1>8, <1>9, <1>10 DEF Next, Requests

\* A request begins, ends or has stored its row.
LEMMA SlotSteps ==
  ASSUME [Next]_vars
  PROVE  \/ slot' = slot
         \/ \E s \in Slots :
              \/ Finish(s) /\ (slot[s].op = "upload" => ConflictUpload(s) \/ CrashBeforeCommit(s))
              \/ CommitUpload(s)
              \/ \E u \in Users : BeginUpload(s, u)
              \/ \E u \in Users, d \in DocIds, n \in 1..MaxVersion : BeginRollback(s, u, d, n)
              \/ \E u \in Users, D \in SUBSET DocIds : BeginDelete(s, u, D)
<1>1. CASE UNCHANGED vars
  BY <1>1 DEF vars
<1>2. ASSUME NEW r \in Slots,
             \/ ConflictUpload(r) \/ CrashBeforeCommit(r)
             \/ Dispatch(r) \/ DispatchFails(r) \/ CrashBeforeDispatch(r)
             \/ CommitRollback(r) \/ RollbackConflict(r) \/ CommitDelete(r) \/ DeleteFails(r)
      PROVE  Finish(r) /\ (slot[r].op = "upload" => ConflictUpload(r) \/ CrashBeforeCommit(r))
  BY <1>2 DEF ConflictUpload, CrashBeforeCommit, Dispatch, DispatchFails, CrashBeforeDispatch,
              CommitRollback, RollbackConflict, CommitDelete, DeleteFails
<1>3. ASSUME NEW t \in TaskIds, Deliver(t) \/ WorkerLost(t) \/ HardKill(t)
      PROVE  slot' = slot
  BY <1>3 DEF Deliver, EndTask, StartTask, TaskFindsNothing, FinishTask, FailTask, RetryTask,
              ExhaustTask, WorkerLost, HardKill
<1>4. ASSUME NEW u \in Uploaders, NEW queued \in BOOLEAN,
             \/ ImportDriveFile(u, queued) \/ ImportPortalExport(u, queued)
             \/ IngestAttachment(u, queued) \/ UploadNoticeFile(u, queued) \/ PersistBody(u, queued)
      PROVE  slot' = slot
  BY <1>4 DEF ImportDriveFile, ImportPortalExport, IngestAttachment, UploadNoticeFile,
              PersistBody, RefuseRow, StoreRow
<1>5. ASSUME NEW u \in Users, NEW v \in Users, NEW d \in Sharable,
             (\E p \in Grants : ShareDocument(u, d, v, p)) \/ RevokeShare(u, d, v)
      PROVE  slot' = slot
  BY <1>5 DEF ShareDocument, RevokeShare
<1>6. CASE ImportLosesFile
  BY <1>6 DEF ImportLosesFile
<1> QED
  BY <1>1, <1>2, <1>3, <1>4, <1>5, <1>6 DEF Next, Requests

\* The same of one slot.
LEMMA SlotsChange ==
  ASSUME SlotsTyped, [Next]_vars, NEW s \in Slots
  PROVE  \/ slot'[s] = slot[s]
         \/ slot'[s] = Free
         \/ \E u \in Users : BeginUpload(s, u)
         \/ \E u \in Users, d \in DocIds, n \in 1..MaxVersion : BeginRollback(s, u, d, n)
         \/ \E u \in Users, D \in SUBSET DocIds : BeginDelete(s, u, D)
         \/ CommitUpload(s)
<1>1. ASSUME NEW r \in Slots, Finish(r)
      PROVE  slot'[s] = slot[s] \/ slot'[s] = Free
  BY <1>1, SlotFreed
<1>2. ASSUME NEW r \in Slots, NEW rec, Start(r, rec), r # s
      PROVE  slot'[s] = slot[s]
  BY <1>2, SlotSet DEF Start
<1>3. ASSUME NEW r \in Slots, CommitUpload(r)
      PROVE  slot'[s] = slot[s] \/ CommitUpload(s)
  BY <1>2, <1>3 DEF CommitUpload
<1>4. ASSUME NEW r \in Slots, NEW u \in Users, BeginUpload(r, u)
      PROVE  slot'[s] = slot[s] \/ BeginUpload(s, u)
  BY <1>2, <1>4 DEF BeginUpload
<1>5. ASSUME NEW r \in Slots, NEW u \in Users, NEW d \in DocIds, NEW n \in 1..MaxVersion,
             BeginRollback(r, u, d, n)
      PROVE  slot'[s] = slot[s] \/ BeginRollback(s, u, d, n)
  BY <1>2, <1>5 DEF BeginRollback
<1>6. ASSUME NEW r \in Slots, NEW u \in Users, NEW D \in SUBSET DocIds, BeginDelete(r, u, D)
      PROVE  slot'[s] = slot[s] \/ BeginDelete(s, u, D)
  BY <1>2, <1>6 DEF BeginDelete
<1> QED
  BY SlotSteps, <1>1, <1>3, <1>4, <1>5, <1>6

\* A task is dispatched, delivered, put back or done with.
LEMMA TaskSteps ==
  ASSUME TasksTyped, SlotsTyped, [Next]_vars
  PROVE  \/ tasks' = tasks
         \/ \E d \in DocIds : Queue(d)
         \/ \E t \in TaskIds :
              \/ End(t) \/ StartTask(t)
              \/ /\ \E n \in 0..MaxRetries : Requeue(t, n)
                 /\ tasks[t].stage \in {"queued", "running"}
<1>1. CASE UNCHANGED vars
  BY <1>1 DEF vars
<1>2. ASSUME NEW t \in TaskIds, Deliver(t) \/ WorkerLost(t) \/ HardKill(t)
      PROVE  \/ End(t) \/ StartTask(t) \/ tasks' = tasks
             \/ /\ \E n \in 0..MaxRetries : Requeue(t, n)
                /\ tasks[t].stage \in {"queued", "running"}
  <2>1. tasks[t].retries \in 0..MaxRetries
    BY DEF TasksTyped, TaskRows
  <2>2. RetriesLeft(t) => tasks[t].retries + 1 \in 0..MaxRetries
    BY <2>1, DocumentBounds DEF RetriesLeft
  <2>3. Trips(t) => tasks[t].stage \in {"queued", "running"}
    BY DEF Trips
  <2> QED
    BY <1>2, <2>1, <2>2, <2>3
       DEF Deliver, EndTask, TaskFindsNothing, FinishTask, FailTask, SafeSetFailed,
           RetryTask, ExhaustTask, WorkerLost, HardKill
<1>3. ASSUME NEW u \in Uploaders, NEW queued \in BOOLEAN,
             \/ ImportDriveFile(u, queued) \/ ImportPortalExport(u, queued)
             \/ IngestAttachment(u, queued) \/ UploadNoticeFile(u, queued) \/ PersistBody(u, queued)
      PROVE  tasks' = tasks \/ \E d \in DocIds : Queue(d)
  BY <1>3 DEF ImportDriveFile, ImportPortalExport, IngestAttachment, UploadNoticeFile,
               PersistBody, RefuseRow, StoreRow, FreshId
<1>4. ASSUME NEW s \in Slots,
             \/ CommitUpload(s) \/ ConflictUpload(s) \/ CrashBeforeCommit(s)
             \/ Dispatch(s) \/ DispatchFails(s)
             \/ CrashBeforeDispatch(s) \/ CommitRollback(s) \/ RollbackConflict(s)
             \/ CommitDelete(s) \/ DeleteFails(s)
      PROVE  tasks' = tasks \/ \E d \in DocIds : Queue(d)
  <2>1. slot[s].docs \subseteq DocIds
    BY DEF SlotsTyped, SlotRows
  <2> QED
    BY <1>4, <2>1 DEF CommitUpload, ConflictUpload, CrashBeforeCommit, Dispatch, DispatchFails,
                      CrashBeforeDispatch, CommitRollback, RollbackConflict, CommitDelete, DeleteFails
<1>5. ASSUME NEW s \in Slots, NEW u \in Users,
             \/ u \in Uploaders /\ BeginUpload(s, u)
             \/ \E d \in DocIds, n \in 1..MaxVersion : BeginRollback(s, u, d, n)
             \/ \E D \in SUBSET DocIds : BeginDelete(s, u, D)
      PROVE  tasks' = tasks
  BY <1>5 DEF BeginUpload, BeginRollback, BeginDelete
<1>6. ASSUME NEW u \in Users, NEW v \in Users, NEW d \in Sharable,
             (\E p \in Grants : ShareDocument(u, d, v, p)) \/ RevokeShare(u, d, v)
      PROVE  tasks' = tasks
  BY <1>6 DEF ShareDocument, RevokeShare
<1>7. CASE ImportLosesFile
  BY <1>7 DEF ImportLosesFile
<1> QED
  BY <1>1, <1>2, <1>3, <1>4, <1>5, <1>6, <1>7 DEF Next, Requests

\* A task is overwritten.
LEMMA TaskSet ==
  ASSUME TasksTyped, NEW t \in TaskIds, NEW rec, tasks' = [tasks EXCEPT ![t] = rec]
  PROVE  /\ tasks'[t] = rec /\ \A k \in TaskIds \ {t} : tasks'[k] = tasks[k]
         /\ /\ rec \in TaskRows
            /\ rec.stage \in {"queued", "running"} => rec.doc \in DocIds
            => TasksTyped'
  BY DEF TasksTyped

\* The same of one task.
LEMMA TasksChange ==
  ASSUME TasksTyped, SlotsTyped, [Next]_vars, NEW t \in TaskIds
  PROVE  tasks'[t] = tasks[t] \/ tasks'[t].stage \in {"queued", "done"} \/ StartTask(t)
<1>1. ASSUME NEW k \in TaskIds, NEW rec, tasks' = [tasks EXCEPT ![k] = rec],
             rec.stage \in {"queued", "done"}
      PROVE  tasks'[t] = tasks[t] \/ tasks'[t].stage \in {"queued", "done"}
  BY <1>1, TaskSet
<1>2. ASSUME NEW k \in TaskIds, End(k) \/ \E n \in Nat : Requeue(k, n)
      PROVE  tasks'[t] = tasks[t] \/ tasks'[t].stage \in {"queued", "done"}
  BY <1>1, <1>2 DEF End, Requeue, NoTask
<1>3. ASSUME NEW d, Queue(d)
      PROVE  tasks'[t] = tasks[t] \/ tasks'[t].stage \in {"queued", "done"}
  BY <1>1, <1>3 DEF Queue, NoTask
<1>4. ASSUME NEW k \in TaskIds, StartTask(k), k # t
      PROVE  tasks'[t] = tasks[t] \/ tasks'[t].stage \in {"queued", "done"}
  BY <1>2, <1>4, TaskSet DEF StartTask
<1> QED
  BY TaskSteps, <1>2, <1>3, <1>4

-----------------------------------------------------------------------------
(***************************************************************************)
(* The rows after each kind of change, field by field.                     *)
(***************************************************************************)
OthersStay(d) == \A e \in DocIds \ {d} : docs'[e] = docs[e]

LEMMA RestatusEffect ==
  ASSUME DocsTyped, TasksTyped, NEW d \in DocIds, Restatus(d)
  PROVE  /\ DocsTyped' /\ OthersStay(d) /\ Exists(d) /\ ~Locked(d)
         /\ docs'[d].owner = docs[d].owner /\ docs'[d].file = docs[d].file
         /\ docs'[d].version = docs[d].version /\ docs'[d].snaps = docs[d].snaps
         /\ docs'[d].status # "absent" /\ (docs'[d].status = "failed" \/ MayRevive(d))
         /\ \/ docs'[d].text = docs[d].text
            \/ \E t \in TaskIds : /\ tasks[t].stage = "running" /\ tasks[t].doc = d
                                  /\ docs'[d].text = tasks[t].file
<1>1. PICK st \in Statuses \ {"absent"}, tx \in Nat :
        /\ docs' = [docs EXCEPT ![d].status = st, ![d].text = tx]
        /\ st = "failed" \/ MayRevive(d)
        /\ \/ tx = docs[d].text
           \/ \E t \in TaskIds : /\ tasks[t].stage = "running" /\ tasks[t].doc = d
                                 /\ tx = tasks[t].file
  BY DEF Restatus
<1>2. docs[d] \in Rows
  BY DEF DocsTyped
<1> DEFINE row == [docs[d] EXCEPT !.status = st, !.text = tx]
<1>3. docs' = [docs EXCEPT ![d] = row]
  BY <1>1, <1>2 DEF DocsTyped
<1>4. /\ row \in Rows /\ row.status = st /\ row.text = tx /\ row.owner = docs[d].owner
      /\ row.file = docs[d].file /\ row.version = docs[d].version /\ row.snaps = docs[d].snaps
  BY <1>2 DEF Rows
<1> HIDE DEF row
<1>5. docs'[d] = row /\ OthersStay(d) /\ DocsTyped'
  BY <1>3, <1>4, RowSet DEF OthersStay
<1> QED
  BY <1>1, <1>4, <1>5 DEF Restatus

LEMMA CreatedEffect ==
  ASSUME DocsTyped, NEW u \in Users \cup {NoUser}, NEW f \in Nat, Created(u, f)
  PROVE  \E d \in DocIds :
           /\ DocsTyped' /\ OthersStay(d) /\ docs[d] = Absent /\ ~NameTaken(u, d)
           /\ docs'[d] = NewRow(u, f)
<1>1. PICK d \in FreshId : ~NameTaken(u, d) /\ docs' = [docs EXCEPT ![d] = NewRow(u, f)]
  BY DEF Created
<1>2. d \in DocIds /\ docs[d] = Absent
  BY DEF FreshId
<1> QED
  BY <1>1, <1>2, RowSet, NewRowTyped DEF OthersStay

LEMMA ReplacesEffect ==
  ASSUME DocsTyped, SlotsTyped, NEW s \in Slots, Replaces(s)
  PROVE  /\ slot[s].op = "upload"
         /\ \E d \in DocIds \cap slot[s].docs :
              /\ DocsTyped' /\ OthersStay(d)
              /\ slot' = [slot EXCEPT ![s] = [Free EXCEPT !.op = "dispatch", !.docs = {d}]]
              /\ docs'[d].owner = docs[d].owner /\ docs'[d].file = slot[s].file
              /\ docs'[d].version = docs[d].version + 1 /\ docs'[d].text = 0
              /\ docs'[d].snaps = docs[d].snaps \cup {Snapshot(docs[d])}
              /\ docs'[d].status = "pending"
<1>1. PICK d \in slot[s].docs :
        /\ docs' = [docs EXCEPT
             ![d].snaps = @ \cup {Snapshot(docs[d])}, ![d].version = @ + 1,
             ![d].status = "pending", ![d].file = slot[s].file, ![d].text = 0]
        /\ slot' = [slot EXCEPT ![s] = [Free EXCEPT !.op = "dispatch", !.docs = {d}]]
  BY DEF Replaces, CommitUpload, Start
<1>2. d \in DocIds /\ slot[s].file \in Nat /\ docs[d] \in Rows
  BY DEF SlotsTyped, SlotRows, DocsTyped
<1> DEFINE row == [docs[d] EXCEPT
                     !.snaps = @ \cup {Snapshot(docs[d])}, !.version = @ + 1,
                     !.status = "pending", !.file = slot[s].file, !.text = 0]
<1>3. docs' = [docs EXCEPT ![d] = row]
  BY <1>1, <1>2 DEF DocsTyped
<1>6. docs[d].version + 1 \in Nat
  BY <1>2 DEF Rows
<1>7. docs[d].snaps \cup {Snapshot(docs[d])} \in SUBSET Entries
  <2>1. docs[d].snaps \in SUBSET Entries
    BY <1>2 DEF Rows
  <2> QED
    BY <1>2, <2>1, SnapshotTyped
<1>4. /\ row \in Rows /\ row.status = "pending" /\ row.text = 0 /\ row.owner = docs[d].owner
      /\ row.file = slot[s].file /\ row.version = docs[d].version + 1
      /\ row.snaps = docs[d].snaps \cup {Snapshot(docs[d])}
  BY <1>2, <1>6, <1>7 DEF Rows, Statuses
<1> HIDE DEF row
<1>5. docs'[d] = row /\ OthersStay(d) /\ DocsTyped'
  BY <1>2, <1>3, <1>4, RowSet DEF OthersStay
<1> QED
  BY <1>1, <1>2, <1>4, <1>5 DEF Replaces, CommitUpload

LEMMA RollbackEffect ==
  ASSUME DocsTyped, SlotsTyped, NEW s \in Slots, CommitRollback(s)
  PROVE  /\ slot[s].op = "rollback"
         /\ \E d \in DocIds \cap slot[s].docs : \E v \in slot[s].row.snaps :
              /\ DocsTyped' /\ OthersStay(d)
              /\ Exists(d) /\ ~Locked(d) /\ NumberFree(d, slot[s].row.version)
              /\ docs'[d].owner = docs[d].owner
              /\ docs'[d].file \in {v.file, docs[d].file}
              /\ slot[s].row.file = docs[d].file => docs'[d].file = v.file
              /\ docs'[d].version = slot[s].row.version + 1
              /\ docs'[d].text \in {v.text, docs[d].text}
              /\ docs'[d].snaps = docs[d].snaps \cup {Snapshot(slot[s].row)}
              /\ docs'[d].status \in {v.status, docs[d].status}
              /\ docs'[d].status = "failed" \/ ~NameTaken(docs[d].owner, d)
              /\ lost' = IF docs'[d].status \in {"pending", "processing"}
                         THEN lost \cup {d} ELSE lost
<1> DEFINE r == slot[s].row
           st(v, d) == Flushed(r.status, v.status, docs[d].status)
           fi(v, d) == Flushed(r.file, v.file, docs[d].file)
           tx(v, d) == Flushed(r.text, v.text, docs[d].text)
           row(v, d) == [docs[d] EXCEPT
                          !.snaps = @ \cup {Snapshot(r)}, !.version = r.version + 1,
                          !.status = st(v, d), !.file = fi(v, d), !.text = tx(v, d)]
<1>1. PICK d \in slot[s].docs : \E v \in r.snaps :
        /\ Exists(d) /\ ~Locked(d) /\ NumberFree(d, r.version)
        /\ st(v, d) # "failed" => ~NameTaken(docs[d].owner, d)
        /\ docs' = [docs EXCEPT
             ![d].snaps = @ \cup {Snapshot(r)}, ![d].version = r.version + 1,
             ![d].status = st(v, d), ![d].file = Flushed(r.file, v.file, @),
             ![d].text = Flushed(r.text, v.text, @)]
        /\ lost' = IF st(v, d) \in {"pending", "processing"} THEN lost \cup {d} ELSE lost
  <2>1. PICK d \in slot[s].docs :
          /\ Exists(d) /\ ~Locked(d) /\ NumberFree(d, r.version)
          /\ \E v \in {w \in r.snaps : w.number = slot[s].to} :
               /\ st(v, d) # "failed" => ~NameTaken(docs[d].owner, d)
               /\ docs' = [docs EXCEPT
                    ![d].snaps = @ \cup {Snapshot(r)}, ![d].version = r.version + 1,
                    ![d].status = st(v, d), ![d].file = Flushed(r.file, v.file, @),
                    ![d].text = Flushed(r.text, v.text, @)]
               /\ lost' = IF st(v, d) \in {"pending", "processing"} THEN lost \cup {d} ELSE lost
    BY DEF CommitRollback
  <2> HIDE DEF r, st
  <2> QED
    BY <2>1
<1>2. PICK v \in r.snaps :
        /\ Exists(d) /\ ~Locked(d) /\ NumberFree(d, r.version)
        /\ st(v, d) # "failed" => ~NameTaken(docs[d].owner, d)
        /\ docs' = [docs EXCEPT
             ![d].snaps = @ \cup {Snapshot(r)}, ![d].version = r.version + 1,
             ![d].status = st(v, d), ![d].file = Flushed(r.file, v.file, @),
             ![d].text = Flushed(r.text, v.text, @)]
        /\ lost' = IF st(v, d) \in {"pending", "processing"} THEN lost \cup {d} ELSE lost
  BY <1>1
<1>3. d \in DocIds /\ docs[d] \in Rows /\ r \in Rows /\ v \in Entries /\ r.version + 1 \in Nat
  BY DEF SlotsTyped, SlotRows, DocsTyped, Rows
<1>4. docs' = [docs EXCEPT ![d] = row(v, d)]
  BY <1>2, <1>3 DEF DocsTyped
<1>5. /\ st(v, d) \in {v.status, docs[d].status} /\ fi(v, d) \in {v.file, docs[d].file}
      /\ tx(v, d) \in {v.text, docs[d].text}
      /\ r.file = docs[d].file => fi(v, d) = v.file
  BY DEF Flushed
<1>6. st(v, d) \in Statuses /\ fi(v, d) \in Nat /\ tx(v, d) \in Nat
  BY <1>3, <1>5 DEF Rows, Entries
<1> HIDE DEF st, fi, tx
<1>7. /\ row(v, d) \in Rows /\ row(v, d).status = st(v, d) /\ row(v, d).text = tx(v, d)
      /\ row(v, d).owner = docs[d].owner /\ row(v, d).file = fi(v, d)
      /\ row(v, d).version = r.version + 1
      /\ row(v, d).snaps = docs[d].snaps \cup {Snapshot(r)}
  BY <1>3, <1>6, SnapshotTyped DEF Rows
<1> HIDE DEF row
<1>8. docs'[d] = row(v, d) /\ OthersStay(d) /\ DocsTyped'
  BY <1>3, <1>4, <1>7, RowSet DEF OthersStay
<1>9. slot[s].op = "rollback"
  BY DEF CommitRollback
<1> QED
  BY <1>2, <1>3, <1>5, <1>7, <1>8, <1>9

LEMMA DeleteEffect ==
  ASSUME DocsTyped, NEW s \in Slots, CommitDelete(s)
  PROVE  /\ DocsTyped' /\ slot[s].op = "delete"
         /\ \A d \in DocIds \ slot[s].docs : docs'[d] = docs[d]
         /\ \A d \in DocIds \cap slot[s].docs :
              /\ ~Locked(d) /\ docs'[d] = [Absent EXCEPT !.version = docs[d].version]
              /\ docs'[d].status = "absent" /\ docs'[d].version = docs[d].version
              /\ docs'[d].text = 0 /\ docs'[d].snaps = {} /\ FilesOf(docs'[d]) = {}
<1>1. \A d \in DocIds : [Absent EXCEPT !.version = docs[d].version] \in Rows
  BY BlankRows DEF DocsTyped, Rows
<1>2. docs' = [d \in DocIds |-> IF d \in slot[s].docs
                                THEN [Absent EXCEPT !.version = docs[d].version] ELSE docs[d]]
  BY DEF CommitDelete
<1>3. DocsTyped'
  BY <1>1, <1>2 DEF DocsTyped
<1>4. \A d \in DocIds \cap slot[s].docs :
        docs'[d] = [Absent EXCEPT !.version = docs[d].version]
  BY <1>2
<1>5. ASSUME NEW d \in DocIds \cap slot[s].docs
      PROVE  /\ docs'[d].status = "absent" /\ docs'[d].version = docs[d].version
             /\ docs'[d].text = 0 /\ docs'[d].snaps = {} /\ FilesOf(docs'[d]) = {}
  <2>1. docs'[d] = [Absent EXCEPT !.version = docs[d].version]
    BY <1>4
  <2> QED
    BY <2>1 DEF Absent, FilesOf
<1>6. /\ slot[s].op = "delete" /\ \A d \in slot[s].docs : ~Locked(d)
      /\ \A d \in DocIds \ slot[s].docs : docs'[d] = docs[d]
  BY <1>2 DEF CommitDelete
<1> QED
  BY <1>3, <1>4, <1>5, <1>6

-----------------------------------------------------------------------------
(***************************************************************************)
(* Types.                                                                  *)
(***************************************************************************)
LEMMA DocsStayTyped ==
  ASSUME DocTypeOK, DispatchesOne, [Next]_vars
  PROVE  DocsTyped'
<1>1. docs' = docs => DocsTyped'
  BY DEF DocTypeOK, DocsTyped
<1> QED
  BY <1>1, DocsChange, RestatusEffect, CreatedEffect, ReplacesEffect, RollbackEffect,
     DeleteEffect DEF DocTypeOK

LEMMA FilesAreNumbers ==
  ASSUME NEW row \in Rows
  PROVE  FilesOf(row) \subseteq Nat
  BY DEF FilesOf, Rows, Entries

LEMMA SlotsStayTyped ==
  ASSUME DocTypeOK, [Next]_vars
  PROVE  SlotsTyped'
<1> USE DEF DocTypeOK
<1>1. ASSUME NEW s \in Slots, NEW rec \in SlotRows, Start(s, rec)
      PROVE  SlotsTyped'
  BY <1>1, SlotSet DEF Start
<1>2. NoUser \in Users \cup {NoUser} /\ {} \in SUBSET DocIds /\ 0 \in Nat /\ Absent \in Rows
  BY BlankRows
<1>3. ASSUME NEW s \in Slots, NEW u \in Users, BeginUpload(s, u)
      PROVE  SlotsTyped'
  <2>1. saved + 1 \in Nat /\ LiveOf(u) \in SUBSET DocIds
    BY DEF RestTyped, LiveOf
  <2>2. [Free EXCEPT !.op = "upload", !.who = u, !.docs = LiveOf(u), !.file = saved + 1] \in SlotRows
    BY <1>2, <2>1 DEF Free, SlotRows
  <2> QED
    BY <1>1, <1>3, <2>2 DEF BeginUpload
<1>4. ASSUME NEW s \in Slots, CommitUpload(s)
      PROVE  SlotsTyped'
  <2>1. PICK d \in DocIds : Start(s, [Free EXCEPT !.op = "dispatch", !.docs = {d}])
    BY <1>4 DEF CommitUpload, FreshId, SlotsTyped, SlotRows
  <2>2. [Free EXCEPT !.op = "dispatch", !.docs = {d}] \in SlotRows
    BY <1>2 DEF Free, SlotRows
  <2> QED
    BY <1>1, <2>1, <2>2
<1>5. ASSUME NEW s \in Slots, NEW u \in Users, NEW d \in DocIds, NEW n \in 1..MaxVersion,
             BeginRollback(s, u, d, n)
      PROVE  SlotsTyped'
  <2>1. docs[d] \in Rows /\ n \in Nat
    BY DocumentBounds DEF DocsTyped
  <2>2. [Free EXCEPT !.op = "rollback", !.docs = {d}, !.row = docs[d], !.to = n] \in SlotRows
    BY <1>2, <2>1 DEF Free, SlotRows
  <2> QED
    BY <1>1, <1>5, <2>2 DEF BeginRollback
<1>6. ASSUME NEW s \in Slots, NEW u \in Users, NEW D \in SUBSET DocIds, BeginDelete(s, u, D)
      PROVE  SlotsTyped'
  <2>1. UNION {FilesOf(docs[d]) : d \in D} \subseteq Nat
    BY FilesAreNumbers DEF DocsTyped
  <2> DEFINE rec == [Free EXCEPT !.op = "delete", !.docs = D,
                                 !.files = UNION {FilesOf(docs[d]) : d \in D}]
  <2>2. rec \in SlotRows
    BY <1>2, <2>1 DEF Free, SlotRows
  <2>3. slot' = [slot EXCEPT ![s] = rec]
    BY <1>6 DEF BeginDelete, Start
  <2> HIDE DEF rec
  <2> QED
    BY <1>1, <2>2, <2>3 DEF Start
<1>7. slot' = slot => SlotsTyped'
  BY DEF SlotsTyped
<1> QED
  BY SlotSteps, SlotFreed, <1>3, <1>4, <1>5, <1>6, <1>7

LEMMA TasksStayTyped ==
  ASSUME DocTypeOK, [Next]_vars
  PROVE  TasksTyped'
<1> USE DEF DocTypeOK
<1>0. 0 \in 0..MaxRetries /\ 0 \in Nat /\ DocIds \subseteq 0..MaxDocs
  BY DocumentBounds DEF DocIds
<1>1. ASSUME NEW d \in DocIds, Queue(d)
      PROVE  TasksTyped'
  <2>1. PICK t \in TaskIds :
          tasks' = [tasks EXCEPT ![t] = [NoTask EXCEPT !.stage = "queued", !.doc = d]]
    BY <1>1 DEF Queue
  <2> DEFINE rec == [NoTask EXCEPT !.stage = "queued", !.doc = d]
  <2>2. rec \in TaskRows /\ rec.doc \in DocIds
    BY <1>0 DEF NoTask, TaskRows
  <2> HIDE DEF rec
  <2>3. tasks' = [tasks EXCEPT ![t] = rec]
    BY <2>1 DEF rec
  <2> QED
    BY <2>2, <2>3, TaskSet
<1>2. ASSUME NEW t \in TaskIds, End(t)
      PROVE  TasksTyped'
  <2>1. /\ [NoTask EXCEPT !.stage = "done"] \in TaskRows
        /\ [NoTask EXCEPT !.stage = "done"].stage = "done"
    BY DocumentBounds DEF NoTask, TaskRows
  <2> QED
    BY <1>2, <2>1, TaskSet DEF End
<1>3. ASSUME NEW t \in TaskIds, NEW n \in 0..MaxRetries, Requeue(t, n),
             tasks[t].stage \in {"queued", "running"}
      PROVE  TasksTyped'
  <2> DEFINE rec == [NoTask EXCEPT !.stage = "queued", !.doc = tasks[t].doc, !.retries = n]
  <2>1. tasks[t].doc \in DocIds
    BY <1>3 DEF TasksTyped
  <2>2. rec \in TaskRows /\ rec.doc \in DocIds
    BY <1>0, <2>1 DEF NoTask, TaskRows
  <2> QED
    BY <1>3, <2>2, TaskSet DEF Requeue
<1>4. ASSUME NEW t \in TaskIds, StartTask(t)
      PROVE  TasksTyped'
  <2>1. tasks[t].doc \in DocIds /\ tasks[t] \in TaskRows
    BY <1>4 DEF StartTask, TasksTyped
  <2>2. docs[tasks[t].doc].file \in Nat /\ docs[tasks[t].doc].text \in Nat
    BY <2>1 DEF DocsTyped, Rows
  <2> DEFINE rec == [tasks[t] EXCEPT !.stage = "running", !.file = docs[tasks[t].doc].file,
                                     !.had = docs[tasks[t].doc].text]
  <2>3. rec \in TaskRows /\ rec.doc \in DocIds
    BY <2>1, <2>2 DEF TaskRows
  <2>4. End(t) \/ tasks' = [tasks EXCEPT ![t] = rec]
    BY <1>4 DEF StartTask
  <2> QED
    BY <1>2, <2>3, <2>4, TaskSet
<1>5. tasks' = tasks => TasksTyped'
  BY DEF TasksTyped
<1> QED
  BY TaskSteps, <1>1, <1>2, <1>3, <1>4, <1>5

LEMMA RestStaysTyped ==
  ASSUME DocTypeOK, [Next]_vars
  PROVE  RestTyped'
<1> USE DEF DocTypeOK, RestTyped
<1> DEFINE Perms == [DocIds -> [Users -> {"none", "view", "edit"}]]
<1>0. /\ \A s \in Slots : slot[s].docs \subseteq DocIds /\ slot[s].file \in Nat
      /\ Fault => faults' \in Nat
  BY DEF SlotsTyped, SlotRows, Fault
<1>1. CASE UNCHANGED vars
  BY <1>1 DEF vars
<1>2. SaveFile => saved' \in Nat /\ disk' \subseteq 1..saved'
  BY DEF SaveFile
<1>3. ASSUME NEW s \in Slots, NEW u \in Users,
             \/ u \in Uploaders /\ BeginUpload(s, u)
             \/ \E d \in DocIds, n \in 1..MaxVersion : BeginRollback(s, u, d, n)
             \/ \E D \in SUBSET DocIds : BeginDelete(s, u, D)
      PROVE  RestTyped'
  BY <1>2, <1>3 DEF BeginUpload, BeginRollback, BeginDelete
<1>4. ASSUME NEW s \in Slots,
             \/ ConflictUpload(s) \/ CrashBeforeCommit(s)
             \/ Dispatch(s) \/ DispatchFails(s)
             \/ CrashBeforeDispatch(s) \/ RollbackConflict(s) \/ DeleteFails(s)
      PROVE  RestTyped'
  BY <1>0, <1>4 DEF ConflictUpload, CrashBeforeCommit, Dispatch, DispatchFails, CrashBeforeDispatch,
              RollbackConflict, DeleteFails
<1>5. ASSUME NEW s \in Slots, CommitUpload(s)
      PROVE  RestTyped'
  BY <1>5 DEF CommitUpload
<1>6. ASSUME NEW s \in Slots, CommitRollback(s)
      PROVE  RestTyped'
  <2>1. lost' \subseteq DocIds
    BY <1>6, RollbackEffect
  <2> QED
    BY <1>6, <2>1 DEF CommitRollback
<1>7. ASSUME NEW s \in Slots, CommitDelete(s)
      PROVE  RestTyped'
  <2>1. perms' \in Perms
    BY <1>7 DEF CommitDelete
  <2>2. UNION {FilesOf(docs[d]) : d \in slot[s].docs} \subseteq Nat
    BY <1>0, FilesAreNumbers DEF DocsTyped
  <2> QED
    BY <1>0, <1>7, <2>1, <2>2 DEF CommitDelete
<1>8. ASSUME NEW u \in Uploaders, NEW queued \in BOOLEAN,
             StoreRow(u, queued) \/ \E b \in BOOLEAN : RefuseRow(u, b)
      PROVE  RestTyped'
  <2>1. CASE StoreRow(u, queued)
    BY <1>0, <1>2, <2>1 DEF StoreRow, FreshId
  <2>2. ASSUME NEW b \in BOOLEAN, RefuseRow(u, b)
        PROVE  RestTyped'
    <3>1. /\ saved' = saved + 1 /\ saved + 1 \in Nat
          /\ disk' \subseteq disk \cup {saved + 1} /\ orphans' \subseteq orphans \cup {saved + 1}
          /\ UNCHANGED << perms, lost, faults >>
      BY <2>2 DEF RefuseRow
    <3>2. disk \cup {saved + 1} \subseteq 1..(saved + 1)
      OBVIOUS
    <3> QED
      BY <3>1, <3>2
  <2> QED
    BY <1>8, <2>1, <2>2
<1>9. ASSUME NEW u \in Uploaders, NEW queued \in BOOLEAN,
             \/ ImportDriveFile(u, queued) \/ ImportPortalExport(u, queued)
             \/ IngestAttachment(u, queued) \/ UploadNoticeFile(u, queued) \/ PersistBody(u, queued)
      PROVE  RestTyped'
  BY <1>8, <1>9 DEF ImportDriveFile, ImportPortalExport, IngestAttachment, UploadNoticeFile, PersistBody
<1>10. ASSUME NEW u \in Users, NEW v \in Users, NEW d \in Sharable,
             (\E p \in Grants : ShareDocument(u, d, v, p)) \/ RevokeShare(u, d, v)
       PROVE  RestTyped'
  <2>1. ASSUME NEW p \in {"none", "view", "edit"}, perms' = [perms EXCEPT ![d][v] = p]
        PROVE  perms' \in Perms
    BY <2>1
  <2> QED
    BY <1>10, <2>1, DocumentBounds DEF ShareDocument, RevokeShare
<1>11. ASSUME NEW t \in TaskIds, Deliver(t) \/ WorkerLost(t) \/ HardKill(t)
       PROVE  RestTyped'
  BY <1>0, <1>11
     DEF Deliver, EndTask, StartTask, TaskFindsNothing, FinishTask, FailTask, RetryTask,
         ExhaustTask, WorkerLost, HardKill
<1>12. CASE ImportLosesFile
  BY <1>0, <1>2, <1>12 DEF ImportLosesFile, Fault
<1> QED
  BY <1>1, <1>3, <1>4, <1>5, <1>6, <1>7, <1>9, <1>10, <1>11, <1>12 DEF Next, Requests

-----------------------------------------------------------------------------
(***************************************************************************)
(* The inductive invariant.                                                *)
(***************************************************************************)
\* Files and texts come from saves that happened; only an upload holds a file.
FilesKnown ==
  /\ \A d \in DocIds : FilesOf(docs[d]) \subseteq 1..saved
  /\ \A s \in Slots : /\ slot[s].file <= saved /\ FilesOf(slot[s].row) \subseteq 1..saved
                      /\ slot[s].op # "upload" => slot[s].file = 0

\* A row that is gone keeps nothing but its version.
AbsentIsBlank ==
  \A d \in DocIds : ~Exists(d) => docs[d] = [Absent EXCEPT !.version = docs[d].version]

Numbered ==
  \A d \in DocIds : Exists(d) =>
    /\ docs[d].version # 0 /\ IsFiniteSet(docs[d].snaps)
    /\ \A v \in docs[d].snaps : v.status # "absent"

\* The rows an upload holds FOR UPDATE stay live and its uploader's.
UploadsHold ==
  \A s \in Slots : slot[s].op = "upload" =>
    \A d \in slot[s].docs : Live(d) /\ docs[d].owner = slot[s].who

\* What a rollback has loaded is a past of the row: nothing it may write back
\* is unknown to the row, and at the same version the file is the same.
RollbacksKnow ==
  \A s \in Slots : slot[s].op = "rollback" =>
    \A d \in slot[s].docs :
      /\ slot[s].row.version \in 1..docs[d].version
      /\ slot[s].row.status # "absent"
      /\ \A v \in slot[s].row.snaps : v.status # "absent"
      /\ Exists(d) =>
           /\ FilesOf(slot[s].row) \subseteq FilesOf(docs[d])
           /\ slot[s].row.version = docs[d].version =>
                slot[s].row.file = docs[d].file /\ slot[s].row.snaps = docs[d].snaps
           /\ slot[s].row.text \in {0} \cup FilesOf(docs[d])
           /\ \A v \in slot[s].row.snaps : v.text \in {0} \cup FilesOf(docs[d])

\* A task reads a file of its document.
RunsOwnFile ==
  \A t \in TaskIds : tasks[t].stage = "running" =>
    /\ docs[tasks[t].doc].version # 0
    /\ Exists(tasks[t].doc) => tasks[t].file \in FilesOf(docs[tasks[t].doc])

\* No two documents of one user share the name and are live
\* (uq_documents_user_filename, across uploads, imports, rollbacks and the
\* tasks that revive a failed document).
OneLiveDocumentPerName ==
  \A d, e \in DocIds : Live(d) /\ Live(e) /\ docs[d].owner = docs[e].owner => d = e

\* The text of a document, and of each of its versions, was read from a file
\* of that document, though a task or a rollback writes what it loaded before
\* others changed the row.
TextsAreOwn ==
  \A d \in DocIds : /\ docs[d].text \in {0} \cup FilesOf(docs[d])
                    /\ \A v \in docs[d].snaps : v.text \in {0} \cup FilesOf(docs[d])

DocInv ==
  /\ DocTypeOK /\ FilesKnown /\ AbsentIsBlank /\ Numbered /\ UploadsHold /\ RollbacksKnow
  /\ DispatchesOne /\ RunsOwnFile /\ OneLiveDocumentPerName /\ TextsAreOwn /\ HistoryIsComplete

-----------------------------------------------------------------------------
(***************************************************************************)
(* Files and versions of a row only grow.                                  *)
(***************************************************************************)
LEMMA FilesOfRow ==
  ASSUME NEW row
  PROVE  /\ 0 \notin FilesOf(row)
         /\ row.file = 0 \/ row.file \in FilesOf(row)
         /\ \A v \in row.snaps : v.file = 0 \/ v.file \in FilesOf(row)
         /\ \A f \in FilesOf(row) : f = row.file \/ \E v \in row.snaps : f = v.file
  BY DEF FilesOf

\* A row that keeps its snapshots and its file, or the file in a snapshot.
LEMMA FilesGrow ==
  ASSUME NEW old, NEW new, old.snaps \subseteq new.snaps,
         \/ new.file = old.file
         \/ \E v \in new.snaps : v.file = old.file
  PROVE  FilesOf(old) \subseteq FilesOf(new)
  BY FilesOfRow

\* A file that is new to a row is its current one or in the new snapshot.
LEMMA FilesAdded ==
  ASSUME NEW old, NEW new, NEW v, new.snaps \subseteq old.snaps \cup {v}
  PROVE  FilesOf(new) \subseteq FilesOf(old) \cup {new.file, v.file}
  BY FilesOfRow

\* The rollback that commits took the newest version: no number above it is
\* taken, and the numbers below the current version all are.
LEMMA RollbackIsCurrent ==
  ASSUME DocTypeOK, RollbacksKnow, HistoryIsComplete, NEW s \in Slots, slot[s].op = "rollback",
         NEW d \in DocIds \cap slot[s].docs, Exists(d), NumberFree(d, slot[s].row.version)
  PROVE  /\ slot[s].row.version = docs[d].version
         /\ slot[s].row.file = docs[d].file /\ slot[s].row.snaps = docs[d].snaps
         /\ docs[d].version \in Nat \ {0}
<1>1. slot[s].row.version \in 1..docs[d].version /\ docs[d].version \in Nat
  BY DEF RollbacksKnow, DocTypeOK, DocsTyped, Rows
<1>2. slot[s].row.version \notin 1..(docs[d].version - 1)
  BY DEF HistoryIsComplete, NumberFree
<1>3. slot[s].row.version = docs[d].version
  BY <1>1, <1>2
<1> QED
  BY <1>1, <1>3 DEF RollbacksKnow

Grows(d) ==
  docs[d].version # 0 =>
    /\ docs'[d].version >= docs[d].version
    /\ docs'[d].status # "absent" =>
         /\ Exists(d) /\ FilesOf(docs[d]) \subseteq FilesOf(docs'[d])
         /\ docs'[d].version = docs[d].version =>
              docs'[d].file = docs[d].file /\ docs'[d].snaps = docs[d].snaps

LEMMA RowsGrow ==
  ASSUME DocInv, [Next]_vars, NEW d \in DocIds
  PROVE  Grows(d)
<1> USE DEF DocInv, DocTypeOK
<1>0. docs[d].version \in Nat
  BY DEF DocsTyped, Rows
<1>1. docs'[d] = docs[d] => Grows(d)
  BY <1>0 DEF Grows, Exists
<1>2. ASSUME NEW e \in DocIds, Restatus(e)
      PROVE  Grows(d)
  BY <1>0, <1>1, <1>2, RestatusEffect, FilesGrow DEF Grows, OthersStay
<1>3. ASSUME NEW u \in Users \cup {NoUser}, NEW f \in Nat, Created(u, f)
      PROVE  Grows(d)
  <2>1. PICK e \in DocIds : OthersStay(e) /\ docs[e] = Absent
    BY <1>3, CreatedEffect
  <2> QED
    BY <1>1, <2>1 DEF OthersStay, Absent, Grows
<1>4. ASSUME NEW s \in Slots, Replaces(s)
      PROVE  Grows(d)
  <2>1. PICK e \in DocIds \cap slot[s].docs :
          /\ OthersStay(e)
          /\ docs'[e].version = docs[e].version + 1
          /\ docs'[e].snaps = docs[e].snaps \cup {Snapshot(docs[e])}
    BY <1>4, ReplacesEffect
  <2>2. Exists(e)
    BY <1>4, ReplacesEffect DEF UploadsHold, Live
  <2>3. docs[e] \in Rows
    BY DEF DocsTyped
  <2>4. FilesOf(docs[e]) \subseteq FilesOf(docs'[e])
    BY <2>1, <2>3, FilesGrow, SnapshotTyped
  <2> QED
    BY <1>0, <1>1, <2>1, <2>2, <2>4 DEF OthersStay, Grows
<1>5. ASSUME NEW s \in Slots, CommitRollback(s)
      PROVE  Grows(d)
  <2>1. PICK e \in DocIds \cap slot[s].docs :
          /\ OthersStay(e) /\ Exists(e) /\ NumberFree(e, slot[s].row.version)
          /\ docs'[e].version = slot[s].row.version + 1
          /\ docs'[e].snaps = docs[e].snaps \cup {Snapshot(slot[s].row)}
    BY <1>5, RollbackEffect
  <2>2. slot[s].row.version = docs[e].version /\ slot[s].row.file = docs[e].file
    BY <1>5, <2>1, RollbackEffect, RollbackIsCurrent
  <2>3. slot[s].row \in Rows
    BY DEF SlotsTyped, SlotRows
  <2>4. FilesOf(docs[e]) \subseteq FilesOf(docs'[e])
    BY <2>1, <2>2, <2>3, FilesGrow, SnapshotTyped
  <2> QED
    BY <1>0, <1>1, <2>1, <2>2, <2>4 DEF OthersStay, Grows
<1>6. ASSUME NEW s \in Slots, CommitDelete(s)
      PROVE  Grows(d)
  <2>1. CASE d \in slot[s].docs
    <3>1. docs'[d].status = "absent" /\ docs'[d].version = docs[d].version
      BY <1>6, <2>1, DeleteEffect
    <3> QED
      BY <1>0, <3>1 DEF Grows
  <2> QED
    BY <1>1, <1>6, <2>1, DeleteEffect
<1> QED
  BY <1>1, <1>2, <1>3, <1>4, <1>5, <1>6, DocsChange

\* What is left of a row that a step leaves, in fields.
LEMMA RowsLeft ==
  ASSUME DocInv, [Next]_vars
  PROVE  AbsentIsBlank' /\ Numbered'
<1> USE DEF DocInv, DocTypeOK
<1>0. \A d \in DocIds : docs[d] \in Rows
  BY DEF DocsTyped
<1> DEFINE Good(d) == /\ docs'[d].status = "absent"
                           => docs'[d] = [Absent EXCEPT !.version = docs'[d].version]
                      /\ docs'[d].status # "absent"
                           => /\ docs'[d].version # 0 /\ IsFiniteSet(docs'[d].snaps)
                              /\ \A v \in docs'[d].snaps : v.status # "absent"
<1>1. ASSUME NEW d \in DocIds, docs'[d] = docs[d]
      PROVE  Good(d)
  BY <1>1 DEF AbsentIsBlank, Numbered, Exists
<1>2. ASSUME NEW d \in DocIds, Restatus(d)
      PROVE  \A e \in DocIds : Good(e)
  BY <1>1, <1>2, RestatusEffect DEF OthersStay, Numbered
<1>3. ASSUME NEW u \in Users \cup {NoUser}, NEW f \in Nat, Created(u, f)
      PROVE  \A e \in DocIds : Good(e)
  <2>1. PICK d \in DocIds : OthersStay(d) /\ docs'[d] = NewRow(u, f)
    BY <1>3, CreatedEffect
  <2>2. IsFiniteSet({})
    BY FS_EmptySet
  <2>3. docs'[d].status = "pending" /\ docs'[d].version = 1 /\ docs'[d].snaps = {}
    BY <2>1, NewRowTyped
  <2>4. Good(d)
    BY <2>2, <2>3
  <2> QED
    BY <1>1, <2>1, <2>4 DEF OthersStay
<1>4. ASSUME NEW s \in Slots, Replaces(s)
      PROVE  \A e \in DocIds : Good(e)
  <2>1. PICK d \in DocIds \cap slot[s].docs :
          /\ OthersStay(d) /\ docs'[d].version = docs[d].version + 1
          /\ docs'[d].snaps = docs[d].snaps \cup {Snapshot(docs[d])}
          /\ docs'[d].status = "pending"
    BY <1>4, ReplacesEffect
  <2>5. docs[d] \in Rows
    BY <1>0
  <2>7. slot[s].op = "upload"
    BY <1>4, ReplacesEffect
  <2>2. Exists(d) /\ docs[d].version + 1 # 0
    BY <2>1, <2>5, <2>7 DEF UploadsHold, Live, Rows
  <2>3. IsFiniteSet(docs[d].snaps)
    BY <2>2 DEF Numbered
  <2>6. \A v \in docs'[d].snaps : v.status # "absent"
    BY <2>1, <2>2, <2>5, SnapshotTyped DEF Exists, Numbered
  <2>4. IsFiniteSet(docs'[d].snaps)
    BY <2>1, <2>3, FS_AddElement
  <2> QED
    BY <1>1, <2>1, <2>2, <2>4, <2>6 DEF OthersStay
<1>5. ASSUME NEW s \in Slots, CommitRollback(s)
      PROVE  \A e \in DocIds : Good(e)
  <2>1. PICK d \in DocIds \cap slot[s].docs :
          /\ OthersStay(d) /\ Exists(d) /\ docs'[d].version = slot[s].row.version + 1
          /\ docs'[d].snaps = docs[d].snaps \cup {Snapshot(slot[s].row)}
          /\ \E v \in slot[s].row.snaps : docs'[d].status \in {v.status, docs[d].status}
          /\ NumberFree(d, slot[s].row.version)
    BY <1>5, RollbackEffect
  <2>2. docs'[d].version # 0
    BY <1>0, <1>5, <2>1, RollbackEffect, RollbackIsCurrent
  <2>3. IsFiniteSet(docs[d].snaps)
    BY <2>1 DEF Numbered
  <2>4. IsFiniteSet(docs'[d].snaps)
    BY <2>1, <2>3, FS_AddElement
  <2>5. docs'[d].status # "absent"
    BY <1>5, <2>1, RollbackEffect DEF Exists, RollbacksKnow
  <2>6. slot[s].row \in Rows /\ slot[s].row.status # "absent"
    BY <1>5, <2>1, RollbackEffect DEF SlotsTyped, SlotRows, RollbacksKnow
  <2>7. \A v \in docs'[d].snaps : v.status # "absent"
    BY <2>1, <2>6, SnapshotTyped DEF Numbered
  <2> QED
    BY <1>1, <2>1, <2>2, <2>4, <2>5, <2>7 DEF OthersStay
<1>6. ASSUME NEW s \in Slots, CommitDelete(s)
      PROVE  \A e \in DocIds : Good(e)
  <2>1. ASSUME NEW e \in DocIds \cap slot[s].docs
        PROVE  Good(e)
    BY <1>6, <2>1, DeleteEffect
  <2> QED
    BY <1>1, <1>6, <2>1, DeleteEffect
<1>7. \A d \in DocIds : Good(d)
  BY <1>1, <1>2, <1>3, <1>4, <1>5, <1>6, DocsChange
<1> QED
  BY <1>7 DEF AbsentIsBlank, Numbered, Exists

\* A snapshot is added under the number of the current version.
LEMMA HistoryExtends ==
  ASSUME NEW old, NEW new, NEW v, new.version = old.version + 1, old.version \in Nat \ {0},
         new.snaps = old.snaps \cup {v}, v.number = old.version, IsFiniteSet(old.snaps),
         {w.number : w \in old.snaps} = 1..(old.version - 1),
         Cardinality(old.snaps) = old.version - 1
  PROVE  /\ {w.number : w \in new.snaps} = 1..(new.version - 1)
         /\ Cardinality(new.snaps) = new.version - 1
<1>1. v \notin old.snaps
  OBVIOUS
<1>2. Cardinality(new.snaps) = Cardinality(old.snaps) + 1
  BY <1>1, FS_AddElement
<1>3. {w.number : w \in new.snaps} = {w.number : w \in old.snaps} \cup {old.version}
  OBVIOUS
<1> QED
  BY <1>2, <1>3

LEMMA HistoryStaysComplete ==
  ASSUME DocInv, [Next]_vars
  PROVE  HistoryIsComplete'
<1> USE DEF DocInv, DocTypeOK
<1>0. \A d \in DocIds : docs[d] \in Rows
  BY DEF DocsTyped
<1> DEFINE Good(d) == docs'[d].status # "absent" =>
                        /\ {v.number : v \in docs'[d].snaps} = 1..(docs'[d].version - 1)
                        /\ Cardinality(docs'[d].snaps) = docs'[d].version - 1
<1>1. ASSUME NEW d \in DocIds, Exists(d), docs'[d].version = docs[d].version,
             docs'[d].snaps = docs[d].snaps
      PROVE  Good(d)
  BY <1>1 DEF HistoryIsComplete
<1>2. ASSUME NEW d \in DocIds, docs'[d] = docs[d]
      PROVE  Good(d)
  BY <1>1, <1>2 DEF Exists
<1>3. ASSUME NEW d \in DocIds, Restatus(d)
      PROVE  \A e \in DocIds : Good(e)
  BY <1>1, <1>2, <1>3, RestatusEffect DEF OthersStay
<1>4. ASSUME NEW u \in Users \cup {NoUser}, NEW f \in Nat, Created(u, f)
      PROVE  \A e \in DocIds : Good(e)
  <2>1. PICK d \in DocIds : OthersStay(d) /\ docs'[d] = NewRow(u, f)
    BY <1>4, CreatedEffect
  <2>2. docs'[d].version = 1 /\ docs'[d].snaps = {}
    BY <2>1, NewRowTyped
  <2>3. Cardinality({}) = 0
    BY FS_EmptySet
  <2>4. Good(d)
    BY <2>2, <2>3
  <2> QED
    BY <1>2, <2>1, <2>4 DEF OthersStay
<1>5. ASSUME NEW s \in Slots, NEW d \in DocIds, NEW row \in Rows, OthersStay(d), Exists(d),
             docs'[d].version = docs[d].version + 1, row.version = docs[d].version,
             docs'[d].snaps = docs[d].snaps \cup {Snapshot(row)}
      PROVE  \A e \in DocIds : Good(e)
  <2>1. docs[d].version \in Nat \ {0} /\ IsFiniteSet(docs[d].snaps)
    BY <1>0, <1>5 DEF Numbered, Rows
  <2>2. Snapshot(row).number = docs[d].version
    BY <1>5, SnapshotTyped
  <2>3. Good(d)
    BY <1>5, <2>1, <2>2, HistoryExtends DEF HistoryIsComplete
  <2> QED
    BY <1>2, <1>5, <2>3 DEF OthersStay
<1>6. ASSUME NEW s \in Slots, Replaces(s)
      PROVE  \A e \in DocIds : Good(e)
  <2>1. slot[s].op = "upload"
    BY <1>6, ReplacesEffect
  <2>2. PICK d \in DocIds \cap slot[s].docs :
          /\ OthersStay(d) /\ docs'[d].version = docs[d].version + 1
          /\ docs'[d].snaps = docs[d].snaps \cup {Snapshot(docs[d])}
    BY <1>6, ReplacesEffect
  <2>3. Exists(d)
    BY <2>1, <2>2 DEF UploadsHold, Live
  <2> QED
    BY <1>0, <1>5, <2>2, <2>3
<1>7. ASSUME NEW s \in Slots, CommitRollback(s)
      PROVE  \A e \in DocIds : Good(e)
  <2>1. PICK d \in DocIds \cap slot[s].docs :
          /\ OthersStay(d) /\ Exists(d) /\ NumberFree(d, slot[s].row.version)
          /\ docs'[d].version = slot[s].row.version + 1
          /\ docs'[d].snaps = docs[d].snaps \cup {Snapshot(slot[s].row)}
    BY <1>7, RollbackEffect
  <2>2. slot[s].row.version = docs[d].version /\ slot[s].row \in Rows
    BY <1>7, <2>1, RollbackEffect, RollbackIsCurrent DEF SlotsTyped, SlotRows
  <2> QED
    BY <1>5, <2>1, <2>2
<1>8. ASSUME NEW s \in Slots, CommitDelete(s)
      PROVE  \A e \in DocIds : Good(e)
  BY <1>2, <1>8, DeleteEffect
<1>9. \A d \in DocIds : Good(d)
  BY <1>2, <1>3, <1>4, <1>6, <1>7, <1>8, DocsChange
<1> QED
  BY <1>9 DEF HistoryIsComplete, Exists

\* A row that becomes live was found to be the only one.
LEMMA OneStaysLive ==
  ASSUME DocInv, [Next]_vars
  PROVE  OneLiveDocumentPerName'
<1> USE DEF DocInv, DocTypeOK
<1>1. ASSUME NEW d \in DocIds, OthersStay(d),
             \/ docs'[d].status \in {"absent", "failed"}
             \/ Live(d) /\ docs'[d].owner = docs[d].owner
             \/ ~NameTaken(docs'[d].owner, d)
      PROVE  OneLiveDocumentPerName'
  BY <1>1 DEF OneLiveDocumentPerName, OthersStay, Live, Exists, NameTaken, LiveOf
<1>2. ASSUME NEW d \in DocIds, Restatus(d)
      PROVE  OneLiveDocumentPerName'
  BY <1>1, <1>2, RestatusEffect DEF MayRevive, Live
<1>3. ASSUME NEW u \in Users \cup {NoUser}, NEW f \in Nat, Created(u, f)
      PROVE  OneLiveDocumentPerName'
  BY <1>1, <1>3, CreatedEffect, NewRowTyped
<1>4. ASSUME NEW s \in Slots, Replaces(s)
      PROVE  OneLiveDocumentPerName'
  BY <1>1, <1>4, ReplacesEffect DEF UploadsHold
<1>5. ASSUME NEW s \in Slots, CommitRollback(s)
      PROVE  OneLiveDocumentPerName'
  BY <1>1, <1>5, RollbackEffect
<1>6. ASSUME NEW s \in Slots, CommitDelete(s)
      PROVE  OneLiveDocumentPerName'
  <2>1. \A d \in DocIds : docs'[d] = docs[d] \/ docs'[d].status = "absent"
    BY <1>6, DeleteEffect
  <2> QED
    BY <2>1 DEF OneLiveDocumentPerName, Live, Exists
<1>7. docs' = docs => OneLiveDocumentPerName'
  BY DEF OneLiveDocumentPerName, Live, Exists
<1> QED
  BY <1>2, <1>3, <1>4, <1>5, <1>6, <1>7, DocsChange

LEMMA TextsStayOwn ==
  ASSUME DocInv, [Next]_vars
  PROVE  TextsAreOwn'
<1> USE DEF DocInv, DocTypeOK
<1> DEFINE Own(d)  == {0} \cup FilesOf(docs[d])
           Good(d) == /\ docs'[d].text \in {0} \cup FilesOf(docs'[d])
                      /\ \A v \in docs'[d].snaps : v.text \in {0} \cup FilesOf(docs'[d])
<1>1. ASSUME NEW d \in DocIds, docs'[d] = docs[d]
      PROVE  Good(d)
  BY <1>1 DEF TextsAreOwn
<1>2. ASSUME NEW d \in DocIds, Exists(d), docs'[d].status # "absent",
             docs'[d].text \in Own(d), \A v \in docs'[d].snaps : v.text \in Own(d)
      PROVE  Good(d)
  <2>1. FilesOf(docs[d]) \subseteq FilesOf(docs'[d])
    BY <1>2, RowsGrow DEF Grows, Numbered
  <2> QED
    BY <1>2, <2>1
<1>3. ASSUME NEW d \in DocIds, Restatus(d)
      PROVE  \A e \in DocIds : Good(e)
  <2>1. docs'[d].text = docs[d].text => docs'[d].text \in Own(d)
    BY DEF TextsAreOwn
  <2>2. ASSUME NEW t \in TaskIds, tasks[t].stage = "running", tasks[t].doc = d, Exists(d)
        PROVE  tasks[t].file \in Own(d)
    BY <2>2 DEF RunsOwnFile
  <2>3. docs'[d].text \in Own(d)
    BY <1>3, <2>1, <2>2, RestatusEffect
  <2> QED
    BY <1>1, <1>2, <1>3, <2>3, RestatusEffect DEF OthersStay, TextsAreOwn
<1>4. ASSUME NEW u \in Users \cup {NoUser}, NEW f \in Nat, Created(u, f)
      PROVE  \A e \in DocIds : Good(e)
  BY <1>1, <1>4, CreatedEffect, NewRowTyped DEF OthersStay
<1>5. ASSUME NEW s \in Slots, Replaces(s)
      PROVE  \A e \in DocIds : Good(e)
  <2>1. slot[s].op = "upload"
    BY <1>5, ReplacesEffect
  <2>2. PICK d \in DocIds \cap slot[s].docs :
          /\ OthersStay(d) /\ docs'[d].text = 0 /\ docs'[d].status = "pending"
          /\ docs'[d].snaps = docs[d].snaps \cup {Snapshot(docs[d])}
    BY <1>5, ReplacesEffect
  <2>3. Exists(d) /\ docs[d] \in Rows
    BY <2>1, <2>2 DEF UploadsHold, Live, DocsTyped
  <2>4. \A v \in docs'[d].snaps : v.text \in Own(d)
    BY <2>2, <2>3, SnapshotTyped DEF TextsAreOwn
  <2> QED
    BY <1>1, <1>2, <2>2, <2>3, <2>4 DEF OthersStay
<1>6. ASSUME NEW s \in Slots, CommitRollback(s)
      PROVE  \A e \in DocIds : Good(e)
  <2>1. slot[s].op = "rollback"
    BY <1>6, RollbackEffect
  <2>2. PICK d \in DocIds \cap slot[s].docs, v \in slot[s].row.snaps :
          /\ OthersStay(d) /\ Exists(d)
          /\ docs'[d].text \in {v.text, docs[d].text}
          /\ docs'[d].snaps = docs[d].snaps \cup {Snapshot(slot[s].row)}
          /\ docs'[d].status \in {v.status, docs[d].status}
    BY <1>6, RollbackEffect
  <2>3. /\ slot[s].row.text \in Own(d) /\ v.text \in Own(d) /\ v.status # "absent"
        /\ slot[s].row \in Rows
    BY <2>1, <2>2 DEF RollbacksKnow, SlotsTyped, SlotRows
  <2>4. docs'[d].text \in Own(d) /\ docs'[d].status # "absent"
    BY <2>2, <2>3 DEF TextsAreOwn, Exists
  <2>5. \A w \in docs'[d].snaps : w.text \in Own(d)
    BY <2>2, <2>3, SnapshotTyped DEF TextsAreOwn
  <2> QED
    BY <1>1, <1>2, <2>2, <2>4, <2>5 DEF OthersStay
<1>7. ASSUME NEW s \in Slots, CommitDelete(s)
      PROVE  \A e \in DocIds : Good(e)
  BY <1>1, <1>7, DeleteEffect
<1>8. \A d \in DocIds : Good(d)
  BY <1>1, <1>3, <1>4, <1>5, <1>6, <1>7, DocsChange
<1> QED
  BY <1>8 DEF TextsAreOwn

-----------------------------------------------------------------------------
(***************************************************************************)
(* Requests and tasks.                                                     *)
(***************************************************************************)
\* What a slot holds after a step.
LEMMA SlotAfter ==
  ASSUME DocTypeOK, [Next]_vars, NEW s \in Slots
  PROVE  \/ slot'[s] = slot[s]
         \/ slot'[s] = Free
         \/ \E u \in Users :
              /\ slot'[s].op = "upload" /\ slot'[s].who = u /\ slot'[s].docs = LiveOf(u)
              /\ slot'[s].file = saved + 1 /\ slot'[s].row = Absent
              /\ docs' = docs /\ saved' = saved + 1
         \/ \E d \in DocIds :
              /\ slot'[s].op = "rollback" /\ slot'[s].docs = {d} /\ slot'[s].row = docs[d]
              /\ slot'[s].file = 0 /\ Exists(d) /\ docs' = docs /\ saved' = saved
         \/ /\ slot'[s].op = "delete" /\ slot'[s].file = 0 /\ slot'[s].row = Absent
            /\ docs' = docs /\ saved' = saved
            /\ \E u \in Users, D \in SUBSET DocIds : BeginDelete(s, u, D) /\ slot'[s].docs = D
         \/ /\ CommitUpload(s) /\ slot'[s].op = "dispatch" /\ slot'[s].file = 0
            /\ slot'[s].row = Absent /\ \E d \in DocIds : slot'[s].docs = {d}
<1> USE DEF DocTypeOK
<1>1. ASSUME NEW u \in Users, BeginUpload(s, u)
      PROVE  /\ slot'[s].op = "upload" /\ slot'[s].who = u /\ slot'[s].docs = LiveOf(u)
             /\ slot'[s].file = saved + 1 /\ slot'[s].row = Absent
             /\ docs' = docs /\ saved' = saved + 1
  <2>1. slot'[s] = [Free EXCEPT !.op = "upload", !.who = u, !.docs = LiveOf(u), !.file = saved + 1]
    BY <1>1, SlotSet DEF BeginUpload, Start
  <2> QED
    BY <1>1, <2>1 DEF Free, BeginUpload, SaveFile
<1>2. ASSUME NEW u \in Users, NEW d \in DocIds, NEW n \in 1..MaxVersion, BeginRollback(s, u, d, n)
      PROVE  /\ slot'[s].op = "rollback" /\ slot'[s].docs = {d} /\ slot'[s].row = docs[d]
             /\ slot'[s].file = 0 /\ Exists(d) /\ docs' = docs /\ saved' = saved
  <2>1. slot'[s] = [Free EXCEPT !.op = "rollback", !.docs = {d}, !.row = docs[d], !.to = n]
    BY <1>2, SlotSet DEF BeginRollback, Start
  <2> QED
    BY <1>2, <2>1 DEF Free, BeginRollback, GetAccessibleDocument, OwnerOrAdmin
<1>3. ASSUME NEW u \in Users, NEW D \in SUBSET DocIds, BeginDelete(s, u, D)
      PROVE  /\ slot'[s].op = "delete" /\ slot'[s].file = 0 /\ slot'[s].row = Absent
             /\ docs' = docs /\ saved' = saved /\ slot'[s].docs = D
  <2>1. slot'[s] = [Free EXCEPT !.op = "delete", !.docs = D,
                                !.files = UNION {FilesOf(docs[d]) : d \in D}]
    BY <1>3, SlotSet DEF BeginDelete, Start
  <2> QED
    BY <1>3, <2>1 DEF Free, BeginDelete
<1>4. ASSUME CommitUpload(s)
      PROVE  /\ slot'[s].op = "dispatch" /\ slot'[s].file = 0
             /\ slot'[s].row = Absent /\ \E d \in DocIds : slot'[s].docs = {d}
  <2>1. PICK d \in DocIds : Start(s, [Free EXCEPT !.op = "dispatch", !.docs = {d}])
    BY <1>4 DEF CommitUpload, FreshId, SlotsTyped, SlotRows
  <2>2. slot'[s] = [Free EXCEPT !.op = "dispatch", !.docs = {d}]
    BY <2>1, SlotSet DEF Start
  <2> QED
    BY <2>2 DEF Free
<1> QED
  BY SlotsChange, <1>1, <1>2, <1>3, <1>4

LEMMA DispatchesStayOne ==
  ASSUME DocInv, [Next]_vars
  PROVE  DispatchesOne'
<1>1. ASSUME NEW s \in Slots, slot'[s].op = "dispatch"
      PROVE  \E d \in DocIds : slot'[s].docs = {d}
  BY <1>1, SlotAfter DEF DocInv, DispatchesOne, Free
<1> QED
  BY <1>1 DEF DispatchesOne

\* A live row held FOR UPDATE keeps its owner and stays live.
LEMMA LockedRowsStay ==
  ASSUME DocInv, [Next]_vars, NEW d \in DocIds, Locked(d), Live(d)
  PROVE  docs'[d].status \notin {"absent", "failed"} /\ docs'[d].owner = docs[d].owner
<1> USE DEF DocInv, DocTypeOK
<1>1. docs'[d] = docs[d] => /\ docs'[d].status \notin {"absent", "failed"}
                            /\ docs'[d].owner = docs[d].owner
  BY DEF Live, Exists
<1>2. ASSUME NEW e \in DocIds, Restatus(e)
      PROVE  docs'[d] = docs[d]
  BY <1>2, RestatusEffect DEF OthersStay
<1>3. ASSUME NEW u \in Users \cup {NoUser}, NEW f \in Nat, Created(u, f)
      PROVE  docs'[d] = docs[d]
  BY <1>3, CreatedEffect DEF OthersStay, Absent, Live, Exists
<1>4. ASSUME NEW s \in Slots, Replaces(s)
      PROVE  \/ docs'[d] = docs[d]
             \/ docs'[d].status = "pending" /\ docs'[d].owner = docs[d].owner
  BY <1>4, ReplacesEffect DEF OthersStay
<1>5. ASSUME NEW s \in Slots, CommitRollback(s)
      PROVE  docs'[d] = docs[d]
  BY <1>5, RollbackEffect DEF OthersStay
<1>6. ASSUME NEW s \in Slots, CommitDelete(s)
      PROVE  docs'[d] = docs[d]
  BY <1>6, DeleteEffect
<1> QED
  BY <1>1, <1>2, <1>3, <1>4, <1>5, <1>6, DocsChange

LEMMA UploadsStillHold ==
  ASSUME DocInv, [Next]_vars
  PROVE  UploadsHold'
<1> USE DEF DocInv, DocTypeOK
<1>1. ASSUME NEW s \in Slots, slot'[s].op = "upload", NEW d \in slot'[s].docs
      PROVE  docs'[d].status \notin {"absent", "failed"} /\ docs'[d].owner = slot'[s].who
  <2>1. CASE slot'[s] = slot[s]
    <3>1. Locked(d) /\ Live(d) /\ d \in DocIds /\ docs[d].owner = slot[s].who
      BY <1>1, <2>1 DEF Locked, UploadsHold, SlotsTyped, SlotRows
    <3> QED
      BY <2>1, <3>1, LockedRowsStay
  <2>2. ASSUME NEW u \in Users, slot'[s].who = u, slot'[s].docs = LiveOf(u), docs' = docs
        PROVE  docs'[d].status \notin {"absent", "failed"} /\ docs'[d].owner = slot'[s].who
    BY <1>1, <2>2 DEF LiveOf, Live, Exists
  <2> QED
    BY <1>1, <2>1, <2>2, SlotAfter DEF Free
<1> QED
  BY <1>1 DEF UploadsHold, Live, Exists

LEMMA RollbacksStillKnow ==
  ASSUME DocInv, [Next]_vars
  PROVE  RollbacksKnow'
<1> USE DEF DocInv, DocTypeOK
<1> DEFINE Knows(row, d) ==
             /\ row.version \in 1..docs'[d].version
             /\ row.status # "absent"
             /\ \A v \in row.snaps : v.status # "absent"
             /\ docs'[d].status # "absent" =>
                  /\ FilesOf(row) \subseteq FilesOf(docs'[d])
                  /\ row.version = docs'[d].version =>
                       row.file = docs'[d].file /\ row.snaps = docs'[d].snaps
                  /\ row.text \in {0} \cup FilesOf(docs'[d])
                  /\ \A v \in row.snaps : v.text \in {0} \cup FilesOf(docs'[d])
<1>0. \A d \in DocIds : docs[d] \in Rows /\ docs[d].version \in Nat /\ docs'[d].version \in Nat
  BY DocsStayTyped DEF DocsTyped, Rows
<1>1. ASSUME NEW s \in Slots, slot'[s].op = "rollback", NEW d \in slot'[s].docs
      PROVE  Knows(slot'[s].row, d)
  <2>1. CASE slot'[s] = slot[s]
    <3>1. d \in DocIds
      BY <1>1, <2>1 DEF SlotsTyped, SlotRows
    <3>2. slot[s].row.version \in 1..docs[d].version
      BY <1>1, <2>1 DEF RollbacksKnow
    <3>3. Grows(d) /\ docs[d].version # 0
      BY <1>0, <3>1, <3>2, RowsGrow
    <3>4. slot[s].row.version \in 1..docs'[d].version
      BY <1>0, <3>1, <3>2, <3>3 DEF Grows
    <3>5. ASSUME docs'[d].status # "absent"
          PROVE  /\ Exists(d) /\ FilesOf(docs[d]) \subseteq FilesOf(docs'[d])
                 /\ slot[s].row.version = docs'[d].version =>
                      /\ slot[s].row.version = docs[d].version
                      /\ docs'[d].file = docs[d].file /\ docs'[d].snaps = docs[d].snaps
      BY <1>0, <3>1, <3>2, <3>3, <3>5 DEF Grows
    <3> QED
      BY <1>1, <2>1, <3>4, <3>5 DEF RollbacksKnow
  <2>2. ASSUME NEW e \in DocIds, slot'[s].docs = {e}, slot'[s].row = docs[e], Exists(e), docs' = docs
        PROVE  Knows(slot'[s].row, d)
    <3>1. d = e /\ docs'[d] = docs[e] /\ docs[e].version \in Nat /\ docs[e].version # 0
      BY <1>0, <1>1, <2>2 DEF Numbered
    <3> QED
      BY <2>2, <3>1 DEF Numbered, TextsAreOwn, Exists
  <2> QED
    BY <1>1, <2>1, <2>2, SlotAfter DEF Free
<1> QED
  BY <1>1 DEF RollbacksKnow, Exists

LEMMA RunsStayOnOwnFile ==
  ASSUME DocInv, [Next]_vars
  PROVE  RunsOwnFile'
<1> USE DEF DocInv, DocTypeOK
<1>1. ASSUME NEW t \in TaskIds, tasks'[t].stage = "running"
      PROVE  LET d == tasks'[t].doc
             IN  /\ docs'[d].version # 0
                 /\ docs'[d].status # "absent" => tasks'[t].file \in FilesOf(docs'[d])
  <2>0. \A d \in DocIds : docs[d].version \in Nat /\ docs'[d].version \in Nat
    BY DocsStayTyped DEF DocsTyped, Rows
  <2>1. CASE tasks'[t] = tasks[t]
    <3> DEFINE d == tasks[t].doc
    <3>1. d \in DocIds /\ docs[d].version # 0 /\ (Exists(d) => tasks[t].file \in FilesOf(docs[d]))
      BY <1>1, <2>1 DEF TasksTyped, RunsOwnFile
    <3>2. Grows(d)
      BY <3>1, RowsGrow
    <3> QED
      BY <2>0, <2>1, <3>1, <3>2 DEF Grows
  <2>2. CASE StartTask(t)
    <3> DEFINE d == tasks[t].doc
    <3>1. d \in DocIds /\ Exists(d) /\ docs[d].version # 0
      BY <2>2 DEF StartTask, TasksTyped, Numbered
    <3>2. ~End(t)
      BY <1>1, TaskSet DEF End, NoTask
    <3>3. docs[d].file \in disk /\ tasks'[t].doc = d /\ tasks'[t].file = docs[d].file
      BY <2>2, <3>2 DEF StartTask, TasksTyped, TaskRows
    <3>4. docs[d].file \in FilesOf(docs[d])
      BY <3>3, FilesOfRow DEF RestTyped
    <3>5. Grows(d)
      BY <3>1, RowsGrow
    <3> QED
      BY <2>0, <3>1, <3>3, <3>4, <3>5 DEF Grows
  <2> QED
    BY <1>1, <2>1, <2>2, TasksChange
<1> QED
  BY <1>1 DEF RunsOwnFile, Exists

-----------------------------------------------------------------------------
(***************************************************************************)
(* Files.                                                                  *)
(***************************************************************************)
\* A saved file is an upload's, a new row's, left behind or removed at once.
LEMMA FileSaved ==
  ASSUME [Next]_vars
  PROVE  \/ saved' = saved /\ disk' \subseteq disk
         \/ saved < MaxFiles /\ saved' = saved + 1 /\ disk' \subseteq disk
         \/ /\ saved < MaxFiles /\ saved' = saved + 1 /\ disk' \subseteq disk \cup {saved + 1}
            /\ \/ saved + 1 \in orphans'
               \/ \E s \in Slots, u \in Users : BeginUpload(s, u)
               \/ \E u \in Users, queued \in BOOLEAN : StoreRow(u, queued)
<1>1. CASE UNCHANGED vars
  BY <1>1 DEF vars
<1>2. ASSUME NEW s \in Slots, NEW u \in Users,
             \/ \E d \in DocIds, n \in 1..MaxVersion : BeginRollback(s, u, d, n)
             \/ \E D \in SUBSET DocIds : BeginDelete(s, u, D)
      PROVE  saved' = saved /\ disk' \subseteq disk
  BY <1>2 DEF BeginRollback, BeginDelete
<1>3. ASSUME NEW s \in Slots, NEW u \in Users, BeginUpload(s, u)
      PROVE  saved < MaxFiles /\ saved' = saved + 1 /\ disk' \subseteq disk \cup {saved + 1}
  BY <1>3 DEF BeginUpload, SaveFile
<1>4. ASSUME NEW s \in Slots,
             \/ CommitUpload(s) \/ ConflictUpload(s) \/ CrashBeforeCommit(s)
             \/ Dispatch(s) \/ DispatchFails(s)
             \/ CrashBeforeDispatch(s) \/ CommitRollback(s) \/ RollbackConflict(s)
             \/ CommitDelete(s) \/ DeleteFails(s)
      PROVE  saved' = saved /\ disk' \subseteq disk
  BY <1>4 DEF CommitUpload, ConflictUpload, CrashBeforeCommit, Dispatch, DispatchFails, CrashBeforeDispatch,
              CommitRollback, RollbackConflict, CommitDelete, DeleteFails
<1>5. ASSUME NEW u \in Users, NEW queued \in BOOLEAN, StoreRow(u, queued)
      PROVE  saved < MaxFiles /\ saved' = saved + 1 /\ disk' \subseteq disk \cup {saved + 1}
  BY <1>5 DEF StoreRow, SaveFile
<1>6. ASSUME NEW u \in Users, NEW b \in BOOLEAN, RefuseRow(u, b)
      PROVE  \/ saved < MaxFiles /\ saved' = saved + 1 /\ disk' \subseteq disk
             \/ /\ saved < MaxFiles /\ saved' = saved + 1 /\ disk' \subseteq disk \cup {saved + 1}
                /\ saved + 1 \in orphans'
  BY <1>6 DEF RefuseRow
<1>7. ASSUME NEW u \in Uploaders, NEW queued \in BOOLEAN,
             \/ ImportDriveFile(u, queued) \/ ImportPortalExport(u, queued)
             \/ IngestAttachment(u, queued) \/ UploadNoticeFile(u, queued) \/ PersistBody(u, queued)
      PROVE  u \in Users /\ (StoreRow(u, queued) \/ \E b \in BOOLEAN : RefuseRow(u, b))
  BY <1>7, DocumentBounds DEF ImportDriveFile, ImportPortalExport, IngestAttachment, UploadNoticeFile,
               PersistBody
<1>8. ASSUME NEW u \in Users, NEW v \in Users, NEW d \in Sharable,
             (\E p \in Grants : ShareDocument(u, d, v, p)) \/ RevokeShare(u, d, v)
      PROVE  saved' = saved /\ disk' \subseteq disk
  BY <1>8 DEF ShareDocument, RevokeShare
<1>9. ASSUME NEW t \in TaskIds, Deliver(t) \/ WorkerLost(t) \/ HardKill(t)
      PROVE  saved' = saved /\ disk' \subseteq disk
  BY <1>9 DEF Deliver, EndTask, StartTask, TaskFindsNothing, FinishTask, FailTask, RetryTask,
              ExhaustTask, WorkerLost, HardKill
<1>10. CASE ImportLosesFile
  BY <1>10 DEF ImportLosesFile, SaveFile
<1> QED
  BY <1>1, <1>2, <1>3, <1>4, <1>5, <1>6, <1>7, <1>8, <1>9, <1>10 DEF Next, Requests

\* A step saves one file at most, and nothing else reaches the disk.
LEMMA DiskChange ==
  ASSUME [Next]_vars
  PROVE  \/ saved' = saved /\ disk' \subseteq disk
         \/ saved' = saved + 1 /\ disk' \subseteq disk \cup {saved + 1}
  BY FileSaved

LEMMA FilesStayKnown ==
  ASSUME DocInv, [Next]_vars
  PROVE  FilesKnown'
<1> USE DEF DocInv, DocTypeOK
<1>0. saved \in Nat /\ saved' \in Nat /\ 1..saved \subseteq 1..saved' /\ saved <= saved'
  BY DiskChange DEF RestTyped
<1>1. ASSUME NEW s \in Slots
      PROVE  slot[s].file \in Nat /\ slot[s].row \in Rows /\ slot[s].file <= saved
  BY DEF SlotsTyped, SlotRows, FilesKnown
<1> DEFINE Good(d) == FilesOf(docs'[d]) \subseteq 1..saved'
<1>2. ASSUME NEW d \in DocIds, docs'[d] = docs[d]
      PROVE  Good(d)
  BY <1>0, <1>2 DEF FilesKnown
<1>3. ASSUME NEW d \in DocIds, NEW v, docs'[d].snaps \subseteq docs[d].snaps \cup {v},
             docs'[d].file \in 0..saved', v.file \in FilesOf(docs[d]) \cup {0}
      PROVE  Good(d)
  <2>1. FilesOf(docs'[d]) \subseteq FilesOf(docs[d]) \cup {docs'[d].file, v.file}
    BY <1>3, FilesAdded
  <2>2. FilesOf(docs[d]) \subseteq 1..saved' /\ 0 \notin FilesOf(docs'[d])
    BY <1>0, FilesOfRow DEF FilesKnown
  <2> QED
    BY <1>0, <1>3, <2>1, <2>2
<1>4. ASSUME NEW d \in DocIds
      PROVE  docs[d].file \in FilesOf(docs[d]) \cup {0} /\ docs[d].file \in 0..saved'
  <2>1. docs[d].file \in FilesOf(docs[d]) \cup {0}
    BY FilesOfRow
  <2> QED
    BY <1>0, <2>1 DEF FilesKnown
<1>5. ASSUME NEW d \in DocIds, Restatus(d)
      PROVE  \A e \in DocIds : Good(e)
  <2>1. FilesOf(docs'[d]) = FilesOf(docs[d])
    BY <1>5, RestatusEffect DEF FilesOf
  <2>2. Good(d)
    BY <1>0, <2>1 DEF FilesKnown
  <2> QED
    BY <1>2, <1>5, <2>2, RestatusEffect DEF OthersStay
<1>6. ASSUME NEW u \in Users \cup {NoUser}, NEW f \in Nat, Created(u, f), NewFile(f)
      PROVE  \A e \in DocIds : Good(e)
  <2>1. f <= saved'
    BY <1>0, <1>1, <1>6 DEF NewFile
  <2>2. PICK d \in DocIds : OthersStay(d) /\ docs'[d] = NewRow(u, f)
    BY <1>6, CreatedEffect
  <2>3. docs'[d].snaps = {} /\ docs'[d].file = f
    BY <2>2, NewRowTyped
  <2>4. Good(d)
    BY <1>0, <2>1, <2>3 DEF FilesOf
  <2> QED
    BY <1>2, <2>2, <2>4 DEF OthersStay
<1>7. ASSUME NEW s \in Slots, Replaces(s)
      PROVE  \A e \in DocIds : Good(e)
  <2>1. PICK d \in DocIds \cap slot[s].docs :
          /\ OthersStay(d) /\ docs'[d].file = slot[s].file
          /\ docs'[d].snaps = docs[d].snaps \cup {Snapshot(docs[d])}
    BY <1>7, ReplacesEffect
  <2>2. Snapshot(docs[d]).file = docs[d].file
    BY SnapshotTyped DEF DocsTyped
  <2>3. slot[s].file \in 0..saved'
    BY <1>0, <1>1
  <2>4. Good(d)
    BY <1>3, <1>4, <2>1, <2>2, <2>3
  <2> QED
    BY <1>2, <2>1, <2>4 DEF OthersStay
<1>8. ASSUME NEW s \in Slots, CommitRollback(s)
      PROVE  \A e \in DocIds : Good(e)
  <2>1. PICK d \in DocIds \cap slot[s].docs, v \in slot[s].row.snaps :
          /\ OthersStay(d) /\ Exists(d) /\ docs'[d].file \in {v.file, docs[d].file}
          /\ docs'[d].snaps = docs[d].snaps \cup {Snapshot(slot[s].row)}
    BY <1>8, RollbackEffect
  <2>2. FilesOf(slot[s].row) \subseteq FilesOf(docs[d])
    BY <1>8, <2>1, RollbackEffect DEF RollbacksKnow
  <2>3. Snapshot(slot[s].row).file = slot[s].row.file
    BY <1>1, SnapshotTyped
  <2>4. slot[s].row.file \in FilesOf(docs[d]) \cup {0} /\ v.file \in FilesOf(docs[d]) \cup {0}
    BY <2>1, <2>2, FilesOfRow
  <2>5. v.file \in 0..saved'
    BY <1>0, <2>4 DEF FilesKnown
  <2>6. Good(d)
    BY <1>3, <1>4, <2>1, <2>3, <2>4, <2>5
  <2> QED
    BY <1>2, <2>1, <2>6 DEF OthersStay
<1>9. ASSUME NEW s \in Slots, CommitDelete(s)
      PROVE  \A e \in DocIds : Good(e)
  BY <1>2, <1>9, DeleteEffect
<1>10. \A d \in DocIds : Good(d)
  BY <1>2, <1>5, <1>6, <1>7, <1>8, <1>9, DocsChange
<1>11. ASSUME NEW s \in Slots
       PROVE  /\ slot'[s].file <= saved' /\ FilesOf(slot'[s].row) \subseteq 1..saved'
              /\ slot'[s].op # "upload" => slot'[s].file = 0
  <2>1. FilesOf(Absent) = {} /\ Free.file = 0 /\ Free.row = Absent
    BY DEF FilesOf, Absent, Free
  <2>2. CASE slot'[s] = slot[s]
    BY <1>0, <1>1, <2>2 DEF FilesKnown
  <2>3. ASSUME NEW d \in DocIds, slot'[s].row = docs[d], slot'[s].file = 0
        PROVE  slot'[s].file <= saved' /\ FilesOf(slot'[s].row) \subseteq 1..saved'
    BY <1>0, <2>3 DEF FilesKnown
  <2> QED
    BY <1>0, <2>1, <2>2, <2>3, SlotAfter
<1> QED
  BY <1>10, <1>11 DEF FilesKnown

-----------------------------------------------------------------------------
(***************************************************************************)
(* Theorems.                                                               *)
(***************************************************************************)
LEMMA DocInit ==
  ASSUME Init
  PROVE  DocInv
<1> USE BlankRows DEF Init
<1>1. DocTypeOK
  <2>1. DocsTyped
    BY DEF DocsTyped
  <2>2. TasksTyped
    BY DEF TasksTyped, NoTask
  <2>3. SlotsTyped
    BY DEF SlotsTyped
  <2>4. RestTyped
    BY DEF RestTyped
  <2> QED
    BY <2>1, <2>2, <2>3, <2>4 DEF DocTypeOK
<1>2. \A d \in DocIds : ~Exists(d) /\ FilesOf(docs[d]) = {} /\ docs[d].text = 0 /\ docs[d].snaps = {}
  BY DEF Exists, FilesOf, Absent
<1>3. \A d \in DocIds : docs[d] = [Absent EXCEPT !.version = docs[d].version]
  BY DEF Absent
<1>4. \A s \in Slots : /\ slot[s].op = "free" /\ slot[s].file = 0
                       /\ FilesOf(slot[s].row) = {}
  BY DEF Free, FilesOf, Absent
<1>5. FilesKnown
  BY <1>2, <1>4 DEF FilesKnown
<1>6. AbsentIsBlank /\ Numbered /\ OneLiveDocumentPerName /\ TextsAreOwn /\ HistoryIsComplete
  BY <1>2, <1>3 DEF AbsentIsBlank, Numbered, OneLiveDocumentPerName, TextsAreOwn,
                    HistoryIsComplete, Live
<1>7. UploadsHold /\ RollbacksKnow /\ DispatchesOne /\ RunsOwnFile
  BY <1>4 DEF UploadsHold, RollbacksKnow, DispatchesOne, RunsOwnFile, NoTask
<1> QED
  BY <1>1, <1>5, <1>6, <1>7 DEF DocInv

LEMMA DocStep ==
  ASSUME DocInv, [Next]_vars
  PROVE  DocInv'
<1>1. DocTypeOK'
  BY DocsStayTyped, SlotsStayTyped, TasksStayTyped, RestStaysTyped DEF DocInv, DocTypeOK
<1> QED
  BY <1>1, FilesStayKnown, RowsLeft, UploadsStillHold, RollbacksStillKnow, DispatchesStayOne,
     RunsStayOnOwnFile, OneStaysLive, TextsStayOwn, HistoryStaysComplete DEF DocInv

\* The inductive invariant of the documents holds.
THEOREM DocInvariance == Spec => []DocInv
<1>1. Init => DocInv
  BY DocInit
<1>2. DocInv /\ [Next]_vars => DocInv'
  BY DocStep
<1> QED
  BY <1>1, <1>2, PTL DEF Spec

\* Rows, requests, tasks, permissions and the disk are of their types.
THEOREM DocTypesCorrect == Spec => []DocTypeOK
<1>1. DocInv => DocTypeOK
  BY DEF DocInv
<1> QED
  BY <1>1, DocInvariance, PTL

\* The versions of a document are numbered without a gap and without a
\* repetition, however many uploads and rollbacks of it overlap.
THEOREM HistoryHasNoGap == Spec => []HistoryIsComplete
<1>1. DocInv => HistoryIsComplete
  BY DEF DocInv
<1> QED
  BY <1>1, DocInvariance, PTL

\* A user has at most one document of the name that has not failed.
THEOREM OneLivePerName == Spec => []OneLiveDocumentPerName
<1>1. DocInv => OneLiveDocumentPerName
  BY DEF DocInv
<1> QED
  BY <1>1, DocInvariance, PTL

\* No document carries text read from a file of another.
THEOREM TextsFromOwnFiles == Spec => []TextsAreOwn
<1>1. DocInv => TextsAreOwn
  BY DEF DocInv
<1> QED
  BY <1>1, DocInvariance, PTL

\* Every list, page and download shows a user what they own, share or
\* administer, and no more.
THEOREM ListsRespectAccess == Spec => []ListsAgreeWithAccess
<1>1. DocTypeOK => ListsAgreeWithAccess
  <2> SUFFICES ASSUME DocTypeOK, NEW u \in Users
               PROVE  /\ GetSharedDocuments(u) \cup GetPermissions(u) \cup SearchDocuments(u)
                           \subseteq GetDocument(u)
                      /\ DownloadDocument(u) \cup DownloadVersion(u) \subseteq
                           UNION {FilesOf(docs[d]) :
                                    d \in GetAllDocuments(u) \cup GetSharedDocuments(u)
                                            \cup (IF u \in Admin THEN DocIds ELSE {})}
                      /\ GetDocumentStats(u)["completed"] = Cardinality(SearchDocuments(u))
    BY DEF ListsAgreeWithAccess
  <2> DEFINE Mine == GetAllDocuments(u) \cup GetSharedDocuments(u)
                       \cup (IF u \in Admin THEN DocIds ELSE {})
  <2>1. \A d \in DocIds : perms[d][u] \in {"none", "view", "edit"}
    BY DEF DocTypeOK, RestTyped
  <2>2. GetSharedDocuments(u) \cup GetPermissions(u) \cup SearchDocuments(u) \subseteq GetDocument(u)
    BY <2>1 DEF GetSharedDocuments, GetPermissions, SearchDocuments, GetAllDocuments, GetDocument,
                GetAccessibleDocument, OwnerOrAdmin
  <2>3. GetDocument(u) \subseteq Mine
    BY <2>1 DEF GetSharedDocuments, GetAllDocuments, GetDocument, GetAccessibleDocument, OwnerOrAdmin
  <2>4. ASSUME NEW f \in DownloadDocument(u) \cup DownloadVersion(u)
        PROVE  \E d \in Mine : f \in FilesOf(docs[d])
    <3>1. f # 0
      <4>1. f \in disk
        BY <2>4 DEF DownloadDocument, DownloadVersion
      <4> QED
        BY <4>1 DEF DocTypeOK, RestTyped
    <3>2. PICK d \in GetDocument(u) : f = docs[d].file \/ \E v \in docs[d].snaps : f = v.file
      BY <2>4 DEF DownloadDocument, DownloadVersion
    <3> QED
      BY <2>3, <3>1, <3>2, FilesOfRow
  <2>5. GetDocumentStats(u)["completed"] = Cardinality(SearchDocuments(u))
    BY DEF GetDocumentStats, SearchDocuments
  <2> QED
    BY <2>2, <2>4, <2>5
<1> QED
  BY <1>1, DocTypesCorrect, PTL

-----------------------------------------------------------------------------
(***************************************************************************)
(* Unsettled documents.                                                    *)
(***************************************************************************)
Works(t, e)      == tasks[t].doc = e /\ tasks[t].stage \in {"queued", "running"}
Dispatches(s, e) == slot[s].op = "dispatch" /\ e \in slot[s].docs

Attended(e) ==
  \/ e \in lost
  \/ \E t \in TaskIds : Works(t, e)
  \/ \E s \in Slots : Dispatches(s, e)

TasksKept(e) == \A t \in TaskIds : Works(t, e) => tasks'[t].doc = e
                                                  /\ tasks'[t].stage \in {"queued", "running"}
SlotsKept(e) == \A s \in Slots : Dispatches(s, e) => slot'[s] = slot[s]

LEMMA StaysAttended ==
  ASSUME UnsettledHasTask, NEW e \in DocIds, Unsettled(e), e \in lost => e \in lost',
         TasksKept(e), SlotsKept(e)
  PROVE  Attended(e)'
<1>1. Attended(e)
  BY DEF UnsettledHasTask, Attended, Works, Dispatches
<1> QED
  BY <1>1 DEF Attended, TasksKept, SlotsKept, Works, Dispatches

LEMMA OtherTask ==
  ASSUME TasksTyped, NEW e \in DocIds, NEW t \in TaskIds, NEW rec,
         tasks' = [tasks EXCEPT ![t] = rec], ~Works(t, e)
  PROVE  TasksKept(e)
<1>1. \A k \in TaskIds \ {t} : tasks'[k] = tasks[k]
  BY TaskSet
<1> QED
  BY <1>1 DEF TasksKept, Works

LEMMA OtherSlot ==
  ASSUME SlotsTyped, NEW e \in DocIds, NEW s \in Slots, NEW rec, Start(s, rec), ~Dispatches(s, e)
  PROVE  SlotsKept(e)
  BY SlotSet DEF SlotsKept, Start

\* A task is dispatched into a message nobody uses.
LEMMA QueueWorks ==
  ASSUME TasksTyped, NEW d \in DocIds, Queue(d)
  PROVE  /\ \E t \in TaskIds : tasks'[t].doc = d /\ tasks'[t].stage = "queued"
         /\ \A e \in DocIds : TasksKept(e)
<1>1. PICK t \in TaskIds :
        /\ tasks[t] = NoTask
        /\ tasks' = [tasks EXCEPT ![t] = [NoTask EXCEPT !.stage = "queued", !.doc = d]]
  BY DEF Queue
<1>2. tasks'[t] = [NoTask EXCEPT !.stage = "queued", !.doc = d]
  BY <1>1, TaskSet
<1>3. \A e \in DocIds : ~Works(t, e)
  BY <1>1 DEF Works, NoTask
<1>4. \A e \in DocIds : TasksKept(e)
  BY <1>1, <1>3, OtherTask
<1> QED
  BY <1>2, <1>4 DEF NoTask

LEMMA AttendanceOfRequests ==
  ASSUME DocInv, UnsettledHasTask, NEW e \in DocIds, docs'[e].status \in {"pending", "processing"},
         NEW s \in Slots,
         \/ CommitUpload(s) \/ ConflictUpload(s) \/ CrashBeforeCommit(s)
         \/ Dispatch(s) \/ DispatchFails(s)
         \/ CrashBeforeDispatch(s) \/ CommitRollback(s) \/ RollbackConflict(s)
         \/ CommitDelete(s) \/ DeleteFails(s)
  PROVE  Attended(e)'
<1> USE DEF DocInv, DocTypeOK
<1>1. tasks' = tasks => TasksKept(e)
  BY DEF TasksKept, Works
<1>2. Finish(s) /\ ~Dispatches(s, e) => SlotsKept(e)
  BY OtherSlot DEF Finish, Start
<1>3. docs'[e] = docs[e] => Unsettled(e)
  BY DEF Unsettled
<1>4. CASE CommitUpload(s)
  <2>1. PICK d \in DocIds :
          /\ \A x \in DocIds \ {d} : docs'[x] = docs[x]
          /\ lost' = lost \ {d}
          /\ Start(s, [Free EXCEPT !.op = "dispatch", !.docs = {d}])
    BY <1>4 DEF CommitUpload, FreshId, SlotsTyped, SlotRows, DocsTyped
  <2>2. CASE e = d
    <3>1. slot'[s] = [Free EXCEPT !.op = "dispatch", !.docs = {d}]
      BY <2>1, SlotSet DEF Start
    <3> QED
      BY <2>2, <3>1 DEF Free, Attended, Dispatches
  <2>3. CASE e # d
    <3>1. ~Dispatches(s, e) /\ tasks' = tasks
      BY <1>4 DEF CommitUpload, Dispatches
    <3> QED
      BY <1>1, <1>3, <2>1, <2>3, <3>1, OtherSlot, StaysAttended
  <2> QED
    BY <2>2, <2>3
<1>5. CASE ConflictUpload(s) \/ CrashBeforeCommit(s) \/ RollbackConflict(s) \/ DeleteFails(s)
  <2>1. /\ docs' = docs /\ lost' = lost /\ tasks' = tasks /\ Finish(s) /\ ~Dispatches(s, e)
    BY <1>5 DEF ConflictUpload, CrashBeforeCommit, RollbackConflict, DeleteFails, Dispatches
  <2> QED
    BY <1>1, <1>2, <1>3, <2>1, StaysAttended
<1>6. CASE Dispatch(s)
  <2>1. PICK d \in DocIds : slot[s].docs = {d}
    BY <1>6 DEF Dispatch, DispatchesOne
  <2>2. Queue(d) /\ docs' = docs /\ lost' = lost /\ Finish(s)
    BY <1>6, <2>1 DEF Dispatch
  <2>3. CASE e = d
    BY <2>2, <2>3, QueueWorks DEF Attended, Works
  <2>4. CASE e # d
    BY <1>2, <1>3, <2>1, <2>2, <2>4, QueueWorks, StaysAttended DEF Dispatches
  <2> QED
    BY <2>3, <2>4
<1>7. CASE DispatchFails(s)
  <2>1. e \notin slot[s].docs /\ docs'[e] = docs[e]
    <3>1. docs' = [d \in DocIds |-> IF d \in slot[s].docs /\ Exists(d)
                               THEN [docs[d] EXCEPT !.status = "failed"] ELSE docs[d]]
      BY <1>7 DEF DispatchFails
    <3>2. docs[e] \in Rows
      BY DEF DocsTyped
    <3>3. ASSUME e \in slot[s].docs
          PROVE  FALSE
      BY <3>1, <3>2, <3>3 DEF Rows, Exists
    <3> QED
      BY <3>1, <3>3
  <2>2. lost' = lost /\ Finish(s) /\ ~Dispatches(s, e)
    BY <1>7, <2>1 DEF DispatchFails, Dispatches
  <2>3. PICK d \in DocIds : slot[s].docs = {d}
    BY <1>7 DEF DispatchFails, DispatchesOne
  <2>4. TasksKept(e)
    BY <1>1, <1>7, <2>3, QueueWorks DEF DispatchFails
  <2> QED
    BY <1>2, <1>3, <2>1, <2>2, <2>4, StaysAttended
<1>8. CASE CrashBeforeDispatch(s)
  <2>1. docs' = docs /\ lost' = lost \cup slot[s].docs /\ tasks' = tasks /\ Finish(s)
    BY <1>8 DEF CrashBeforeDispatch
  <2>2. CASE e \in slot[s].docs
    BY <2>1, <2>2 DEF Attended
  <2>3. CASE e \notin slot[s].docs
    BY <1>1, <1>2, <1>3, <2>1, <2>3, StaysAttended DEF Dispatches
  <2> QED
    BY <2>2, <2>3
<1>9. CASE CommitRollback(s)
  <2>1. PICK d \in DocIds :
          /\ OthersStay(d)
          /\ lost' = IF docs'[d].status \in {"pending", "processing"} THEN lost \cup {d} ELSE lost
    BY <1>9, RollbackEffect
  <2>2. CASE e = d
    BY <2>1, <2>2 DEF Attended
  <2>3. CASE e # d
    <3>1. tasks' = tasks /\ Finish(s) /\ ~Dispatches(s, e)
      BY <1>9 DEF CommitRollback, Dispatches
    <3> QED
      BY <1>1, <1>2, <1>3, <2>1, <2>3, <3>1, StaysAttended DEF OthersStay
  <2> QED
    BY <2>2, <2>3
<1>10. CASE CommitDelete(s)
  <2>1. e \notin slot[s].docs /\ docs'[e] = docs[e]
    BY <1>10, DeleteEffect
  <2>2. lost' = lost \ slot[s].docs /\ tasks' = tasks /\ Finish(s) /\ ~Dispatches(s, e)
    BY <1>10 DEF CommitDelete, Dispatches
  <2> QED
    BY <1>1, <1>2, <1>3, <2>1, <2>2, StaysAttended
<1> QED
  BY <1>4, <1>5, <1>6, <1>7, <1>8, <1>9, <1>10

LEMMA AttendanceOfTasks ==
  ASSUME DocInv, UnsettledHasTask, NEW e \in DocIds, docs'[e].status \in {"pending", "processing"},
         NEW t \in TaskIds, Deliver(t) \/ WorkerLost(t) \/ HardKill(t)
  PROVE  Attended(e)'
<1> USE DEF DocInv, DocTypeOK
<1> DEFINE d == tasks[t].doc
<1>0. slot' = slot /\ SlotsKept(e)
  BY DEF SlotsKept, Deliver, EndTask, StartTask, TaskFindsNothing, FinishTask, FailTask, RetryTask,
         ExhaustTask, WorkerLost, HardKill
<1>1. tasks[t].stage \in {"queued", "running"} /\ d \in DocIds /\ docs[d] \in Rows
  BY DEF Deliver, EndTask, StartTask, TaskFindsNothing, FinishTask, FailTask, RetryTask,
         ExhaustTask, WorkerLost, HardKill, Trips, TasksTyped, DocsTyped
<1>2. lost \subseteq lost'
  BY DEF Deliver, EndTask, StartTask, TaskFindsNothing, FinishTask, FailTask, RetryTask,
         ExhaustTask, WorkerLost, HardKill
<1>3. CASE e # d
  <2>1. \E rec : tasks' = [tasks EXCEPT ![t] = rec]
    BY DEF Deliver, EndTask, StartTask, TaskFindsNothing, FinishTask, FailTask, RetryTask,
           ExhaustTask, WorkerLost, HardKill, SafeSetFailed, End, Requeue
  <2>2. TasksKept(e)
    BY <1>3, <2>1, OtherTask DEF Works
  <2>3. docs' = docs \/ Restatus(d)
    BY <1>1, TaskRewrites
       DEF Deliver, EndTask, TaskFindsNothing, RetryTask, WorkerLost, HardKill
  <2>4. docs'[e] = docs[e]
    BY <1>1, <1>3, <2>3, RestatusEffect DEF OthersStay
  <2>5. Unsettled(e)
    BY <2>4 DEF Unsettled
  <2> QED
    BY <1>0, <1>2, <2>2, <2>5, StaysAttended
<1>4. CASE e = d
  <2>1. ASSUME NEW n, Requeue(t, n)
        PROVE  Attended(e)'
    <3>1. tasks'[t] = [NoTask EXCEPT !.stage = "queued", !.doc = d, !.retries = n]
      BY <2>1, TaskSet DEF Requeue
    <3> QED
      BY <1>4, <3>1 DEF NoTask, Attended, Works
  <2>2. docs' = docs => Exists(e)
    BY DEF Exists
  <2>3. ASSUME NEW st, SetStatus(d, st)
        PROVE  docs'[e].status = st
    BY <1>1, <1>4, <2>3 DEF SetStatus, DocsTyped, Rows
  <2>4. CASE StartTask(t)
    <3>1. tasks' = [tasks EXCEPT ![t] = [@ EXCEPT !.stage = "running",
                       !.file = docs[d].file, !.had = docs[d].text]]
      BY <2>3, <2>4 DEF StartTask
    <3>2. tasks'[t].doc = d /\ tasks'[t].stage = "running"
      BY <3>1 DEF TasksTyped, TaskRows
    <3> QED
      BY <1>4, <3>2 DEF Attended, Works
  <2>5. CASE TaskFindsNothing(t)
    BY <1>4, <2>2, <2>5 DEF TaskFindsNothing
  <2>6. CASE FinishTask(t)
    <3>1. docs'[e].status = "completed"
      BY <1>1, <1>4, <2>6 DEF FinishTask, DocsTyped, Rows
    <3> QED
      BY <3>1
  <2>7. CASE FailTask(t)
    BY <2>3, <2>7 DEF FailTask, SafeSetFailed
  <2>8. CASE RetryTask(t) \/ WorkerLost(t)
    BY <2>1, <2>8 DEF RetryTask, WorkerLost
  <2>9. CASE ExhaustTask(t)
    BY <1>4, <2>2, <2>3, <2>9 DEF ExhaustTask, SafeSetFailed
  <2>10. CASE HardKill(t)
    BY <1>1, <1>4, <2>2, <2>10 DEF HardKill, Attended
  <2> QED
    BY <2>4, <2>5, <2>6, <2>7, <2>8, <2>9, <2>10 DEF Deliver, EndTask
<1> QED
  BY <1>3, <1>4

LEMMA AttendanceOfImports ==
  ASSUME DocInv, UnsettledHasTask, NEW e \in DocIds, docs'[e].status \in {"pending", "processing"},
         NEW u \in Users, NEW queued \in BOOLEAN,
         StoreRow(u, queued) \/ \E b \in BOOLEAN : RefuseRow(u, b)
  PROVE  Attended(e)'
<1> USE DEF DocInv, DocTypeOK
<1>0. slot' = slot /\ SlotsKept(e)
  BY DEF SlotsKept, StoreRow, RefuseRow
<1>1. tasks' = tasks => TasksKept(e)
  BY DEF TasksKept, Works
<1>2. CASE StoreRow(u, queued)
  <2>1. PICK d \in DocIds :
          /\ \A x \in DocIds \ {d} : docs'[x] = docs[x]
          /\ IF queued THEN Queue(d) /\ lost' = lost ELSE lost' = lost \cup {d} /\ tasks' = tasks
    BY <1>2 DEF StoreRow, FreshId, DocsTyped
  <2>2. CASE e = d
    BY <2>1, <2>2, QueueWorks DEF Attended, Works
  <2>3. CASE e # d
    <3>1. Unsettled(e) /\ TasksKept(e)
      BY <1>1, <2>1, <2>3, QueueWorks DEF Unsettled
    <3> QED
      BY <1>0, <2>1, <3>1, StaysAttended
  <2> QED
    BY <2>2, <2>3
<1>3. CASE \E b \in BOOLEAN : RefuseRow(u, b)
  <2>1. docs' = docs /\ tasks' = tasks /\ lost' = lost
    BY <1>3 DEF RefuseRow
  <2>2. Unsettled(e)
    BY <2>1 DEF Unsettled
  <2> QED
    BY <1>0, <1>1, <2>1, <2>2, StaysAttended
<1> QED
  BY <1>2, <1>3

LEMMA AttendanceStays ==
  ASSUME DocInv, UnsettledHasTask, [Next]_vars
  PROVE  UnsettledHasTask'
<1> USE DEF DocInv, DocTypeOK
<1> SUFFICES ASSUME NEW e \in DocIds, docs'[e].status \in {"pending", "processing"}
             PROVE  Attended(e)'
  BY DEF UnsettledHasTask, Unsettled, Attended, Works, Dispatches
<1>1. ASSUME docs' = docs, lost' = lost, tasks' = tasks, SlotsKept(e)
      PROVE  Attended(e)'
  <2>1. Unsettled(e) /\ TasksKept(e)
    BY <1>1 DEF Unsettled, TasksKept, Works
  <2> QED
    BY <1>1, <2>1, StaysAttended
<1>2. CASE UNCHANGED vars
  BY <1>1, <1>2 DEF vars, SlotsKept
<1>3. ASSUME NEW s \in Slots, NEW u \in Users,
             \/ u \in Uploaders /\ BeginUpload(s, u)
             \/ \E d \in DocIds, n \in 1..MaxVersion : BeginRollback(s, u, d, n)
             \/ \E D \in SUBSET DocIds : BeginDelete(s, u, D)
      PROVE  Attended(e)'
  <2>1. slot[s] = Free
    BY <1>3 DEF BeginUpload, BeginRollback, BeginDelete, CanStart
  <2>2. ASSUME NEW rec, Start(s, rec)
        PROVE  SlotsKept(e)
    BY <2>1, <2>2, OtherSlot DEF Free, Dispatches
  <2>3. SlotsKept(e)
    BY <1>3, <2>2 DEF BeginUpload, BeginRollback, BeginDelete
  <2> QED
    BY <1>1, <1>3, <2>3 DEF BeginUpload, BeginRollback, BeginDelete
<1>4. ASSUME NEW u \in Uploaders, NEW queued \in BOOLEAN,
             \/ ImportDriveFile(u, queued) \/ ImportPortalExport(u, queued)
             \/ IngestAttachment(u, queued) \/ UploadNoticeFile(u, queued) \/ PersistBody(u, queued)
      PROVE  Attended(e)'
  BY <1>4, AttendanceOfImports, DocumentBounds
     DEF ImportDriveFile, ImportPortalExport, IngestAttachment, UploadNoticeFile, PersistBody
<1>5. ASSUME NEW u \in Users, NEW v \in Users, NEW d \in Sharable,
             (\E p \in Grants : ShareDocument(u, d, v, p)) \/ RevokeShare(u, d, v)
      PROVE  Attended(e)'
  BY <1>1, <1>5 DEF ShareDocument, RevokeShare, SlotsKept
<1>6. CASE ImportLosesFile
  BY <1>1, <1>6 DEF ImportLosesFile, SlotsKept
<1> QED
  BY <1>2, <1>3, <1>4, <1>5, <1>6, AttendanceOfRequests, AttendanceOfTasks DEF Next, Requests

\* A document that is neither settled nor recorded as lost has a task, or a
\* request that is about to dispatch one.
THEOREM UnsettledIsAttended == Spec => []UnsettledHasTask
<1>1. Init => DocInv /\ UnsettledHasTask
  <2>1. Init => UnsettledHasTask
    BY DEF Init, UnsettledHasTask, Unsettled, Absent
  <2> QED
    BY <2>1, DocInit
<1>2. DocInv /\ UnsettledHasTask /\ [Next]_vars => (DocInv /\ UnsettledHasTask)'
  BY DocStep, AttendanceStays
<1> QED
  BY <1>1, <1>2, PTL DEF Spec

-----------------------------------------------------------------------------
(***************************************************************************)
(* Files on the disk.  A deletion removes the files before it commits, so  *)
(* what an upload adds to the row in between is left behind, and recorded. *)
(***************************************************************************)
\* The files of the rows a deletion has loaded are gone.
DiscardedAreGone ==
  \A s \in Slots : slot[s].op = "delete" =>
    slot[s].files \subseteq 1..saved /\ slot[s].files \cap disk = {}

LEMMA DiscardedStayGone ==
  ASSUME DocInv, DiscardedAreGone, [Next]_vars
  PROVE  DiscardedAreGone'
<1> USE DEF DocInv, DocTypeOK
<1>0. saved \in Nat
  BY DEF RestTyped
<1> SUFFICES ASSUME NEW s \in Slots, slot'[s].op = "delete"
             PROVE  slot'[s].files \subseteq 1..saved' /\ slot'[s].files \cap disk' = {}
  BY DEF DiscardedAreGone
<1>1. CASE slot'[s] = slot[s]
  <2>1. slot[s].files \subseteq 1..saved /\ slot[s].files \cap disk = {}
    BY <1>1 DEF DiscardedAreGone
  <2>2. 1..saved \subseteq 1..saved' /\ disk' \subseteq disk \cup {saved + 1}
    BY <1>0, DiskChange
  <2>3. saved + 1 \notin 1..saved
    BY <1>0
  <2> QED
    BY <1>1, <2>1, <2>2, <2>3
<1>2. ASSUME NEW u \in Users, NEW D \in SUBSET DocIds, BeginDelete(s, u, D)
      PROVE  slot'[s].files \subseteq 1..saved' /\ slot'[s].files \cap disk' = {}
  <2>1. slot'[s] = [Free EXCEPT !.op = "delete", !.docs = D,
                                !.files = UNION {FilesOf(docs[d]) : d \in D}]
    BY <1>2, SlotSet DEF BeginDelete, Start
  <2>2. slot'[s].files = UNION {FilesOf(docs[d]) : d \in D}
    BY <2>1 DEF Free
  <2>3. saved' = saved /\ disk' = disk \ UNION {FilesOf(docs[d]) : d \in D}
    BY <1>2 DEF BeginDelete, Discarded
  <2> QED
    BY <2>2, <2>3 DEF FilesKnown
<1> QED
  BY <1>1, <1>2, SlotAfter DEF Free

\* An upload ends by committing, by being refused or with its process.
LEMMA UploadEnds ==
  ASSUME SlotsTyped, [Next]_vars, NEW s \in Slots, slot[s].op = "upload"
  PROVE  slot'[s] = slot[s] \/ CommitUpload(s) \/ ConflictUpload(s) \/ CrashBeforeCommit(s)
<1>1. ASSUME NEW r \in Slots, NEW rec, Start(r, rec), r # s
      PROVE  slot'[s] = slot[s]
  BY <1>1, SlotSet DEF Start
<1>2. ASSUME NEW r \in Slots, CommitUpload(r) \/ ConflictUpload(r) \/ CrashBeforeCommit(r)
      PROVE  slot'[s] = slot[s] \/ CommitUpload(s) \/ ConflictUpload(s) \/ CrashBeforeCommit(s)
  BY <1>1, <1>2, SlotFreed DEF CommitUpload, ConflictUpload, CrashBeforeCommit
<1>3. ASSUME NEW r \in Slots, Finish(r), slot[r].op # "upload"
      PROVE  slot'[s] = slot[s]
  BY <1>3, SlotFreed
<1>4. ASSUME NEW r \in Slots, slot[r] = Free, NEW rec, Start(r, rec)
      PROVE  slot'[s] = slot[s]
  BY <1>1, <1>4 DEF Free
<1>5. ASSUME NEW r \in Slots, NEW u \in Users,
             \/ BeginUpload(r, u)
             \/ \E d \in DocIds, n \in 1..MaxVersion : BeginRollback(r, u, d, n)
             \/ \E D \in SUBSET DocIds : BeginDelete(r, u, D)
      PROVE  slot'[s] = slot[s]
  BY <1>4, <1>5 DEF BeginUpload, BeginRollback, BeginDelete, CanStart
<1> QED
  BY SlotSteps, <1>2, <1>3, <1>5

\* What was left behind stays recorded.
LEMMA OrphansStay ==
  ASSUME [Next]_vars
  PROVE  orphans \subseteq orphans'
<1>1. ASSUME NEW s \in Slots,
             \/ CommitUpload(s) \/ ConflictUpload(s) \/ CrashBeforeCommit(s)
             \/ Dispatch(s) \/ DispatchFails(s)
             \/ CrashBeforeDispatch(s) \/ CommitRollback(s) \/ RollbackConflict(s)
             \/ CommitDelete(s) \/ DeleteFails(s)
      PROVE  orphans \subseteq orphans'
  BY <1>1 DEF CommitUpload, ConflictUpload, CrashBeforeCommit, Dispatch, DispatchFails, CrashBeforeDispatch,
              CommitRollback, RollbackConflict, CommitDelete, DeleteFails
<1>2. ASSUME NEW u \in Uploaders, NEW queued \in BOOLEAN,
             \/ ImportDriveFile(u, queued) \/ ImportPortalExport(u, queued)
             \/ IngestAttachment(u, queued) \/ UploadNoticeFile(u, queued) \/ PersistBody(u, queued)
      PROVE  orphans \subseteq orphans'
  BY <1>2 DEF ImportDriveFile, ImportPortalExport, IngestAttachment, UploadNoticeFile,
              PersistBody, RefuseRow, StoreRow
<1>3. ASSUME NEW t \in TaskIds, Deliver(t) \/ WorkerLost(t) \/ HardKill(t)
      PROVE  orphans' = orphans
  BY <1>3 DEF Deliver, EndTask, StartTask, TaskFindsNothing, FinishTask, FailTask, RetryTask,
              ExhaustTask, WorkerLost, HardKill
<1>4. ASSUME NEW s \in Slots, NEW u \in Users,
             \/ BeginUpload(s, u)
             \/ \E d \in DocIds, n \in 1..MaxVersion : BeginRollback(s, u, d, n)
             \/ \E D \in SUBSET DocIds : BeginDelete(s, u, D)
      PROVE  orphans' = orphans
  BY <1>4 DEF BeginUpload, BeginRollback, BeginDelete
<1>5. ASSUME NEW u \in Users, NEW v \in Users, NEW d \in Sharable,
             (\E p \in Grants : ShareDocument(u, d, v, p)) \/ RevokeShare(u, d, v)
      PROVE  orphans' = orphans
  BY <1>5 DEF ShareDocument, RevokeShare
<1>6. CASE ImportLosesFile
  BY <1>6 DEF ImportLosesFile
<1> QED
  BY <1>1, <1>2, <1>3, <1>4, <1>5, <1>6 DEF Next, Requests, vars

Claimed(f) ==
  \/ f \in orphans
  \/ \E d \in DocIds : f \in FilesOf(docs[d])
  \/ \E s \in Slots : f = slot[s].file

LEMMA FilesStayClaimed ==
  ASSUME DocInv, DiscardedAreGone, NoFileLeaks, [Next]_vars
  PROVE  NoFileLeaks'
<1> USE DEF DocInv, DocTypeOK
<1> SUFFICES ASSUME NEW f \in disk'
             PROVE  Claimed(f)'
  BY DEF NoFileLeaks, Claimed
<1>1. saved \in Nat /\ f # 0
  BY FileSaved DEF RestTyped
<1>2. CASE f \in disk
  <2>1. Claimed(f)
    BY <1>2 DEF NoFileLeaks, Claimed
  <2>2. CASE f \in orphans
    BY <2>2, OrphansStay DEF Claimed
  <2>3. ASSUME NEW d \in DocIds, f \in FilesOf(docs[d])
        PROVE  Claimed(f)'
    <3>1. Exists(d) /\ docs[d].version # 0
      <4>1. CASE ~Exists(d)
        <5>1. docs[d] = [Absent EXCEPT !.version = docs[d].version]
          BY <4>1 DEF AbsentIsBlank
        <5>2. FilesOf(docs[d]) = {}
          BY <5>1 DEF FilesOf, Absent
        <5> QED
          BY <2>3, <5>2
      <4> QED
        BY <4>1 DEF Numbered
    <3>2. CASE docs'[d].status # "absent"
      BY <2>3, <3>1, <3>2, RowsGrow DEF Grows, Claimed
    <3>3. ASSUME docs'[d].status = "absent"
          PROVE  Claimed(f)'
      <4>1. PICK s \in Slots : CommitDelete(s)
        <5>1. docs' # docs
          BY <3>1, <3>3 DEF Exists
        <5>2. \A e \in DocIds : ~Restatus(e)
          BY <3>1, <3>3, RestatusEffect DEF OthersStay, Exists
        <5>3. \A u \in Users \cup {NoUser}, g \in Nat : ~Created(u, g)
          BY <3>1, <3>3, CreatedEffect, NewRowTyped DEF OthersStay, Exists
        <5>4. \A s \in Slots : ~Replaces(s)
          BY <3>1, <3>3, ReplacesEffect DEF OthersStay, Exists
        <5>5. \A s \in Slots : ~CommitRollback(s)
          BY <3>1, <3>3, RollbackEffect DEF OthersStay, Exists, RollbacksKnow
        <5> QED
          BY <5>1, <5>2, <5>3, <5>4, <5>5, DocsChange
      <4>2. slot[s].op = "delete" /\ d \in slot[s].docs
        BY <3>1, <3>3, <4>1, DeleteEffect DEF Exists
      <4>3. f \notin slot[s].files
        BY <1>2, <4>2 DEF DiscardedAreGone
      <4>4. orphans' = orphans \cup ((UNION {FilesOf(docs[e]) : e \in slot[s].docs}) \ slot[s].files)
        BY <4>1 DEF CommitDelete
      <4> QED
        BY <2>3, <4>2, <4>3, <4>4 DEF Claimed
    <3> QED
      BY <3>2, <3>3
  <2>4. ASSUME NEW s \in Slots, f = slot[s].file
        PROVE  Claimed(f)'
    <3>1. slot[s].op = "upload"
      BY <1>1, <2>4 DEF FilesKnown
    <3>2. CASE slot'[s] = slot[s]
      BY <2>4, <3>2 DEF Claimed
    <3>3. CASE CommitUpload(s)
      <4>1. PICK d \in DocIds : docs'[d].file = f
        <5>1. CASE slot[s].docs = {}
          <6>1. slot[s].who \in Users \cup {NoUser} /\ f \in Nat
            BY <2>4 DEF SlotsTyped, SlotRows
          <6>2. PICK d \in DocIds : docs'[d] = NewRow(slot[s].who, f)
            BY <2>4, <3>3, <5>1 DEF CommitUpload, FreshId, DocsTyped
          <6> QED
            BY <6>1, <6>2, NewRowTyped
        <5>2. CASE slot[s].docs # {}
          BY <2>4, <3>3, <5>2, ReplacesEffect DEF Replaces
        <5> QED
          BY <5>1, <5>2
      <4>2. f \in FilesOf(docs'[d])
        BY <1>1, <4>1, FilesOfRow
      <4> QED
        BY <4>2 DEF Claimed
    <3>4. CASE ConflictUpload(s) \/ CrashBeforeCommit(s)
      BY <2>4, <3>4 DEF ConflictUpload, CrashBeforeCommit, Claimed
    <3> QED
      BY <3>1, <3>2, <3>3, <3>4, UploadEnds
  <2> QED
    BY <2>1, <2>2, <2>3, <2>4 DEF Claimed
<1>3. CASE f \notin disk
  <2>1. f = saved + 1
    BY <1>3, FileSaved
  <2>2. CASE f \in orphans'
    BY <2>2 DEF Claimed
  <2>3. ASSUME NEW s \in Slots, NEW u \in Users, BeginUpload(s, u)
        PROVE  Claimed(f)'
    <3>1. slot'[s] = [Free EXCEPT !.op = "upload", !.who = u, !.docs = LiveOf(u), !.file = saved + 1]
      BY <2>3, SlotSet DEF BeginUpload, Start
    <3> QED
      BY <2>1, <3>1 DEF Free, Claimed
  <2>4. ASSUME NEW u \in Users, NEW queued \in BOOLEAN, StoreRow(u, queued)
        PROVE  Claimed(f)'
    <3>1. PICK d \in FreshId : docs' = [docs EXCEPT ![d] = NewRow(u, saved + 1)]
      BY <2>4 DEF StoreRow
    <3>2. d \in DocIds /\ docs'[d] = NewRow(u, saved + 1)
      BY <3>1 DEF FreshId, DocsTyped
    <3>3. docs'[d].file = f
      BY <1>1, <2>1, <3>2, NewRowTyped
    <3>4. f \in FilesOf(docs'[d])
      BY <1>1, <3>3, FilesOfRow
    <3> QED
      BY <3>2, <3>4 DEF Claimed
  <2> QED
    BY <1>3, <2>1, <2>2, <2>3, <2>4, FileSaved
<1> QED
  BY <1>2, <1>3

\* However requests and tasks overlap and whatever fails, no file is on the disk
\* that neither a document, nor a version, nor an upload in progress claims, save
\* those that a refused row, a process that died after the save, an import whose
\* commit failed, or the deletion of a document with a new version left behind.
THEOREM NoFileIsLeaked == Spec => []NoFileLeaks
<1>1. Init => DocInv /\ DiscardedAreGone /\ NoFileLeaks
  <2>1. Init => DiscardedAreGone /\ NoFileLeaks
    BY DEF Init, DiscardedAreGone, NoFileLeaks, Free
  <2> QED
    BY <2>1, DocInit
<1>2. DocInv /\ DiscardedAreGone /\ NoFileLeaks /\ [Next]_vars
        => (DocInv /\ DiscardedAreGone /\ NoFileLeaks)'
  BY DocStep, DiscardedStayGone, FilesStayClaimed
<1> QED
  BY <1>1, <1>2, PTL DEF Spec

-----------------------------------------------------------------------------
(***************************************************************************)
(* The documents keep a VersionHistory.  Its steps need more of the state: *)
(* numbers are not repeated, and a file on its way into a document is in   *)
(* no other.                                                               *)
(***************************************************************************)
VersionsReal ==
  \A d \in DocIds : Exists(d) =>
    /\ docs[d].file # 0
    /\ \A v \in docs[d].snaps : v.file # 0
    /\ \A v, w \in docs[d].snaps : v.number = w.number => v = w

OneDocumentPerFile ==
  \A d, e \in DocIds : d # e => FilesOf(docs[d]) \cap FilesOf(docs[e]) = {}

UploadsFresh ==
  \A s \in Slots : slot[s].op = "upload" =>
    /\ slot[s].file # 0
    /\ \A d \in DocIds : slot[s].file \notin FilesOf(docs[d])
    /\ \A r \in Slots \ {s} : slot[r].op = "upload" => slot[r].file # slot[s].file

HistInv ==
  DocInv /\ saved <= MaxFiles /\ VersionsReal /\ OneDocumentPerFile /\ UploadsFresh

Fresh(f) == f \in 1..MaxFiles /\ \A d \in DocIds : f \notin FilesOf(docs[d])

\* A step, as the histories see it.
SameRow(d) ==
  /\ docs'[d].version = docs[d].version /\ docs'[d].file = docs[d].file
  /\ docs'[d].snaps = docs[d].snaps /\ (docs'[d].status = "absent" <=> docs[d].status = "absent")

Opened(d, f) ==
  /\ ~Exists(d) /\ docs[d].version = 0
  /\ docs'[d].status # "absent" /\ docs'[d].version = 1
  /\ docs'[d].file = f /\ docs'[d].snaps = {}

\* The current version becomes a snapshot and f the current file.
Extended(d, f) ==
  /\ Exists(d) /\ docs'[d].status # "absent" /\ docs'[d].version = docs[d].version + 1
  /\ docs'[d].file = f
  /\ \E v : /\ docs'[d].snaps = docs[d].snaps \cup {v}
            /\ v.number = docs[d].version /\ v.file = docs[d].file

LEMMA NewFileIsFresh ==
  ASSUME HistInv, [Next]_vars, NEW f, NewFile(f)
  PROVE  Fresh(f)
<1> USE DEF HistInv, DocInv, DocTypeOK
<1>0. saved \in Nat /\ MaxFiles \in Nat
  BY DocumentBounds DEF RestTyped
<1>1. CASE saved' = saved + 1 /\ f = saved + 1
  <2>1. saved < MaxFiles
    BY <1>0, <1>1, FileSaved
  <2>2. \A d \in DocIds : f \notin FilesOf(docs[d])
    BY <1>0, <1>1 DEF FilesKnown
  <2> QED
    BY <1>0, <1>1, <2>1, <2>2 DEF Fresh
<1>2. ASSUME NEW s \in Slots, CommitUpload(s), f = slot[s].file
      PROVE  Fresh(f)
  <2>0. slot[s].op = "upload"
    BY <1>2 DEF CommitUpload
  <2>1. f \in Nat /\ f # 0 /\ f <= saved
    BY <1>2, <2>0 DEF UploadsFresh, FilesKnown, SlotsTyped, SlotRows
  <2> QED
    BY <1>0, <1>2, <2>0, <2>1 DEF Fresh, UploadsFresh
<1> QED
  BY <1>1, <1>2 DEF NewFile

LEMMA HistoryChange ==
  ASSUME HistInv, [Next]_vars
  PROVE  \/ \A d \in DocIds : SameRow(d)
         \/ \E d \in DocIds, f \in 1..MaxFiles :
              NewFile(f) /\ OthersStay(d) /\ (Opened(d, f) \/ Extended(d, f))
         \/ \E d \in DocIds : \E v \in docs[d].snaps : OthersStay(d) /\ Extended(d, v.file)
         \/ \E D \in SUBSET DocIds : \A d \in DocIds :
              IF d \in D THEN /\ docs'[d].status = "absent" /\ docs'[d].snaps = {}
                              /\ docs'[d].version = docs[d].version /\ FilesOf(docs'[d]) = {}
                         ELSE docs'[d] = docs[d]
<1> USE DEF HistInv, DocInv, DocTypeOK
<1>1. CASE docs' = docs
  BY <1>1 DEF SameRow
<1>2. ASSUME NEW d \in DocIds, Restatus(d)
      PROVE  \A e \in DocIds : SameRow(e)
  BY <1>2, RestatusEffect DEF OthersStay, SameRow, Exists
<1>3. ASSUME NEW u \in Users \cup {NoUser}, NEW f \in Nat, Created(u, f), NewFile(f)
      PROVE  f \in 1..MaxFiles /\ \E d \in DocIds : OthersStay(d) /\ Opened(d, f)
  <2>1. PICK d \in DocIds : OthersStay(d) /\ docs[d] = Absent /\ docs'[d] = NewRow(u, f)
    BY <1>3, CreatedEffect
  <2>2. Opened(d, f)
    BY <2>1, NewRowTyped DEF Opened, Exists, Absent
  <2> QED
    BY <1>3, <2>1, <2>2, NewFileIsFresh DEF Fresh
<1>4. ASSUME NEW s \in Slots, Replaces(s)
      PROVE  \E d \in DocIds, f \in 1..MaxFiles : NewFile(f) /\ OthersStay(d) /\ Extended(d, f)
  <2>1. PICK d \in DocIds \cap slot[s].docs :
          /\ OthersStay(d) /\ docs'[d].file = slot[s].file /\ docs'[d].status = "pending"
          /\ docs'[d].version = docs[d].version + 1
          /\ docs'[d].snaps = docs[d].snaps \cup {Snapshot(docs[d])}
    BY <1>4, ReplacesEffect
  <2>2. NewFile(slot[s].file) /\ slot[s].op = "upload"
    BY <1>4 DEF Replaces, CommitUpload, NewFile
  <2>3. Exists(d) /\ docs[d] \in Rows
    BY <2>1, <2>2 DEF UploadsHold, Live, DocsTyped
  <2>4. Extended(d, slot[s].file)
    BY <2>1, <2>3, SnapshotTyped DEF Extended
  <2> QED
    BY <2>1, <2>2, <2>4, NewFileIsFresh DEF Fresh
<1>5. ASSUME NEW s \in Slots, CommitRollback(s)
      PROVE  \E d \in DocIds : \E v \in docs[d].snaps : OthersStay(d) /\ Extended(d, v.file)
  <2>1. PICK d \in DocIds \cap slot[s].docs, v \in slot[s].row.snaps :
          /\ OthersStay(d) /\ Exists(d) /\ NumberFree(d, slot[s].row.version)
          /\ slot[s].row.file = docs[d].file => docs'[d].file = v.file
          /\ docs'[d].version = slot[s].row.version + 1
          /\ docs'[d].snaps = docs[d].snaps \cup {Snapshot(slot[s].row)}
          /\ docs'[d].status \in {v.status, docs[d].status}
    BY <1>5, RollbackEffect
  <2>2. slot[s].op = "rollback"
    BY <1>5, RollbackEffect
  <2>3. /\ slot[s].row.version = docs[d].version /\ slot[s].row.file = docs[d].file
        /\ slot[s].row.snaps = docs[d].snaps
    BY <2>1, <2>2, RollbackIsCurrent
  <2>4. v.status # "absent" /\ slot[s].row \in Rows
    BY <2>1, <2>2 DEF RollbacksKnow, SlotsTyped, SlotRows
  <2>5. Extended(d, v.file)
    BY <2>1, <2>3, <2>4, SnapshotTyped DEF Extended, Exists
  <2> QED
    BY <2>1, <2>3, <2>5
<1>6. ASSUME NEW s \in Slots, CommitDelete(s)
      PROVE  \A d \in DocIds :
               IF d \in DocIds \cap slot[s].docs
               THEN /\ docs'[d].status = "absent" /\ docs'[d].snaps = {}
                    /\ docs'[d].version = docs[d].version /\ FilesOf(docs'[d]) = {}
               ELSE docs'[d] = docs[d]
  BY <1>6, DeleteEffect
<1> QED
  BY <1>1, <1>2, <1>3, <1>4, <1>5, <1>6, DocsChange

\* The files a row gains.
LEMMA FilesGained ==
  ASSUME HistInv, NEW d \in DocIds, NEW f
  PROVE  /\ SameRow(d) => FilesOf(docs'[d]) = FilesOf(docs[d])
         /\ Opened(d, f) => FilesOf(docs'[d]) \subseteq {f}
         /\ Extended(d, f) => FilesOf(docs'[d]) \subseteq FilesOf(docs[d]) \cup {f}
<1>1. Extended(d, f) => FilesOf(docs'[d]) \subseteq FilesOf(docs[d]) \cup {f}
  <2> SUFFICES ASSUME Extended(d, f)
               PROVE  FilesOf(docs'[d]) \subseteq FilesOf(docs[d]) \cup {f}
    OBVIOUS
  <2>1. PICK v : docs'[d].snaps = docs[d].snaps \cup {v} /\ v.file = docs[d].file
    BY DEF Extended
  <2>2. FilesOf(docs'[d]) \subseteq FilesOf(docs[d]) \cup {f, docs[d].file}
    BY <2>1, FilesAdded DEF Extended
  <2> QED
    BY <2>2, FilesOfRow
<1> QED
  BY <1>1 DEF SameRow, Opened, FilesOf

LEMMA VersionsStayReal ==
  ASSUME HistInv, [Next]_vars
  PROVE  VersionsReal'
<1> USE DEF HistInv, DocInv, DocTypeOK
<1> DEFINE Good(d) == docs'[d].status # "absent" =>
                        /\ docs'[d].file # 0
                        /\ \A v \in docs'[d].snaps : v.file # 0
                        /\ \A v, w \in docs'[d].snaps : v.number = w.number => v = w
<1>1. ASSUME NEW d \in DocIds, SameRow(d)
      PROVE  Good(d)
  BY <1>1 DEF SameRow, VersionsReal, Exists
<1>2. ASSUME NEW d \in DocIds, docs'[d] = docs[d]
      PROVE  Good(d)
  BY <1>2 DEF VersionsReal, Exists
<1>3. ASSUME NEW d \in DocIds, NEW f, f # 0, Extended(d, f)
      PROVE  Good(d)
  <2>1. PICK v : /\ docs'[d].snaps = docs[d].snaps \cup {v}
                 /\ v.number = docs[d].version /\ v.file = docs[d].file
    BY <1>3 DEF Extended
  <2>2. Exists(d) /\ docs'[d].file # 0 /\ docs[d].version \in Nat
    BY <1>3 DEF Extended, DocsTyped, Rows
  <2>3. \A w \in docs[d].snaps : w.number # docs[d].version
    BY <2>2 DEF HistoryIsComplete
  <2>4. v.file # 0
    BY <2>1, <2>2 DEF VersionsReal
  <2>5. \A x, y \in docs'[d].snaps : x.number = y.number => x = y
    BY <2>1, <2>2, <2>3 DEF VersionsReal
  <2> QED
    BY <2>1, <2>2, <2>4, <2>5 DEF VersionsReal
<1>4. ASSUME NEW d \in DocIds, NEW f \in 1..MaxFiles, Opened(d, f)
      PROVE  Good(d)
  BY <1>4, DocumentBounds DEF Opened
<1>5. ASSUME NEW d \in DocIds, NEW v \in docs[d].snaps, Extended(d, v.file)
      PROVE  v.file # 0
  BY <1>5 DEF Extended, VersionsReal
<1>6. \A f \in 1..MaxFiles : f # 0
  BY DocumentBounds
<1>7. \A d \in DocIds : Good(d)
  BY <1>1, <1>2, <1>3, <1>4, <1>5, <1>6, HistoryChange DEF OthersStay
<1> QED
  BY <1>7 DEF VersionsReal, Exists

LEMMA FilesStayApart ==
  ASSUME HistInv, [Next]_vars
  PROVE  OneDocumentPerFile'
<1> USE DEF HistInv
<1>1. CASE \A d \in DocIds : SameRow(d)
  BY <1>1, FilesGained DEF OneDocumentPerFile
<1>2. ASSUME NEW d \in DocIds, NEW f, OthersStay(d), Opened(d, f) \/ Extended(d, f),
             f \in FilesOf(docs[d]) \cup {0} \/ \A e \in DocIds : f \notin FilesOf(docs[e])
      PROVE  OneDocumentPerFile'
  <2>1. FilesOf(docs'[d]) \subseteq FilesOf(docs[d]) \cup {f}
    BY <1>2, FilesGained
  <2>2. 0 \notin FilesOf(docs'[d])
    BY FilesOfRow
  <2>3. \A e \in DocIds \ {d} : FilesOf(docs'[d]) \cap FilesOf(docs'[e]) = {}
    BY <1>2, <2>1, <2>2 DEF OthersStay, OneDocumentPerFile
  <2> QED
    BY <1>2, <2>3 DEF OthersStay, OneDocumentPerFile
<1>3. ASSUME NEW d \in DocIds, NEW v \in docs[d].snaps
      PROVE  v.file \in FilesOf(docs[d]) \cup {0}
  BY FilesOfRow
<1>4. ASSUME NEW D \in SUBSET DocIds,
             \A d \in DocIds : IF d \in D THEN FilesOf(docs'[d]) = {} ELSE docs'[d] = docs[d]
      PROVE  OneDocumentPerFile'
  BY <1>4 DEF OneDocumentPerFile
<1>5. ASSUME NEW f, NewFile(f)
      PROVE  \A e \in DocIds : f \notin FilesOf(docs[e])
  BY <1>5, NewFileIsFresh DEF Fresh
<1> QED
  BY <1>1, <1>2, <1>3, <1>4, <1>5, HistoryChange

LEMMA UploadsStayFresh ==
  ASSUME HistInv, [Next]_vars
  PROVE  UploadsFresh'
<1> USE DEF HistInv, DocInv, DocTypeOK
<1>0. saved \in Nat
  BY DEF RestTyped
<1> SUFFICES ASSUME NEW s \in Slots, slot'[s].op = "upload"
             PROVE  /\ slot'[s].file # 0
                    /\ \A d \in DocIds : slot'[s].file \notin FilesOf(docs'[d])
                    /\ \A r \in Slots \ {s} : slot'[r].op = "upload" => slot'[r].file # slot'[s].file
  BY DEF UploadsFresh
<1>1. ASSUME NEW r \in Slots
      PROVE  slot[r].file \in Nat /\ slot[r].file <= saved
  BY DEF FilesKnown, SlotsTyped, SlotRows
<1>2. CASE slot'[s] = slot[s]
  <2> DEFINE f == slot[s].file
  <2>1. f # 0 /\ f # saved + 1 /\ \A d \in DocIds : f \notin FilesOf(docs[d])
    BY <1>0, <1>1, <1>2 DEF UploadsFresh
  <2>2. ASSUME NEW g, NewFile(g)
        PROVE  g # f
    <3>1. ASSUME NEW r \in Slots, CommitUpload(r)
          PROVE  slot[r].file # f
      <4>1. slot'[r].op = "dispatch" /\ slot[r].op = "upload"
        <5>1. PICK d : Start(r, [Free EXCEPT !.op = "dispatch", !.docs = {d}])
          BY <3>1 DEF CommitUpload
        <5>2. slot'[r] = [Free EXCEPT !.op = "dispatch", !.docs = {d}]
          BY <5>1, SlotSet DEF Start
        <5> QED
          BY <3>1, <5>2 DEF CommitUpload, Free
      <4> QED
        BY <1>2, <4>1 DEF UploadsFresh
    <3> QED
      BY <2>1, <2>2, <3>1 DEF NewFile
  <2>3. ASSUME NEW d \in DocIds
        PROVE  f \notin FilesOf(docs'[d])
    <3>1. ASSUME NEW g, g # f, Opened(d, g) \/ Extended(d, g)
          PROVE  f \notin FilesOf(docs'[d])
      BY <2>1, <3>1, FilesGained
    <3>2. ASSUME NEW v \in docs[d].snaps
          PROVE  v.file # f
      BY <2>1, FilesOfRow
    <3>3. SameRow(d) \/ docs'[d] = docs[d] \/ FilesOf(docs'[d]) = {} => f \notin FilesOf(docs'[d])
      BY <2>1, FilesGained
    <3> QED
      BY <2>2, <3>1, <3>2, <3>3, HistoryChange DEF OthersStay
  <2>4. ASSUME NEW r \in Slots \ {s}, slot'[r].op = "upload"
        PROVE  slot'[r].file # f
    BY <1>2, <2>1, <2>4, SlotAfter DEF UploadsFresh, Free
  <2> QED
    BY <1>2, <2>1, <2>3, <2>4
<1>3. ASSUME NEW u \in Users, BeginUpload(s, u)
      PROVE  /\ slot'[s].file # 0
             /\ \A d \in DocIds : slot'[s].file \notin FilesOf(docs'[d])
             /\ \A r \in Slots \ {s} : slot'[r].op = "upload" => slot'[r].file # slot'[s].file
  <2>1. /\ slot'[s] = [Free EXCEPT !.op = "upload", !.who = u, !.docs = LiveOf(u), !.file = saved + 1]
        /\ \A r \in Slots \ {s} : slot'[r] = slot[r]
    BY <1>3, SlotSet DEF BeginUpload, Start
  <2>2. slot'[s].file = saved + 1 /\ docs' = docs
    BY <1>3, <2>1 DEF Free, BeginUpload
  <2> QED
    BY <1>0, <1>1, <2>1, <2>2 DEF FilesKnown
<1>4. slot'[s] = slot[s] \/ \E u \in Users : BeginUpload(s, u)
  <2>1. ASSUME NEW u \in Users, NEW d \in DocIds, NEW n \in 1..MaxVersion, BeginRollback(s, u, d, n)
        PROVE  slot'[s].op = "rollback"
    <3>1. slot'[s] = [Free EXCEPT !.op = "rollback", !.docs = {d}, !.row = docs[d], !.to = n]
      BY <2>1, SlotSet DEF BeginRollback, Start
    <3> QED
      BY <3>1 DEF Free
  <2>2. ASSUME NEW u \in Users, NEW D \in SUBSET DocIds, BeginDelete(s, u, D)
        PROVE  slot'[s].op = "delete"
    <3>1. slot'[s] = [Free EXCEPT !.op = "delete", !.docs = D,
                                  !.files = UNION {FilesOf(docs[d]) : d \in D}]
      BY <2>2, SlotSet DEF BeginDelete, Start
    <3> QED
      BY <3>1 DEF Free
  <2>3. ASSUME CommitUpload(s)
        PROVE  slot'[s].op = "dispatch"
    <3>1. PICK d : Start(s, [Free EXCEPT !.op = "dispatch", !.docs = {d}])
      BY <2>3 DEF CommitUpload
    <3>2. slot'[s] = [Free EXCEPT !.op = "dispatch", !.docs = {d}]
      BY <3>1, SlotSet DEF Start
    <3> QED
      BY <3>2 DEF Free
  <2> QED
    BY <2>1, <2>2, <2>3, SlotsChange DEF Free
<1> QED
  BY <1>2, <1>3, <1>4

LEMMA HistStep == HistInv /\ [Next]_vars => HistInv'
<1> SUFFICES ASSUME HistInv, [Next]_vars PROVE HistInv'
  OBVIOUS
<1>1. saved' <= MaxFiles
  BY FileSaved, DocumentBounds DEF HistInv, DocInv, DocTypeOK, RestTyped
<1> QED
  BY <1>1, DocStep, VersionsStayReal, FilesStayApart, UploadsStayFresh DEF HistInv

\* The inductive invariant behind the histories holds.
THEOREM HistoryInvariance == Spec => []HistInv
<1>1. Init => HistInv
  <2> SUFFICES ASSUME Init PROVE HistInv
    OBVIOUS
  <2>1. \A d \in DocIds : ~Exists(d) /\ FilesOf(docs[d]) = {}
    BY DEF Init, Exists, Absent, FilesOf
  <2>2. saved <= MaxFiles
    BY DocumentBounds DEF Init
  <2>3. VersionsReal /\ OneDocumentPerFile
    BY <2>1 DEF VersionsReal, OneDocumentPerFile
  <2>4. UploadsFresh
    BY DEF Init, UploadsFresh, Free
  <2> QED
    BY <2>2, <2>3, <2>4, DocInit DEF HistInv
<1> QED
  BY <1>1, HistStep, PTL DEF Spec

\* No file is a version of two documents.
THEOREM FilesAreNotShared == Spec => []OneDocumentPerFile
<1>1. HistInv => OneDocumentPerFile
  BY DEF HistInv
<1> QED
  BY <1>1, HistoryInvariance, PTL

-----------------------------------------------------------------------------
\* The histories themselves.
LEMMA SnapshotFile ==
  ASSUME NEW row, NEW w \in row.snaps, w.number # row.version,
         \A v \in row.snaps : v.number = w.number => v = w
  PROVE  FileOfVersion(row, w.number) = w.file
<1>1. (CHOOSE v \in row.snaps : v.number = w.number) = w
  OBVIOUS
<1> QED
  BY <1>1 DEF FileOfVersion

\* Row d as a sequence of files.
LEMMA VersionsTyped ==
  ASSUME HistInv, NEW d \in DocIds
  PROVE  /\ ~Exists(d) => VersionsOf(docs[d]) = << >>
         /\ Exists(d) => /\ docs[d].version \in Nat \ {0}
                         /\ VersionsOf(docs[d]) \in Seq(Nat)
                         /\ Len(VersionsOf(docs[d])) = docs[d].version
                         /\ VersionsOf(docs[d])[docs[d].version] = docs[d].file
                         /\ \A v \in docs[d].snaps : VersionsOf(docs[d])[v.number] = v.file
                         /\ \A n \in 1..docs[d].version :
                              VersionsOf(docs[d])[n] \in FilesOf(docs[d])
<1> USE DEF HistInv, DocInv, DocTypeOK
<1> SUFFICES ASSUME Exists(d)
             PROVE  /\ docs[d].version \in Nat \ {0}
                    /\ VersionsOf(docs[d]) \in Seq(Nat)
                    /\ Len(VersionsOf(docs[d])) = docs[d].version
                    /\ VersionsOf(docs[d])[docs[d].version] = docs[d].file
                    /\ \A v \in docs[d].snaps : VersionsOf(docs[d])[v.number] = v.file
                    /\ \A n \in 1..docs[d].version :
                         VersionsOf(docs[d])[n] \in FilesOf(docs[d])
  BY DEF VersionsOf, Exists
<1> DEFINE k == docs[d].version
           row == docs[d]
<1>1. k \in Nat \ {0} /\ row \in Rows /\ row.file \in Nat
  BY DEF Numbered, DocsTyped, Rows
<1>2. VersionsOf(row) = [n \in 1..k |-> FileOfVersion(row, n)]
  BY DEF VersionsOf, Exists
<1>3. FileOfVersion(row, k) = row.file
  BY DEF FileOfVersion
<1>4. ASSUME NEW v \in row.snaps
      PROVE  v.number \in 1..(k - 1) /\ FileOfVersion(row, v.number) = v.file
  <2>1. v.number \in 1..(k - 1)
    BY DEF HistoryIsComplete
  <2>2. v.number # k
    BY <1>1, <2>1
  <2>3. \A w \in row.snaps : w.number = v.number => w = v
    BY DEF VersionsReal
  <2> QED
    BY <2>1, <2>2, <2>3, SnapshotFile
<1>5. ASSUME NEW n \in 1..k
      PROVE  FileOfVersion(row, n) \in FilesOf(row) /\ FileOfVersion(row, n) \in Nat
  <2>1. CASE n = k
    BY <1>1, <1>3, <2>1, FilesOfRow DEF VersionsReal
  <2>2. CASE n # k
    <3>1. n \in 1..(k - 1)
      BY <1>1, <2>2
    <3>2. PICK v \in row.snaps : v.number = n
      BY <3>1 DEF HistoryIsComplete
    <3>3. v.file # 0 /\ v.file \in Nat
      BY <1>1 DEF VersionsReal, Rows, Entries
    <3> QED
      BY <1>4, <3>2, <3>3, FilesOfRow
  <2> QED
    BY <2>1, <2>2
<1> HIDE DEF k, row
<1>6. VersionsOf(row) \in [1..k -> Nat]
  BY <1>2, <1>5
<1>7. VersionsOf(row) \in Seq(Nat) /\ Len(VersionsOf(row)) = k
  BY <1>1, <1>6
<1>8. \A n \in 1..k : VersionsOf(row)[n] = FileOfVersion(row, n)
  BY <1>2
<1>9. \A v \in row.snaps : VersionsOf(row)[v.number] = v.file
  BY <1>1, <1>4, <1>8
<1> QED
  BY <1>1, <1>3, <1>5, <1>7, <1>8, <1>9 DEF k, row

\* What VersionsTyped says of a row, of them all.
VersionsRight ==
  \A d \in DocIds :
    /\ ~Exists(d) => VersionsOf(docs[d]) = << >>
    /\ Exists(d) => /\ docs[d].version \in Nat \ {0}
                    /\ VersionsOf(docs[d]) \in Seq(Nat)
                    /\ Len(VersionsOf(docs[d])) = docs[d].version
                    /\ VersionsOf(docs[d])[docs[d].version] = docs[d].file
                    /\ \A v \in docs[d].snaps : VersionsOf(docs[d])[v.number] = v.file
                    /\ \A n \in 1..docs[d].version :
                         VersionsOf(docs[d])[n] \in FilesOf(docs[d])

LEMMA VersionsAreRight == HistInv => VersionsRight
  BY VersionsTyped DEF VersionsRight

LEMMA VersionsStayRight == HistInv /\ [Next]_vars => VersionsRight'
  BY HistStep, VersionsAreRight, PTL

\* A version that is added comes last, after those there were.
LEMMA ExtendedHistory ==
  ASSUME HistInv, [Next]_vars, NEW d \in DocIds, NEW f, Extended(d, f)
  PROVE  /\ VersionsOf(docs[d]) \in Seq(Nat) /\ VersionsOf(docs[d]) # << >>
         /\ VersionsOf(docs'[d]) = Append(VersionsOf(docs[d]), f)
<1> DEFINE k == docs[d].version
           old == VersionsOf(docs[d])
           new == VersionsOf(docs'[d])
<1>1. /\ k \in Nat \ {0} /\ old \in Seq(Nat) /\ Len(old) = k /\ old[k] = docs[d].file
      /\ \A v \in docs[d].snaps : old[v.number] = v.file
  BY VersionsAreRight DEF VersionsRight, Extended
<1>2. PICK v : /\ docs'[d].snaps = docs[d].snaps \cup {v}
               /\ v.number = k /\ v.file = docs[d].file
  BY DEF Extended
<1>3. docs'[d].version = k + 1 /\ docs'[d].file = f /\ docs'[d].status # "absent"
  BY DEF Extended
<1>4. /\ docs'[d].version \in Nat \ {0} /\ new \in Seq(Nat) /\ Len(new) = docs'[d].version
      /\ new[docs'[d].version] = docs'[d].file
      /\ \A w \in docs'[d].snaps : new[w.number] = w.file
  BY <1>3, VersionsStayRight DEF VersionsRight, Exists
<1>5. {w.number : w \in docs[d].snaps} = 1..(k - 1)
  BY DEF HistInv, DocInv, HistoryIsComplete, Extended
<1> HIDE DEF k, old, new
<1>6. old \in Seq(Nat) /\ new \in Seq(Nat) /\ Len(old) = k /\ Len(new) = k + 1 /\ new[k + 1] = f
  BY <1>1, <1>3, <1>4
<1>7. f \in Nat
  BY <1>1, <1>6, LenProperties
<1>8. ASSUME NEW n \in 1..k
      PROVE  new[n] = old[n]
  <2>1. CASE n = k
    BY <1>1, <1>2, <1>4, <2>1
  <2>2. CASE n # k
    <3>1. n \in 1..(k - 1)
      BY <1>1, <2>2
    <3>2. PICK w \in docs[d].snaps : w.number = n
      BY <1>5, <3>1
    <3>3. w \in docs'[d].snaps
      BY <1>2
    <3> QED
      BY <1>1, <1>4, <3>2, <3>3
  <2> QED
    BY <2>1, <2>2
<1>9. new = Append(old, f)
  <2>1. /\ Append(old, f) \in Seq(Nat) /\ Len(Append(old, f)) = k + 1
        /\ Append(old, f)[k + 1] = f /\ \A i \in 1..k : Append(old, f)[i] = old[i]
    BY <1>6, <1>7, AppendProperties
  <2>2. \A i \in 1..(k + 1) : new[i] = Append(old, f)[i]
    <3> TAKE i \in 1..(k + 1)
    <3>1. i = k + 1 \/ i \in 1..k
      BY <1>1
    <3> QED
      BY <1>6, <1>8, <2>1, <3>1
  <2> QED
    BY <1>6, <2>1, <2>2, SeqEqual
<1>10. old # << >>
  BY <1>1
<1> QED
  BY <1>6, <1>9, <1>10 DEF old, new

LEMMA OpenedHistory ==
  ASSUME HistInv, [Next]_vars, NEW d \in DocIds, NEW f, Opened(d, f)
  PROVE  VersionsOf(docs[d]) = << >> /\ VersionsOf(docs'[d]) = << f >>
<1>1. VersionsOf(docs[d]) = << >>
  BY VersionsAreRight DEF VersionsRight, Opened
<1>2. VersionsOf(docs'[d]) = [n \in 1..1 |-> FileOfVersion(docs'[d], n)]
  BY DEF VersionsOf, Opened
<1>3. \A n \in 1..1 : FileOfVersion(docs'[d], n) = f
  BY DEF FileOfVersion, Opened
<1> QED
  BY <1>1, <1>2, <1>3

LEMMA SameHistory ==
  ASSUME NEW d \in DocIds, SameRow(d)
  PROVE  VersionsOf(docs'[d]) = VersionsOf(docs[d])
  BY DEF SameRow, VersionsOf, FileOfVersion

\* What Versions puts for history and used.
HistoryOf == [d \in DocIds |-> VersionsOf(docs[d])]
UsedIds   == {d \in DocIds : docs[d].version # 0}

LEMMA FreshIsNotHeld ==
  ASSUME HistInv, NEW f, Fresh(f)
  PROVE  f \in (1..MaxFiles) \ Versions!Held
<1>1. ASSUME NEW d \in DocIds, NEW n \in DOMAIN VersionsOf(docs[d])
      PROVE  VersionsOf(docs[d])[n] # f
  <2>1. CASE ~Exists(d)
    BY <1>1, <2>1, VersionsAreRight DEF VersionsRight
  <2>2. CASE Exists(d)
    <3>1. n \in 1..docs[d].version
      BY <1>1, <2>2, VersionsAreRight, LenProperties DEF VersionsRight
    <3>2. VersionsOf(docs[d])[n] \in FilesOf(docs[d])
      BY <2>2, <3>1, VersionsAreRight DEF VersionsRight
    <3> QED
      BY <3>2 DEF Fresh
  <2> QED
    BY <2>1, <2>2
<1>2. f \notin Versions!Held
  BY <1>1 DEF Versions!Held
<1> QED
  BY <1>2 DEF Fresh

\* A document's history grows and the others stay.
LEMMA OneHistoryChanges ==
  ASSUME NEW d \in DocIds, OthersStay(d), NEW h, VersionsOf(docs'[d]) = h
  PROVE  HistoryOf' = [HistoryOf EXCEPT ![d] = h]
  BY DEF OthersStay, HistoryOf

LEMMA UsedStays ==
  ASSUME HistInv, NEW d \in DocIds, OthersStay(d), NEW f, Extended(d, f)
  PROVE  UsedIds' = UsedIds
<1>1. docs[d].version \in Nat \ {0} /\ docs'[d].version = docs[d].version + 1
  BY VersionsAreRight DEF VersionsRight, Extended
<1>2. docs'[d].version # 0 /\ docs[d].version # 0
  BY <1>1
<1> QED
  BY <1>2 DEF OthersStay, UsedIds

LEMMA AppendChanges ==
  ASSUME NEW s \in Seq(Nat), NEW f \in Nat
  PROVE  Append(s, f) # s
<1>1. Len(s) \in Nat /\ Len(Append(s, f)) = Len(s) + 1
  BY AppendProperties, LenProperties
<1> QED
  BY <1>1

LEMMA OpenIsOpen ==
  ASSUME HistInv, [Next]_vars, NEW d \in DocIds, NEW f \in 1..MaxFiles,
         NewFile(f), OthersStay(d), Opened(d, f)
  PROVE  Versions!HistoryNext
<1>1. HistoryOf' = [HistoryOf EXCEPT ![d] = << f >>]
  BY OpenedHistory, OneHistoryChanges
<1>2. HistoryOf[d] = << >> /\ HistoryOf'[d] = << f >>
  BY OpenedHistory DEF HistoryOf
<1>3. HistoryOf' # HistoryOf
  BY <1>2
<1>4. d \notin UsedIds /\ UsedIds' = UsedIds \cup {d}
  BY DEF UsedIds, Opened, OthersStay
<1>5. Versions!Open(d, f)
  BY <1>1, <1>4 DEF Versions!Open, HistoryOf, UsedIds
<1>6. f \in (1..MaxFiles) \ Versions!Held
  BY NewFileIsFresh, FreshIsNotHeld
<1> QED
  BY <1>3, <1>5, <1>6 DEF Versions!HistoryNext, HistoryOf

\* What every new version does to the histories.
LEMMA ExtendedView ==
  ASSUME HistInv, [Next]_vars, NEW d \in DocIds, NEW f \in Nat,
         OthersStay(d), Extended(d, f)
  PROVE  /\ HistoryOf' = [HistoryOf EXCEPT ![d] = Append(HistoryOf[d], f)]
         /\ HistoryOf[d] # << >> /\ HistoryOf' # HistoryOf /\ UsedIds' = UsedIds
<1>1. VersionsOf(docs[d]) = HistoryOf[d] /\ VersionsOf(docs'[d]) = HistoryOf'[d]
  BY DEF HistoryOf
<1>2. /\ HistoryOf[d] \in Seq(Nat) /\ HistoryOf[d] # << >>
      /\ HistoryOf'[d] = Append(HistoryOf[d], f)
  BY <1>1, ExtendedHistory
<1>3. HistoryOf' # HistoryOf
  BY <1>2, AppendChanges
<1> QED
  BY <1>1, <1>2, <1>3, OneHistoryChanges, UsedStays

LEMMA UploadIsExtend ==
  ASSUME HistInv, [Next]_vars, NEW d \in DocIds, NEW f \in 1..MaxFiles,
         NewFile(f), OthersStay(d), Extended(d, f)
  PROVE  Versions!HistoryNext
<1>1. f \in Nat
  BY DocumentBounds
<1>2. Versions!Extend(d, f)
  BY <1>1, ExtendedView DEF Versions!Extend, HistoryOf, UsedIds
<1>3. f \in (1..MaxFiles) \ Versions!Held
  BY NewFileIsFresh, FreshIsNotHeld
<1>4. HistoryOf' # HistoryOf
  BY <1>1, ExtendedView
<1> QED
  BY <1>2, <1>3, <1>4 DEF Versions!HistoryNext, HistoryOf

LEMMA RollbackIsRestore ==
  ASSUME HistInv, [Next]_vars, NEW d \in DocIds, NEW v \in docs[d].snaps,
         OthersStay(d), Extended(d, v.file)
  PROVE  Versions!HistoryNext
<1> DEFINE n == v.number
<1>0. Exists(d)
  BY DEF Extended
<1>1. n \in 1..(docs[d].version - 1)
  BY <1>0 DEF HistInv, DocInv, HistoryIsComplete
<1>2. /\ HistoryOf[d] \in Seq(Nat) /\ Len(HistoryOf[d]) = docs[d].version
      /\ HistoryOf[d][n] = v.file /\ docs[d].version \in Nat
  BY <1>0, VersionsAreRight DEF VersionsRight, HistoryOf
<1> HIDE DEF n
<1>3. n \in 1..Len(HistoryOf[d]) /\ n \in 1..(Len(HistoryOf[d]) - 1)
  BY <1>1, <1>2
<1>4. v.file \in Nat
  BY <1>2, <1>3, LenProperties
<1>5. /\ HistoryOf' = [HistoryOf EXCEPT ![d] = Append(HistoryOf[d], HistoryOf[d][n])]
      /\ HistoryOf' # HistoryOf /\ UsedIds' = UsedIds
  BY <1>2, <1>4, ExtendedView
<1>6. Versions!Restore(d, n)
  BY <1>3, <1>5 DEF Versions!Restore, HistoryOf, UsedIds
<1> QED
  BY <1>3, <1>5, <1>6 DEF Versions!HistoryNext, HistoryOf

LEMMA DeleteIsDrop ==
  ASSUME NEW D \in SUBSET DocIds,
         \A d \in DocIds :
           IF d \in D THEN docs'[d].status = "absent" /\ docs'[d].version = docs[d].version
                      ELSE docs'[d] = docs[d]
  PROVE  Versions!HistoryNext \/ (HistoryOf' = HistoryOf /\ UsedIds' = UsedIds)
<1>1. HistoryOf' = [d \in DocIds |-> IF d \in D THEN << >> ELSE HistoryOf[d]]
  BY DEF HistoryOf, VersionsOf
<1>2. UsedIds' = UsedIds
  BY DEF UsedIds
<1>3. Versions!Drop(D)
  BY <1>1, <1>2 DEF Versions!Drop, HistoryOf, UsedIds
<1> QED
  BY <1>2, <1>3 DEF Versions!HistoryNext, HistoryOf

LEMMA HistoryStep ==
  ASSUME HistInv, [Next]_vars
  PROVE  Versions!HistoryNext \/ (HistoryOf' = HistoryOf /\ UsedIds' = UsedIds)
<1>1. CASE \A d \in DocIds : SameRow(d)
  <2>1. HistoryOf' = HistoryOf
    BY <1>1, SameHistory DEF HistoryOf
  <2>2. UsedIds' = UsedIds
    BY <1>1 DEF SameRow, UsedIds
  <2> QED
    BY <2>1, <2>2
<1> QED
  BY <1>1, HistoryChange, OpenIsOpen, UploadIsExtend, RollbackIsRestore, DeleteIsDrop

\* Uploads, rollbacks and deletions of any number of users, however they
\* overlap and whatever fails, are the steps of a VersionHistory.
THEOREM DocumentsKeepHistory == Spec => KeepsHistory
<1>1. Init => Versions!HistoryInit
  <2> SUFFICES ASSUME Init PROVE Versions!HistoryInit
    OBVIOUS
  <2>1. \A d \in DocIds : VersionsOf(docs[d]) = << >> /\ docs[d].version = 0
    BY DEF Init, Absent, VersionsOf
  <2> QED
    BY <2>1 DEF Versions!HistoryInit
<1>2. HistInv /\ [Next]_vars => [Versions!HistoryNext]_(Versions!historyVars)
  <2> SUFFICES ASSUME HistInv, [Next]_vars
               PROVE  Versions!HistoryNext \/ UNCHANGED Versions!historyVars
    OBVIOUS
  <2>1. HistoryOf' = HistoryOf /\ UsedIds' = UsedIds => UNCHANGED Versions!historyVars
    BY DEF Versions!historyVars, HistoryOf, UsedIds
  <2> QED
    BY <2>1, HistoryStep
<1> QED
  BY <1>1, <1>2, HistoryInvariance, PTL DEF Spec, KeepsHistory, Versions!HistorySpec
=============================================================================
