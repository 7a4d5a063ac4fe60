------------------------- MODULE NoticeReviewProofs -------------------------
(***************************************************************************)
(* What holds of every run of NoticeReview: for any workers, requests,     *)
(* authorities and envelopes, however the operations overlap and whatever  *)
(* fails.  Each property says that a late writer was overtaken: the        *)
(* inductive invariant is that a writer whose copy of the notice is stale  *)
(* knows it.                                                               *)
(***************************************************************************)
EXTENDS NoticeReview, TLAPS

Ops     == {"free", "upload", "extract", "apply", "accept", "review", "classify"}
Events  == {"accepted", "edited", "reviewed"}
Demands == {"none", "read", "human"}
Kinds   == {"none", "regex", "model", "preview", "doubt"}
SlotRow == [op : Ops, ext : Statuses \cup {"expired"}, demand : Demands, by : Kinds,
            authority : Authorities \cup {"none"}, type : Authorities \cup {"none"},
            overtaken : SUBSET Events]
NoticeRow == [ext : Statuses, env : {"none", "some"}, demand : Demands,
              authority : Authorities, type : Authorities \cup {"none"}]

LEMMA TypeParts ==
  ReviewTypeOK <=> /\ notice \in NoticeRow
                   /\ row \in {"absent", "pending", "reviewed"}
                   /\ key \in {"none", "some"}
                   /\ slot \in [Slots -> SlotRow]
                   /\ documents \in Nat /\ unread \in BOOLEAN /\ faults \in 0..MaxFaults
  BY DEF ReviewTypeOK, NoticeRow, SlotRow, Ops, Events, Demands, Kinds

\* An extraction on the way to an accepted notice, one that took a value a
\* person has entered since for empty, and a scoring that doubts what has been
\* reviewed have been told.
Knows(t, n, r) ==
  /\ (t.op \in {"upload", "extract", "apply"} /\ n.ext = "accepted")
       => "accepted" \in t.overtaken
  /\ (t.op \in {"upload", "apply"} /\ t.demand = "none" /\ n.demand = "human")
       => {"edited", "accepted"} \cap t.overtaken # {}
  /\ (t.op = "classify" /\ t.by = "doubt" /\ r = "reviewed"
      /\ n.type # "none" /\ n.authority \in Identified)
       => t.overtaken # {}

StaleKnow == \A s \in Slots : Knows(slot[s], notice, row)

ReviewInv == ReviewTypeOK /\ StaleKnow

LEMMA MindsWhat ==
  /\ Minds("free") = {} /\ Minds("accept") = {} /\ Minds("review") = {}
  /\ Minds("upload") = {"accepted", "edited"} /\ Minds("apply") = {"accepted", "edited"}
  /\ Minds("extract") = {"accepted"} /\ Minds("classify") = {"reviewed", "edited"}
  BY DEF Minds

LEMMA FreeTyped == Free \in SlotRow /\ Free.op = "free" /\ Free.overtaken = {}
  BY DEF Free, SlotRow, Ops, Events, Demands, Kinds, Statuses

LEMMA ToldWhat ==
  ASSUME NEW t \in SlotRow, NEW events \in SUBSET Events
  PROVE  /\ Told(t, events) \in SlotRow
         /\ Told(t, events).op = t.op /\ Told(t, events).demand = t.demand
         /\ Told(t, events).by = t.by
         /\ Told(t, events).overtaken = t.overtaken \cup (events \cap Minds(t.op))
<1>1. PICK told \in SUBSET Events : told = events \cap Minds(t.op)
  OBVIOUS
<1>2. [t EXCEPT !.overtaken = @ \cup told] \in SlotRow
  BY DEF SlotRow
<1> QED
  BY <1>1, <1>2 DEF SlotRow, Told

\* What a writer knew and what it is told cover what changes.
LEMMA ToldKnows ==
  ASSUME NEW t \in SlotRow, NEW n, NEW r, NEW n2, NEW r2, NEW events \in SUBSET Events,
         Knows(t, n, r),
         n2.ext = "accepted" /\ n.ext # "accepted" => "accepted" \in events,
         n2.demand = "human" /\ n.demand # "human" => {"edited", "accepted"} \cap events # {},
         r2 = "reviewed" /\ r # "reviewed" => "reviewed" \in events,
         n2.type # n.type \/ n2.authority # n.authority => {"edited", "reviewed"} \cap events # {}
  PROVE  Knows(Told(t, events), n2, r2)
<1>1. PICK u : u = Told(t, events)
  OBVIOUS
<1>2. /\ u.op = t.op /\ u.demand = t.demand /\ u.by = t.by
      /\ u.overtaken = t.overtaken \cup (events \cap Minds(t.op))
  BY <1>1, ToldWhat
<1>3. ASSUME u.op \in {"upload", "extract", "apply"}, n2.ext = "accepted"
      PROVE  "accepted" \in u.overtaken
  BY <1>2, <1>3, MindsWhat DEF Knows
<1>4. ASSUME u.op \in {"upload", "apply"}, u.demand = "none", n2.demand = "human"
      PROVE  {"edited", "accepted"} \cap u.overtaken # {}
  BY <1>2, <1>4, MindsWhat DEF Knows
<1>5. ASSUME u.op = "classify", u.by = "doubt", r2 = "reviewed", n2.type # "none",
             n2.authority \in Identified
      PROVE  u.overtaken # {}
  BY <1>2, <1>5, MindsWhat DEF Knows
<1>6. Knows(u, n2, r2)
  BY <1>3, <1>4, <1>5, Zenon DEF Knows
<1> QED
  BY <1>1, <1>6

\* A step of the slot s.
LEMMA SlotStep ==
  ASSUME ReviewInv, NEW s \in Slots, NEW rec \in SlotRow, NEW events \in SUBSET Events,
         Becomes(s, rec, events), notice' \in NoticeRow, row' \in {"absent", "pending", "reviewed"},
         Knows(rec, notice', row'),
         notice'.ext = "accepted" /\ notice.ext # "accepted" => "accepted" \in events,
         notice'.demand = "human" /\ notice.demand # "human" => {"edited", "accepted"} \cap events # {},
         row' = "reviewed" /\ row # "reviewed" => "reviewed" \in events,
         notice'.type # notice.type \/ notice'.authority # notice.authority
           => {"edited", "reviewed"} \cap events # {}
  PROVE  slot' \in [Slots -> SlotRow] /\ StaleKnow'
<1>1. slot \in [Slots -> SlotRow]
  BY TypeParts DEF ReviewInv
<1>2. \A r \in Slots : slot'[r] = IF r = s THEN rec ELSE Told(slot[r], events)
  BY DEF Becomes
<1>3. slot' \in [Slots -> SlotRow]
  BY <1>1, ToldWhat DEF Becomes
<1>4. ASSUME NEW r \in Slots PROVE Knows(slot'[r], notice', row')
  <2>1. CASE r = s
    BY <1>2, <2>1
  <2>2. CASE r # s
    <3>1. Knows(slot[r], notice, row)
      BY DEF ReviewInv, StaleKnow
    <3>2. Knows(Told(slot[r], events), notice', row')
      BY <1>1, <3>1, ToldKnows
    <3> QED
      BY <1>2, <2>2, <3>2
  <2> QED
    BY <2>1, <2>2
<1>5. StaleKnow'
  BY <1>4 DEF StaleKnow, Knows
<1> QED
  BY <1>3, <1>5

LEMMA FreeKnows == ASSUME NEW n, NEW r PROVE Knows(Free, n, r)
<1>1. Free.op \notin {"upload", "extract", "apply", "classify"}
  BY FreeTyped
<1> QED
  BY <1>1 DEF Knows

LEMMA InvParts ==
  ASSUME ReviewInv
  PROVE  /\ notice \in NoticeRow /\ row \in {"absent", "pending", "reviewed"}
         /\ slot \in [Slots -> SlotRow] /\ documents \in Nat /\ unread \in BOOLEAN
         /\ faults \in 0..MaxFaults
  BY TypeParts DEF ReviewInv

\* A slot takes or changes its operation, or ends it, and the notice and the
\* row stay.
LEMMA SlotOnly ==
  ASSUME ReviewInv, NEW s \in Slots, NEW rec \in SlotRow, Becomes(s, rec, {}),
         UNCHANGED << notice, row >>, Knows(rec, notice, row)
  PROVE  slot' \in [Slots -> SlotRow] /\ StaleKnow'
  BY SlotStep, InvParts

LEMMA SlotEnds ==
  ASSUME ReviewInv, NEW s \in Slots, Finish(s, {}), UNCHANGED << notice, row >>
  PROVE  slot' \in [Slots -> SlotRow] /\ StaleKnow'
  BY SlotOnly, FreeTyped, FreeKnows DEF Finish

\* The rest of the type invariant.
LEMMA TypesKept ==
  ASSUME ReviewInv, notice' \in NoticeRow, row' \in {"absent", "pending", "reviewed"},
         slot' \in [Slots -> SlotRow], StaleKnow', UNCHANGED key, documents' \in Nat,
         unread' \in BOOLEAN, Fault \/ UNCHANGED faults
  PROVE  ReviewInv'
<1>1. faults' \in 0..MaxFaults
  BY InvParts, ReviewAssumption DEF Fault
<1>2. key' \in {"none", "some"}
  BY TypeParts DEF ReviewInv
<1>3. ReviewTypeOK'
  BY <1>1, <1>2 DEF ReviewTypeOK, NoticeRow, SlotRow, Ops, Events, Demands, Kinds
<1> QED
  BY <1>3 DEF ReviewInv

LEMMA ApplyKeeps ==
  ASSUME ReviewInv, NEW s \in Slots, NEW decision, Apply(s, decision)
  PROVE  /\ notice' \in NoticeRow /\ row' \in {"absent", "pending", "reviewed"}
         /\ slot' \in [Slots -> SlotRow] /\ StaleKnow'
<1>1. PICK events : events = IF decision = "apply" THEN {"accepted"} ELSE {}
  OBVIOUS
<1>2. Becomes(s, Free, events) /\ events \in SUBSET Events
  BY <1>1 DEF Apply, Finish, Events
<1>3. PICK env \in {"none", "some"}, ext \in Statuses, demand \in Demands :
        /\ notice' = [notice EXCEPT !.env = env, !.ext = ext, !.demand = demand]
        /\ ext = "accepted" /\ notice.ext # "accepted" => "accepted" \in events
        /\ demand = "human" => notice.demand = "human"
  BY <1>1, InvParts DEF Apply, Written, Filled, NoticeRow, Statuses, Demands
<1>4. /\ notice' \in NoticeRow /\ notice'.ext = ext /\ notice'.demand = demand
      /\ notice'.type = notice.type /\ notice'.authority = notice.authority
  BY <1>3, InvParts DEF NoticeRow
<1>5. row' \in {"pending", row}
  BY DEF Apply, EnqueueForReview
<1>6. row' \in {"absent", "pending", "reviewed"} /\ (row' = "reviewed" => row = "reviewed")
  BY <1>5, InvParts
<1> QED
  BY <1>2, <1>3, <1>4, <1>6, SlotStep, FreeTyped, FreeKnows

LEMMA UploadKeeps ==
  ASSUME ReviewInv, NEW s \in Slots, UploadNoticeFile(s)
  PROVE  ReviewInv'
<1>0. unread' \in BOOLEAN
  <2>1. unread' = FALSE \/ unread' = unread
    BY DEF UploadNoticeFile, queue
  <2> QED
    BY <2>1, InvParts, Zenon
<1>1. documents' \in Nat /\ UNCHANGED << notice, row, key >> /\ (Fault \/ UNCHANGED faults)
  BY InvParts DEF UploadNoticeFile, queue
<1>2. slot' \in [Slots -> SlotRow] /\ StaleKnow'
  <2>1. CASE UNCHANGED slot
    BY <1>1, <2>1, InvParts DEF ReviewInv, StaleKnow, Knows
  <2>2. CASE ~UNCHANGED slot
    <3>1. PICK by \in {"regex", "model"} :
            Becomes(s, [Free EXCEPT !.op = "upload", !.ext = notice.ext,
                                    !.demand = notice.demand, !.by = by], {})
      BY <2>2 DEF UploadNoticeFile, Start
    <3>2. PICK rec : rec = [Free EXCEPT !.op = "upload", !.ext = notice.ext,
                                        !.demand = notice.demand, !.by = by]
      OBVIOUS
    <3>3. rec \in SlotRow /\ rec.op = "upload" /\ rec.demand = notice.demand
      BY <3>2, InvParts DEF Free, SlotRow, NoticeRow, Ops, Events, Demands, Kinds, Statuses
    <3>4. notice.ext # "accepted"
      BY <2>2 DEF UploadNoticeFile, ShouldSkipExtraction
    <3>5. Knows(rec, notice, row)
      BY <3>3, <3>4 DEF Knows
    <3> QED
      BY <1>1, <3>1, <3>2, <3>3, <3>5, SlotOnly
  <2> QED
    BY <2>1, <2>2
<1> QED
  BY <1>0, <1>1, <1>2, TypesKept, InvParts

LEMMA ExtractionKeeps ==
  ASSUME ReviewInv, NEW s \in Slots, StartExtraction(s) \/ TaskEndsUnread(s)
  PROVE  ReviewInv'
<1>0. unread' \in BOOLEAN
  <2>1. unread' = (notice.ext = "pending") \/ unread' = unread
    BY Zenon DEF StartExtraction, TaskEndsUnread
  <2> QED
    BY <2>1, InvParts, Zenon
<1>1. documents' \in Nat /\ UNCHANGED << row, key, faults >>
  BY InvParts DEF StartExtraction, TaskEndsUnread, Taken
<1>2. CASE UNCHANGED << notice, slot >>
  <2>1. StaleKnow'
    BY <1>1, <1>2 DEF ReviewInv, StaleKnow, Knows
  <2> QED
    BY <1>0, <1>1, <1>2, <2>1, TypesKept, InvParts
<1>3. CASE notice' = [notice EXCEPT !.ext = "failed"] /\ UNCHANGED slot
  <2>1. notice' \in NoticeRow /\ notice'.ext = "failed" /\ notice'.demand = notice.demand
        /\ notice'.type = notice.type /\ notice'.authority = notice.authority
    BY <1>3, InvParts DEF NoticeRow, Statuses
  <2>2. StaleKnow'
    BY <1>1, <1>3, <2>1 DEF ReviewInv, StaleKnow, Knows
  <2> QED
    BY <1>0, <1>1, <1>3, <2>1, <2>2, TypesKept, InvParts
<1>4. ASSUME NEW loaded \in {notice.ext, "expired"}, notice.ext # "accepted", UNCHANGED notice,
             Start(s, [Free EXCEPT !.op = "extract", !.ext = loaded])
      PROVE  ReviewInv'
  <2>1. PICK rec : rec = [Free EXCEPT !.op = "extract", !.ext = loaded]
    OBVIOUS
  <2>2. rec \in SlotRow /\ rec.op = "extract"
    BY <2>1, InvParts DEF Free, SlotRow, NoticeRow, Ops, Events, Demands, Kinds, Statuses
  <2>3. Knows(rec, notice, row)
    BY <1>4, <2>2 DEF Knows
  <2>4. slot' \in [Slots -> SlotRow] /\ StaleKnow'
    BY <1>1, <1>4, <2>1, <2>2, <2>3, SlotOnly DEF Start
  <2> QED
    BY <1>0, <1>1, <1>4, <2>4, TypesKept, InvParts
<1> QED
  BY <1>2, <1>3, <1>4 DEF StartExtraction, TaskEndsUnread, ShouldSkipExtraction

\* What a task that failed leaves: `failed', or what was there.
LEMMA FailureKeeps ==
  ASSUME ReviewInv, NEW s \in Slots, NEW ext \in {"failed", notice.ext},
         notice' = [notice EXCEPT !.ext = ext], Finish(s, {}), UNCHANGED row
  PROVE  notice' \in NoticeRow /\ slot' \in [Slots -> SlotRow] /\ StaleKnow'
<1>1. notice' \in NoticeRow /\ notice'.ext = ext /\ notice'.demand = notice.demand
      /\ notice'.type = notice.type /\ notice'.authority = notice.authority
  BY InvParts DEF NoticeRow, Statuses
<1> QED
  BY <1>1, SlotStep, FreeTyped, FreeKnows, InvParts DEF Finish

LEMMA WorkerKeeps ==
  ASSUME ReviewInv, NEW s \in Slots,
         \/ ModelFails(s) \/ ModelAnswers(s) \/ ApplyFails(s)
         \/ WorkerDies(s) \/ ExtractionLost(s)
  PROVE  ReviewInv'
<1>1. CASE ModelFails(s)
  <2>1. PICK ext \in {"failed", notice.ext} : notice' = [notice EXCEPT !.ext = ext]
    BY <1>1 DEF ModelFails, Written
  <2>2. Finish(s, {}) /\ UNCHANGED << row, key, documents, unread, faults >>
    BY <1>1 DEF ModelFails, queue
  <2>3. notice' \in NoticeRow /\ slot' \in [Slots -> SlotRow] /\ StaleKnow'
    BY <2>1, <2>2, FailureKeeps
  <2> QED
    BY <2>2, <2>3, TypesKept, InvParts
<1>2. CASE ApplyFails(s)
  <2>1. /\ notice' = [notice EXCEPT !.ext = "failed"] /\ Finish(s, {})
        /\ UNCHANGED << row, key, documents, unread >> /\ Fault
    BY <1>2 DEF ApplyFails, queue
  <2>2. notice' \in NoticeRow /\ slot' \in [Slots -> SlotRow] /\ StaleKnow'
    BY <2>1, FailureKeeps
  <2> QED
    BY <2>1, <2>2, TypesKept, InvParts
<1>3. CASE WorkerDies(s) \/ ExtractionLost(s)
  <2>0. unread' \in BOOLEAN
    <3>1. unread' = (notice.ext = "pending") \/ unread' = unread
      BY <1>3, Zenon DEF WorkerDies, ExtractionLost
    <3> QED
      BY <3>1, InvParts, Zenon
  <2>1. Finish(s, {}) /\ UNCHANGED << notice, row, key >> /\ Fault
        /\ documents' \in {documents, documents + 1}
    BY <1>3, InvParts DEF WorkerDies, ExtractionLost, Redelivered
  <2> QED
    BY <2>0, <2>1, SlotEnds, TypesKept, InvParts
<1>4. CASE ModelAnswers(s)
  <2>1. UNCHANGED << notice, row, key, documents, unread, faults >>
    BY <1>4 DEF ModelAnswers, queue
  <2>2. slot' \in [Slots -> SlotRow] /\ StaleKnow'
    <3>1. CASE Finish(s, {})
      BY <2>1, <3>1, SlotEnds
    <3>2. CASE ~Finish(s, {})
      <4>1. PICK rec : rec = [Free EXCEPT !.op = "apply", !.ext = notice.ext,
                                          !.demand = notice.demand]
        OBVIOUS
      <4>2. Becomes(s, rec, {}) /\ notice.ext # "accepted"
        BY <1>4, <3>2, <4>1 DEF ModelAnswers, Start, ShouldSkipExtraction
      <4>3. rec \in SlotRow /\ rec.op = "apply" /\ rec.demand = notice.demand
        BY <4>1, InvParts DEF Free, SlotRow, NoticeRow, Ops, Events, Demands, Kinds, Statuses
      <4>4. Knows(rec, notice, row)
        BY <4>2, <4>3 DEF Knows
      <4> QED
        BY <2>1, <4>2, <4>3, <4>4, SlotOnly
    <3> QED
      BY <3>1, <3>2
  <2> QED
    BY <2>1, <2>2, TypesKept, InvParts
<1> QED
  BY <1>1, <1>2, <1>3, <1>4

LEMMA ReadsKeep ==
  ASSUME ReviewInv, NEW s \in Slots, UploadIsRead(s) \/ ApplyExtraction(s)
  PROVE  ReviewInv'
<1>1. PICK decision : Apply(s, decision)
  BY DEF UploadIsRead, ApplyExtraction
<1>2. UNCHANGED << key, documents, unread, faults >>
  BY DEF UploadIsRead, ApplyExtraction, queue
<1> QED
  BY <1>1, <1>2, ApplyKeeps, TypesKept, InvParts

LEMMA EndsKeep ==
  ASSUME ReviewInv, NEW s \in Slots,
         UploadIsNotRead(s) \/ RefuseAcceptance(s) \/ ScoringFails(s)
  PROVE  ReviewInv'
<1>1. Finish(s, {}) /\ UNCHANGED << notice, row, key, documents, unread, faults >>
  BY DEF UploadIsNotRead, RefuseAcceptance, ScoringFails, queue
<1> QED
  BY <1>1, SlotEnds, TypesKept, InvParts

LEMMA AcceptanceKeeps ==
  ASSUME ReviewInv, NEW s \in Slots, StartAcceptance(s) \/ CommitAcceptance(s)
  PROVE  ReviewInv'
<1>0. UNCHANGED << row, key, documents, unread, faults >>
  BY DEF StartAcceptance, CommitAcceptance, queue
<1>1. CASE StartAcceptance(s)
  <2>1. PICK by \in {"none", "preview"} :
          Becomes(s, [Free EXCEPT !.op = "accept", !.ext = notice.ext, !.by = by], {})
    BY <1>1 DEF StartAcceptance, Start
  <2>2. PICK rec : rec = [Free EXCEPT !.op = "accept", !.ext = notice.ext, !.by = by]
    OBVIOUS
  <2>3. rec \in SlotRow /\ rec.op = "accept"
    BY <2>2, InvParts DEF Free, SlotRow, NoticeRow, Ops, Events, Demands, Kinds, Statuses
  <2>4. Knows(rec, notice, row)
    BY <2>3 DEF Knows
  <2>5. UNCHANGED notice
    BY <1>1 DEF StartAcceptance
  <2> QED
    BY <1>0, <2>1, <2>2, <2>3, <2>4, <2>5, SlotOnly, TypesKept, InvParts
<1>2. CASE CommitAcceptance(s)
  <2>1. PICK demand \in {"human", notice.demand}, a \in Authorities,
             ext \in {"accepted", notice.ext}, env \in {"some", notice.env} :
          /\ notice' = [notice EXCEPT !.ext = ext, !.env = env, !.demand = demand, !.authority = a]
          /\ Finish(s, {"accepted"} \cup
               (IF demand # notice.demand \/ a # notice.authority THEN {"edited"} ELSE {}))
    BY <1>2 DEF CommitAcceptance, Written
  <2>2. PICK events : events = {"accepted"} \cup
               (IF demand # notice.demand \/ a # notice.authority THEN {"edited"} ELSE {})
    OBVIOUS
  <2>3. /\ notice' \in NoticeRow /\ notice'.ext = ext /\ notice'.demand = demand
        /\ notice'.type = notice.type /\ notice'.authority = a
    BY <2>1, InvParts DEF NoticeRow, Statuses, Demands
  <2>4. events \in SUBSET Events /\ Becomes(s, Free, events)
    BY <2>1, <2>2 DEF Events, Finish
  <2>5. slot' \in [Slots -> SlotRow] /\ StaleKnow'
    BY <1>0, <2>2, <2>3, <2>4, SlotStep, FreeTyped, FreeKnows, InvParts
  <2> QED
    BY <1>0, <2>3, <2>5, TypesKept, InvParts
<1> QED
  BY <1>1, <1>2

LEMMA ReviewKeeps ==
  ASSUME ReviewInv, NEW s \in Slots, OpenReview(s) \/ AssignReviewerLabel(s)
  PROVE  ReviewInv'
<1>1. CASE OpenReview(s)
  <2>1. PICK a \in Authorities \cup {"none"}, t \in Authorities \cup {"none"} :
          Becomes(s, [Free EXCEPT !.op = "review", !.authority = a, !.type = t], {})
    BY <1>1 DEF OpenReview, Start
  <2>2. PICK rec : rec = [Free EXCEPT !.op = "review", !.authority = a, !.type = t]
    OBVIOUS
  <2>3. rec \in SlotRow /\ rec.op = "review"
    BY <2>2 DEF Free, SlotRow, Ops, Events, Demands, Kinds, Statuses
  <2>4. Knows(rec, notice, row)
    BY <2>3 DEF Knows
  <2>5. UNCHANGED << notice, row, key, documents, unread, faults >>
    BY <1>1 DEF OpenReview, queue
  <2> QED
    BY <2>1, <2>2, <2>3, <2>4, <2>5, SlotOnly, TypesKept, InvParts
<1>2. CASE AssignReviewerLabel(s)
  <2>1. slot[s].authority \in Authorities \cup {"none"} /\ slot[s].type \in Authorities \cup {"none"}
    BY InvParts DEF SlotRow
  <2>2. PICK a \in Authorities, t \in Authorities \cup {"none"} :
          notice' = [notice EXCEPT !.authority = a, !.type = t]
    BY <1>2, <2>1, InvParts DEF AssignReviewerLabel, Written, NoticeRow
  <2>3. /\ notice' \in NoticeRow /\ notice'.ext = notice.ext /\ notice'.demand = notice.demand
    BY <2>2, InvParts DEF NoticeRow
  <2>4. PICK events : events = {"reviewed"} \cup (IF notice' # notice THEN {"edited"} ELSE {})
    OBVIOUS
  <2>5. events \in SUBSET Events /\ "reviewed" \in events
    BY <2>4 DEF Events
  <2>6. Becomes(s, Free, events) /\ row' = "reviewed" /\ UNCHANGED << key, documents, unread, faults >>
    BY <1>2, <2>4 DEF AssignReviewerLabel, Finish, queue
  <2>7. slot' \in [Slots -> SlotRow] /\ StaleKnow'
    BY <2>3, <2>5, <2>6, SlotStep, FreeTyped, FreeKnows
  <2> QED
    BY <2>3, <2>6, <2>7, TypesKept, InvParts
<1> QED
  BY <1>1, <1>2

LEMMA ScoringKeeps ==
  ASSUME ReviewInv, NEW s \in Slots, StartScoring(s) \/ EnqueueLowConfidence(s)
  PROVE  ReviewInv'
<1>1. CASE StartScoring(s)
  <2>1. PICK rec : rec = [Free EXCEPT !.op = "classify",
                                      !.by = IF LowConfidence(notice) THEN "doubt" ELSE "none"]
    OBVIOUS
  <2>2. /\ rec \in SlotRow /\ rec.op = "classify"
        /\ rec.by = "doubt" => LowConfidence(notice)
    BY <2>1 DEF Free, SlotRow, Ops, Events, Demands, Kinds, Statuses
  <2>3. LowConfidence(notice) => notice.type = "none" \/ notice.authority \notin Identified
    BY DEF LowConfidence, AuthorityConfidence, TypeConfidence, Threshold
  <2>4. Knows(rec, notice, row)
    BY <2>2, <2>3 DEF Knows
  <2>5. Becomes(s, rec, {}) /\ UNCHANGED << notice, row, key, documents, unread, faults >>
    BY <1>1, <2>1 DEF StartScoring, Start, queue
  <2> QED
    BY <2>2, <2>4, <2>5, SlotOnly, TypesKept, InvParts
<1>2. CASE EnqueueLowConfidence(s)
  <2>1. row' \in {"pending", row} /\ Becomes(s, Free, {})
        /\ UNCHANGED << notice, key, documents, unread, faults >>
    BY <1>2 DEF EnqueueLowConfidence, Finish, queue
  <2>2. row' \in {"absent", "pending", "reviewed"} /\ (row' = "reviewed" => row = "reviewed")
    BY <2>1, InvParts
  <2>3. slot' \in [Slots -> SlotRow] /\ StaleKnow'
    BY <2>1, <2>2, SlotStep, FreeTyped, FreeKnows, InvParts
  <2> QED
    BY <2>1, <2>2, <2>3, TypesKept, InvParts
<1> QED
  BY <1>1, <1>2

LEMMA PeopleKeep ==
  ASSUME ReviewInv, UpdateNotice \/ FlagNotice \/ SetKey \/ DeleteKey
  PROVE  ReviewInv'
<1>1. CASE UpdateNotice
  <2>1. PICK demand \in {"human", notice.demand}, t \in Authorities \cup {notice.type} :
          notice' = [notice EXCEPT !.demand = demand, !.type = t]
    BY <1>1 DEF UpdateNotice
  <2>2. /\ notice' \in NoticeRow /\ notice'.ext = notice.ext /\ notice'.demand = demand
        /\ notice'.authority = notice.authority
    BY <2>1, InvParts DEF NoticeRow, Demands
  <2>3. slot' = [r \in Slots |-> Told(slot[r], {"edited"})] /\ {"edited"} \in SUBSET Events
        /\ UNCHANGED << row, key, documents, unread, faults >>
    BY <1>1 DEF UpdateNotice, Events, queue
  <2>4. slot' \in [Slots -> SlotRow]
    BY <2>3, ToldWhat, InvParts
  <2>5. ASSUME NEW r \in Slots PROVE Knows(slot'[r], notice', row')
    <3>1. slot[r] \in SlotRow /\ Knows(slot[r], notice, row)
      BY InvParts DEF ReviewInv, StaleKnow
    <3>2. Knows(Told(slot[r], {"edited"}), notice', row')
      BY <2>2, <2>3, <3>1, ToldKnows
    <3> QED
      BY <2>3, <3>2
  <2>6. StaleKnow'
    BY <2>5 DEF StaleKnow, Knows
  <2> QED
    BY <2>2, <2>3, <2>4, <2>6, TypesKept, InvParts
<1>2. CASE FlagNotice
  <2>1. StaleKnow'
    BY <1>2 DEF FlagNotice, ReviewInv, StaleKnow, Knows
  <2> QED
    BY <1>2, <2>1, TypesKept, InvParts DEF FlagNotice, queue
<1>3. CASE SetKey \/ DeleteKey
  <2>1. UNCHANGED << notice, row, documents, unread, slot, faults >> /\ key' \in {"none", "some"}
    BY <1>3 DEF SetKey, DeleteKey, queue
  <2>2. ReviewTypeOK' /\ StaleKnow'
    BY <2>1 DEF ReviewInv, ReviewTypeOK, StaleKnow, Knows
  <2> QED
    BY <2>2 DEF ReviewInv
<1> QED
  BY <1>1, <1>2, <1>3

-----------------------------------------------------------------------------
(***************************************************************************)
(* The theorems.                                                           *)
(***************************************************************************)
LEMMA ReviewInitially == Init => ReviewInv
<1> SUFFICES ASSUME Init PROVE ReviewInv
  OBVIOUS
<1>0. unread \in BOOLEAN
  BY Zenon DEF Init
<1>1. ReviewTypeOK
  BY <1>0, FreeTyped, TypeParts, ReviewAssumption DEF Init, NoticeRow, Statuses, Demands
<1>2. StaleKnow
  BY FreeKnows DEF Init, StaleKnow
<1> QED
  BY <1>1, <1>2 DEF ReviewInv

LEMMA ReviewStep == ReviewInv /\ [Next]_vars => ReviewInv'
<1> SUFFICES ASSUME ReviewInv, [Next]_vars PROVE ReviewInv'
  OBVIOUS
<1>1. CASE UNCHANGED vars
  BY <1>1 DEF vars, queue, ReviewInv, ReviewTypeOK, StaleKnow, Knows
<1>2. CASE UpdateNotice \/ FlagNotice \/ SetKey \/ DeleteKey
  BY <1>2, PeopleKeep
<1>3. ASSUME NEW s \in Slots, \/ UploadNoticeFile(s) \/ StartExtraction(s) \/ TaskEndsUnread(s)
                              \/ StartAcceptance(s) \/ OpenReview(s) \/ StartScoring(s)
      PROVE  ReviewInv'
  BY <1>3, UploadKeeps, ExtractionKeeps, AcceptanceKeeps, ReviewKeeps, ScoringKeeps
<1>4. ASSUME NEW s \in Slots, Work(s) \/ ApplyFails(s) \/ WorkerDies(s) \/ ExtractionLost(s)
      PROVE  ReviewInv'
  BY <1>4, ReadsKeep, EndsKeep, WorkerKeeps, AcceptanceKeeps, ReviewKeeps, ScoringKeeps DEF Work
<1> QED
  BY <1>1, <1>2, <1>3, <1>4 DEF Next

\* Whoever works on a stale copy of the notice has been told.
THEOREM ReviewInvariance == Spec => []ReviewInv
  BY ReviewInitially, ReviewStep, PTL DEF Spec

\* Rows and operations keep their types.
THEOREM ReviewTypesCorrect == Spec => []ReviewTypeOK
<1>1. ReviewInv => ReviewTypeOK
  BY DEF ReviewInv
<1> QED
  BY <1>1, ReviewInvariance, PTL

LEMMA FinishFrees ==
  ASSUME NEW s \in Slots, NEW events, Finish(s, events)
  PROVE  slot'[s] = Free
  BY DEF Finish, Becomes

\* The steps that write what a model read, or that it could not.
Writes(s) ==
  UploadIsRead(s) \/ ApplyExtraction(s) \/ ModelFails(s) \/ ApplyFails(s)

LEMMA WritesEnd ==
  ASSUME NEW s \in Slots, Writes(s)
  PROVE  slot[s].op \in {"upload", "extract", "apply"} /\ slot'[s] = Free
<1>1. slot[s].op \in {"upload", "extract", "apply"}
  BY DEF Writes, UploadIsRead, ApplyExtraction, ModelFails, ApplyFails
<1>2. \E events : Finish(s, events)
  BY DEF Writes, UploadIsRead, ApplyExtraction, ModelFails, ApplyFails, Apply
<1> QED
  BY <1>1, <1>2, FinishFrees

\* The other steps neither end an acceptance nor write what a model read.
LEMMA OthersKeep ==
  ASSUME ReviewInv, [Next]_vars, \A s \in Slots : ~Writes(s)
  PROVE  /\ notice.ext = "accepted" => notice'.ext = "accepted"
         /\ notice.demand = "human" => notice'.demand = "human"
<1>0. notice \in NoticeRow
  BY InvParts
<1>1. CASE UNCHANGED notice
  BY <1>1
<1>2. CASE UpdateNotice
  BY <1>0, <1>2 DEF UpdateNotice, NoticeRow
<1>3. ASSUME NEW s \in Slots, StartExtraction(s) PROVE
         /\ notice.ext = "accepted" => notice'.ext = "accepted"
         /\ notice.demand = "human" => notice'.demand = "human"
  BY <1>0, <1>3 DEF StartExtraction, ShouldSkipExtraction, NoticeRow
<1>4. ASSUME NEW s \in Slots, CommitAcceptance(s) PROVE
         /\ notice.ext = "accepted" => notice'.ext = "accepted"
         /\ notice.demand = "human" => notice'.demand = "human"
  BY <1>0, <1>4 DEF CommitAcceptance, Written, NoticeRow
<1>5. ASSUME NEW s \in Slots, AssignReviewerLabel(s) PROVE
         /\ notice.ext = "accepted" => notice'.ext = "accepted"
         /\ notice.demand = "human" => notice'.demand = "human"
  BY <1>0, <1>5 DEF AssignReviewerLabel, NoticeRow
<1>6. \/ UNCHANGED notice \/ UpdateNotice
      \/ \E s \in Slots : StartExtraction(s) \/ CommitAcceptance(s) \/ AssignReviewerLabel(s)
  <2>1. CASE UNCHANGED vars
    BY <2>1 DEF vars
  <2>2. CASE UpdateNotice \/ FlagNotice \/ SetKey \/ DeleteKey
    BY <2>2 DEF FlagNotice, SetKey, DeleteKey
  <2>3. ASSUME NEW s \in Slots, \/ UploadNoticeFile(s) \/ StartAcceptance(s)
                                \/ OpenReview(s) \/ StartScoring(s) \/ WorkerDies(s)
                                \/ TaskEndsUnread(s) \/ ExtractionLost(s)
        PROVE  UNCHANGED notice
    BY <2>3 DEF UploadNoticeFile, StartAcceptance, OpenReview, StartScoring, WorkerDies,
       TaskEndsUnread, ExtractionLost
  <2>4. ASSUME NEW s \in Slots, \/ UploadIsNotRead(s) \/ ModelAnswers(s) \/ RefuseAcceptance(s)
                                \/ EnqueueLowConfidence(s) \/ ScoringFails(s)
        PROVE  UNCHANGED notice
    BY <2>4 DEF UploadIsNotRead, ModelAnswers, RefuseAcceptance, EnqueueLowConfidence, ScoringFails
  <2> QED
    BY <2>1, <2>2, <2>3, <2>4 DEF Next, Work, Writes
<1> QED
  BY <1>1, <1>2, <1>3, <1>4, <1>5, <1>6

LEMMA SlotKnows ==
  ASSUME ReviewInv, NEW s \in Slots
  PROVE  Knows(slot[s], notice, row)
  BY DEF ReviewInv, StaleKnow

\* accept-extraction ends reading: only an extraction that was under way then
\* takes the status back, or marks the notice failed.
THEOREM AcceptedStaysFrozen == Spec => FrozenForLaterUploads
<1>1. ReviewInv /\ [Next]_vars =>
        [notice.ext = "accepted" /\ notice'.ext # "accepted" =>
           \E s \in Slots : "accepted" \in slot[s].overtaken /\ slot'[s] = Free]_vars
  <2> SUFFICES ASSUME ReviewInv, [Next]_vars, notice.ext = "accepted", notice'.ext # "accepted"
               PROVE  \E s \in Slots : "accepted" \in slot[s].overtaken /\ slot'[s] = Free
    OBVIOUS
  <2>1. PICK s \in Slots : Writes(s)
    BY OthersKeep
  <2>2. "accepted" \in slot[s].overtaken
    BY <2>1, WritesEnd, SlotKnows DEF Knows
  <2> QED
    BY <2>1, <2>2, WritesEnd
<1> QED
  BY <1>1, ReviewInvariance, PTL DEF Spec, FrozenForLaterUploads

\* _apply_fields_to_columns fills gaps only: a value a person entered is lost to
\* an extraction only if that had loaded the notice before.
THEOREM PeopleKeepTheirValues == Spec => HumanValueKept
<1>1. ReviewInv /\ [Next]_vars =>
        [notice.demand = "human" /\ notice'.demand = "read" =>
           \E s \in Slots : {"edited", "accepted"} \cap slot[s].overtaken # {}
                            /\ slot'[s] = Free]_vars
  <2> SUFFICES ASSUME ReviewInv, [Next]_vars, notice.demand = "human", notice'.demand = "read"
               PROVE  \E s \in Slots : {"edited", "accepted"} \cap slot[s].overtaken # {}
                                       /\ slot'[s] = Free
    OBVIOUS
  <2>1. PICK s \in Slots : Writes(s)
    BY OthersKeep
  <2>2. UploadIsRead(s) \/ ApplyExtraction(s)
    BY <2>1, InvParts DEF Writes, ModelFails, ApplyFails, NoticeRow
  <2>3. slot[s].op \in {"upload", "apply"}
    BY <2>2 DEF UploadIsRead, ApplyExtraction
  <2>4. PICK decision : Apply(s, decision)
    BY <2>2 DEF UploadIsRead, ApplyExtraction
  <2>5. slot[s].demand = "none"
    BY <2>4, InvParts DEF Apply, Filled, NoticeRow
  <2>6. {"edited", "accepted"} \cap slot[s].overtaken # {}
    BY <2>3, <2>5, SlotKnows DEF Knows
  <2> QED
    BY <2>1, <2>6, WritesEnd
<1> QED
  BY <1>1, ReviewInvariance, PTL DEF Spec, HumanValueKept

LEMMA RowWriters ==
  ASSUME [Next]_vars, row = "reviewed", row' = "pending"
  PROVE  \/ FlagNotice
         \/ \E s \in Slots : UploadIsRead(s) \/ ApplyExtraction(s) \/ EnqueueLowConfidence(s)
<1>1. row' # row
  OBVIOUS
<1>2. CASE UNCHANGED vars
  BY <1>1, <1>2 DEF vars
<1>3. CASE UpdateNotice \/ FlagNotice \/ SetKey \/ DeleteKey
  BY <1>1, <1>3 DEF UpdateNotice, SetKey, DeleteKey
<1>4. ASSUME NEW s \in Slots, \/ UploadNoticeFile(s) \/ StartExtraction(s) \/ StartAcceptance(s)
                              \/ OpenReview(s) \/ StartScoring(s) \/ ApplyFails(s) \/ WorkerDies(s)
                              \/ TaskEndsUnread(s) \/ ExtractionLost(s)
      PROVE  FALSE
  BY <1>1, <1>4 DEF UploadNoticeFile, StartExtraction, StartAcceptance, OpenReview, StartScoring,
     ApplyFails, WorkerDies, TaskEndsUnread, ExtractionLost
<1>5. ASSUME NEW s \in Slots, \/ UploadIsNotRead(s) \/ ModelFails(s) \/ ModelAnswers(s)
                              \/ CommitAcceptance(s) \/ RefuseAcceptance(s)
                              \/ AssignReviewerLabel(s) \/ ScoringFails(s)
      PROVE  FALSE
  BY <1>1, <1>5 DEF UploadIsNotRead, ModelFails, ModelAnswers, CommitAcceptance, RefuseAcceptance,
     AssignReviewerLabel, ScoringFails
<1> QED
  BY <1>2, <1>3, <1>4, <1>5 DEF Next, Work

\* The queue returns a settled notice only for a person, for an envelope that
\* does not convince, or for a scoring that had begun before.
THEOREM ReviewedStaysSettled == Spec => ReviewSticks
<1>1. ReviewInv /\ [Next]_vars =>
        [/\ row = "reviewed" /\ row' = "pending"
         /\ notice.type # "none" /\ notice.authority \in Identified
         => \/ FlagNotice
            \/ \E s \in Slots : slot[s].op \in {"upload", "apply"} /\ slot'[s] = Free
            \/ \E s \in Slots : slot[s].overtaken # {} /\ slot'[s] = Free]_vars
  <2> SUFFICES ASSUME ReviewInv, [Next]_vars, row = "reviewed", row' = "pending",
                      notice.type # "none", notice.authority \in Identified, ~FlagNotice
               PROVE  \/ \E s \in Slots : slot[s].op \in {"upload", "apply"} /\ slot'[s] = Free
                      \/ \E s \in Slots : slot[s].overtaken # {} /\ slot'[s] = Free
    OBVIOUS
  <2>1. PICK s \in Slots : UploadIsRead(s) \/ ApplyExtraction(s) \/ EnqueueLowConfidence(s)
    BY RowWriters
  <2>2. CASE UploadIsRead(s) \/ ApplyExtraction(s)
    <3>1. slot[s].op \in {"upload", "apply"} /\ Writes(s)
      BY <2>2 DEF UploadIsRead, ApplyExtraction, Writes
    <3> QED
      BY <3>1, WritesEnd
  <2>3. CASE EnqueueLowConfidence(s)
    <3>1. slot[s].op = "classify" /\ slot[s].by = "doubt" /\ Finish(s, {})
      BY <2>3 DEF EnqueueLowConfidence
    <3>2. slot[s].overtaken # {}
      BY <3>1, SlotKnows DEF Knows
    <3> QED
      BY <3>1, <3>2, FinishFrees
  <2> QED
    BY <2>1, <2>2, <2>3
<1> QED
  BY <1>1, ReviewInvariance, PTL DEF Spec, ReviewSticks
=============================================================================
