--------------------------- MODULE MCNoticeReview ---------------------------
(***************************************************************************)
(* Instances of NoticeReview for TLC.                                      *)
(***************************************************************************)
EXTENDS NoticeReview

Field(c, ok) == [confidence |-> c, ok |-> ok]

\* A sure envelope; one whose average passes and whose number does not; one
\* that is sure of itself and breaks a structural rule; and an empty one.
SomeReplies ==
  {[notice_number |-> Field(95, TRUE), authority |-> Field(90, TRUE)],
   [notice_number |-> Field(80, TRUE), authority |-> Field(95, TRUE)],
   [notice_number |-> Field(95, TRUE), authority |-> Field(95, FALSE)],
   [f \in {} |-> Field(0, TRUE)]}

\* The worker overlaps with every request; of two requests, an upload that
\* reads its file overlaps with an acceptance and with another upload.
Overlaps == {{"upload", "accept"}}
=============================================================================
