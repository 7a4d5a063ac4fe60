------------------------- MODULE MCNoticeEscalation -------------------------
(***************************************************************************)
(* Instances of NoticeEscalation for TLC.                                  *)
(***************************************************************************)
EXTENDS NoticeEscalation

\* A penalty of a crore under section 454 of the Companies Act: high the day
\* before the deadline, and with 85 points exactly critical on the day itself.
Section454 == [authority |-> "MCA", decades |-> 7, section |-> TRUE, chain |-> FALSE]
=============================================================================
