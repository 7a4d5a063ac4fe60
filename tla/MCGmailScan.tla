----------------------------- MODULE MCGmailScan -----------------------------
(* Instances of GmailScan for TLC. *)
EXTENDS GmailScan, TLC

CONSTANTS beat, thread

\* One message of each kind that makes a record, and one that makes none.
MCKindOf == << "compliance", "bill", "other" >>

\* Two messages: a notice and a mail that is a regulator's, but uncertain.
MCKindOfTwo == << "compliance", "uncertain" >>
=============================================================================
