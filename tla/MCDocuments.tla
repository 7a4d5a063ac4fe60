----------------------------- MODULE MCDocuments -----------------------------
(***************************************************************************)
(* Instances of Documents for TLC.                                         *)
(***************************************************************************)
EXTENDS Documents, TLC

\* Requests are interchangeable; the run checks no liveness.
SlotSymmetry == Permutations(Slots)
=============================================================================
