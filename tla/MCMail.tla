------------------------------- MODULE MCMail -------------------------------
(***************************************************************************)
(* Instances of Mail for TLC.                                              *)
(***************************************************************************)
EXTENDS Mail

\* The two parts never read each other's variables, so that a state is worth
\* looking at only while one of them is as it was in the beginning.
OnePart == ConnectionInit \/ BillsInit
=============================================================================
