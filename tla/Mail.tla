-------------------------------- MODULE Mail --------------------------------
(***************************************************************************)
(* A client's mail: one user's connection and the bills that come from any *)
(* of the client's connections.  The two share no state but the job store, *)
(* in which each keeps to its own job ids.                                 *)
(***************************************************************************)
EXTENDS MailConnection, Bills

vars == << connectionVars, billVars >>

Init == ConnectionInit /\ BillsInit

Next == \/ ConnectionNext /\ UNCHANGED billVars
        \/ BillsNext /\ UNCHANGED connectionVars

Spec == Init /\ [][Next]_vars /\ ConnectionFairness
=============================================================================
