------------------------------ MODULE MCTenancy ------------------------------
(***************************************************************************)
(* Instances of Tenancy for TLC: an admin who heads the one client, and a  *)
(* user of no client yet; memberships end as they do for auditors.         *)
(***************************************************************************)
EXTENDS Tenancy

CONSTANTS u1, u2, c1, c2

Head    == [role |-> "compliance_head", window |-> "open"]
Auditor == [role |-> "auditor", window |-> "future"]

TeamGrants == {Auditor}
Invited    == {<< u2, c2 >>}

FoundingTeams ==
  [u \in Users |-> [c \in Clients |->
     IF u = u1 /\ c = c1 THEN Head ELSE Nobody]]
=============================================================================
