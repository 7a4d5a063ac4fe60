------------------------- MODULE MCResponseWorkflow -------------------------
(* Instances of ResponseWorkflow for TLC. *)
EXTENDS ResponseWorkflow, TLC

CONSTANTS dana, carl, cleo, lena, s1, s2

\* A drafter, two consultants who may act anywhere, and one legal reviewer:
\* the least team that can take a draft through three distinct approvers.
MCRoleOf == (dana :> "staff") @@ (carl :> "ca_consultant")
            @@ (cleo :> "ca_consultant") @@ (lena :> "legal_team")

MCSymmetry == Permutations({carl, cleo}) \cup Permutations({s1, s2})
=============================================================================
