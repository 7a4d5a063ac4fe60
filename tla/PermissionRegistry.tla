------------------------- MODULE PermissionRegistry -------------------------
(***************************************************************************)
(* The compliance role x permission matrix                                 *)
(* (app/compliance/services/permission_registry.py).  Permissions are flat:*)
(* no role inherits from another, so the matrix is a plain function.  It   *)
(* is the one place every compliance handler asks whether a member may     *)
(* act; the handlers' own modules only name the permission they need.      *)
(***************************************************************************)

Roles == { "compliance_head", "legal_team", "finance_team", "auditor",
           "ca_consultant", "staff", "cfo" }

\* ROLE_PERMISSIONS: what each role is granted.
RolePermissions ==
  [ compliance_head |->
      { "notice:view", "notice:create", "notice:approve", "notice:submit",
        "notice:bulk_update", "notice:review", "notice:attach_evidence",
        "client:manage_team", "report:view", "report:export",
        "escalation:trigger", "email_integration:use", "notice:ai_extract",
        "audit:view" },
    legal_team |->
      { "notice:view", "notice:draft_response", "notice:review",
        "notice:approve_legal", "notice:attach_evidence", "report:view",
        "notice:ai_extract" },
    finance_team |-> { "notice:view", "report:view" },
    auditor |->
      { "notice:view", "audit:view", "report:view", "report:export" },
    ca_consultant |->
      { "notice:view", "notice:create", "notice:draft_response",
        "notice:approve", "notice:submit", "notice:bulk_update",
        "notice:review", "notice:approve_legal", "notice:approve_cfo",
        "notice:attach_evidence", "client:create", "client:manage_team",
        "report:view", "report:export", "email_integration:use",
        "notice:ai_extract", "audit:view" },
    staff |->
      { "notice:view", "notice:create", "notice:draft_response",
        "notice:attach_evidence", "escalation:trigger",
        "email_integration:use", "notice:ai_extract" },
    cfo |->
      { "notice:view", "notice:approve_cfo", "report:view",
        "report:export", "escalation:trigger", "email_integration:use" } ]

HasPermission(role, perm) == perm \in RolePermissions[role]

\* require_any_compliance_permission: any one of several permissions will do.
HasAnyPermission(role, perms) == \E perm \in perms : HasPermission(role, perm)
=============================================================================
