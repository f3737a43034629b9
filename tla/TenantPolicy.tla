---------------------------- MODULE TenantPolicy ----------------------------
(* What a tenant's status allows (core/tenancy/lifecycle.py): the gate that *)
(* login, request, task, file and cleanup paths all ask, and the            *)
(* transitions a lifecycle operation may make.                              *)

TenantStatuses ==
  {"provisioning", "active", "suspended", "deleting", "archived", "deleted"}

TenantOperations ==
  {"login", "read", "write", "task", "file_download", "background_cleanup", "admin"}

ALLOWED_TRANSITIONS ==
  {<<"provisioning", "active">>, <<"provisioning", "deleted">>,
   <<"active", "suspended">>, <<"active", "deleting">>,
   <<"suspended", "active">>, <<"suspended", "deleting">>,
   <<"deleting", "archived">>, <<"deleting", "deleted">>, <<"archived", "deleted">>}

\* policy is the set of the TenantLifecyclePolicy switches that are on.
is_tenant_operation_allowed(status, operation, policy) ==
  \/ operation = "admin"
  \/ status = "active"
  \/ status = "suspended" /\ operation \in {"login", "read"}
  \/ status = "suspended" /\ operation = "file_download"
                          /\ "allow_suspended_file_download" \in policy
  \/ status = "deleting" /\ operation = "background_cleanup"
  \/ status = "archived" /\ operation = "read" /\ "allow_archived_read" \in policy
  \/ status = "archived" /\ operation = "file_download"
                         /\ "allow_archived_file_download" \in policy

validate_tenant_transition(current, target) == <<current, target>> \in ALLOWED_TRANSITIONS
=============================================================================
