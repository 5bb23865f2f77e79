----------------------------- MODULE MCAuditLog -----------------------------
(* The audit log by itself, for the run that asks about its recovery.      *)
EXTENDS AuditLog
=============================================================================
