------------------------------- MODULE MCAudit -------------------------------
(***************************************************************************)
(* One receipt: the spend chain stays short, the audit chain grows.        *)
(***************************************************************************)
EXTENDS AuditChain

CONSTANTS r1

=============================================================================
