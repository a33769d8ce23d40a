-------------------------- MODULE MCComplianceInstall --------------------------
(* One version and an upgrade to another. *)
EXTENDS ComplianceInstall

MCVersions == {1, 2}
================================================================================
