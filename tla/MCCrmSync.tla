----------------------------- MODULE MCCrmSync -----------------------------
(* Instances of CrmSync for TLC: two or three runs of the sync.             *)
EXTENDS CrmSync

CONSTANTS s1, s2, s3
=============================================================================
