-------------------------- MODULE MCScheduledCalls --------------------------
(* Instances of ScheduledCalls for TLC. *)
EXTENDS ScheduledCalls

CONSTANTS s1, s2, p1, p2, w1, o1

MCSharedWorker == [p \in Proc |-> w1]
MCPollOrg == [p \in Proc |-> o1]
MCOrgOf == [s \in Session |-> o1]
MCSkew == [p \in Proc |-> IF p = p1 THEN 1 ELSE 0]
=============================================================================
