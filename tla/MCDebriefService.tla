-------------------------- MODULE MCDebriefService --------------------------
(* An instance of DebriefService for TLC: two requests to one host, so that *)
(* one may hold a session object the other has replaced in the map.         *)
EXTENDS DebriefService, TLC

CONSTANTS t1, t2, h1

MCHostOf == [t \in Task |-> h1]

Requests == Permutations(Task)
=============================================================================
