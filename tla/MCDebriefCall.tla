--------------------------- MODULE MCDebriefCall ---------------------------
(* Instances of DebriefCall for TLC: one host, and a scheduled start, a manual *)
(* start, or both.                                                             *)
EXTENDS DebriefCall

CONSTANTS job, manual, h1

MCTask == Start \X Role
MCHostOf == [t \in Task |-> h1]
=============================================================================
