------------------------------ MODULE OneCall ------------------------------
(***************************************************************************)
(* What the scheduled-call queue promises its callers, without leases,     *)
(* pollers or clocks: a requested call is attempted once; the attempt ends *)
(* as started or is surfaced as failed, and neither outcome is revised; a  *)
(* phone rings only for an attempted call and never twice.  The ring may   *)
(* come after the attempt was given up or its record cleared: a provider   *)
(* that is slower than the lease cannot be called back.                    *)
(***************************************************************************)
EXTENDS Naturals

CONSTANT Session

VARIABLES
  phase,  \* phase[s]: what is known of the call for session s
  rung    \* rung[s]: how often the phone rang

vars == <<phase, rung>>

Attempted == {"trying", "started", "failed", "cleared"}

Init ==
  /\ phase = [s \in Session |-> "none"]
  /\ rung = [s \in Session |-> 0]

Move(S, to) == phase' = [s \in Session |-> IF s \in S THEN to ELSE phase[s]]

Request(s) == phase[s] = "none" /\ Move({s}, "waiting") /\ UNCHANGED rung

Attempt(s) == phase[s] = "waiting" /\ Move({s}, "trying") /\ UNCHANGED rung

Ring(s) ==
  /\ phase[s] \in Attempted \ {"started"}
  /\ rung[s] = 0
  /\ rung' = [rung EXCEPT ![s] = 1]
  /\ UNCHANGED phase

Succeed(s) ==
  /\ phase[s] = "trying"
  /\ rung[s] = 1
  /\ Move({s}, "started")
  /\ UNCHANGED rung

\* Several stuck attempts may be surfaced at once.
Surface(S) ==
  /\ \A s \in S : phase[s] = "trying"
  /\ Move(S, "failed")
  /\ UNCHANGED rung

Clear(S) ==
  /\ \A s \in S : phase[s] # "none"
  /\ Move(S, "cleared")
  /\ UNCHANGED rung

Next ==
  \/ \E s \in Session : Request(s) \/ Attempt(s) \/ Ring(s) \/ Succeed(s)
  \/ \E S \in SUBSET Session : Surface(S) \/ Clear(S)

Spec == Init /\ [][Next]_vars
=============================================================================
