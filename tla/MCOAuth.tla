----------------------------- MODULE MCOAuth -----------------------------
(* An instance of OAuth for TLC: two invocations of one client's user agents. *)
EXTENDS OAuth, TLC

CONSTANTS h1, h2, u1, u2, v1, v2

Symmetric == Permutations({h1, h2}) \cup Permutations({u1, u2}) \cup Permutations({v1, v2})
=============================================================================
