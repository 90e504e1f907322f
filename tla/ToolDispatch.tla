---------------------------- MODULE ToolDispatch ----------------------------
(***************************************************************************)
(* A tool call through the MCP router: the per-user rate limit (handler),  *)
(* then the SDK's dispatch pipeline with the router's dependencies         *)
(* (tool-dispatcher): grant, circuit breaker, daily cap, the kit's Lambda, *)
(* and the audit event.  After the Lambda answered, two recorders that     *)
(* nobody awaits read, change and write back the breaker's item and the    *)
(* day's count; the calls of one kit run in many processes.                *)
(*                                                                         *)
(* Any await may throw.  The authorization layer is AuthzCache, here a yes *)
(* or no.  Each member of Calls is used once.                              *)
(***************************************************************************)
EXTENDS Naturals, Sequences, FiniteSets

CONSTANTS
  Users, Kits, Calls,
  CIRCUIT_BREAKER_THRESHOLD,
  CIRCUIT_BREAKER_COOLDOWN,   \* in ticks, like DAY; the item's TTL is twice it
  DAILY_INVOCATION_CAP,
  RATE_LIMIT_MAX_REQUESTS,    \* per window, here a tick
  DAY,                        \* ticks of a day
  MaxTime,                    \* bound: the clock stops
  NoKit                       \* the kit of a tool the registry does not know

ASSUME ConstantsAssumption ==
  /\ CIRCUIT_BREAKER_THRESHOLD \in Nat \ {0} /\ CIRCUIT_BREAKER_COOLDOWN \in Nat \ {0}
  /\ DAILY_INVOCATION_CAP \in Nat \ {0} /\ RATE_LIMIT_MAX_REQUESTS \in Nat
  /\ DAY \in Nat \ {0} /\ MaxTime \in Nat \ {0}
  /\ NoKit \notin Kits
  /\ IsFiniteSet(Calls)

VARIABLES
  now,      \* the clock
  rate,     \* rate[u]: the counter item of the current window
  circuit,  \* circuit[k]: the breaker's item
  daily,    \* daily[u, k, d]: the day's count, 0 while there is no item
  pc,       \* pc[c]: where call c stands
  user, kit,
  result,   \* result[c]: the DispatchResult so far
  kitSaid,  \* kitSaid[c]: what became of the kit's Lambda, if it was invoked
  audits,   \* audits[c]: the outcomes the router's audit stream received
  bpc, bval,  \* the breaker's recorder of c, and the item it is to write
  dpc, dval   \* the daily recorder of c, with its day and the count to write

stores == <<now, rate, circuit, daily>>
recVars == <<bpc, bval, dpc, dval>>
vars == <<stores, pc, user, kit, result, kitSaid, audits, recVars>>

Today == now \div DAY
Days == {t \div DAY : t \in 0..MaxTime}

\* A missing item reads as no errors; an absent disabledUntil as 0.
NoItem == [errorCount |-> 0, disabledUntil |-> 0, ttl |-> 0]

\* The local values of a daily recorder that is not running.
NoCount == [day |-> 0, count |-> 0]

Init ==
  /\ now = 1
  /\ rate = [u \in Users |-> 0]
  /\ circuit = [k \in Kits |-> NoItem]
  /\ daily = [x \in Users \X Kits \X Days |-> 0]
  /\ pc = [c \in Calls |-> "new"]
  /\ user \in [Calls -> Users]
  /\ kit \in [Calls -> Kits \cup {NoKit}]
  /\ result = [c \in Calls |-> "none"]
  /\ kitSaid = [c \in Calls |-> "nothing"]
  /\ audits = [c \in Calls |-> <<>>]
  /\ bpc = [c \in Calls |-> "off"]
  /\ bval = [c \in Calls |-> NoItem]
  /\ dpc = [c \in Calls |-> "off"]
  /\ dval = [c \in Calls |-> NoCount]

-----------------------------------------------------------------------------
(* The call.                                                               *)

Move(c, from, to) == pc[c] = from /\ pc' = [pc EXCEPT ![c] = to] /\ UNCHANGED result

\* The call has its result: the pipeline goes on to the audit, a refusal in
\* front of the pipeline ends the call.
Conclude(c, from, r, to) ==
  /\ pc[c] = from
  /\ pc' = [pc EXCEPT ![c] = to]
  /\ result' = [result EXCEPT ![c] = r]

\* One atomic update of the counter; without an answer the request is refused.
CheckRateLimit(c) ==
  /\ \/ /\ rate' = [rate EXCEPT ![user[c]] = @ + 1]
        /\ \/ rate[user[c]] < RATE_LIMIT_MAX_REQUESTS /\ Move(c, "new", "resolve")
           \/ /\ rate[user[c]] >= RATE_LIMIT_MAX_REQUESTS
              /\ Conclude(c, "new", "rate_limited", "done")
     \/ Conclude(c, "new", "rate_limited", "done") /\ UNCHANGED rate
  /\ UNCHANGED <<now, circuit, daily, user, kit, kitSaid, audits, recVars>>

\* The registry and the grant.  getAllTools is awaited before the pipeline: if
\* it throws, the router answers 500 and nothing is dispatched.  A grant check
\* that throws denies.
ResolveAndGrant(c) ==
  /\ \/ Conclude(c, "resolve", "internal_error", "done")
     \/ kit[c] = NoKit /\ Conclude(c, "resolve", "unknown_tool", "audit")
     \/ kit[c] \in Kits /\ Conclude(c, "resolve", "missing_grant", "audit")
     \/ kit[c] \in Kits /\ Move(c, "resolve", "breaker")
  /\ UNCHANGED <<stores, user, kit, kitSaid, audits, recVars>>

Open(k) == now < circuit[k].disabledUntil

\* A closed breaker lets the call pass, and so does a read that fails.
CheckCircuitBreaker(c) ==
  /\ \/ Move(c, "breaker", "cap")
     \/ pc[c] = "breaker" /\ Open(kit[c]) /\ Conclude(c, "breaker", "breaker_open", "audit")
  /\ UNCHANGED <<stores, user, kit, kitSaid, audits, recVars>>

Counted(c) == daily[<<user[c], kit[c], Today>>]

\* A read that fails refuses the call.
CheckDailyCap(c) ==
  /\ pc[c] = "cap"
  /\ \/ Counted(c) < DAILY_INVOCATION_CAP /\ Move(c, "cap", "invoke")
     \/ Counted(c) >= DAILY_INVOCATION_CAP /\ Conclude(c, "cap", "cap_reached", "audit")
     \/ Conclude(c, "cap", "cap_unknown", "audit")
  /\ UNCHANGED <<stores, user, kit, kitSaid, audits, recVars>>

\* No database or no function for the kit, or the look-up or the Lambda call
\* throws, or the payload is empty or null: an error result, of which the
\* recorders hear nothing.
InvokeFails(c) ==
  /\ Conclude(c, "invoke", "provider_failure", "audit")
  /\ UNCHANGED <<stores, user, kit, kitSaid, audits, recVars>>

\* What the kit's handler does: it returns a result without isError or with it,
\* or it throws or runs out of time.
Answers == {"ok", "error", "crashed"}

\* invokeKitLambda passes on the payload and does not look at FunctionError: the
\* report of a crash has no isError and passes for a result.
Payload(said) == IF said = "crashed" THEN "ok" ELSE said

IsError(said) == Payload(said) = "error"

\* The Lambda answers, and both recorders start.
Invoke(c, said) ==
  /\ Conclude(c, "invoke", Payload(said), "audit")
  /\ kitSaid' = [kitSaid EXCEPT ![c] = said]
  /\ bpc' = [bpc EXCEPT ![c] = "read"]
  /\ dpc' = [dpc EXCEPT ![c] = "read"]
  /\ dval' = [dval EXCEPT ![c].day = Today]
  /\ UNCHANGED <<stores, user, kit, audits, bval>>

\* Mutant of Outcomes: the errors of the kit itself count as success.
OutcomesKitError(r) ==
  IF r \in {"ok", "error"} THEN {"success"}
  ELSE IF r \in {"missing_grant", "breaker_open", "cap_reached", "cap_unknown"}
  THEN {"denied"} ELSE {"failure"}

\* toDispatchAuditEvent: the breaker's and the cap's refusals are policy_denied,
\* and an errorCode that the kit has put into its error counts like the pipeline's.
Outcomes(r) ==
  CASE r = "ok" -> {"success"}
    [] r = "error" -> {"failure", "denied"}
    [] r \in {"missing_grant", "breaker_open", "cap_reached", "cap_unknown"} -> {"denied"}
    [] OTHER -> {"failure"}

\* The router's line is written before the sink is awaited; a sink that throws
\* changes nothing.
Audit(c) ==
  /\ Move(c, "audit", "done")
  /\ \E outcome \in Outcomes(result[c]) : audits' = [audits EXCEPT ![c] = Append(@, outcome)]
  /\ UNCHANGED <<stores, user, kit, kitSaid, recVars>>

-----------------------------------------------------------------------------
(* The recorders.                                                          *)

\* Mutant of AfterError: trips one error early.
AfterErrorEarly(i) ==
  [ errorCount |-> i.errorCount + 1,
    disabledUntil |-> IF i.errorCount + 2 >= CIRCUIT_BREAKER_THRESHOLD
                      THEN now + CIRCUIT_BREAKER_COOLDOWN ELSE i.disabledUntil,
    ttl |-> now + 2 * CIRCUIT_BREAKER_COOLDOWN ]

AfterError(i) ==
  [ errorCount |-> i.errorCount + 1,
    disabledUntil |-> IF i.errorCount + 1 >= CIRCUIT_BREAKER_THRESHOLD
                      THEN now + CIRCUIT_BREAKER_COOLDOWN ELSE i.disabledUntil,
    ttl |-> now + 2 * CIRCUIT_BREAKER_COOLDOWN ]

\* Mutant of AfterSuccess: drops the count instead of resetting it.
AfterSuccessBare == [disabledUntil |-> 0, ttl |-> now + 2 * CIRCUIT_BREAKER_COOLDOWN]

AfterSuccess == [NoItem EXCEPT !.ttl = now + 2 * CIRCUIT_BREAKER_COOLDOWN]

ReadCircuit(c) ==
  /\ bpc[c] = "read"
  /\ bpc' = [bpc EXCEPT ![c] = "put"]
  /\ bval' = [bval EXCEPT ![c] =
                IF IsError(kitSaid[c]) THEN AfterError(circuit[kit[c]]) ELSE AfterSuccess]
  /\ UNCHANGED <<stores, pc, user, kit, result, kitSaid, audits, dpc, dval>>

PutCircuit(c) ==
  /\ bpc[c] = "put"
  /\ circuit' = [circuit EXCEPT ![kit[c]] = bval[c]]
  /\ bpc' = [bpc EXCEPT ![c] = "off"]
  /\ bval' = [bval EXCEPT ![c] = NoItem]
  /\ UNCHANGED <<now, rate, daily, pc, user, kit, result, kitSaid, audits, dpc, dval>>

\* Mutant of NextCount: counts every call twice.
NextCountTwice(n) == n + 2

NextCount(n) == n + 1

ReadDaily(c) ==
  /\ dpc[c] = "read"
  /\ dpc' = [dpc EXCEPT ![c] = "put"]
  /\ dval' = [dval EXCEPT ![c].count = NextCount(daily[<<user[c], kit[c], dval[c].day>>])]
  /\ UNCHANGED <<stores, pc, user, kit, result, kitSaid, audits, bpc, bval>>

PutDaily(c) ==
  /\ dpc[c] = "put"
  /\ daily' = [daily EXCEPT ![<<user[c], kit[c], dval[c].day>>] = dval[c].count]
  /\ dpc' = [dpc EXCEPT ![c] = "off"]
  /\ dval' = [dval EXCEPT ![c] = NoCount]
  /\ UNCHANGED <<now, rate, circuit, pc, user, kit, result, kitSaid, audits, bpc, bval>>

\* A recorder's read or write fails: it logs and ends.
RecorderFails(c) ==
  /\ \/ /\ bpc[c] # "off"
        /\ bpc' = [bpc EXCEPT ![c] = "off"]
        /\ bval' = [bval EXCEPT ![c] = NoItem]
        /\ UNCHANGED <<dpc, dval>>
     \/ /\ dpc[c] # "off"
        /\ dpc' = [dpc EXCEPT ![c] = "off"]
        /\ dval' = [dval EXCEPT ![c] = NoCount]
        /\ UNCHANGED <<bpc, bval>>
  /\ UNCHANGED <<stores, pc, user, kit, result, kitSaid, audits>>

\* Time passes: a new rate window begins.
Tick ==
  /\ now < MaxTime
  /\ now' = now + 1
  /\ rate' = [u \in Users |-> 0]
  /\ UNCHANGED <<circuit, daily, pc, user, kit, result, kitSaid, audits, recVars>>

\* The table drops an item past its TTL.
ItemExpires(k) ==
  /\ circuit[k] # NoItem /\ circuit[k].ttl <= now
  /\ circuit' = [circuit EXCEPT ![k] = NoItem]
  /\ UNCHANGED <<now, rate, daily, pc, user, kit, result, kitSaid, audits, recVars>>

CallStep(c) ==
  \/ CheckRateLimit(c) \/ ResolveAndGrant(c) \/ CheckCircuitBreaker(c)
  \/ CheckDailyCap(c) \/ InvokeFails(c) \/ Audit(c)
  \/ \E said \in Answers : Invoke(c, said)

RecorderStep(c) ==
  ReadCircuit(c) \/ PutCircuit(c) \/ ReadDaily(c) \/ PutDaily(c) \/ RecorderFails(c)

Next ==
  \/ \E c \in Calls : CallStep(c) \/ RecorderStep(c)
  \/ Tick
  \/ \E k \in Kits : ItemExpires(k)

Spec == Init /\ [][Next]_vars

-----------------------------------------------------------------------------
Results ==
  { "none", "ok", "error", "rate_limited", "internal_error", "unknown_tool",
    "missing_grant", "breaker_open", "cap_reached", "cap_unknown", "provider_failure" }

Items == [errorCount : Nat, disabledUntil : Nat, ttl : Nat]

(* Type correctness of the items, the calls and the recorders.             *)
TypeOK ==
  /\ now \in Nat
  /\ rate \in [Users -> Nat]
  /\ circuit \in [Kits -> Items]
  /\ daily \in [Users \X Kits \X Days -> Nat]
  /\ pc \in [Calls -> {"new", "resolve", "breaker", "cap", "invoke", "audit", "done"}]
  /\ user \in [Calls -> Users]
  /\ kit \in [Calls -> Kits \cup {NoKit}]
  /\ result \in [Calls -> Results]
  /\ kitSaid \in [Calls -> {"nothing"} \cup Answers]
  /\ audits \in [Calls -> Seq({"success", "failure", "denied"})]
  /\ bpc \in [Calls -> {"off", "read", "put"}]
  /\ bval \in [Calls -> Items]
  /\ dpc \in [Calls -> {"off", "read", "put"}]
  /\ dval \in [Calls -> [day : Nat, count : Nat]]

(***************************************************************************)
(* tool-dispatcher 64-91: a call is refused for the day's limit only if    *)
(* the kit has answered that many calls of the user: recorders that        *)
(* overlap or fail lose counts and never invent one.                       *)
(***************************************************************************)
CapEarned ==
  \A c \in Calls : result[c] = "cap_reached" =>
    Cardinality({d \in Calls : user[d] = user[c] /\ kit[d] = kit[c] /\ kitSaid[d] # "nothing"})
      >= DAILY_INVOCATION_CAP

(***************************************************************************)
(* tool-dispatcher 22-62: the breaker refuses a call only after the kit    *)
(* has returned as many errors as the threshold says, to any user, however *)
(* the recorders interleave, fail, or write what they read long ago over   *)
(* what others wrote.  A crash of the kit is no error in this count.       *)
(***************************************************************************)
BreakerEarned ==
  \A c \in Calls : result[c] = "breaker_open" =>
    Cardinality({d \in Calls : kit[d] = kit[c] /\ kitSaid[d] = "error"})
      >= CIRCUIT_BREAKER_THRESHOLD

(***************************************************************************)
(* dispatch 142-251: every dispatched call is audited once, whichever      *)
(* await threw.  It is audited as a success exactly if the kit was invoked *)
(* and returned no error, or crashed, which the router cannot tell; and as *)
(* denied only if the kit was not invoked or has itself returned an error. *)
(***************************************************************************)
AuditedAsAnswered ==
  \A c \in Calls :
    pc[c] = "done" /\ result[c] \notin {"rate_limited", "internal_error"} =>
      /\ Len(audits[c]) = 1
      /\ audits[c][1] = "success" <=> kitSaid[c] \in {"ok", "crashed"}
      /\ audits[c][1] = "denied" => kitSaid[c] \in {"nothing", "error"}
=============================================================================
