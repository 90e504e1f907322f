------------------------- MODULE ToolDispatchProofs -------------------------
(* Proofs about ToolDispatch for every set of users, kits and calls and every *)
(* threshold, cooldown and cap.  The stored counts lag behind the answers:    *)
(* the inductive invariant relates each to the recorders that have ended.     *)
EXTENDS ToolDispatch, FiniteSetTheorems, TLAPS

Before == {"new", "resolve", "breaker", "cap", "invoke"}

\* Where a call stands tells what it has: nothing before the kit is invoked; afterwards a
\* result that is the kit's answer or stands for none.
Flow ==
  \A c \in Calls :
    /\ pc[c] \in Before => kitSaid[c] = "nothing" /\ result[c] = "none"
    /\ pc[c] \in Before \cup {"audit"} => audits[c] = <<>>
    /\ pc[c] \in {"breaker", "cap", "invoke"} => kit[c] \in Kits
    /\ kitSaid[c] # "nothing" => kit[c] \in Kits
    /\ kitSaid[c] = "nothing" => bpc[c] = "off" /\ dpc[c] = "off"
    /\ result[c] \in {"ok", "error"} => kitSaid[c] \in Answers /\ result[c] = Payload(kitSaid[c])
    /\ result[c] \notin {"ok", "error"} => kitSaid[c] = "nothing"
    /\ pc[c] = "done" /\ result[c] \notin {"rate_limited", "internal_error"} =>
         \E outcome \in Outcomes(result[c]) : audits[c] = <<outcome>>

\* Calls the kit answered, and those of them whose daily recorder has ended.
Answered(u, k) == {d \in Calls : user[d] = u /\ kit[d] = k /\ kitSaid[d] # "nothing"}
Recorded(u, k) == {d \in Answered(u, k) : dpc[d] = "off"}

\* Calls the kit answered with an error, and those whose breaker recorder has ended.
Errors(k) == {d \in Calls : kit[d] = k /\ kitSaid[d] = "error"}
ErrorsRecorded(k) == {d \in Errors(k) : bpc[d] = "off"}

\* A day's count is at most the recorders that ended; one being written may be one more.
DailyCounts ==
  /\ \A u \in Users, k \in Kits, d \in Days : daily[<<u, k, d>>] <= Cardinality(Recorded(u, k))
  /\ \A c \in Calls : dpc[c] # "off" => dval[c].day \in Days
  /\ \A c \in Calls : dpc[c] = "put" =>
       dval[c].count <= Cardinality(Recorded(user[c], kit[c])) + 1

\* A breaker that was tripped has its errors.
Earned(k) == Cardinality(Errors(k)) >= CIRCUIT_BREAKER_THRESHOLD

\* The breaker's count likewise; a success writes none.
BreakerCounts ==
  /\ \A k \in Kits : /\ circuit[k].errorCount <= Cardinality(ErrorsRecorded(k))
                     /\ circuit[k].disabledUntil > 0 => Earned(k)
  /\ \A c \in Calls : bpc[c] = "put" =>
       /\ bval[c].errorCount <= Cardinality(ErrorsRecorded(kit[c])) + 1
       /\ kitSaid[c] # "error" => bval[c].errorCount = 0
       /\ bval[c].disabledUntil > 0 => Earned(kit[c])

IInv ==
  /\ TypeOK /\ now \in 0..MaxTime
  /\ Flow /\ DailyCounts /\ BreakerCounts /\ CapEarned /\ BreakerEarned

-----------------------------------------------------------------------------
\* The four sets are finite, and what is recorded was answered.
LEMMA Sets ==
  ASSUME NEW u, NEW k
  PROVE  /\ IsFiniteSet(Answered(u, k)) /\ IsFiniteSet(Recorded(u, k))
         /\ IsFiniteSet(Errors(k)) /\ IsFiniteSet(ErrorsRecorded(k))
         /\ Cardinality(Answered(u, k)) \in Nat /\ Cardinality(Recorded(u, k)) \in Nat
         /\ Cardinality(Errors(k)) \in Nat /\ Cardinality(ErrorsRecorded(k)) \in Nat
         /\ Cardinality(Recorded(u, k)) <= Cardinality(Answered(u, k))
<1>1. /\ Answered(u, k) \in SUBSET Calls /\ Recorded(u, k) \in SUBSET Answered(u, k)
      /\ Errors(k) \in SUBSET Calls /\ ErrorsRecorded(k) \in SUBSET Errors(k)
  BY DEF Answered, Recorded, Errors, ErrorsRecorded
<1>2. IsFiniteSet(Answered(u, k)) /\ IsFiniteSet(Errors(k))
  BY <1>1, FS_Subset, ConstantsAssumption
<1> QED
  BY <1>1, <1>2, FS_Subset, FS_CardinalityType

\* Steps that take nothing back: answers stay, and a recorder that ended stays ended.
Grows ==
  /\ user' = user /\ kit' = kit
  /\ \A c \in Calls : kitSaid[c] # "nothing" => kitSaid'[c] = kitSaid[c]
  /\ \A c \in Calls : kitSaid[c] # "nothing" /\ dpc[c] = "off" => dpc'[c] = "off"
  /\ \A c \in Calls : kitSaid[c] # "nothing" /\ bpc[c] = "off" => bpc'[c] = "off"

LEMMA Growth ==
  ASSUME Grows, NEW u, NEW k
  PROVE  /\ Cardinality(Answered(u, k)) <= Cardinality(Answered(u, k)')
         /\ Cardinality(Recorded(u, k)) <= Cardinality(Recorded(u, k)')
         /\ Cardinality(Errors(k)) <= Cardinality(Errors(k)')
         /\ Cardinality(ErrorsRecorded(k)) <= Cardinality(ErrorsRecorded(k)')
         /\ Cardinality(Answered(u, k)') \in Nat /\ Cardinality(Recorded(u, k)') \in Nat
         /\ Cardinality(Errors(k)') \in Nat /\ Cardinality(ErrorsRecorded(k)') \in Nat
<1>1. /\ Answered(u, k) \in SUBSET (Answered(u, k)') /\ Recorded(u, k) \in SUBSET (Recorded(u, k)')
      /\ Errors(k) \in SUBSET (Errors(k)')
      /\ ErrorsRecorded(k) \in SUBSET (ErrorsRecorded(k)')
  BY DEF Grows, Answered, Recorded, Errors, ErrorsRecorded
<1>2. /\ Answered(u, k)' \in SUBSET Calls /\ Recorded(u, k)' \in SUBSET Calls
      /\ Errors(k)' \in SUBSET Calls /\ ErrorsRecorded(k)' \in SUBSET Calls
  BY DEF Answered, Recorded, Errors, ErrorsRecorded
<1>3. /\ IsFiniteSet(Answered(u, k)') /\ IsFiniteSet(Recorded(u, k)')
      /\ IsFiniteSet(Errors(k)') /\ IsFiniteSet(ErrorsRecorded(k)')
  BY <1>2, FS_Subset, ConstantsAssumption
<1> QED
  BY <1>1, <1>3, FS_Subset, FS_CardinalityType

\* A refusal that was earned stays earned, and a new one must be earned.
LEMMA Verdicts ==
  ASSUME IInv, Grows,
         \A c \in Calls : result'[c] = "cap_reached" =>
           \/ result[c] = "cap_reached"
           \/ Cardinality(Answered(user[c], kit[c])) >= DAILY_INVOCATION_CAP,
         \A c \in Calls : result'[c] = "breaker_open" => result[c] = "breaker_open" \/ Earned(kit[c])
  PROVE  CapEarned' /\ BreakerEarned'
<1>1. ASSUME NEW c \in Calls, result'[c] = "cap_reached"
      PROVE  Cardinality(Answered(user[c], kit[c])') >= DAILY_INVOCATION_CAP
  <2> DEFINE u == user[c]
             k == kit[c]
  <2>1. Cardinality(Answered(u, k)) >= DAILY_INVOCATION_CAP
    BY <1>1 DEF IInv, CapEarned, Answered
  <2>2. user'[c] = u /\ kit'[c] = k
    BY DEF Grows
  <2> HIDE DEF u, k
  <2>3. ASSUME NEW v, NEW m, v = u, m = k
        PROVE  Cardinality(Answered(v, m)') >= DAILY_INVOCATION_CAP
    BY <2>1, <2>3, Growth, Sets, ConstantsAssumption
  <2> QED
    BY <2>2, <2>3
<1>2. ASSUME NEW c \in Calls, result'[c] = "breaker_open"
      PROVE  Cardinality(Errors(kit[c])') >= CIRCUIT_BREAKER_THRESHOLD
  <2> DEFINE k == kit[c]
  <2>1. Cardinality(Errors(k)) >= CIRCUIT_BREAKER_THRESHOLD
    BY <1>2 DEF IInv, BreakerEarned, Errors, Earned
  <2>2. kit'[c] = k
    BY DEF Grows
  <2> HIDE DEF k
  <2>3. ASSUME NEW m, m = k PROVE Cardinality(Errors(m)') >= CIRCUIT_BREAKER_THRESHOLD
    BY <2>1, <2>3, Growth, Sets, ConstantsAssumption
  <2> QED
    BY <2>2, <2>3
<1> QED
  BY <1>1, <1>2 DEF CapEarned, BreakerEarned, Answered, Errors

-----------------------------------------------------------------------------
\* Steps that touch neither the answers nor the recorders nor what these write.
Passes == UNCHANGED <<circuit, daily, user, kit, kitSaid, recVars>>

LEMMA PassesKeeps ==
  ASSUME IInv, Passes
  PROVE  DailyCounts' /\ BreakerCounts' /\ Grows
<1>1. /\ circuit' = circuit /\ daily' = daily /\ user' = user /\ kit' = kit /\ kitSaid' = kitSaid
      /\ bpc' = bpc /\ bval' = bval /\ dpc' = dpc /\ dval' = dval
  BY DEF Passes, recVars
<1>2. \A u, k : Recorded(u, k)' = Recorded(u, k)
  BY <1>1 DEF Recorded, Answered
<1>3. \A k : ErrorsRecorded(k)' = ErrorsRecorded(k) /\ (Earned(k)' <=> Earned(k))
  BY <1>1 DEF ErrorsRecorded, Errors, Earned
<1>4. DailyCounts'
  BY <1>1, <1>2 DEF IInv, DailyCounts
<1>5. BreakerCounts'
  BY <1>1, <1>3 DEF IInv, BreakerCounts
<1> QED
  BY <1>1, <1>4, <1>5 DEF Grows

\* A call that goes on without a result.
LEMMA MoveKeeps ==
  ASSUME IInv, NEW c \in Calls, NEW from \in Before, NEW to \in Before, Move(c, from, to),
         to \in {"breaker", "cap", "invoke"} => kit[c] \in Kits,
         Passes, audits' = audits, now' = now, rate' \in [Users -> Nat]
  PROVE  IInv'
<1>1. /\ user' = user /\ kit' = kit /\ kitSaid' = kitSaid /\ circuit' = circuit /\ daily' = daily
      /\ bpc' = bpc /\ bval' = bval /\ dpc' = dpc /\ dval' = dval /\ result' = result
      /\ pc' = [pc EXCEPT ![c] = to] /\ pc[c] = from
  BY DEF Passes, recVars, Move
<1>2. TypeOK' /\ now' \in 0..MaxTime
  BY <1>1 DEF IInv, TypeOK, Before
<1>3. Flow'
  BY <1>1 DEF IInv, TypeOK, Flow, Before
<1>4. CapEarned' /\ BreakerEarned'
  BY <1>1, PassesKeeps, Verdicts
<1> QED
  BY <1>2, <1>3, <1>4, PassesKeeps DEF IInv

\* A call that is refused or fails, before any answer of the kit.
LEMMA RefusedKeeps ==
  ASSUME IInv, NEW c \in Calls, NEW from \in Before, NEW r \in Results \ {"ok", "error"},
         NEW to \in {"audit", "done"}, Conclude(c, from, r, to),
         to = "done" => r \in {"rate_limited", "internal_error"},
         r = "cap_reached" => Cardinality(Answered(user[c], kit[c])) >= DAILY_INVOCATION_CAP,
         r = "breaker_open" => Earned(kit[c]),
         Passes, audits' = audits, now' = now, rate' \in [Users -> Nat]
  PROVE  IInv'
<1>1. /\ user' = user /\ kit' = kit /\ kitSaid' = kitSaid /\ circuit' = circuit /\ daily' = daily
      /\ bpc' = bpc /\ bval' = bval /\ dpc' = dpc /\ dval' = dval
      /\ pc' = [pc EXCEPT ![c] = to] /\ result' = [result EXCEPT ![c] = r] /\ pc[c] = from
  BY DEF Passes, recVars, Conclude
<1>2. TypeOK' /\ now' \in 0..MaxTime
  BY <1>1 DEF IInv, TypeOK
<1>3. Flow'
  <2>1. /\ pc'[c] = to /\ result'[c] = r
        /\ \A d \in Calls \ {c} : pc'[d] = pc[d] /\ result'[d] = result[d]
    BY <1>1 DEF IInv, TypeOK
  <2> QED
    BY <1>1, <2>1 DEF IInv, Flow, Before
<1>4. CapEarned' /\ BreakerEarned'
  <2>1. result'[c] = r /\ \A d \in Calls \ {c} : result'[d] = result[d]
    BY <1>1 DEF IInv, TypeOK
  <2> QED
    BY <2>1, PassesKeeps, Verdicts
<1> QED
  BY <1>2, <1>3, <1>4, PassesKeeps DEF IInv

LEMMA CallSteps ==
  ASSUME IInv, NEW c \in Calls,
         \/ CheckRateLimit(c) \/ ResolveAndGrant(c) \/ CheckCircuitBreaker(c)
         \/ CheckDailyCap(c) \/ InvokeFails(c)
  PROVE  IInv'
<1>1. CASE CheckRateLimit(c)
  <2>1. Passes /\ audits' = audits /\ now' = now
    BY <1>1 DEF CheckRateLimit, Passes
  <2>2. rate' \in [Users -> Nat]
    <3>1. rate \in [Users -> Nat]
      BY DEF IInv, TypeOK
    <3> QED
      BY <1>1, <3>1 DEF CheckRateLimit, Conclude
  <2>3. Move(c, "new", "resolve") \/ Conclude(c, "new", "rate_limited", "done")
    BY <1>1 DEF CheckRateLimit
  <2>4. CASE Move(c, "new", "resolve")
    BY <2>1, <2>2, <2>4, MoveKeeps DEF Before
  <2>5. CASE Conclude(c, "new", "rate_limited", "done")
    BY <2>1, <2>2, <2>5, RefusedKeeps DEF Before, Results
  <2> QED
    BY <2>3, <2>4, <2>5
<1>2. CASE ResolveAndGrant(c)
  <2>1. Passes /\ audits' = audits /\ now' = now /\ rate' \in [Users -> Nat]
    BY <1>2 DEF ResolveAndGrant, Passes, stores, IInv, TypeOK
  <2>2. \/ Conclude(c, "resolve", "internal_error", "done")
        \/ Conclude(c, "resolve", "unknown_tool", "audit")
        \/ Conclude(c, "resolve", "missing_grant", "audit")
        \/ kit[c] \in Kits /\ Move(c, "resolve", "breaker")
    BY <1>2 DEF ResolveAndGrant
  <2>3. CASE Conclude(c, "resolve", "internal_error", "done")
    BY <2>1, <2>3, RefusedKeeps DEF Before, Results
  <2>4. CASE Conclude(c, "resolve", "unknown_tool", "audit")
    BY <2>1, <2>4, RefusedKeeps DEF Before, Results
  <2>5. CASE Conclude(c, "resolve", "missing_grant", "audit")
    BY <2>1, <2>5, RefusedKeeps DEF Before, Results
  <2>6. CASE kit[c] \in Kits /\ Move(c, "resolve", "breaker")
    BY <2>1, <2>6, MoveKeeps DEF Before
  <2> QED
    BY <2>2, <2>3, <2>4, <2>5, <2>6
<1>3. CASE CheckCircuitBreaker(c)
  <2>1. Passes /\ audits' = audits /\ now' = now /\ rate' \in [Users -> Nat]
    BY <1>3 DEF CheckCircuitBreaker, Passes, stores, IInv, TypeOK
  <2>2. pc[c] = "breaker" /\ kit[c] \in Kits
    BY <1>3 DEF CheckCircuitBreaker, Move, IInv, Flow
  <2>3. CASE Move(c, "breaker", "cap")
    BY <2>1, <2>2, <2>3, MoveKeeps DEF Before
  <2>4. CASE Open(kit[c]) /\ Conclude(c, "breaker", "breaker_open", "audit")
    <3>1. circuit[kit[c]].disabledUntil > 0
      BY <2>2, <2>4 DEF Open, IInv, TypeOK, Items
    <3>2. Earned(kit[c])
      BY <2>2, <3>1 DEF IInv, BreakerCounts
    <3> QED
      BY <2>1, <2>4, <3>2, RefusedKeeps DEF Before, Results
  <2> QED
    BY <1>3, <2>3, <2>4 DEF CheckCircuitBreaker
<1>4. CASE CheckDailyCap(c)
  <2>1. Passes /\ audits' = audits /\ now' = now /\ rate' \in [Users -> Nat]
    BY <1>4 DEF CheckDailyCap, Passes, stores, IInv, TypeOK
  <2>2. pc[c] = "cap" /\ kit[c] \in Kits /\ user[c] \in Users
    BY <1>4 DEF CheckDailyCap, IInv, Flow, TypeOK
  <2>3. CASE Move(c, "cap", "invoke")
    BY <2>1, <2>2, <2>3, MoveKeeps DEF Before
  <2>4. CASE Counted(c) >= DAILY_INVOCATION_CAP /\ Conclude(c, "cap", "cap_reached", "audit")
    <3>1. Today \in Days
      BY DEF IInv, Today, Days
    <3>2. Counted(c) <= Cardinality(Recorded(user[c], kit[c])) /\ Counted(c) \in Nat
      BY <2>2, <3>1 DEF IInv, DailyCounts, Counted, TypeOK
    <3>3. Cardinality(Answered(user[c], kit[c])) >= DAILY_INVOCATION_CAP
      BY <2>4, <3>2, Sets, ConstantsAssumption
    <3> QED
      BY <2>1, <2>4, <3>3, RefusedKeeps DEF Before, Results
  <2>5. CASE Conclude(c, "cap", "cap_unknown", "audit")
    BY <2>1, <2>5, RefusedKeeps DEF Before, Results
  <2> QED
    BY <1>4, <2>3, <2>4, <2>5 DEF CheckDailyCap
<1>5. CASE InvokeFails(c)
  <2>1. Passes /\ audits' = audits /\ now' = now /\ rate' \in [Users -> Nat]
    BY <1>5 DEF InvokeFails, Passes, stores, IInv, TypeOK
  <2> QED
    BY <1>5, <2>1, RefusedKeeps DEF InvokeFails, Before, Results
<1> QED
  BY <1>1, <1>2, <1>3, <1>4, <1>5

\* The kit answers: the call counts nowhere before its recorders have ended.
LEMMA InvokeKeeps ==
  ASSUME IInv, NEW c \in Calls, NEW said \in Answers, Invoke(c, said)
  PROVE  IInv'
<1>1. /\ pc[c] = "invoke" /\ kitSaid[c] = "nothing" /\ kit[c] \in Kits
      /\ bpc[c] = "off" /\ dpc[c] = "off" /\ audits[c] = <<>>
  BY DEF Invoke, Conclude, IInv, Flow, Before
<1>2. /\ pc' = [pc EXCEPT ![c] = "audit"] /\ result' = [result EXCEPT ![c] = Payload(said)]
      /\ kitSaid' = [kitSaid EXCEPT ![c] = said] /\ bpc' = [bpc EXCEPT ![c] = "read"]
      /\ dpc' = [dpc EXCEPT ![c] = "read"] /\ dval' = [dval EXCEPT ![c].day = Today]
      /\ now' = now /\ rate' = rate /\ circuit' = circuit /\ daily' = daily
      /\ user' = user /\ kit' = kit /\ audits' = audits /\ bval' = bval
  BY DEF Invoke, Conclude, stores
<1>3. /\ pc'[c] = "audit" /\ result'[c] = Payload(said) /\ kitSaid'[c] = said
      /\ bpc'[c] = "read" /\ dpc'[c] = "read"
      /\ \A d \in Calls \ {c} :
           /\ pc'[d] = pc[d] /\ result'[d] = result[d] /\ kitSaid'[d] = kitSaid[d]
           /\ bpc'[d] = bpc[d] /\ dpc'[d] = dpc[d] /\ dval'[d] = dval[d]
  BY <1>2 DEF IInv, TypeOK
<1>4. Today \in Days /\ Today \in Nat
  <2>1. now \in 0..MaxTime /\ now \in Nat /\ DAY \in Nat \ {0}
    BY ConstantsAssumption DEF IInv
  <2>2. now \div DAY \in Nat
    BY <2>1
  <2> QED
    BY <2>1, <2>2 DEF Today, Days
<1>5. dval'[c] = [dval[c] EXCEPT !.day = Today] /\ dval[c] \in [day : Nat, count : Nat]
  BY <1>2 DEF IInv, TypeOK
<1>6. dval'[c] \in [day : Nat, count : Nat] /\ dval'[c].day = Today
  BY <1>4, <1>5
<1>7. TypeOK' /\ now' \in 0..MaxTime
  <2>1. dval' \in [Calls -> [day : Nat, count : Nat]]
    BY <1>2, <1>3, <1>6 DEF IInv, TypeOK
  <2> QED
    BY <1>2, <2>1 DEF IInv, TypeOK, Results, Payload, Answers
<1>8. Flow'
  <2>1. said # "nothing" /\ Payload(said) \in {"ok", "error"}
    BY DEF Answers, Payload
  <2> QED
    BY <1>1, <1>2, <1>3, <2>1 DEF IInv, Flow, Before
<1>9. Grows
  BY <1>1, <1>2, <1>3 DEF Grows
<1>10. /\ \A u, k : Recorded(u, k)' = Recorded(u, k)
       /\ \A k : ErrorsRecorded(k)' = ErrorsRecorded(k)
  BY <1>1, <1>2, <1>3 DEF Recorded, Answered, ErrorsRecorded, Errors
<1>11. \A k : Earned(k) => Earned(k)'
  BY <1>9, Growth, Sets, ConstantsAssumption DEF Earned
<1>12. DailyCounts'
  BY <1>2, <1>3, <1>4, <1>6, <1>10 DEF IInv, DailyCounts
<1>13. BreakerCounts'
  BY <1>2, <1>3, <1>10, <1>11 DEF IInv, BreakerCounts
<1>14. CapEarned' /\ BreakerEarned'
  <2>1. Payload(said) \in {"ok", "error"}
    BY DEF Answers, Payload
  <2> QED
    BY <1>3, <1>9, <2>1, Verdicts
<1> QED
  BY <1>7, <1>8, <1>12, <1>13, <1>14 DEF IInv

LEMMA AuditKeeps ==
  ASSUME IInv, NEW c \in Calls, Audit(c)
  PROVE  IInv'
<1>0. PICK outcome \in Outcomes(result[c]) : audits' = [audits EXCEPT ![c] = Append(@, outcome)]
  BY DEF Audit
<1>1. /\ Passes /\ now' = now /\ rate' = rate /\ result' = result /\ pc[c] = "audit"
      /\ pc' = [pc EXCEPT ![c] = "done"]
  BY DEF Audit, Move, Passes, stores
<1>2. /\ circuit' = circuit /\ daily' = daily /\ user' = user /\ kit' = kit
      /\ kitSaid' = kitSaid /\ bpc' = bpc /\ bval' = bval /\ dpc' = dpc /\ dval' = dval
  BY <1>1 DEF Passes, recVars
<1>3. outcome \in {"success", "failure", "denied"}
  BY <1>0 DEF Outcomes
<1>4. /\ pc'[c] = "done" /\ audits'[c] = <<outcome>>
      /\ \A d \in Calls \ {c} : pc'[d] = pc[d] /\ audits'[d] = audits[d]
  <2>1. audits[c] = <<>>
    BY <1>1 DEF IInv, Flow
  <2>2. /\ pc'[c] = "done" /\ audits'[c] = Append(<<>>, outcome)
        /\ \A d \in Calls \ {c} : pc'[d] = pc[d] /\ audits'[d] = audits[d]
    BY <1>0, <1>1, <2>1 DEF IInv, TypeOK
  <2>3. \A x : Append(<<>>, x) = <<x>>
    OBVIOUS
  <2> QED
    BY <2>2, <2>3
<1>5. TypeOK' /\ now' \in 0..MaxTime
  <2>1. audits' \in [Calls -> Seq({"success", "failure", "denied"})]
    BY <1>0, <1>3 DEF IInv, TypeOK
  <2> QED
    BY <1>1, <1>2, <2>1 DEF IInv, TypeOK
<1>6. Flow'
  BY <1>0, <1>1, <1>2, <1>4 DEF IInv, Flow, Before
<1>7. CapEarned' /\ BreakerEarned'
  BY <1>1, PassesKeeps, Verdicts
<1> QED
  BY <1>1, <1>5, <1>6, <1>7, PassesKeeps DEF IInv

-----------------------------------------------------------------------------
\* Steps of the recorders and of the table: the calls do not notice.
Records ==
  /\ UNCHANGED <<rate, pc, user, kit, result, kitSaid, audits>>
  /\ now' \in 0..MaxTime
  /\ \A c \in Calls : (bpc[c] = "off" => bpc'[c] = "off") /\ (dpc[c] = "off" => dpc'[c] = "off")

LEMMA RecordsKeeps ==
  ASSUME IInv, Records
  PROVE  /\ Grows /\ Flow' /\ CapEarned' /\ BreakerEarned'
         /\ \A k : Earned(k) => Earned(k)'
<1>1. Grows
  BY DEF Grows, Records
<1>2. Flow'
  BY DEF IInv, Flow, Records
<1>3. \A k : Earned(k) => Earned(k)'
  BY <1>1, Growth, Sets, ConstantsAssumption DEF Earned
<1>4. CapEarned' /\ BreakerEarned'
  BY <1>1, Verdicts DEF Records
<1> QED
  BY <1>1, <1>2, <1>3, <1>4

\* Steps that leave the daily counts alone, or the breaker's.
LEMMA DailyUntouched ==
  ASSUME IInv, Records, UNCHANGED <<daily, dpc, dval>>
  PROVE  DailyCounts'
<1>1. \A u, k : Recorded(u, k)' = Recorded(u, k)
  BY DEF Records, Recorded, Answered
<1> QED
  BY <1>1 DEF IInv, DailyCounts, Records

LEMMA BreakerUntouched ==
  ASSUME IInv, Records, UNCHANGED <<circuit, bpc, bval>>
  PROVE  BreakerCounts'
<1>1. \A k : ErrorsRecorded(k)' = ErrorsRecorded(k)
  BY DEF Records, ErrorsRecorded, Errors
<1> QED
  BY <1>1, RecordsKeeps DEF IInv, BreakerCounts, Records

LEMMA ReadCircuitKeeps ==
  ASSUME IInv, NEW c \in Calls, ReadCircuit(c)
  PROVE  IInv'
<1> DEFINE new == IF kitSaid[c] = "error" THEN AfterError(circuit[kit[c]]) ELSE AfterSuccess
           i == circuit[kit[c]]
<1>1. /\ bpc[c] = "read" /\ kitSaid[c] # "nothing" /\ kit[c] \in Kits
      /\ i.errorCount \in Nat /\ i.disabledUntil \in Nat /\ now \in Nat
  BY DEF ReadCircuit, IInv, Flow, TypeOK, Items
<1>2. /\ bpc' = [bpc EXCEPT ![c] = "put"] /\ bval' = [bval EXCEPT ![c] = new]
      /\ now' = now /\ rate' = rate /\ circuit' = circuit /\ daily' = daily /\ pc' = pc
      /\ user' = user /\ kit' = kit /\ result' = result /\ kitSaid' = kitSaid
      /\ audits' = audits /\ dpc' = dpc /\ dval' = dval
  <2>1. IsError(kitSaid[c]) <=> kitSaid[c] = "error"
    BY DEF IsError, Payload
  <2> QED
    BY <2>1 DEF ReadCircuit, stores
<1>3. /\ bpc'[c] = "put" /\ bval'[c] = new
      /\ \A d \in Calls \ {c} : bpc'[d] = bpc[d] /\ bval'[d] = bval[d]
  BY <1>2 DEF IInv, TypeOK
<1>4. Records
  BY <1>1, <1>2, <1>3 DEF Records, IInv
<1>5. \A k : ErrorsRecorded(k)' = ErrorsRecorded(k)
  BY <1>1, <1>2, <1>3 DEF ErrorsRecorded, Errors
<1>6. Cardinality(ErrorsRecorded(kit[c])) \in Nat /\ i.errorCount <= Cardinality(ErrorsRecorded(kit[c]))
  BY <1>1, Sets DEF IInv, BreakerCounts
<1>7. /\ new \in Items
      /\ new.errorCount <= Cardinality(ErrorsRecorded(kit[c])) + 1
      /\ kitSaid[c] # "error" => new.errorCount = 0
      /\ new.disabledUntil > 0 => Earned(kit[c])
  <2>1. CASE kitSaid[c] = "error"
    <3>1. /\ new \in Items /\ new.errorCount = i.errorCount + 1
          /\ new.disabledUntil > 0 =>
               i.errorCount + 1 >= CIRCUIT_BREAKER_THRESHOLD \/ i.disabledUntil > 0
      BY <2>1, <1>1, ConstantsAssumption DEF AfterError, Items
    <3>2. CASE i.disabledUntil > 0
      BY <3>1, <3>2, <2>1, <1>1, <1>6 DEF IInv, BreakerCounts
    <3>3. CASE i.errorCount + 1 >= CIRCUIT_BREAKER_THRESHOLD
      <4>1. c \in Errors(kit[c]) /\ c \notin ErrorsRecorded(kit[c])
        BY <2>1, <1>1 DEF Errors, ErrorsRecorded
      <4>2. ErrorsRecorded(kit[c]) \cup {c} \in SUBSET Errors(kit[c])
        BY <4>1 DEF ErrorsRecorded
      <4>3. Cardinality(ErrorsRecorded(kit[c]) \cup {c}) = Cardinality(ErrorsRecorded(kit[c])) + 1
        BY <4>1, Sets, FS_AddElement
      <4>4. Cardinality(ErrorsRecorded(kit[c])) + 1 <= Cardinality(Errors(kit[c]))
        BY <4>2, <4>3, Sets, FS_Subset
      <4>5. Earned(kit[c])
        BY <4>4, <3>3, <1>1, <1>6, Sets, ConstantsAssumption DEF Earned
      <4> QED
        BY <4>5, <3>1, <2>1, <1>1, <1>6
    <3> QED
      BY <3>1, <3>2, <3>3, <2>1, <1>1, <1>6
  <2>2. CASE kitSaid[c] # "error"
    <3>1. new \in Items /\ new.errorCount = 0 /\ new.disabledUntil = 0
      BY <2>2, <1>1, ConstantsAssumption DEF AfterSuccess, NoItem, Items
    <3> QED
      BY <3>1, <1>6
  <2> QED
    BY <2>1, <2>2
<1> HIDE DEF new
<1>8. TypeOK'
  BY <1>2, <1>7 DEF IInv, TypeOK
<1>9. BreakerCounts'
  BY <1>2, <1>3, <1>5, <1>7, <1>4, RecordsKeeps DEF IInv, BreakerCounts
<1>10. DailyCounts'
  BY <1>2, <1>4, DailyUntouched
<1> QED
  BY <1>4, <1>8, <1>9, <1>10, RecordsKeeps DEF IInv, Records

LEMMA PutCircuitKeeps ==
  ASSUME IInv, NEW c \in Calls, PutCircuit(c)
  PROVE  IInv'
<1>1. bpc[c] = "put" /\ kitSaid[c] # "nothing" /\ kit[c] \in Kits /\ bval[c] \in Items
  BY DEF PutCircuit, IInv, Flow, TypeOK
<1>2. /\ circuit' = [circuit EXCEPT ![kit[c]] = bval[c]]
      /\ bpc' = [bpc EXCEPT ![c] = "off"] /\ bval' = [bval EXCEPT ![c] = NoItem]
      /\ now' = now /\ rate' = rate /\ daily' = daily /\ pc' = pc
      /\ user' = user /\ kit' = kit /\ result' = result /\ kitSaid' = kitSaid
      /\ audits' = audits /\ dpc' = dpc /\ dval' = dval
  BY DEF PutCircuit
<1>3. /\ bpc'[c] = "off" /\ circuit'[kit[c]] = bval[c]
      /\ \A d \in Calls \ {c} : bpc'[d] = bpc[d] /\ bval'[d] = bval[d]
      /\ \A k \in Kits \ {kit[c]} : circuit'[k] = circuit[k]
  BY <1>1, <1>2 DEF IInv, TypeOK
<1>4. Records
  BY <1>1, <1>2, <1>3 DEF Records, IInv
<1>5. TypeOK'
  BY <1>1, <1>2 DEF IInv, TypeOK, NoItem, Items
<1>6. bval[c].errorCount <= Cardinality(ErrorsRecorded(kit[c])')
  <2>1. CASE kitSaid[c] = "error"
    <3>1. ErrorsRecorded(kit[c])' = ErrorsRecorded(kit[c]) \cup {c} /\ c \notin ErrorsRecorded(kit[c])
      BY <2>1, <1>1, <1>2, <1>3 DEF ErrorsRecorded, Errors
    <3>2. Cardinality(ErrorsRecorded(kit[c])') = Cardinality(ErrorsRecorded(kit[c])) + 1
      BY <3>1, Sets, FS_AddElement
    <3> QED
      BY <3>2, <1>1 DEF IInv, BreakerCounts
  <2>2. CASE kitSaid[c] # "error"
    <3>1. ErrorsRecorded(kit[c])' = ErrorsRecorded(kit[c])
      BY <2>2, <1>2, <1>3 DEF ErrorsRecorded, Errors
    <3>2. Cardinality(ErrorsRecorded(kit[c])) \in Nat
      BY Sets
    <3>3. bval[c].errorCount = 0
      BY <2>2, <1>1 DEF IInv, BreakerCounts
    <3> QED
      BY <3>1, <3>2, <3>3
  <2> QED
    BY <2>1, <2>2
<1>7. BreakerCounts'
  <2>0. \A k : /\ Cardinality(ErrorsRecorded(k)) <= Cardinality(ErrorsRecorded(k)')
               /\ Cardinality(ErrorsRecorded(k)) \in Nat /\ Cardinality(ErrorsRecorded(k)') \in Nat
               /\ Earned(k) => Earned(k)'
    BY <1>4, RecordsKeeps, Growth, Sets
  <2>1. ASSUME NEW k \in Kits
        PROVE  /\ circuit'[k].errorCount <= Cardinality(ErrorsRecorded(k)')
               /\ circuit'[k].disabledUntil > 0 => Earned(k)'
    <3>1. CASE k = kit[c]
      <4>1. bval[c].disabledUntil > 0 => Earned(k)
        BY <3>1, <1>1 DEF IInv, BreakerCounts
      <4>2. kit'[c] = k
        BY <3>1, <1>2
      <4> QED
        BY <3>1, <4>1, <4>2, <2>0, <1>3, <1>6
    <3>2. CASE k # kit[c]
      BY <3>2, <2>0, <1>3 DEF IInv, BreakerCounts, TypeOK, Items
    <3> QED
      BY <3>1, <3>2
  <2>2. ASSUME NEW d \in Calls, bpc'[d] = "put"
        PROVE  /\ bval'[d].errorCount <= Cardinality(ErrorsRecorded(kit[d])') + 1
               /\ kitSaid'[d] # "error" => bval'[d].errorCount = 0
               /\ bval'[d].disabledUntil > 0 => Earned(kit[d])'
    <3>1. d # c /\ bpc[d] = "put" /\ bval'[d] = bval[d] /\ bval[d].errorCount \in Nat
      BY <2>2, <1>3 DEF IInv, TypeOK, Items
    <3>2. /\ bval[d].errorCount <= Cardinality(ErrorsRecorded(kit[d])) + 1
          /\ kitSaid[d] # "error" => bval[d].errorCount = 0
          /\ bval[d].disabledUntil > 0 => Earned(kit[d])
      BY <3>1 DEF IInv, BreakerCounts
    <3>3. kit'[d] = kit[d] /\ kitSaid'[d] = kitSaid[d]
      BY <1>2
    <3>4. ASSUME NEW k, k = kit[d]
          PROVE  /\ bval[d].errorCount <= Cardinality(ErrorsRecorded(k)') + 1
                 /\ bval[d].disabledUntil > 0 => Earned(k)'
      BY <3>1, <3>2, <3>4, <2>0
    <3> QED
      BY <3>1, <3>2, <3>3, <3>4
  <2> QED
    BY <2>1, <2>2 DEF BreakerCounts
<1>8. DailyCounts'
  BY <1>2, <1>4, DailyUntouched
<1> QED
  BY <1>4, <1>5, <1>7, <1>8, RecordsKeeps DEF IInv, Records

\* The count written is one more than the one read.
LEMMA ReadDailyKeeps ==
  ASSUME IInv, NEW c \in Calls, ReadDaily(c)
  PROVE  IInv'
<1> DEFINE x == <<user[c], kit[c], dval[c].day>>
<1>1. /\ dpc[c] = "read" /\ kitSaid[c] # "nothing" /\ kit[c] \in Kits /\ user[c] \in Users
      /\ dval[c].day \in Days /\ dval[c] \in [day : Nat, count : Nat]
  BY DEF ReadDaily, IInv, Flow, TypeOK, DailyCounts
<1>2. /\ dpc' = [dpc EXCEPT ![c] = "put"] /\ dval' = [dval EXCEPT ![c].count = daily[x] + 1]
      /\ now' = now /\ rate' = rate /\ circuit' = circuit /\ daily' = daily /\ pc' = pc
      /\ user' = user /\ kit' = kit /\ result' = result /\ kitSaid' = kitSaid
      /\ audits' = audits /\ bpc' = bpc /\ bval' = bval
  BY DEF ReadDaily, NextCount, stores
<1>3. daily[x] \in Nat /\ daily[x] <= Cardinality(Recorded(user[c], kit[c]))
  BY <1>1 DEF IInv, TypeOK, DailyCounts
<1>4. /\ dpc'[c] = "put" /\ dval'[c] = [dval[c] EXCEPT !.count = daily[x] + 1]
      /\ \A d \in Calls \ {c} : dpc'[d] = dpc[d] /\ dval'[d] = dval[d]
  BY <1>2 DEF IInv, TypeOK
<1>5. /\ dval'[c] \in [day : Nat, count : Nat] /\ dval'[c].day = dval[c].day
      /\ dval'[c].count = daily[x] + 1
  BY <1>1, <1>3, <1>4
<1>6. Records
  BY <1>1, <1>2, <1>4 DEF Records, IInv
<1>7. TypeOK'
  <2>1. dval' \in [Calls -> [day : Nat, count : Nat]]
    BY <1>2, <1>4, <1>5 DEF IInv, TypeOK
  <2> QED
    BY <1>2, <2>1 DEF IInv, TypeOK
<1>8. \A u, k : Recorded(u, k)' = Recorded(u, k)
  BY <1>1, <1>2, <1>4 DEF Recorded, Answered
<1>9. DailyCounts'
  <2>1. dval'[c].count <= Cardinality(Recorded(user[c], kit[c])) + 1
    BY <1>3, <1>5, Sets
  <2> QED
    BY <1>1, <1>2, <1>4, <1>5, <1>8, <2>1 DEF IInv, DailyCounts
<1>10. BreakerCounts'
  BY <1>2, <1>6, BreakerUntouched
<1> QED
  BY <1>6, <1>7, <1>9, <1>10, RecordsKeeps DEF IInv, Records

\* The recorder writes and is one of those that ended.
LEMMA PutDailyKeeps ==
  ASSUME IInv, NEW c \in Calls, PutDaily(c)
  PROVE  IInv'
<1> DEFINE x == <<user[c], kit[c], dval[c].day>>
<1>1. /\ dpc[c] = "put" /\ kitSaid[c] # "nothing" /\ kit[c] \in Kits /\ user[c] \in Users
      /\ dval[c].day \in Days /\ dval[c] \in [day : Nat, count : Nat]
      /\ dval[c].count <= Cardinality(Recorded(user[c], kit[c])) + 1
  BY DEF PutDaily, IInv, Flow, TypeOK, DailyCounts
<1>2. /\ daily' = [daily EXCEPT ![x] = dval[c].count]
      /\ dpc' = [dpc EXCEPT ![c] = "off"] /\ dval' = [dval EXCEPT ![c] = NoCount]
      /\ now' = now /\ rate' = rate /\ circuit' = circuit /\ pc' = pc
      /\ user' = user /\ kit' = kit /\ result' = result /\ kitSaid' = kitSaid
      /\ audits' = audits /\ bpc' = bpc /\ bval' = bval
  BY DEF PutDaily
<1>3. /\ dpc'[c] = "off" /\ \A d \in Calls \ {c} : dpc'[d] = dpc[d] /\ dval'[d] = dval[d]
  BY <1>2 DEF IInv, TypeOK
<1>4. Records
  BY <1>1, <1>2, <1>3 DEF Records, IInv
<1>5. TypeOK'
  <2>1. daily' \in [Users \X Kits \X Days -> Nat]
    BY <1>1, <1>2 DEF IInv, TypeOK
  <2>2. dval' \in [Calls -> [day : Nat, count : Nat]]
    BY <1>2 DEF IInv, TypeOK, NoCount
  <2> QED
    BY <1>2, <2>1, <2>2 DEF IInv, TypeOK
<1>6. \A u, k : /\ Cardinality(Recorded(u, k)) <= Cardinality(Recorded(u, k)')
                /\ Cardinality(Recorded(u, k)) \in Nat /\ Cardinality(Recorded(u, k)') \in Nat
  BY <1>4, RecordsKeeps, Growth, Sets
<1>7. ASSUME NEW u, NEW k, u = user[c], k = kit[c]
      PROVE  dval[c].count <= Cardinality(Recorded(u, k)')
  <2>1. Recorded(u, k)' = Recorded(u, k) \cup {c} /\ c \notin Recorded(u, k)
    BY <1>1, <1>2, <1>3, <1>7 DEF Recorded, Answered
  <2>2. Cardinality(Recorded(u, k)') = Cardinality(Recorded(u, k)) + 1
    BY <2>1, Sets, FS_AddElement
  <2> QED
    BY <2>2, <1>1, <1>7
<1>8. DailyCounts'
  <2>1. ASSUME NEW u \in Users, NEW k \in Kits, NEW d \in Days
        PROVE  daily'[<<u, k, d>>] <= Cardinality(Recorded(u, k)')
    <3>1. CASE <<u, k, d>> = x
      BY <3>1, <1>1, <1>2, <1>7 DEF IInv, TypeOK
    <3>2. CASE <<u, k, d>> # x
      <4>1. daily'[<<u, k, d>>] = daily[<<u, k, d>>] /\ daily[<<u, k, d>>] \in Nat
        BY <3>2, <1>2 DEF IInv, TypeOK
      <4> QED
        BY <4>1, <1>6 DEF IInv, DailyCounts
    <3> QED
      BY <3>1, <3>2
  <2>2. ASSUME NEW d \in Calls, dpc'[d] # "off" PROVE dval'[d].day \in Days
    BY <2>2, <1>3 DEF IInv, DailyCounts
  <2>3. ASSUME NEW d \in Calls, dpc'[d] = "put"
        PROVE  dval'[d].count <= Cardinality(Recorded(user[d], kit[d])') + 1
    <3>1. d # c /\ dpc[d] = "put" /\ dval'[d] = dval[d] /\ dval[d].count \in Nat
      BY <2>3, <1>3 DEF IInv, TypeOK
    <3>2. dval[d].count <= Cardinality(Recorded(user[d], kit[d])) + 1
      BY <3>1 DEF IInv, DailyCounts
    <3>3. ASSUME NEW u, NEW k, u = user[d], k = kit[d]
          PROVE  dval[d].count <= Cardinality(Recorded(u, k)') + 1
      BY <3>1, <3>2, <3>3, <1>6
    <3> QED
      BY <3>1, <3>3, <1>2
  <2> QED
    BY <2>1, <2>2, <2>3 DEF DailyCounts
<1>9. BreakerCounts'
  BY <1>2, <1>4, BreakerUntouched
<1> QED
  BY <1>4, <1>5, <1>8, <1>9, RecordsKeeps DEF IInv, Records

\* Recorders that end without writing, and items that are dropped, take nothing back.
LEMMA BreakerDrops ==
  ASSUME IInv, Records,
         \A k \in Kits : circuit'[k] = circuit[k] \/ circuit'[k] = NoItem,
         \A d \in Calls : bpc'[d] = "put" => bpc[d] = "put" /\ bval'[d] = bval[d]
  PROVE  BreakerCounts'
<1>0. \A k : /\ Cardinality(ErrorsRecorded(k)) <= Cardinality(ErrorsRecorded(k)')
             /\ Cardinality(ErrorsRecorded(k)) \in Nat /\ Cardinality(ErrorsRecorded(k)') \in Nat
             /\ Earned(k) => Earned(k)'
  BY RecordsKeeps, Growth, Sets
<1>1. ASSUME NEW k \in Kits
      PROVE  /\ circuit'[k].errorCount <= Cardinality(ErrorsRecorded(k)')
             /\ circuit'[k].disabledUntil > 0 => Earned(k)'
  <2>1. CASE circuit'[k] = circuit[k]
    BY <2>1, <1>0 DEF IInv, BreakerCounts, TypeOK, Items
  <2>2. CASE circuit'[k] = NoItem
    BY <2>2, <1>0 DEF NoItem
  <2> QED
    BY <2>1, <2>2
<1>2. ASSUME NEW d \in Calls, bpc'[d] = "put"
      PROVE  /\ bval'[d].errorCount <= Cardinality(ErrorsRecorded(kit[d])') + 1
             /\ kitSaid'[d] # "error" => bval'[d].errorCount = 0
             /\ bval'[d].disabledUntil > 0 => Earned(kit[d])'
  <2>1. bpc[d] = "put" /\ bval'[d] = bval[d] /\ bval[d].errorCount \in Nat
    BY <1>2 DEF IInv, TypeOK, Items
  <2>2. /\ bval[d].errorCount <= Cardinality(ErrorsRecorded(kit[d])) + 1
        /\ kitSaid[d] # "error" => bval[d].errorCount = 0
        /\ bval[d].disabledUntil > 0 => Earned(kit[d])
    BY <2>1 DEF IInv, BreakerCounts
  <2>3. kit'[d] = kit[d] /\ kitSaid'[d] = kitSaid[d]
    BY DEF Records
  <2>4. ASSUME NEW k, k = kit[d]
        PROVE  /\ bval[d].errorCount <= Cardinality(ErrorsRecorded(k)') + 1
               /\ bval[d].disabledUntil > 0 => Earned(k)'
    BY <2>1, <2>2, <2>4, <1>0
  <2> QED
    BY <2>1, <2>2, <2>3, <2>4
<1> QED
  BY <1>1, <1>2 DEF BreakerCounts

LEMMA RecorderFailsKeeps ==
  ASSUME IInv, NEW c \in Calls, RecorderFails(c)
  PROVE  IInv'
<1>1. /\ now' = now /\ rate' = rate /\ circuit' = circuit /\ daily' = daily /\ pc' = pc
      /\ user' = user /\ kit' = kit /\ result' = result /\ kitSaid' = kitSaid
      /\ audits' = audits
  BY DEF RecorderFails, stores
<1>2. CASE /\ bpc' = [bpc EXCEPT ![c] = "off"] /\ bval' = [bval EXCEPT ![c] = NoItem]
           /\ UNCHANGED <<dpc, dval>>
  <2>1. /\ bpc'[c] = "off"
        /\ \A d \in Calls \ {c} : bpc'[d] = bpc[d] /\ bval'[d] = bval[d]
    BY <1>2 DEF IInv, TypeOK
  <2>2. TypeOK'
    BY <1>1, <1>2 DEF IInv, TypeOK, NoItem, Items
  <2>3. Records
    BY <1>1, <1>2, <2>1 DEF Records, IInv
  <2>4. BreakerCounts'
    BY <1>1, <2>1, <2>3, BreakerDrops
  <2>5. DailyCounts'
    BY <1>1, <1>2, <2>3, DailyUntouched
  <2> QED
    BY <2>2, <2>3, <2>4, <2>5, RecordsKeeps DEF IInv, Records
<1>3. CASE /\ dpc' = [dpc EXCEPT ![c] = "off"] /\ dval' = [dval EXCEPT ![c] = NoCount]
           /\ UNCHANGED <<bpc, bval>>
  <2>1. /\ dpc'[c] = "off"
        /\ \A d \in Calls \ {c} : dpc'[d] = dpc[d] /\ dval'[d] = dval[d]
    BY <1>3 DEF IInv, TypeOK
  <2>2. TypeOK'
    BY <1>1, <1>3 DEF IInv, TypeOK, NoCount
  <2>3. Records
    BY <1>1, <1>3, <2>1 DEF Records, IInv
  <2>4. \A u, k : /\ Cardinality(Recorded(u, k)) <= Cardinality(Recorded(u, k)')
                  /\ Cardinality(Recorded(u, k)) \in Nat /\ Cardinality(Recorded(u, k)') \in Nat
    BY <2>3, RecordsKeeps, Growth, Sets
  <2>5. DailyCounts'
    <3>1. ASSUME NEW u \in Users, NEW k \in Kits, NEW d \in Days
          PROVE  daily'[<<u, k, d>>] <= Cardinality(Recorded(u, k)')
      <4>1. daily[<<u, k, d>>] \in Nat /\ daily[<<u, k, d>>] <= Cardinality(Recorded(u, k))
        BY DEF IInv, TypeOK, DailyCounts
      <4> QED
        BY <4>1, <2>4, <1>1
    <3>2. ASSUME NEW d \in Calls, dpc'[d] # "off" PROVE dval'[d].day \in Days
      BY <3>2, <2>1 DEF IInv, DailyCounts
    <3>3. ASSUME NEW d \in Calls, dpc'[d] = "put"
          PROVE  dval'[d].count <= Cardinality(Recorded(user[d], kit[d])') + 1
      <4>1. d # c /\ dpc[d] = "put" /\ dval'[d] = dval[d] /\ dval[d].count \in Nat
        BY <3>3, <2>1 DEF IInv, TypeOK
      <4>2. dval[d].count <= Cardinality(Recorded(user[d], kit[d])) + 1
        BY <4>1 DEF IInv, DailyCounts
      <4>3. ASSUME NEW u, NEW k, u = user[d], k = kit[d]
            PROVE  dval[d].count <= Cardinality(Recorded(u, k)') + 1
        BY <4>1, <4>2, <4>3, <2>4
      <4> QED
        BY <4>1, <4>3, <1>1
    <3> QED
      BY <3>1, <3>2, <3>3 DEF DailyCounts
  <2>6. BreakerCounts'
    BY <1>1, <1>3, <2>3, BreakerUntouched
  <2> QED
    BY <2>2, <2>3, <2>5, <2>6, RecordsKeeps DEF IInv, Records
<1> QED
  BY <1>2, <1>3 DEF RecorderFails

LEMMA TickKeeps ==
  ASSUME IInv, Tick
  PROVE  IInv'
<1>1. /\ Passes /\ pc' = pc /\ result' = result /\ audits' = audits /\ now' = now + 1
      /\ now' \in 0..MaxTime /\ rate' = [u \in Users |-> 0]
  BY ConstantsAssumption DEF Tick, Passes, IInv
<1>2. /\ circuit' = circuit /\ daily' = daily /\ user' = user /\ kit' = kit
      /\ kitSaid' = kitSaid /\ bpc' = bpc /\ bval' = bval /\ dpc' = dpc /\ dval' = dval
  BY <1>1 DEF Passes, recVars
<1>3. TypeOK'
  BY <1>1, <1>2 DEF IInv, TypeOK
<1>4. Flow'
  BY <1>1, <1>2 DEF IInv, Flow
<1>5. CapEarned' /\ BreakerEarned'
  BY <1>1, PassesKeeps, Verdicts
<1> QED
  BY <1>1, <1>3, <1>4, <1>5, PassesKeeps DEF IInv

LEMMA ItemExpiresKeeps ==
  ASSUME IInv, NEW k \in Kits, ItemExpires(k)
  PROVE  IInv'
<1>1. /\ circuit' = [circuit EXCEPT ![k] = NoItem]
      /\ now' = now /\ rate' = rate /\ daily' = daily /\ pc' = pc
      /\ user' = user /\ kit' = kit /\ result' = result /\ kitSaid' = kitSaid
      /\ audits' = audits /\ bpc' = bpc /\ bval' = bval /\ dpc' = dpc /\ dval' = dval
  BY DEF ItemExpires, recVars
<1>2. Records
  BY <1>1 DEF Records, IInv
<1>3. TypeOK'
  BY <1>1 DEF IInv, TypeOK, NoItem, Items
<1>4. BreakerCounts'
  <2>1. \A m \in Kits : circuit'[m] = circuit[m] \/ circuit'[m] = NoItem
    BY <1>1 DEF IInv, TypeOK
  <2> QED
    BY <2>1, <1>1, <1>2, BreakerDrops
<1>5. DailyCounts'
  BY <1>1, <1>2, DailyUntouched
<1> QED
  BY <1>2, <1>3, <1>4, <1>5, RecordsKeeps DEF IInv, Records

LEMMA InitHolds == Init => IInv
<1> SUFFICES ASSUME Init PROVE IInv
  OBVIOUS
<1>1. TypeOK /\ now \in 0..MaxTime
  BY ConstantsAssumption DEF Init, TypeOK, NoItem, Items, NoCount, Results
<1>2. Flow
  BY DEF Init, Flow, Before
<1>3. DailyCounts
  BY Sets DEF Init, DailyCounts
<1>4. BreakerCounts
  <2>1. ASSUME NEW k \in Kits
        PROVE  circuit[k].errorCount <= Cardinality(ErrorsRecorded(k)) /\ circuit[k].disabledUntil = 0
    <3>1. circuit[k].errorCount = 0 /\ circuit[k].disabledUntil = 0
      BY DEF Init, NoItem
    <3>2. Cardinality(ErrorsRecorded(k)) \in Nat
      BY Sets
    <3> QED
      BY <3>1, <3>2
  <2> QED
    BY <2>1 DEF Init, BreakerCounts
<1>5. CapEarned /\ BreakerEarned
  BY DEF Init, CapEarned, BreakerEarned
<1> QED
  BY <1>1, <1>2, <1>3, <1>4, <1>5 DEF IInv

\* The counts never run ahead of the answers, whatever the recorders lose or overwrite.
THEOREM Inductive == Spec => []IInv
<1>1. IInv /\ [Next]_vars => IInv'
  <2> SUFFICES ASSUME IInv, [Next]_vars PROVE IInv'
    OBVIOUS
  <2>1. ASSUME NEW c \in Calls, CallStep(c) PROVE IInv'
    BY <2>1, CallSteps, InvokeKeeps, AuditKeeps DEF CallStep
  <2>2. ASSUME NEW c \in Calls, RecorderStep(c) PROVE IInv'
    BY <2>2, ReadCircuitKeeps, PutCircuitKeeps, ReadDailyKeeps, PutDailyKeeps,
       RecorderFailsKeeps DEF RecorderStep
  <2>3. CASE UNCHANGED vars
    <3>1. /\ now' = now /\ rate' = rate /\ circuit' = circuit /\ daily' = daily /\ pc' = pc
          /\ user' = user /\ kit' = kit /\ result' = result /\ kitSaid' = kitSaid
          /\ audits' = audits /\ bpc' = bpc /\ bval' = bval /\ dpc' = dpc /\ dval' = dval
      BY <2>3 DEF vars, stores, recVars
    <3>2. Records
      BY <3>1 DEF Records, IInv
    <3>3. TypeOK'
      BY <3>1 DEF IInv, TypeOK
    <3> QED
      BY <3>1, <3>2, <3>3, RecordsKeeps, DailyUntouched, BreakerUntouched DEF IInv, Records
  <2> QED
    BY <2>1, <2>2, <2>3, TickKeeps, ItemExpiresKeeps DEF Next
<1> QED
  BY <1>1, InitHolds, PTL DEF Spec

\* The items, the calls and the recorders keep their types.
THEOREM TypeCorrect == Spec => []TypeOK
BY Inductive, PTL DEF IInv

\* tool-dispatcher 64-91: the day's limit refuses a call only after as many answered ones.
THEOREM CapIsEarned == Spec => []CapEarned
BY Inductive, PTL DEF IInv

\* tool-dispatcher 22-62: the breaker refuses a call only after as many errors of the kit.
THEOREM BreakerIsEarned == Spec => []BreakerEarned
BY Inductive, PTL DEF IInv

\* dispatch 142-251: a dispatched call is audited once, by what the kit answered as far as
\* the router can tell: the crash of a kit passes for a success.
THEOREM AuditsSayTheAnswer == Spec => []AuditedAsAnswered
<1>1. IInv => AuditedAsAnswered
  <2> SUFFICES ASSUME IInv, NEW c \in Calls, pc[c] = "done",
                      result[c] \notin {"rate_limited", "internal_error"}
               PROVE  /\ Len(audits[c]) = 1
                      /\ audits[c][1] = "success" <=> kitSaid[c] \in {"ok", "crashed"}
                      /\ audits[c][1] = "denied" => kitSaid[c] \in {"nothing", "error"}
    BY DEF AuditedAsAnswered
  <2>1. PICK outcome \in Outcomes(result[c]) : audits[c] = <<outcome>>
    BY DEF IInv, Flow
  <2>2. Len(audits[c]) = 1 /\ audits[c][1] = outcome
    BY <2>1
  <2>3. /\ result[c] \in {"ok", "error"} =>
             kitSaid[c] \in Answers /\ result[c] = Payload(kitSaid[c])
        /\ result[c] \notin {"ok", "error"} => kitSaid[c] = "nothing"
    BY DEF IInv, Flow
  <2>4. CASE result[c] = "ok"
    BY <2>1, <2>2, <2>3, <2>4 DEF Outcomes, Payload, Answers
  <2>5. CASE result[c] = "error"
    BY <2>1, <2>2, <2>3, <2>5 DEF Outcomes, Payload, Answers
  <2>6. CASE result[c] \notin {"ok", "error"}
    <3>1. outcome # "success"
      BY <2>1, <2>6 DEF Outcomes
    <3> QED
      BY <2>2, <2>3, <2>6, <3>1
  <2> QED
    BY <2>4, <2>5, <2>6
<1> QED
  BY <1>1, Inductive, PTL
=============================================================================
