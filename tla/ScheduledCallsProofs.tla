------------------------ MODULE ScheduledCallsProofs ------------------------
(***************************************************************************)
(* For any number of sessions, processes, organisations and crashes, any   *)
(* clock skew and any assignment of worker ids: the scheduler never makes  *)
(* a phone ring twice for one scheduled call.                              *)
(***************************************************************************)
EXTENDS ScheduledCalls, TLAPS

USE ScheduledCallsAssumption

\* Every step keeps the claim, the lease, the holder and the number of rings consistent.
LEMMA InvStep == IInv /\ [Next]_vars => IInv'
<1> SUFFICES ASSUME IInv, [Next]_vars PROVE IInv'
  OBVIOUS
<1> USE DEF IInv, TypeOK, Status, Pc, RingsAtMostOnce, SoleHolder, LeaseConsistent, FailureIsDurableFirst, HolderConsistent, table, lease, polls, env
<1>1. ASSUME NEW s \in Session, NEW t \in Times, Schedule(s, t) PROVE IInv'
  BY <1>1 DEF Schedule
<1>2. ASSUME NEW o \in Org, Reset(o) PROVE IInv'
  BY <1>2 DEF Reset
<1>3. ASSUME NEW p \in Proc, Sweep(p) PROVE IInv'
  BY <1>3 DEF Sweep, SetFailed, Expired, Goto
<1>4. ASSUME NEW p \in Proc, Claim(p) PROVE IInv'
  <2>1. CASE Return(p) /\ UNCHANGED <<table, running, env>>
    BY <1>4, <2>1 DEF Claim, Return
  <2>2. ASSUME NEW s \in Session, status[s] = "scheduled", ClaimRow(p, s),
               pc[p] = "claim", UNCHANGED <<running, env>>
        PROVE  IInv'
    <3>1. /\ rings[s] = 0 /\ attemptCount[s] = 0
          /\ \A q \in Proc : job[q] # s
      BY <2>2
    <3>2. TypeOK' /\ RingsAtMostOnce' /\ FailureIsDurableFirst'
      BY <2>2 DEF ClaimRow
    <3>3. SoleHolder'
      BY <2>2, <3>1 DEF ClaimRow
    <3>4. LeaseConsistent'
      BY <2>2, <3>1 DEF ClaimRow
    <3>5. HolderConsistent'
      BY <2>2, <3>1 DEF ClaimRow
    <3> QED
      BY <3>2, <3>3, <3>4, <3>5
  <2> QED
    BY <1>4, <2>1, <2>2 DEF Claim, EarliestDue, Due
<1>5. ASSUME NEW p \in Proc, InvokeRings(p) PROVE IInv'
  BY <1>5 DEF InvokeRings, Goto
<1>6. ASSUME NEW p \in Proc, InvokeThrows(p) PROVE IInv'
  BY <1>6 DEF InvokeThrows, Goto
<1>7. ASSUME NEW p \in Proc, InvokeReturns(p) PROVE IInv'
  BY <1>7 DEF InvokeReturns, Now
<1>8. ASSUME NEW p \in Proc, Complete(p) PROVE IInv'
  <2>1. job[p] \in Session /\ rings[job[p]] = 1
    BY <1>8 DEF Complete
  <2>2. CASE Owned(p) /\ LeaseHolds(p)
    <3>1. \A q \in Proc : q # p => job[q] # job[p]
      BY <2>1
    <3>2. TypeOK' /\ RingsAtMostOnce'
      BY <1>8, <2>1, <2>2 DEF Complete, Return
    <3>5. SoleHolder'
      BY <1>8, <2>1, <2>2 DEF Complete, Return
    <3>6. FailureIsDurableFirst'
      BY <1>8, <2>1, <2>2 DEF Complete, Owned, Return
    <3>3. LeaseConsistent'
      BY <1>8, <2>1, <2>2 DEF Complete, Owned, Return
    <3>4. HolderConsistent'
      BY <1>8, <2>1, <2>2, <3>1 DEF Complete, Owned, Return
    <3> QED
      BY <3>2, <3>3, <3>4, <3>5, <3>6
  <2>3. CASE ~(Owned(p) /\ LeaseHolds(p))
    BY <1>8, <2>1, <2>3 DEF Complete, Goto
  <2> QED
    BY <2>2, <2>3
<1>9. ASSUME NEW p \in Proc, Fail(p) PROVE IInv'
  <2>1. job[p] \in Session
    BY <1>9 DEF Fail
  <2>2. CASE Owned(p)
    <3>1. TypeOK' /\ RingsAtMostOnce' /\ SoleHolder' /\ FailureIsDurableFirst'
      BY <1>9, <2>1, <2>2 DEF Fail, Owned, SetFailed, Goto
    <3>2. LeaseConsistent'
      BY <1>9, <2>1, <2>2 DEF Fail, Owned, SetFailed, Goto
    <3>3. HolderConsistent'
      BY <1>9, <2>1, <2>2 DEF Fail, Owned, SetFailed, Goto
    <3> QED
      BY <3>1, <3>2, <3>3
  <2>3. CASE ~Owned(p)
    BY <1>9, <2>3 DEF Fail, Return
  <2> QED
    BY <2>2, <2>3
<1>10. ASSUME NEW p \in Proc, NotifyFailure(p) PROVE IInv'
  BY <1>10 DEF NotifyFailure, Return
<1>11. ASSUME NEW p \in Proc, Start(p) PROVE IInv'
  BY <1>11 DEF Start, BeginPoll, Now
<1>12. ASSUME NEW p \in Proc, Stop(p) PROVE IInv'
  BY <1>12 DEF Stop
<1>13. ASSUME NEW p \in Proc, IntervalTick(p) PROVE IInv'
  BY <1>13 DEF IntervalTick, BeginPoll, Now
<1>14. ASSUME NEW p \in Proc, Crash(p) PROVE IInv'
  BY <1>14 DEF Crash, Return
<1>15. CASE Advance
  BY <1>15 DEF Advance
<1>16. CASE UNCHANGED vars
  BY <1>16 DEF vars
<1> QED
  BY <1>1, <1>2, <1>3, <1>4, <1>5, <1>6, <1>7, <1>8, <1>9, <1>10, <1>11, <1>12, <1>13, <1>14, <1>15, <1>16
     DEF Next, PollStep

\* The claim protocol is inductive for every number of pollers, sessions and crashes.
THEOREM Inductive == Spec => []IInv
<1>1. Init => IInv
  BY DEF Init, IInv, TypeOK, Status, Pc, RingsAtMostOnce, SoleHolder, LeaseConsistent,
         FailureIsDurableFirst, HolderConsistent
<1> QED
  BY <1>1, InvStep, PTL DEF Spec

\* No scheduled call makes the phone ring twice.
THEOREM PhoneRingsOnce == Spec => []RingsAtMostOnce
<1>1. IInv => RingsAtMostOnce
  BY DEF IInv
<1> QED
  BY <1>1, Inductive, PTL

\* Types, for every value of the constants.
THEOREM TypeCorrect == Spec => []TypeOK
<1>1. IInv => TypeOK
  BY DEF IInv
<1> QED
  BY <1>1, Inductive, PTL

\* Two pollers never work on one job, although they may share a worker id (the claim's
\* UPDATE ... WHERE status = 'scheduled').
THEOREM OneHolder == Spec => []SoleHolder
<1>1. IInv => SoleHolder
  BY DEF IInv
<1> QED
  BY <1>1, Inductive, PTL

\* A row has a lease exactly while it is starting, and a session is told of a failure only
\* when its row says failed.
THEOREM RowsConsistent == Spec => [](LeaseConsistent /\ FailureIsDurableFirst)
<1>1. IInv => LeaseConsistent /\ FailureIsDurableFirst
  BY DEF IInv
<1> QED
  BY <1>1, Inductive, PTL

\* An attempted call is never claimable again, whoever schedules, sweeps, completes or
\* fails it in whichever order (the WHERE clause of the upsert and the absence of retries).
THEOREM NoRetry == Spec => NeverRetried
<1> DEFINE Attempted == {"starting", "started", "failed", "deleted"}
           Kept == \A s \in Session :
                     status[s] \in Attempted => status'[s] \notin {"absent", "scheduled"}
<1>1. IInv /\ [Next]_vars => [Kept]_vars
  <2> SUFFICES ASSUME IInv, Next PROVE Kept
    OBVIOUS
  <2> USE DEF IInv, TypeOK, Status, table, lease, polls, env
  <2>1. ASSUME NEW s \in Session, NEW t \in Times, Schedule(s, t) PROVE Kept
    BY <2>1 DEF Schedule
  <2>2. ASSUME NEW o \in Org, Reset(o) PROVE Kept
    BY <2>2 DEF Reset
  <2>3. ASSUME NEW p \in Proc, Sweep(p) PROVE Kept
    BY <2>3 DEF Sweep, SetFailed
  <2>4. ASSUME NEW p \in Proc, Claim(p) PROVE Kept
    BY <2>4 DEF Claim, ClaimRow, EarliestDue, Due
  <2>5. ASSUME NEW p \in Proc, Complete(p) PROVE Kept
    BY <2>5 DEF Complete
  <2>6. ASSUME NEW p \in Proc, Fail(p) PROVE Kept
    BY <2>6 DEF Fail, SetFailed
  <2>7. ASSUME NEW p \in Proc,
               InvokeRings(p) \/ InvokeThrows(p) \/ InvokeReturns(p) \/ NotifyFailure(p)
                 \/ Start(p) \/ Stop(p) \/ IntervalTick(p) \/ Crash(p)
        PROVE Kept
    BY <2>7 DEF InvokeRings, InvokeThrows, InvokeReturns, NotifyFailure, Start, Stop,
                IntervalTick, Crash
  <2>8. CASE Advance
    BY <2>8 DEF Advance
  <2> QED
    BY <2>1, <2>2, <2>3, <2>4, <2>5, <2>6, <2>7, <2>8 DEF Next, PollStep
<1> QED
  BY <1>1, Inductive, PTL DEF Spec, NeverRetried

\* What makes NeverEarly inductive: a poll's now() lies in its past, and a poll that is
\* about to ring claimed a row that was due then; only a reset changes that row's time.
DueWhenClaimed ==
  \A p \in Proc :
    /\ at[p] <= Now(p)
    /\ pc[p] = "invoke" /\ status[job[p]] # "deleted" => scheduledAt[job[p]] <= at[p]

\* No step moves the time of a claimed row, or a poll's now() into the future.
LEMMA DueStep == IInv /\ DueWhenClaimed /\ [Next]_vars => DueWhenClaimed'
<1> SUFFICES ASSUME IInv, DueWhenClaimed, [Next]_vars PROVE DueWhenClaimed'
  OBVIOUS
<1> USE DEF TypeOK, Status, Pc, DueWhenClaimed, Now, table, lease, polls, env
<1>0. /\ TypeOK
      /\ \A p \in Proc : pc[p] = "invoke" =>
           job[p] \in Session /\ status[job[p]] \in {"starting", "failed", "deleted"}
  BY DEF IInv, HolderConsistent
<1>1. ASSUME NEW s \in Session, NEW t \in Times, Schedule(s, t) PROVE DueWhenClaimed'
  BY <1>0, <1>1 DEF Schedule
<1>2. ASSUME NEW o \in Org, Reset(o) PROVE DueWhenClaimed'
  BY <1>0, <1>2 DEF Reset
<1>3. ASSUME NEW p \in Proc, Sweep(p) PROVE DueWhenClaimed'
  BY <1>0, <1>3 DEF Sweep, SetFailed, Expired, Goto
<1>4. ASSUME NEW p \in Proc, Claim(p) PROVE DueWhenClaimed'
  <2>1. CASE Return(p) /\ UNCHANGED <<table, running, env>>
    BY <1>0, <2>1 DEF Return
  <2>2. ASSUME NEW s \in Session, status[s] = "scheduled", scheduledAt[s] <= at[p],
               ClaimRow(p, s), UNCHANGED <<running, env>>
        PROVE  DueWhenClaimed'
    BY <1>0, <2>2 DEF ClaimRow
  <2> QED
    BY <1>4, <2>1, <2>2 DEF Claim, EarliestDue, Due
<1>5. ASSUME NEW p \in Proc, InvokeRings(p) \/ InvokeThrows(p) PROVE DueWhenClaimed'
  BY <1>0, <1>5 DEF InvokeRings, InvokeThrows, Goto
<1>6. ASSUME NEW p \in Proc, InvokeReturns(p) PROVE DueWhenClaimed'
  BY <1>0, <1>6 DEF InvokeReturns
<1>7. ASSUME NEW p \in Proc, Complete(p) PROVE DueWhenClaimed'
  <2>1. at' \in [Proc -> Nat] /\ clock' = clock /\ \A q \in Proc : at'[q] <= Now(q)
    BY <1>0, <1>7 DEF Complete, Return, Goto
  <2>2. ASSUME NEW q \in Proc, pc'[q] = "invoke", status'[job'[q]] # "deleted"
        PROVE  scheduledAt'[job'[q]] <= at'[q]
    <3>1. q # p /\ pc[q] = "invoke" /\ job'[q] = job[q] /\ at'[q] = at[q]
          /\ scheduledAt' = scheduledAt
      BY <1>0, <1>7, <2>2 DEF Complete, Return, Goto
    <3>2. status[job[q]] # "deleted"
      BY <1>0, <1>7, <2>2, <3>1 DEF Complete, Owned
    <3> QED
      BY <3>1, <3>2
  <2> QED
    BY <2>1, <2>2
<1>8. ASSUME NEW p \in Proc, Fail(p) PROVE DueWhenClaimed'
  <2>1. CASE Owned(p)
    BY <1>0, <1>8, <2>1 DEF Fail, Owned, SetFailed, Goto
  <2>2. CASE ~Owned(p)
    BY <1>0, <1>8, <2>2 DEF Fail, Return
  <2> QED
    BY <2>1, <2>2
<1>9. ASSUME NEW p \in Proc, NotifyFailure(p) \/ Crash(p) PROVE DueWhenClaimed'
  BY <1>0, <1>9 DEF NotifyFailure, Crash, Return
<1>10. ASSUME NEW p \in Proc, Start(p) \/ Stop(p) \/ IntervalTick(p) PROVE DueWhenClaimed'
  BY <1>0, <1>10 DEF Start, Stop, IntervalTick, BeginPoll
<1>11. CASE Advance
  BY <1>0, <1>11 DEF Advance
<1>12. CASE UNCHANGED vars
  BY <1>12 DEF vars
<1> QED
  BY <1>1, <1>2, <1>3, <1>4, <1>5, <1>6, <1>7, <1>8, <1>9, <1>10, <1>11, <1>12
  DEF Next, PollStep

\* The phone never rings before the scheduled time on the caller's clock, for any skew and
\* however long the poll takes between its now() and the provider (claimDue's WHERE
\* scheduled_at <= now, and the upsert that leaves a claimed row alone).
THEOREM RingsInTime == Spec => NeverEarly
<1> DEFINE OnTime == \A s \in Session, p \in Proc :
                       job[p] = s /\ rings'[s] > rings[s] /\ status[s] # "deleted"
                         => scheduledAt[s] <= Now(p)
<1>1. Init => DueWhenClaimed
  BY DEF Init, DueWhenClaimed, Now
<1>2. IInv /\ DueWhenClaimed /\ [Next]_vars => [OnTime]_vars
  <2> SUFFICES ASSUME IInv, DueWhenClaimed, Next, NEW s \in Session, NEW p \in Proc,
                      job[p] = s, rings'[s] > rings[s], status[s] # "deleted"
               PROVE  scheduledAt[s] <= Now(p)
    OBVIOUS
  <2>1. TypeOK /\ SoleHolder /\ HolderConsistent
    BY DEF IInv
  <2>2. PICK q \in Proc : InvokeRings(q)
    <3>1. rings' # rings
      BY <2>1 DEF TypeOK
    <3> QED
      BY <3>1 DEF Next, PollStep, Schedule, Reset, Sweep, Claim, InvokeThrows, InvokeReturns,
                  Complete, Fail, NotifyFailure, Start, Stop, IntervalTick, Crash, Advance,
                  table, lease, polls, env
  <2>3. pc[q] = "invoke" /\ job[q] \in Session
    BY <2>1, <2>2 DEF InvokeRings, TypeOK, HolderConsistent
  <2>4. job[q] = s
    BY <2>1, <2>2, <2>3 DEF InvokeRings, TypeOK
  <2>5. q = p
    BY <2>1, <2>3, <2>4 DEF SoleHolder
  <2> QED
    BY <2>1, <2>3, <2>5 DEF DueWhenClaimed, TypeOK, Now
<1> QED
  BY <1>1, <1>2, DueStep, Inductive, PTL DEF Spec, NeverEarly

\* Every step of the queue is a step of the promise or leaves it alone.
LEMMA PromiseStep == IInv /\ [Next]_vars => [Promise!Next]_(Promise!vars)
<1> SUFFICES ASSUME IInv, [Next]_vars PROVE [Promise!Next]_(Promise!vars)
  OBVIOUS
<1> DEFINE phase == [s \in Session |-> PhaseOf(status[s])]
           Stutter == phase' = phase /\ rings' = rings
<1> USE DEF PhaseOf, table, lease, polls, env
<1>0. /\ status \in [Session -> Status]
      /\ \A s \in Session :
           /\ phase[s] = "none" <=> status[s] = "absent"
           /\ phase[s] = "waiting" <=> status[s] = "scheduled"
           /\ phase[s] = "trying" <=> status[s] = "starting"
           /\ phase[s] = "started" <=> status[s] = "started"
  BY DEF IInv, TypeOK, Status
<1>1. Stutter => [Promise!Next]_(Promise!vars)
  BY DEF Promise!vars
<1>2. UNCHANGED <<status, rings>> => Stutter
  OBVIOUS
<1>3. ASSUME NEW s \in Session, NEW t \in Times, Schedule(s, t)
      PROVE  [Promise!Next]_(Promise!vars)
  <2>1. CASE status[s] = "absent"
    <3>1. Promise!Request(s)
      BY <1>0, <1>3, <2>1 DEF Schedule, Promise!Request, Promise!Move
    <3> QED
      BY <3>1 DEF Promise!Next
  <2>2. CASE status[s] # "absent"
    <3>1. UNCHANGED <<status, rings>>
      BY <1>0, <1>3, <2>2 DEF Schedule
    <3> QED
      BY <1>1, <1>2, <3>1
  <2> QED
    BY <2>1, <2>2
<1>4. ASSUME NEW o \in Org, Reset(o) PROVE [Promise!Next]_(Promise!vars)
  <2>0. PICK S \in SUBSET Session : S = {s \in Session : OrgOf[s] = o /\ status[s] # "absent"}
    OBVIOUS
  <2>1. status' = [s \in Session |-> IF s \in S THEN "deleted" ELSE status[s]]
    BY <1>4, <2>0 DEF Reset
  <2>2. phase' = [s \in Session |-> IF s \in S THEN "cleared" ELSE phase[s]]
    BY <2>1
  <2>3. \A s \in S : phase[s] # "none"
    BY <1>0, <2>0
  <2>4. Promise!Clear(S)
    BY <1>4, <2>2, <2>3 DEF Reset, Promise!Clear, Promise!Move
  <2> QED
    BY <2>4 DEF Promise!Next
<1>5. ASSUME NEW S \in SUBSET Session, \A s \in S : status[s] = "starting", SetFailed(S),
             UNCHANGED rings
      PROVE  [Promise!Next]_(Promise!vars)
  <2>1. Promise!Surface(S)
    BY <1>0, <1>5 DEF SetFailed, Promise!Surface, Promise!Move
  <2> QED
    BY <2>1 DEF Promise!Next
<1>6. ASSUME NEW p \in Proc, Sweep(p) PROVE [Promise!Next]_(Promise!vars)
  BY <1>5, <1>6 DEF Sweep, Expired
<1>7. ASSUME NEW p \in Proc, Claim(p) PROVE [Promise!Next]_(Promise!vars)
  <2>1. CASE UNCHANGED table
    BY <1>1, <1>2, <1>7, <2>1 DEF Claim
  <2>2. ASSUME NEW s \in Session, status[s] = "scheduled", ClaimRow(p, s)
        PROVE  [Promise!Next]_(Promise!vars)
    <3>1. Promise!Attempt(s)
      BY <1>0, <1>7, <2>2 DEF Claim, ClaimRow, Promise!Attempt, Promise!Move
    <3> QED
      BY <3>1 DEF Promise!Next
  <2> QED
    BY <1>7, <2>1, <2>2 DEF Claim, EarliestDue, Due
<1>8. \A p \in Proc : pc[p] \notin {"idle", "sweep", "claim"}
                        => job[p] \in Session /\ status[job[p]] \in {"starting", "failed", "deleted"}
  BY DEF IInv, TypeOK, HolderConsistent
<1>9. ASSUME NEW p \in Proc, InvokeRings(p) PROVE [Promise!Next]_(Promise!vars)
  <2>1. PICK s \in Session : s = job[p]
    BY <1>8, <1>9 DEF InvokeRings
  <2>2. rings[s] = 0 /\ rings' = [rings EXCEPT ![s] = 1]
    <3>1. rings[s] = 0 /\ rings' = [rings EXCEPT ![s] = rings[s] + 1]
      BY <1>9, <2>1 DEF InvokeRings, IInv, HolderConsistent
    <3> QED
      BY <3>1
  <2>3. phase[s] \in {"trying", "failed", "cleared"}
    <3>1. status[s] \in {"starting", "failed", "deleted"}
      BY <1>8, <1>9, <2>1 DEF InvokeRings
    <3> QED
      BY <3>1
  <2>4. phase' = phase
    BY <1>9 DEF InvokeRings
  <2>5. Promise!Ring(s)
    BY <2>2, <2>3, <2>4 DEF Promise!Ring, Promise!Attempted
  <2> QED
    BY <2>5 DEF Promise!Next
<1>10. ASSUME NEW p \in Proc, Complete(p) PROVE [Promise!Next]_(Promise!vars)
  <2>1. PICK s \in Session : s = job[p]
    BY <1>8, <1>10 DEF Complete
  <2>2. CASE Owned(p) /\ LeaseHolds(p)
    <3>1. rings[s] = 1 /\ UNCHANGED rings
      BY <1>10, <2>1 DEF Complete, IInv, HolderConsistent
    <3>2. status[s] = "starting" /\ status' = [status EXCEPT ![s] = "started"]
      BY <1>10, <2>1, <2>2 DEF Complete, Owned
    <3>3. phase' = [u \in Session |-> IF u \in {s} THEN "started" ELSE phase[u]]
      BY <1>0, <3>2
    <3>4. phase[s] = "trying"
      BY <1>0, <3>2
    <3>5. Promise!Succeed(s)
      BY <3>1, <3>3, <3>4 DEF Promise!Succeed, Promise!Move
    <3> QED
      BY <3>5 DEF Promise!Next
  <2>3. CASE ~(Owned(p) /\ LeaseHolds(p))
    BY <1>1, <1>2, <1>10, <2>3 DEF Complete
  <2> QED
    BY <2>2, <2>3
<1>11. ASSUME NEW p \in Proc, Fail(p) PROVE [Promise!Next]_(Promise!vars)
  <2>1. job[p] \in Session
    BY <1>8, <1>11 DEF Fail
  <2>2. CASE Owned(p)
    BY <1>5, <1>11, <2>1, <2>2 DEF Fail, Owned
  <2>3. CASE ~Owned(p)
    BY <1>1, <1>2, <1>11, <2>3 DEF Fail
  <2> QED
    BY <2>2, <2>3
<1>12. ASSUME NEW p \in Proc,
              \/ InvokeThrows(p) \/ InvokeReturns(p) \/ NotifyFailure(p)
              \/ Start(p) \/ Stop(p) \/ IntervalTick(p) \/ Crash(p)
       PROVE  [Promise!Next]_(Promise!vars)
  BY <1>1, <1>2, <1>12
  DEF InvokeThrows, InvokeReturns, NotifyFailure, Start, Stop, IntervalTick, Crash
<1>13. CASE Advance
  BY <1>1, <1>2, <1>13 DEF Advance
<1>14. CASE UNCHANGED vars
  BY <1>1, <1>2, <1>14 DEF vars
<1> QED
  BY <1>3, <1>4, <1>6, <1>7, <1>9, <1>10, <1>11, <1>12, <1>13, <1>14 DEF Next, PollStep

\* The queue and its pollers implement OneCall: each requested call is attempted once, its
\* outcome is never revised, and the phone rings at most once and only after the attempt.
THEOREM KeepsPromise == Spec => PlacesOneCall
<1>1. Init => Promise!Init
  BY DEF Init, Promise!Init, PhaseOf
<1> QED
  BY <1>1, PromiseStep, Inductive, PTL DEF Spec, PlacesOneCall, Promise!Spec
==============================================================================
