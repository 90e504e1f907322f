--------------------------- MODULE ScheduledCalls ---------------------------
(***************************************************************************)
(* The durable queue of scheduled phone calls of the debrief kit and the   *)
(* pollers that work it off (kits/debrief/src/scheduler/index.ts), driven  *)
(* by the live-voice scheduler of kits/debrief/src/transports/server.ts.   *)
(*                                                                         *)
(* Several host processes (ECS tasks) poll one libSQL table.  Every SQL    *)
(* statement is atomic; everything between two statements of one poll is   *)
(* an await, so the steps of two pollers, the clock, crashes and resets    *)
(* interleave between them.                                                *)
(***************************************************************************)
EXTENDS Integers, FiniteSets

CONSTANTS
  Session,     \* session ids: session_id is UNIQUE and never reused (random UUIDs)
  Proc,        \* host processes, each running one ScheduledCallPoller
  Worker,      \* worker ids written into lease_owner
  Org,         \* organisations
  WorkerOf,    \* the worker id of a process; "demo-voice-<pid>" need not be unique
  PollOrg,     \* the organisation a process polls for
  OrgOf,       \* the organisation of a session
  Skew,        \* how far a process's clock runs ahead of the database's time
  LeaseMs,     \* lease length, in clock ticks
  Times,       \* the times a call may be scheduled at
  MaxTime,     \* bound: the clock stops here
  MaxCrashes,  \* bound: number of process crashes
  None         \* SQL NULL, and "no job in flight"

ASSUME ScheduledCallsAssumption ==
  /\ WorkerOf \in [Proc -> Worker]
  /\ PollOrg \in [Proc -> Org]
  /\ OrgOf \in [Session -> Org]
  /\ Skew \in [Proc -> Nat]
  /\ LeaseMs \in Nat \ {0}
  /\ Times \subseteq Nat
  /\ MaxTime \in Nat
  /\ MaxCrashes \in Nat
  /\ None \notin Session
  /\ None \notin Worker \cup Nat

VARIABLES
  \* the scheduled_calls table, by session id
  status, scheduledAt, attemptCount, leaseOwner, leaseExpiresAt,
  \* the pollers
  running,  \* processes whose poller has its interval timer armed
  pc,       \* pc[p]: the await at which p's pollOnce stands (the inFlight promise)
  job,      \* job[p]: the call p has claimed
  at,       \* at[p]: the now() captured for the statement in flight
  \* the environment
  clock,    \* real time
  crashes,  \* number of crashes so far
  rings,    \* rings[s]: how often the provider was made to ring for s (history)
  told      \* sessions that onProviderFailure marked failed (history)

lease == <<leaseOwner, leaseExpiresAt>>
table == <<status, scheduledAt, attemptCount, lease>>
polls == <<running, pc, job, at>>
env == <<clock, crashes, rings, told>>
vars == <<table, polls, env>>

\* "absent" and "deleted" stand for a row that is not in the table.
Status == {"absent", "scheduled", "starting", "started", "failed", "deleted"}

Pc == {"idle", "sweep", "claim", "invoke", "ringing", "complete", "fail", "notify"}

\* Mutant of Now: the clock is read once, when the poller was built.
NowFrozen(p) == 0 * Skew[p]

\* new Date() as process p reads it.
Now(p) == clock + Skew[p]

TypeOK ==
  /\ status \in [Session -> Status]
  /\ scheduledAt \in [Session -> Nat]
  /\ attemptCount \in [Session -> Nat]
  /\ leaseOwner \in [Session -> Worker \cup {None}]
  /\ leaseExpiresAt \in [Session -> Nat \cup {None}]
  /\ running \subseteq Proc
  /\ pc \in [Proc -> Pc]
  /\ job \in [Proc -> Session \cup {None}]
  /\ at \in [Proc -> Nat]
  /\ clock \in Nat
  /\ crashes \in Nat
  /\ rings \in [Session -> Nat]
  /\ told \subseteq Session

Init ==
  /\ status = [s \in Session |-> "absent"]
  /\ scheduledAt = [s \in Session |-> 0]
  /\ attemptCount = [s \in Session |-> 0]
  /\ leaseOwner = [s \in Session |-> None]
  /\ leaseExpiresAt = [s \in Session |-> None]
  /\ running = {}
  /\ pc = [p \in Proc |-> "idle"]
  /\ job = [p \in Proc |-> None]
  /\ at = [p \in Proc |-> 0]
  /\ clock = 0
  /\ crashes = 0
  /\ rings = [s \in Session |-> 0]
  /\ told = {}
-----------------------------------------------------------------------------
(* The store: one operator per SQL statement. *)

Goto(p, l) == pc' = [pc EXCEPT ![p] = l] /\ UNCHANGED <<running, job, at>>

\* pollOnce ends: the inFlight promise is cleared.
Return(p) ==
  /\ pc' = [pc EXCEPT ![p] = "idle"]
  /\ job' = [job EXCEPT ![p] = None]
  /\ at' = [at EXCEPT ![p] = 0]

\* Mutant of Schedule: the conflict clause without its WHERE status = 'scheduled'.
ScheduleOverwrites(s, t) ==
  /\ status[s] # "deleted"
  /\ status' = [status EXCEPT ![s] = "scheduled"]
  /\ scheduledAt' = [scheduledAt EXCEPT ![s] = t]
  /\ UNCHANGED <<attemptCount, lease, polls, env>>

\* schedule(): insert, or move the time of a row that is still 'scheduled'; any other
\* row is left alone.
Schedule(s, t) ==
  /\ status[s] # "deleted"
  /\ IF status[s] \in {"absent", "scheduled"}
     THEN /\ status' = [status EXCEPT ![s] = "scheduled"]
          /\ scheduledAt' = [scheduledAt EXCEPT ![s] = t]
     ELSE UNCHANGED <<status, scheduledAt>>
  /\ UNCHANGED <<attemptCount, lease, polls, env>>

\* reset(): DELETE every row of the organisation.
Reset(o) ==
  LET gone == {s \in Session : OrgOf[s] = o /\ status[s] # "absent"} IN
  /\ \E s \in gone : status[s] # "deleted"
  /\ status' = [s \in Session |-> IF s \in gone THEN "deleted" ELSE status[s]]
  /\ scheduledAt' = [s \in Session |-> IF s \in gone THEN 0 ELSE scheduledAt[s]]
  /\ attemptCount' = [s \in Session |-> IF s \in gone THEN 0 ELSE attemptCount[s]]
  /\ leaseOwner' = [s \in Session |-> IF s \in gone THEN None ELSE leaseOwner[s]]
  /\ leaseExpiresAt' = [s \in Session |-> IF s \in gone THEN None ELSE leaseExpiresAt[s]]
  /\ UNCHANGED <<polls, env>>

\* Mutant of Expired: the NULL test of lease_expires_at inverted.
ExpiredNull(o, t) ==
  {s \in Session : OrgOf[s] = o /\ status[s] = "starting" /\ leaseExpiresAt[s] = None}

Expired(o, t) ==
  {s \in Session : /\ OrgOf[s] = o
                   /\ status[s] = "starting"
                   /\ leaseExpiresAt[s] # None
                   /\ leaseExpiresAt[s] <= t}

\* SET status = 'failed' with the lease cleared, for a set of rows.
SetFailed(S) ==
  /\ status' = [s \in Session |-> IF s \in S THEN "failed" ELSE status[s]]
  /\ leaseOwner' = [s \in Session |-> IF s \in S THEN None ELSE leaseOwner[s]]
  /\ leaseExpiresAt' = [s \in Session |-> IF s \in S THEN None ELSE leaseExpiresAt[s]]
  /\ UNCHANGED <<scheduledAt, attemptCount>>

\* claimDue(), first statement: surface the organisation's expired leases.
Sweep(p) ==
  /\ pc[p] = "sweep"
  /\ SetFailed(Expired(PollOrg[p], at[p]))
  /\ Goto(p, "claim")
  /\ UNCHANGED env

\* Mutants of Due: failed rows are retried; the due time is not compared.
DueRetries(o, t) ==
  {s \in Session : /\ OrgOf[s] = o
                   /\ status[s] \in {"scheduled", "failed"}
                   /\ scheduledAt[s] <= t}
DueAnyTime(o, t) ==
  {s \in Session : OrgOf[s] = o /\ status[s] = "scheduled"}

Due(o, t) ==
  {s \in Session : OrgOf[s] = o /\ status[s] = "scheduled" /\ scheduledAt[s] <= t}

\* ORDER BY scheduled_at LIMIT 1; the tie-break by random id is left open.
EarliestDue(o, t) ==
  {s \in Due(o, t) : \A u \in Due(o, t) : scheduledAt[s] <= scheduledAt[u]}

\* claimDue(), second statement: claim one due row, with the same now as the sweep.
ClaimRow(p, s) ==
  /\ status' = [status EXCEPT ![s] = "starting"]
  /\ attemptCount' = [attemptCount EXCEPT ![s] = @ + 1]
  /\ leaseOwner' = [leaseOwner EXCEPT ![s] = WorkerOf[p]]
  /\ leaseExpiresAt' = [leaseExpiresAt EXCEPT ![s] = at[p] + LeaseMs]
  /\ pc' = [pc EXCEPT ![p] = "invoke"]
  /\ job' = [job EXCEPT ![p] = s]
  /\ UNCHANGED <<scheduledAt, at>>

Claim(p) ==
  /\ pc[p] = "claim"
  /\ \/ /\ EarliestDue(PollOrg[p], at[p]) = {}
        /\ Return(p)
        /\ UNCHANGED table
     \/ \E s \in EarliestDue(PollOrg[p], at[p]) : ClaimRow(p, s)
  /\ UNCHANGED <<running, env>>

Owned(p) == status[job[p]] = "starting" /\ leaseOwner[job[p]] = WorkerOf[p]

LeaseHolds(p) == leaseExpiresAt[job[p]] = None \/ leaseExpiresAt[job[p]] > at[p]

\* complete(): succeeds only for the owner and before the lease ends, else throws.
Complete(p) ==
  /\ pc[p] = "complete"
  /\ IF Owned(p) /\ LeaseHolds(p)
     THEN /\ status' = [status EXCEPT ![job[p]] = "started"]
          /\ leaseOwner' = [leaseOwner EXCEPT ![job[p]] = None]
          /\ leaseExpiresAt' = [leaseExpiresAt EXCEPT ![job[p]] = None]
          /\ Return(p)
          /\ UNCHANGED <<scheduledAt, attemptCount, running>>
     ELSE Goto(p, "fail") /\ UNCHANGED table
  /\ UNCHANGED env

\* fail(): needs the ownership but not the lease; when it throws, the poll ends there
\* and onProviderFailure is skipped.
Fail(p) ==
  /\ pc[p] = "fail"
  /\ IF Owned(p)
     THEN SetFailed({job[p]}) /\ Goto(p, "notify")
     ELSE Return(p) /\ UNCHANGED <<table, running>>
  /\ UNCHANGED env
-----------------------------------------------------------------------------
(* The poller. *)

BeginPoll(p) ==
  /\ pc' = [pc EXCEPT ![p] = "sweep"]
  /\ at' = [at EXCEPT ![p] = Now(p)]
  /\ UNCHANGED job

\* start(): arm the timer and tick at once, unless a poll is still in flight.
Start(p) ==
  /\ p \notin running
  /\ running' = running \cup {p}
  /\ IF pc[p] = "idle" THEN BeginPoll(p) ELSE UNCHANGED <<pc, job, at>>
  /\ UNCHANGED <<table, env>>

\* stop(): disarm the timer; the poll in flight is not awaited.
Stop(p) ==
  /\ p \in running
  /\ running' = running \ {p}
  /\ UNCHANGED <<table, pc, job, at, env>>

\* The interval fires; an in-flight poll suppresses the tick.
IntervalTick(p) ==
  /\ p \in running
  /\ pc[p] = "idle"
  /\ BeginPoll(p)
  /\ UNCHANGED <<table, running, env>>

\* The job reaches the provider and the phone rings; the reply is outstanding.
InvokeRings(p) ==
  /\ pc[p] = "invoke"
  /\ rings' = [rings EXCEPT ![job[p]] = @ + 1]
  /\ Goto(p, "ringing")
  /\ UNCHANGED <<table, clock, crashes, told>>

\* The job throws: before the provider was reached, or after the phone rang (a lost
\* reply, or a failing write of the call id).
InvokeThrows(p) ==
  /\ pc[p] \in {"invoke", "ringing"}
  /\ Goto(p, "fail")
  /\ UNCHANGED <<table, env>>

\* The job returns the provider's call id; complete() is issued with a fresh now.
InvokeReturns(p) ==
  /\ pc[p] = "ringing"
  /\ pc' = [pc EXCEPT ![p] = "complete"]
  /\ at' = [at EXCEPT ![p] = Now(p)]
  /\ UNCHANGED <<table, running, job, env>>

\* onProviderFailure: markFailed on the debrief session, errors swallowed.
NotifyFailure(p) ==
  /\ pc[p] = "notify"
  /\ told' = told \cup {job[p]}
  /\ Return(p)
  /\ UNCHANGED <<table, running, clock, crashes, rings>>
-----------------------------------------------------------------------------
(* The environment. *)

\* The process dies: timer and in-flight poll are lost, the table is not.
Crash(p) ==
  /\ p \in running \/ pc[p] # "idle"
  /\ crashes < MaxCrashes
  /\ crashes' = crashes + 1
  /\ running' = running \ {p}
  /\ Return(p)
  /\ UNCHANGED <<table, clock, rings, told>>

Advance ==
  /\ clock < MaxTime
  /\ clock' = clock + 1
  /\ UNCHANGED <<table, polls, crashes, rings, told>>

PollStep(p) ==
  \/ Sweep(p) \/ Claim(p)
  \/ InvokeRings(p) \/ InvokeThrows(p) \/ InvokeReturns(p)
  \/ Complete(p) \/ Fail(p) \/ NotifyFailure(p)

Next ==
  \/ \E s \in Session, t \in Times : Schedule(s, t)
  \/ \E o \in Org : Reset(o)
  \/ \E p \in Proc : PollStep(p) \/ Start(p) \/ Stop(p) \/ IntervalTick(p) \/ Crash(p)
  \/ Advance

Spec == Init /\ [][Next]_vars

\* The event loop runs every poll to its end (fetch times out, so the provider always
\* answers or throws), the interval keeps firing, a stopped task is replaced by the
\* service, and time passes.
Fairness ==
  /\ \A p \in Proc : WF_vars(PollStep(p)) /\ WF_vars(IntervalTick(p)) /\ WF_vars(Start(p))
  /\ WF_vars(Advance)

FairSpec == Spec /\ Fairness
-----------------------------------------------------------------------------
(* Properties. *)

\* A phone never rings twice for one scheduled call: the claim is taken once, whatever
\* the pollers, crashes, lease sweeps, reschedulings and shared worker ids do.
RingsAtMostOnce == \A s \in Session : rings[s] <= 1

\* No two pollers work on the same job, even when their worker ids coincide.
SoleHolder ==
  \A p, q \in Proc : job[p] # None /\ job[p] = job[q] => p = q

\* A lease owner and a lease end are stored exactly while a call is being started, for
\* exactly one attempt; a row that reached 'started' was really dialled.
LeaseConsistent ==
  \A s \in Session :
    /\ (status[s] = "starting") <=> (leaseOwner[s] # None)
    /\ (leaseOwner[s] # None) <=> (leaseExpiresAt[s] # None)
    /\ status[s] \in {"absent", "scheduled"} => attemptCount[s] = 0 /\ rings[s] = 0
    /\ status[s] \in {"starting", "started", "failed"} => attemptCount[s] = 1
    /\ status[s] = "started" => rings[s] = 1

\* The phone rings no earlier than the scheduled time on the caller's own clock, although
\* the row may be rescheduled between two polls and the poll reads the clock once.
NeverEarly ==
  [][\A s \in Session, p \in Proc :
       job[p] = s /\ rings'[s] > rings[s] /\ status[s] # "deleted"
         => scheduledAt[s] <= Now(p)]_vars

\* A debrief session is told of a failure only when its job ended as failed: a job that
\* was completed never reports the session failed.
FailureIsDurableFirst ==
  \A s \in Session : s \in told => status[s] \in {"failed", "deleted"}

\* What a poll in flight knows of its job: it stays the sole attempt at it, and how far
\* the poll got decides whether the phone has rung.  This is the strengthening that makes
\* the invariants above inductive.
HolderConsistent ==
  \A p \in Proc :
    /\ (job[p] = None) <=> (pc[p] \in {"idle", "sweep", "claim"})
    /\ job[p] # None => status[job[p]] \in {"starting", "failed", "deleted"}
    /\ pc[p] = "invoke" => rings[job[p]] = 0
    /\ pc[p] \in {"ringing", "complete"} => rings[job[p]] = 1
    /\ pc[p] = "notify" => status[job[p]] \in {"failed", "deleted"}

IInv ==
  /\ TypeOK
  /\ RingsAtMostOnce
  /\ SoleHolder
  /\ LeaseConsistent
  /\ FailureIsDurableFirst
  /\ HolderConsistent

\* Once a call was attempted its row never becomes claimable again (no retry).
NeverRetried ==
  [][\A s \in Session :
       status[s] \in {"starting", "started", "failed", "deleted"}
         => status'[s] \notin {"absent", "scheduled"}]_vars

\* A due call does not stay scheduled: some poller of its organisation claims it.
DueIsClaimed ==
  \A s \in Session :
    (status[s] = "scheduled" /\ scheduledAt[s] <= clock)
      ~> (status[s] # "scheduled" \/ scheduledAt[s] > clock)

\* A job stuck past its lease is surfaced: it does not stay 'starting' (for leases that
\* end within the modelled time).
StuckIsSurfaced ==
  \A s \in Session :
    (status[s] = "starting" /\ leaseExpiresAt[s] <= MaxTime)
      ~> (status[s] # "starting")

\* The queue keeps the promise of OneCall, whatever its pollers do: a row's status is the
\* phase of the call.
PhaseOf(st) ==
  CASE st = "absent" -> "none"
    [] st = "scheduled" -> "waiting"
    [] st = "starting" -> "trying"
    [] st = "deleted" -> "cleared"
    [] OTHER -> st

Promise == INSTANCE OneCall WITH phase <- [s \in Session |-> PhaseOf(status[s])], rung <- rings

PlacesOneCall == Promise!Spec
=============================================================================
