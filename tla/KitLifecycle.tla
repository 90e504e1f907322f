---------------------------- MODULE KitLifecycle ----------------------------
(***************************************************************************)
(* web/src/services: activation, deactivation and deletion of one user's   *)
(* kits across four stores that no transaction joins: the Turso database   *)
(* of the kit, the DynamoDB record the MCP server reads, the SQLite row    *)
(* the web site reads, and the kit:use tuple both authorize by.            *)
(*                                                                         *)
(* Every await is a step.  Calls under withRetry fail, with or without     *)
(* having taken effect, up to MAX_RETRIES times; SQLite writes under a     *)
(* catch are dropped; anything else that throws ends the request, and so   *)
(* does the death of the process.  Requests of the user overlap.           *)
(*                                                                         *)
(* Kits are the registered kits that have migrations: the registry's two   *)
(* refusals (404, 500) come before any write.  kit:use is read fresh here; *)
(* AuthzCache models the cache in front of it.                             *)
(***************************************************************************)
EXTENDS Naturals, FiniteSets

CONSTANTS
  Kits,          \* kits one user may activate
  Requests,      \* requests of that user that may be in flight at once
  Plans,         \* subscription plans
  PLAN_LIMITS,   \* active kits a plan allows
  MAX_RETRIES,   \* attempts of a call under withRetry
  MaxRequests,   \* bound: requests that begin
  NoPlan, NoKit

ASSUME KitsAssumption == IsFiniteSet(Kits) /\ IsFiniteSet(Requests) /\ Requests # {}
ASSUME LimitAssumption ==
  /\ PLAN_LIMITS \in [Plans -> Nat]
  /\ MAX_RETRIES \in Nat /\ MaxRequests \in Nat
ASSUME NothingAssumption == NoPlan \notin Plans /\ NoKit \notin Kits

VARIABLES
  st,      \* st[k]: what the four stores hold for kit k
  subs,    \* plans of the active rows of subscriptions
  op,      \* op[r]: the handler request r runs, with its kit, its position,
  kit,
  pc,
  saw,     \* the status of the row it read,
  plan,    \* the plan it read or is to insert,
  tries,   \* and the attempt of the withRetry it is in
  begun,
  met,     \* history: met[r], the handlers that overlapped r on its kit
  told,    \* history: told[k], what the last answer promised about k, if still due
  clean    \* history: clean[k], no deletion of k has gone wrong

reqVars == <<op, kit, pc, saw, plan, tries, met, begun>>
vars == <<st, subs, reqVars, told, clean>>

Handlers == {"activate", "deactivate", "delete", "subscribe"}

\* Positions at which a request awaits.
Awaits ==
  { "subscription", "row", "count", "getKitDb", "reactivate", "create", "migrate",
    "put", "writeRow", "grant",
    "authorize", "setStatus", "clearRow", "revoke",
    "readRow", "destroy", "deleteRecord", "deleteRow",
    "lookup", "insert" }

Status == {"none", "active", "deactivated"}

Absent == [turso |-> FALSE, record |-> "none", url |-> FALSE, row |-> "none", use |-> FALSE]

Busy(r) == pc[r] # "idle"
On(k) == {r \in Requests : kit[r] = k}

Init ==
  /\ st = [k \in Kits |-> Absent]
  /\ subs \in SUBSET Plans
  /\ op = [r \in Requests |-> "subscribe"]
  /\ kit = [r \in Requests |-> NoKit]
  /\ pc = [r \in Requests |-> "idle"]
  /\ saw = [r \in Requests |-> "none"]
  /\ plan = [r \in Requests |-> NoPlan]
  /\ tries = [r \in Requests |-> 1]
  /\ begun = 0
  /\ met = [r \in Requests |-> {}]
  /\ told = [k \in Kits |-> "nothing"]
  /\ clean = [k \in Kits |-> TRUE]

-----------------------------------------------------------------------------
(* Requests begin, go on and end.                                          *)

\* A handler starts on kit k; overlapping requests of k meet.
Begin(r, h, k, at) ==
  /\ ~Busy(r) /\ begun < MaxRequests
  /\ begun' = begun + 1
  /\ op' = [op EXCEPT ![r] = h]
  /\ kit' = [kit EXCEPT ![r] = k]
  /\ pc' = [pc EXCEPT ![r] = at]
  /\ met' = [q \in Requests |->
               IF q = r THEN {op[d] : d \in On(k)}
               ELSE IF q \in On(k) THEN met[q] \cup {h} ELSE met[q]]
  /\ told' = [told EXCEPT ![k] = IF h = "activate" THEN "nothing" ELSE @]
  /\ clean' = [clean EXCEPT ![k] =
                 @ /\ ~(\E d \in On(k) : op[d] = "delete" \/ h = "delete")]
  /\ UNCHANGED <<st, subs, saw, plan, tries>>

\* What the user may rely on from here on.
Promise(r, ok) ==
  IF ok /\ op[r] = "deactivate" /\ "activate" \notin met[r] THEN "off" ELSE told[kit[r]]

\* A deletion past its checks.
Deleting(r) == op[r] = "delete" /\ pc[r] \notin {"authorize", "readRow"}

Finish(r, ok) ==
  /\ pc' = [pc EXCEPT ![r] = "idle"]
  /\ saw' = [saw EXCEPT ![r] = "none"]
  /\ plan' = [plan EXCEPT ![r] = NoPlan]
  /\ tries' = [tries EXCEPT ![r] = 1]
  /\ op' = [op EXCEPT ![r] = "subscribe"]
  /\ met' = [met EXCEPT ![r] = {}]
  /\ kit' = [kit EXCEPT ![r] = NoKit]
  /\ told' = [k \in Kits |-> IF kit[r] = k THEN Promise(r, ok) ELSE told[k]]
  /\ clean' = [k \in Kits |-> clean[k] /\ (kit[r] = k /\ Deleting(r) => ok)]
  /\ UNCHANGED begun

\* The await settles and the handler goes on to the next one, ...
Go(r, to) ==
  /\ pc' = [pc EXCEPT ![r] = to]
  /\ tries' = [tries EXCEPT ![r] = 1]
  /\ UNCHANGED <<op, kit, met, begun, told, clean>>

\* ... or to the next one of the function it retries as a whole.
Within(r, to) ==
  /\ pc' = [pc EXCEPT ![r] = to]
  /\ UNCHANGED <<op, kit, tries, met, begun, told, clean>>

LastAttempt(r) == tries[r] >= MAX_RETRIES

\* Mutant of NextAttempt: the attempts are not counted.
NextAttemptSame(r) == tries[r]

NextAttempt(r) == tries[r] + 1

\* withRetry: the function is called again from its first await.
Retry(r, from) ==
  \/ /\ ~LastAttempt(r)
     /\ pc' = [pc EXCEPT ![r] = from]
     /\ tries' = [tries EXCEPT ![r] = NextAttempt(r)]
     /\ UNCHANGED <<op, kit, saw, plan, met, begun, told, clean>>
  \/ LastAttempt(r) /\ Finish(r, FALSE)

\* Request r, at the await a, leaves its kit's stores as s and goes on.
Call(r, a, s, to) ==
  /\ pc[r] = a
  /\ st' = [st EXCEPT ![kit[r]] = s]
  /\ Go(r, to)
  /\ UNCHANGED <<subs, saw, plan>>

\* The same, inside a function that is retried as a whole.
Inner(r, a, s, to) ==
  /\ pc[r] = a
  /\ st' = [st EXCEPT ![kit[r]] = s]
  /\ Within(r, to)
  /\ UNCHANGED <<subs, saw, plan>>

\* The attempt fails, having reached the store or not.
Attempt(r, a, s, from) ==
  /\ pc[r] = a
  /\ st' \in {st, [st EXCEPT ![kit[r]] = s]}
  /\ Retry(r, from)
  /\ UNCHANGED subs

\* A SQLite write under a catch: it is made or lost, and the handler goes on.
Try(r, a, s, to) ==
  \/ Call(r, a, s, to)
  \/ /\ pc[r] = a
     /\ Go(r, to)
     /\ UNCHANGED <<st, subs, saw, plan>>

\* The last call: it is made and the handler answers, or it throws, perhaps
\* between the tuple's statement and the version's.
Last(r, a, s) ==
  /\ pc[r] = a
  /\ st' = [st EXCEPT ![kit[r]] = s]
  /\ Finish(r, TRUE) \/ Finish(r, FALSE)
  /\ UNCHANGED subs

\* A read outside a try block throws, or the process dies at any await.
Abort(r) ==
  /\ Busy(r)
  /\ Finish(r, FALSE)
  /\ UNCHANGED <<st, subs>>

Answer(r, ok) == Finish(r, ok) /\ UNCHANGED <<st, subs>>

-----------------------------------------------------------------------------
(* activateKit                                                             *)

Activate(r, k) == Begin(r, "activate", k, "subscription")

ReadSubscription(r) ==
  /\ pc[r] = "subscription"
  /\ \/ subs = {} /\ Answer(r, FALSE)
     \/ /\ \E p \in subs : plan' = [plan EXCEPT ![r] = p]
        /\ Go(r, "row")
        /\ UNCHANGED <<st, subs, saw>>

ReadExisting(r) ==
  LET row == st[kit[r]].row
  IN /\ pc[r] = "row"
     /\ \/ row = "active" /\ Answer(r, TRUE)
        \/ /\ row # "active"
           /\ saw' = [saw EXCEPT ![r] = row]
           /\ Go(r, "count")
           /\ UNCHANGED <<st, subs, plan>>

ActiveRows == {k \in Kits : st[k].row = "active"}

\* Mutant of AtLimit: one more than the plan allows is let in.
AtLimitOff(p) == Cardinality(ActiveRows) > PLAN_LIMITS[p]

AtLimit(p) == Cardinality(ActiveRows) >= PLAN_LIMITS[p]

GetActiveKitCount(r) ==
  /\ pc[r] = "count"
  /\ \/ AtLimit(plan[r]) /\ Answer(r, FALSE)
     \/ ~AtLimit(plan[r]) /\ Go(r, "getKitDb") /\ UNCHANGED <<st, subs, saw, plan>>

\* provisionKit: a record is reactivated, no record means a new database.
GetKitDb(r) ==
  LET s == st[kit[r]]
  IN \/ s.record = "none" /\ Call(r, "getKitDb", s, "create")
     \/ s.record = "deactivated" /\ Call(r, "getKitDb", s, "reactivate")
     \/ s.record = "active" /\ Call(r, "getKitDb", s, "writeRow")
     \/ Attempt(r, "getKitDb", s, "getKitDb")

\* updateUserKitDbStatus is an upsert: without a record it makes one that has
\* a status and no database URL.
WithStatus(s, v) == [s EXCEPT !.record = v]

Reactivate(r) ==
  LET s == WithStatus(st[kit[r]], "active")
  IN Call(r, "reactivate", s, "writeRow") \/ Attempt(r, "reactivate", s, "reactivate")

\* provisionKitDatabase, retried as a whole: create, or adopt the database a 409 speaks of, ...
CreateDatabase(r) ==
  LET s == [st[kit[r]] EXCEPT !.turso = TRUE]
  IN Inner(r, "create", s, "migrate") \/ Attempt(r, "create", s, "create")

\* ... make a token and migrate, for which it must still exist, ...
Migrate(r) ==
  LET s == st[kit[r]]
  IN \/ s.turso /\ Inner(r, "migrate", s, "put")
     \/ /\ pc[r] = "migrate" /\ ~s.turso
        /\ Retry(r, "create")
        /\ UNCHANGED <<st, subs>>
     \/ Attempt(r, "migrate", s, "create")

\* Mutant of Recorded: only the status is written.
RecordedStatus(s) == [s EXCEPT !.record = "active"]

Recorded(s) == [s EXCEPT !.record = "active", !.url = TRUE]

\* ... and write the record, over any other.
PutUserKitDb(r) ==
  LET s == Recorded(st[kit[r]])
  IN Call(r, "put", s, "writeRow") \/ Attempt(r, "put", s, "create")

\* The update finds the row or not; the insert fails on an existing row.
RowWritten(s, seen) ==
  IF seen = "none"
  THEN [s EXCEPT !.row = IF @ = "none" THEN "active" ELSE @]
  ELSE [s EXCEPT !.row = IF @ = "none" THEN "none" ELSE "active"]

WriteRow(r) == Try(r, "writeRow", RowWritten(st[kit[r]], saw[r]), "grant")

Grant(r) == Last(r, "grant", [st[kit[r]] EXCEPT !.use = TRUE])

-----------------------------------------------------------------------------
(* deactivateKit and deleteKit, both authorized by kit:use                 *)

Deactivate(r, k) == Begin(r, "deactivate", k, "authorize")
Delete(r, k) == Begin(r, "delete", k, "authorize")

Authorize(r) ==
  LET s == st[kit[r]]
  IN \/ /\ s.use
        /\ \/ op[r] = "deactivate" /\ Call(r, "authorize", s, "setStatus")
           \/ op[r] = "delete" /\ Call(r, "authorize", s, "readRow")
     \/ pc[r] = "authorize" /\ ~s.use /\ Answer(r, FALSE)

SetDeactivated(r) ==
  LET s == WithStatus(st[kit[r]], "deactivated")
  IN Call(r, "setStatus", s, "clearRow") \/ Attempt(r, "setStatus", s, "setStatus")

\* Mutant of Cleared: writes the schema's third status, which nothing reads.
ClearedArchive(s) == [s EXCEPT !.row = IF @ = "active" THEN "archived" ELSE @]

Cleared(s) == [s EXCEPT !.row = IF @ = "active" THEN "deactivated" ELSE @]

ClearRow(r) == Try(r, "clearRow", Cleared(st[kit[r]]), "revoke")

\* Mutant of Revoked: the tuple survives.
RevokedNot(s) == s

Revoked(s) == [s EXCEPT !.use = FALSE]

Revoke(r) == Last(r, "revoke", Revoked(st[kit[r]]))

ReadRow(r) ==
  LET s == st[kit[r]]
  IN \/ s.row = "deactivated" /\ Call(r, "readRow", s, "destroy")
     \/ pc[r] = "readRow" /\ s.row # "deactivated" /\ Answer(r, FALSE)

\* A database that is already gone is an error like any other.
DestroyDatabase(r) ==
  LET s == [st[kit[r]] EXCEPT !.turso = FALSE]
  IN \/ st[kit[r]].turso /\ Call(r, "destroy", s, "deleteRecord")
     \/ /\ pc[r] = "destroy" /\ ~st[kit[r]].turso
        /\ Retry(r, "destroy")
        /\ UNCHANGED <<st, subs>>
     \/ Attempt(r, "destroy", s, "destroy")

DeleteRecord(r) ==
  LET s == [st[kit[r]] EXCEPT !.record = "none", !.url = FALSE]
  IN Call(r, "deleteRecord", s, "deleteRow") \/ Attempt(r, "deleteRecord", s, "deleteRecord")

DeleteRow(r) == Try(r, "deleteRow", [st[kit[r]] EXCEPT !.row = "none"], "revoke")

-----------------------------------------------------------------------------
(* Subscriptions                                                           *)

\* createSubscription: look, then insert.
Subscribe(r, p) ==
  /\ ~Busy(r) /\ begun < MaxRequests
  /\ begun' = begun + 1
  /\ pc' = [pc EXCEPT ![r] = "lookup"]
  /\ plan' = [plan EXCEPT ![r] = p]
  /\ UNCHANGED <<st, subs, op, kit, saw, tries, met, told, clean>>

LookUp(r) ==
  /\ pc[r] = "lookup"
  /\ \/ subs # {} /\ Answer(r, TRUE)
     \/ subs = {} /\ Go(r, "insert") /\ UNCHANGED <<st, subs, saw, plan>>

Insert(r) ==
  /\ pc[r] = "insert"
  /\ subs' = subs \cup {plan[r]}
  /\ Finish(r, TRUE)
  /\ UNCHANGED st

\* cancelSubscription: one update of every active row; the kits stay active.
CancelSubscription ==
  /\ subs # {}
  /\ subs' = {}
  /\ UNCHANGED <<st, reqVars, told, clean>>

KitStep(r) ==
  /\ kit[r] \in Kits
  /\ \/ ReadSubscription(r) \/ ReadExisting(r) \/ GetActiveKitCount(r) \/ GetKitDb(r)
     \/ Reactivate(r) \/ CreateDatabase(r) \/ Migrate(r) \/ PutUserKitDb(r)
     \/ WriteRow(r) \/ Grant(r)
     \/ Authorize(r) \/ SetDeactivated(r) \/ ClearRow(r) \/ Revoke(r)
     \/ ReadRow(r) \/ DestroyDatabase(r) \/ DeleteRecord(r) \/ DeleteRow(r)

SubscriptionStep(r) == LookUp(r) \/ Insert(r)

Step(r) == KitStep(r) \/ SubscriptionStep(r)

Next ==
  \/ \E r \in Requests :
       \/ \E k \in Kits : Activate(r, k) \/ Deactivate(r, k) \/ Delete(r, k)
       \/ \E p \in Plans : Subscribe(r, p)
       \/ Step(r)
       \/ Abort(r)
  \/ CancelSubscription

\* An await settles: the databases answer or the client's timeout fails the
\* call, so a handler that awaits goes on.
Spec == Init /\ [][Next]_vars /\ \A r \in Requests : WF_vars(Step(r))

-----------------------------------------------------------------------------
(* Type correctness of the stores and of the requests in flight.           *)
TypeOK ==
  /\ st \in [Kits -> [turso : BOOLEAN, record : Status, url : BOOLEAN,
                      row : Status, use : BOOLEAN]]
  /\ subs \subseteq Plans
  /\ op \in [Requests -> Handlers]
  /\ kit \in [Requests -> Kits \cup {NoKit}]
  /\ pc \in [Requests -> Awaits \cup {"idle"}]
  /\ saw \in [Requests -> Status]
  /\ plan \in [Requests -> Plans \cup {NoPlan}]
  /\ tries \in [Requests -> Nat]
  /\ begun \in Nat
  /\ met \in [Requests -> SUBSET Handlers]
  /\ told \in [Kits -> {"nothing", "off"}]
  /\ clean \in [Kits -> BOOLEAN]

\* Activations past the count that have not written their row yet.
Admitted ==
  {r \in Requests :
     pc[r] \in {"getKitDb", "reactivate", "create", "migrate", "put", "writeRow"}}

(***************************************************************************)
(* kit-lifecycle 121-132: the count is read long before the row is written *)
(* and nothing reserves a place, so overlapping activations pass the limit.*)
(* By how much is bounded: never more than one per request in flight,      *)
(* however they fail, retry and come again.                                *)
(***************************************************************************)
Overshoot ==
  \A p \in Plans :
    (\A q \in Plans : PLAN_LIMITS[q] <= PLAN_LIMITS[p]) =>
      Cardinality(ActiveRows) + Cardinality(Admitted) < PLAN_LIMITS[p] + Cardinality(Requests)

(***************************************************************************)
(* kit-lifecycle 189-232: after a deactivation that reported success, and  *)
(* until an activation is asked for again, the MCP server's record is not  *)
(* active and kit:use is not granted, whatever failed on the way, whatever *)
(* deactivations and deletions of the kit overlapped it or follow it.      *)
(***************************************************************************)
OffMeansOff ==
  \A k \in Kits : told[k] = "off" => st[k].record # "active" /\ ~st[k].use

(***************************************************************************)
(* turso-provisioner 65-112: the record is written last, so an active one  *)
(* has a URL and its database exists, though provisioning fails or dies at *)
(* any await, is retried from the start and overlaps other activations and *)
(* deactivations.  Only a deletion that failed half-way, or overlapped     *)
(* another request of the kit, is excepted.                                *)
(***************************************************************************)
ActiveHasDatabase ==
  \A k \in Kits :
    clean[k] /\ (\A r \in On(k) : op[r] # "delete") /\ st[k].record = "active" =>
      st[k].url /\ st[k].turso

(***************************************************************************)
(* mcp-sync 27-41: every request ends.  Attempts are bounded also where    *)
(* trying again cannot help, as with a database that is already gone.      *)
(***************************************************************************)
RequestsEnd == \A r \in Requests : Busy(r) ~> ~Busy(r)
=============================================================================
