# A formal model of KitStack

KitStack is a TypeScript SDK and router for *kits*. Its reference implementation is the
debrief kit: a customer session is prepared in chat, a phone call is scheduled, a realtime
voice agent holds it, the draft it leaves is confirmed in a view, and the result goes to a
CRM. Around it stands the platform: a web site that activates kits for users, an MCP router
that authorizes and dispatches their tool calls, an OAuth server in front of it, and the SDK's
agent runtime. The modules here model those parts where several processes, callbacks, timers
or requests act on one piece of state.

Paths below are relative to the repository.

## 1. Inventory

| Component | State | Operations | Hard part | Module |
|---|---|---|---|---|
| Scheduled calls: queue and poller (`kits/debrief/src/scheduler`, `transports/server.ts`) | table `scheduled_calls` (status, time, attempts, lease), one timer and one in-flight poll per process | schedule, claimDue, complete, fail, reset, start, stop, pollOnce | several hosts with equal worker ids and different clocks; crash between claim and outcome; a lease that ends while the provider is being called | `ScheduledCalls`, `OneCall` |
| Debrief service and persistence (`kits/debrief/src/functions`) | session objects in each host's map; session row, draft row, customer events | prepare, state changes, draft updates, confirm, teach, end after interruption, hydrate | every operation awaits the database between its test and its write; a held object may no longer be the one in the map; confirmation is four statements without a transaction | `DebriefService` |
| Phone call of a session (`packages/voice/src/channel.ts`, `http.ts`, `composition/voice.ts`) | progress of a start, the call at the provider, callSessions | start by job or route, provider reply, media end, status callback, grace timer | replies lost, callbacks early or late, set-up that fails before there is an agent | `DebriefCall` (over `DebriefService`) |
| Media bridge (`packages/voice/src/realtime.ts`) | two sockets, two promise chains, the caller's turn, the hangup mark and timer | start message, model events, barge-in, end_call, marks, finish | five ways to end a call at once; an interruption while the goodbye is being played | `VoiceBridge` |
| CRM sync (`composition/crm.ts`, `packages/crm`) | object `crm-sync/<session>`, records in the CRM | sync after confirmation, retry | two writes without a transaction, lost answers, concurrent retries | `CrmSync` |
| Agent runtime (`packages/sdk/src/define-agent.ts`) | turn, tool and output counters, abort signal and timer, lifecycle events | run, its four awaited operations, abort, timeout | an abort at any await; operations that never settle; events that must bracket the turns on every way out | `AgentLoop` |
| Authorization (`packages/authz`, `mcp-server/src/router/authz.ts`) | tuples, memberships, identity mappings, version row; a decision cache per process | eight mutations with their bump, check, the two checks of a delegated call | the version is advanced after the change; checks of one process replace each other's cache between awaits | `AuthzCache` |
| Kit lifecycle and subscriptions (`web/src/services`, `web/src/app/api`) | the kit's Turso database, its DynamoDB record, its SQLite row, the `kit:use` tuple; subscription rows | activate, deactivate, delete, subscribe, cancel | four stores without a transaction, retries of calls that may have taken effect, overlapping requests, a limit that is read and not reserved | `KitLifecycle` |
| Tool dispatcher (`mcp-server/src/router`, `sdk/src/server/dispatch.ts`) | rate counters, breaker items, daily counts, audit events | a tool call from the rate limit to the audit, the two recorders it leaves running | recorders nobody awaits, which read and write in two steps | `ToolDispatch` |
| OAuth server (`mcp-server/src/router/oauth`, `handler.ts`) | registered clients, authorize sessions, codes, refresh tokens | register, authorize, callback, exchange, refresh, revoke | get and delete are two calls; a code or token used twice at once; a call that fails between delete and put | `OAuth` |
| Kit memory, development relay, plugin registry, jobs and triggers, SDK host and build, telemetry, instructions, model proxy, other kits, web pages | | | | not modelled (§8) |

How they meet. The scheduler's job and the operator's route both call the voice channel's
start, which marks the session *calling* through the debrief service and asks the provider to
dial. The provider opens a media stream to the bridge, whose agent saves facts through the
service and whose end moves the session on; independently the provider posts status
callbacks. The confirmation tools use the service and then the CRM sync. On the platform side
an activation writes the record and grants `kit:use`; a tool call carries an OAuth access
token, passes the rate limit, the authorization check, the breaker and the daily cap, and
reaches the kit.

What makes each part correct: a phone rings at most once per scheduled call, never early, and a
stuck start is surfaced; confirmation events are unique and complete; a session does not stay in
*calling*; a confirmed session has its confirmation event; a call ends once, and the agent's
goodbye is heard before the line drops; what is reported as synced is in the CRM; an agent run
stops when it is told to, ends, and reports a status that has its cause; a revoke that was
published is obeyed; a kit reported as off is off, and an active one has its database; refusals of
the dispatcher are earned, and its audit says what the router was told (which is not always what
the kit did, §5); a refresh token belongs to the user its own callback named and was obtained with
the verifier of its authorize request, and what an answered exchange used is gone. Whether that
user logged in is the login page's matter and not modelled. `PROJECT.json` lists the hazards at
their lines.

## 2. Modules and how they correspond to the code

The grain is the same everywhere. JavaScript runs a handler without interruption up to its
next `await`; an action is such a section, and the `await` is where other actors come in. One
SQL statement or one DynamoDB call is atomic. A rejected promise is an action or disjunct of
its own, with these exceptions. The SQL statements of `ScheduledCalls` do not reject: only the
refusals by their WHERE clause do, and the death of the process at any await (`Crash`) stands for
a statement whose effect nobody learns of; a failing statement in a process that lives on is not
modelled. In `VoiceBridge` a telemetry append that rejects is modelled in `finish()` and in the
set-up, not behind each single model event. What the code swallows (a lost recorder of
`ToolDispatch`, a failing delete of `/revoke`) is a disjunct in which the handler goes on.

**`ScheduledCalls`.** The table's columns are variables indexed by session (`session_id` is
UNIQUE); *absent* and *deleted* stand for a missing row, kept apart so that history is not
forgotten. `Sweep` and `Claim` are the two statements of `claimDue`, with the one `now` that
`pollOnce` captured; `Complete` and `Fail` are the guarded updates, with their different
conditions (only `complete` tests the lease). `pc[p]` is the await of the in-flight poll, so
`IntervalTick` is suppressed while it is not idle. `Start`/`Stop` arm and disarm the timer;
`Stop` does not wait for the poll. `InvokeRings`, `InvokeReturns`, `InvokeThrows` are the job:
the provider dials, and then answers or not. `Crash` loses the process, not the table.
`rings` and `told` are history variables.

**`OneCall`** is the promise without pollers, leases or clocks: a requested call is attempted
once, ends started or surfaced, and rings at most once. `ScheduledCalls` implements it under
the mapping status → phase (`PlacesOneCall`). A ring after the attempt was surfaced or the
row deleted is allowed: a provider slower than the lease cannot be called back.

**`DebriefService`.** One session with a customer. `heap` holds the session objects ever
created, `cur[h]` the one host `h`'s map points at, `disk`, `draftStatus`, `draftFields` and
`events` the database. A task is a request: `pc`, the object it holds (`ref`), the clone it is
persisting (`snap`), the draft it read (`got`) and what it will write (`want`). `persist()`
clones the row when called and writes it later, so two writes may be reordered. Events with
ids derived from the session (address, confirmation) are modelled; events with random ids and
telemetry are appended and never read by these operations, so only the await they cost is
kept (`log`). `Throw` rejects any await, `Restart` replaces a host that reloads the persisted
session. `Request` lets any operation be asked for at any time by any task.

**`DebriefCall`** EXTENDS `DebriefService` and replaces the arbitrary requests by the actors
of a phone call: the start (job or manual route), the agent's tool, the bridge's end and the
status callback, each a task of the service that asks for its next operation when the last
one returned. A start names the call it places. `noted` is the union of `callSessions` and the
job's row, by which a callback resolves to the session. `LeaseEnds` lets `complete()`/`fail()`
throw; `Overtakes` lets the callback arrive before the start has noted the call's id.

**`VoiceBridge`** is `bridgeTwilioToOpenAI` for one call. `openaiQueue` and `twilioQueue` are
the two promise chains. `Finish` is `finish()` up to its first await; `AgentTold` and
`CallCompleted` are its awaits, either of which may reject: then `endCall` does not get to close
the stream. The hangup protocol (request, mark, echo, timer, barge-in)
keeps every branch. The stream plays its buffer in order and echoes a mark on reaching it, or
at once when cleared; the model answers requests in order, with one audio chunk or one tool
call per response. These are external and modelled from how the bridge uses them.

**`CrmSync`** is `syncDebriefToCrm` for one session with a customer and an object store: read
the stored result, decide, look for the customer, read the draft, find the account, log the call,
create the follow-up task, store the result. Every run reads the draft anew and may find another
next step in it. Its definitions carry the prefix `Sync` where `DebriefService` has one of the same
name, so that one module can prove about both (`FailSession` is `markFailed()`, `syncPc` the
await a run is at). `overlaps` counts the runs begun while another was under way, `losses` the
stored successes that a failure replaced. A request may be refused or take effect and lose its
answer; `Abandon` is a crash or a rejection outside the `try`.

**`AgentLoop`** is one `run()`. `pc` is the await it is at: one of the four operations raced
against the signal, or a lifecycle hook, which is not raced. `Settle` settles the promise,
`Rejected` is what the race makes of an abort, and the `After…` actions are the code from one
await to the next. A settled promise and its continuation are separate steps, because an abort
may fall between them; and an operation begins before the signal is looked at, because the
arguments of `runWithSignal` are evaluated first. If the signal was aborted by then, nobody handles
the promise of that operation: `LateRejects` is its rejection, of which a process without a
handler for such rejections dies. `reason` is `signal.reason`, `control` the
`controlReason` that the last abort wrote. The cost estimator the host supplies may throw.

**`AuthzCache`** keeps the three tables as sets, the version row, and per process the
`CacheState` that `VersionedGrantCache` points at. A mutation is one action and its
`BumpAuthorizationVersion` another; `BumpLost` is the failure in between. A check awaits the
version, looks into the cache without awaiting, and on a miss awaits the query and stores the
decision into the state object it captured; `live[c]` says whether that object is still the
process's. A delegated call runs two checks one after the other. `held`, `seen` and `proven`
are history: the answers the tables gave since the last bump, those one check may have seen,
and the grants it has seen.

**`KitLifecycle`** is one user's view of four stores: `st[k]` has the Turso database, the DynamoDB
record and its URL, the SQLite row, and the tuple. A request is a handler at an await. Calls under
`withRetry` fail before or after their effect and are tried again up to `MAX_RETRIES`, any number
of times in all; creating, migrating and recording a database are three awaits inside one
`withRetry` and share its counter (`Inner`), which goes back to the first; SQLite writes under a
`catch` are dropped; other failures and the death of the process (`Abort`) end the request.

**`ToolDispatch`** follows a call from `checkRateLimit` through the SDK's pipeline to the audit
event, and then its two recorders, which nobody awaits and which read and write back in two
steps. A kit answers with a result or an error, or crashes, which `invokeKitLambda` does not see
(`Payload`). Time is in ticks; a day, the cooldown and an item's TTL are numbers of ticks.

**`OAuth`** keeps the table's items (`store`) and the handlers in flight, each at its next
DynamoDB call. Ids are fresh numbers; an item may expire at any time. A revocation by access
token takes any page of `ScanLimit` items, as the scan does. The user of a callback is whatever
its query string says. `grant` and `code`, the authorize request and the code an item came from,
are carried along for the properties only, as are `claim`, `named` and `shown`.

The `MC…` modules only name model values, constant functions and symmetries.

## 3. Runs

States are distinct states found by TLC.

| Run | Instance | Shows |
|---|---|---|
| `scheduled_calls` | 2 sessions, 2 processes, one worker id, skew 0/1, lease 1, clock 0–1, 1 crash (311 000 states) | `RingsAtMostOnce`, `SoleHolder`, `NeverEarly`, `NeverRetried`, the refinement `PlacesOneCall`, and under fairness `DueIsClaimed`, `StuckIsSurfaced` |
| `debrief_service` | 2 requests to one host, 2 session objects, 1 fault or restart (4.9 million) | `ConfirmedOnce`, `ConfirmedAddressRecorded`, `DraftConfirmedAfterEvent`, `ConfirmedHasEvent` |
| `debrief_call` | one scheduled start, lease may end, one fact (8 200) | `CallingIsLeft` under fairness, `DialsOnceDurable` |
| `debrief_call_two_starts` | a scheduled and a manual start (4 million) | `RestIsNotCalling` |
| `debrief_call_overtaken` | as `debrief_call`, callback may come early | a counterexample to `CallingIsLeft` (§5) |
| `crm_sync` | 3 runs, racing or one after another, 2 faults (117 000) | `SyncedIsWritten`, `DuplicatesHaveCause`, `LossesNeedOverlap` |
| `voice_bridge` | 2 responses, 1 barge-in, `finish()` may reject (853 000) | `EndsOnce`, `HangsUpAfterGoodbye`, and under fairness `HangupEnds` |
| `authz_cache` | 1 process, 2 checks, 1 writer, a user, a service, a team, 1 object, 1 bump (2.2 million) | `AnswerFresh`, `DelegatedNeedsBoth` |
| `kit_lifecycle` | 2 kits, 2 requests at once and 4 in all, limit 1, 2 attempts, failures without a bound of their own (550 000) | `Overshoot`, `OffMeansOff`, `ActiveHasDatabase`, and under fairness `RequestsEnd` |
| `tool_dispatch` | 1 user, 1 kit, 3 calls, rate limit 1 a tick, threshold 2, cap 2, days of 2 ticks, clock 1–3 (3.7 million) | `CapEarned`, `BreakerEarned`, `AuditedAsAnswered` |
| `agent_loop` | 4 turns (11 300) | `AbortStops`, `EventsBracketed`, `StatusHonest`, and under fairness `RunEnds` |
| `oauth` | 2 handlers, 2 users, 2 verifiers, 4 ids, 1 fault (741 000) | `Provenance`, `SpentIsGone`, `ForksNeedOverlap` |

`TypeOK` of `VoiceBridge`, `KitLifecycle`, `ToolDispatch` and `OAuth` is checked with their
runs; that of every module is proved (§6).

**Why the bounds are enough.** Two processes are enough for every race on one row, and two rows
let one poll claim while the other is swept; lease 1 and a skewed clock let a lease be taken, run
out and be swept while its holder still works. In `debrief_service` two requests cover every pair
of operations, each may follow its operation by others, and the second session object lets one
request act on an object that a hydration or a restart has replaced in the map; one fault can cut
off either. (Requests on two hosts, each with a map of its own, interleave no more finely, and the
proofs cover them.) Three sync runs let a slow failure overwrite a success and a third run write
everything again. Two responses are the one that calls `end_call` and the goodbye, which may be
interrupted; with one barge-in the alternative of `HangupEnds` in which the caller interrupts for
ever never applies, so the run checks the other ones. In `authz_cache` two checks and one bump are
what a late store into a replaced cache needs; a further process has a cache of its own and shares
nothing but the tables, which the proof covers for any number. Two requests in flight make every
pair of lifecycle handlers overlap, four in all let the state two of them leave be met by a third
and a fourth, limit 1 with two kits makes the limit bite, and two attempts tell the last one from
those before: every request ends by the code's own counter, no bound of the model's. Three calls
with threshold and cap 2 let the third be refused by what the first two left, while recorders
straddle midnight and the cooldown; the rate limit of one call a tick refuses two calls at once.
Four turns let every way out of a turn be followed by every other. Four ids are a session, its
code, a token and its successor, or two codes of one session. Every safety property proved in §6
holds without these bounds.

**Deadlock** is checked for `ScheduledCalls` and `DebriefService`, whose clients can always
ask again. The other modules follow one call, one session or a bounded number of requests to
their end and stop there.

**Mutants.** Each property has a mutant of the modelled code that breaks it: failed rows claimed
again, an upsert without its WHERE, a frozen clock, confirmation events in the other order, a
missing grace timer, hangup marks with one name, a second `finish()`, a decision stored into
whatever cache is current, the second check of a delegation left out, a revoke that is skipped, a
record put without its URL, a count taken twice, a breaker that trips early, an abort nobody
listens to, a code that is not deleted, a session confirmed without its event, an audit that takes
the kit's errors for successes. They stand beside the definitions they alter.

## 4. Fairness

* `ScheduledCalls`: polls run on (the HTTP client behind the provider gives up eventually, so
  the job returns or throws), the interval keeps firing, a stopped or crashed task is started
  again by its service, time passes. Nothing is assumed of `Schedule`, `Reset` or `Crash`.
  The poller itself enforces no time limit on the job: with a provider request that never
  ends, the same process would neither poll nor sweep.
* `DebriefCall`: the event loop runs started operations and due handlers, the provider ends
  each call and posts its final status, the grace timer fires. Not assumed: that a call is
  answered, that the media stream opens or reports anything.
* `VoiceBridge`: only the bridge's own steps (the timer, pending promises, the model event
  chain). The caller, the model and the stream may fall silent for ever.
* `KitLifecycle`: a request that awaits goes on: the database or API answers, or its client
  fails the call. Nothing is assumed of new requests, of failures (all calls may fail) or of
  `Abort`.
* `AgentLoop`: continuations run and the timeout fires. Operations need not settle and the
  caller need not abort; hooks are assumed to return (a hook that hangs hangs the run, §5).

## 5. Where the code and its documents disagree

`debrief_call_overtaken` ends with a counterexample: a final status callback that is handled
before the start noted the call's id resolves to no session and is dropped (`channel.ts:314`);
if the media stream did not open, nothing else ends the call, although the comment says "a
session can never stay in calling". `debrief_call` shows the claim to hold when the callback
comes later.

The following states are reachable in the models or plain from the source, and contradict or
qualify a comment or a document. They have no run of their own.

*Debrief kit and voice.*
* `teachFromCorrection` tests the state, awaits the memory store and then sets *partial*
  (`functions/index.ts:276`). A confirmation in between is undone: *confirmed → partial*, which
  the kit's state diagram (`kits/debrief/README.md:21-22`) does not have. `confirmDebriefDraft`
  sets *confirmed* as late, on the object it looked up before its writes. No property of the
  project forbids these moves; what is checked is that they never leave a confirmed session
  without its event (`ConfirmedHasEvent`).
* `endCallAfterInterruption` tests the state before it awaits the draft and not again
  (`functions/index.ts:255-262`), so a session that has left *calling* may become *failed*,
  against "Sessions that already left `calling` are left untouched."
* `saveDraft` reads, merges and writes: two savers lose each other's fields, so facts an agent
  saved do not always stay reviewable.
* A crash between the confirmation event and the session row leaves a session that a retry does
  not confirm: the retry finds the event and returns.
* A CRM sync that logged the call and then failed logs it again on retry (`crm.ts:74,116`),
  although the tool is described as idempotent (`tools/index.ts:178`). And a slow run that fails
  stores its failure over the success of a faster one (`crm.ts:131`), so the next retry writes
  everything again, where a test says "Idempotent: a retry returns the stored result and writes
  nothing new" (`composition/crm.e2e.test.ts:59`). `crm_sync` bounds both: by failures and
  overlaps.
* With two starts, the second finds the session *calling* in memory while the first is still
  persisting it, and dials before the state is durable: `DialsOnceDurable` holds for one start
  only.
* An interruption restarts the hangup timer (`realtime.ts:1041`), so `hangupTimeoutMs`, an
  "upper bound between an agent hangup request and the call ending" (`realtime.ts:839`), bounds
  the time since the last interruption only: a caller who keeps interrupting keeps the line.
  `HangupEnds` has that alternative. Nor does the bound hold when `onStop` or the telemetry append
  at `realtime.ts:967` rejects: `endCall` then never closes the stream (`:921-923`).
* A stream that closes during set-up lets the start handler open a model session for a finished
  call.

*Agent runtime.* `define-agent.ts:134` says telemetry must never change the agent's outcome; a
host's `estimateCostUsd` that throws does. A timeout during the `run_started` hook is reported as
*cancelled* (`:310-313`). An operation begun on an aborted signal gets no handler (`:107-110`): if
it rejects, the rejection is unhandled, and if it throws before it returns a promise the run is
reported *failed* and not as aborted (`:319-325`). Hooks are awaited and not raced, so one that
hangs hangs the run past its timeout.

*Platform.*
* `engine.ts:31-35` says that "a revoke does not wait for the ten-minute cache TTL"; if the
  process dies between the delete and the version bump, a cached allow lives on until its TTL.
  `AnswerFresh` therefore speaks of revokes whose bump was installed.
* A deactivation may lose its SQLite write (by design, `kit-lifecycle.service.ts`); the next
  activation then finds the row active and answers *already_active* although the record is
  deactivated.
* The delete route needs `kit:use`, which deactivation revokes; a deletion that failed after
  destroying the database never succeeds; under a race an active kit can be deleted.
* Two overlapping subscriptions insert two active rows, and overlapping activations pass the
  plan's limit; `Overshoot` bounds by how much.
* The breaker is described by "consecutive errors to trip" (`tool-dispatcher.ts:18`); a success
  whose recorder comes late does not reset it in time. A Lambda call that throws is not recorded
  at all, and a kit that throws or times out is recorded and audited as a success:
  `invokeKitLambda` does not look at `FunctionError` (`router/handler.ts:69-81`), the generated
  handler of a kit has no catch (`sdk/src/build.ts:310`), and the report of the crash has no
  `isError`; it also resets the breaker. A kit's error with an `errorCode` of its own is audited
  as *denied* if the code says so (`dispatch.ts:235`). The rate-limit message says 60 requests a
  minute where the limit is 120 (`handler.ts:722`, `:86`).
* `/revoke` with an access token is meant to fall through to a scan when the delete fails
  (`handler.ts:348`), but deleting a missing key succeeds. The scan looks at 50 items only. A
  delete that fails is answered 200 with the refresh token still in the table and in force
  (`handler.ts:341-385`); `SpentIsGone` speaks of deletes that succeeded.
* The comment on the code exchange has a user who authenticated (`oauth/authorize.ts`, "After
  user authenticates"), but `/authorize/callback` takes `user_id` from the query string as it is
  (`handler.ts:274-293`): a refresh token's user is the one the callback named, and nothing in this
  server says that it was the login page that named it.

## 6. Proofs

Checked by TLAPS, for all values of the constants under the assumptions named in the modules:
types of the constants; a lease, threshold, cap, cooldown, day and turn limit of at least one;
`None`, `NoKit` and `NoPlan` outside the other sets; disjoint kinds of subject; the names of a
call's actors among the tasks of the service. Where a property
counts, the sets counted over are finite (`Handlers` of `OAuth`, `Calls` of `ToolDispatch`,
`Kits` and `Requests` of `KitLifecycle`), and there is at least one request. They do not assume
unique worker ids, synchronised clocks, or any particular bound on time, crashes, faults, ids or
retries.

Every safety invariant and action property of the passing runs is proved. Each proof
has the same form: an inductive invariant that says what an actor knows at each of its awaits
(TLC checked it on the run's instance before it was proved), one lemma or step per action, and
the properties as consequences.

**`ScheduledCallsProofs`.** `RingsAtMostOnce` alone is not inductive: nothing in it says that a
poll about to ring is the first. `IInv` adds `SoleHolder`, `LeaseConsistent` and
`FailureIsDurableFirst` (a row that was not attempted has not rung, and so on) and
`HolderConsistent`, what a poll in flight knows: the row it claimed is never claimable again,
before the provider is called the phone has not rung, after it exactly once. `Claim` is the
step that matters: the row is *scheduled*, so it has not rung and no poll holds it.
`Inductive` gives `IInv`; `TypeCorrect`, `PhoneRingsOnce`, `OneHolder` and `RowsConsistent`
follow. `NoRetry` proves the action property `NeverRetried` step by step from `IInv`.
`RingsInTime` proves `NeverEarly`; it needs `DueWhenClaimed`: a poll's captured `now` lies in its
past, and the row of a poll about to ring was due then and has not been moved since. And
`KeepsPromise` the refinement: `PromiseStep` maps each action to a step of `OneCall` or a
stutter, using `IInv` for the ring count.

**`DebriefProofs`, the service.** `Typed` (types and `HoldsSession`: an operation in flight holds an
object that exists) is shown first, by lemmas on the building blocks (`SetState`, `SaveDraft`,
`Move`, `End`) so that the operations need no repetition. `Confirmation` is
`ConfirmedOnce`, `ConfirmedAddressRecorded`, `DraftConfirmedAfterEvent` and the strengthening
`ConfirmInFlight`: a confirmation past its address append with an address to report has its
event, and one that will write a confirmed draft has its confirmation event. Most steps are
*calm*, they change neither events nor what is in flight (`CalmStep`, `BlocksCalm`); the
appending steps are treated one by one. `OneConfirmation`, `AddressBeforeConfirmation` and
`ConfirmedDraftHasEvent` follow. `ConfirmedSessionHasEvent` proves `ConfirmedHasEvent`. The two
ways to confirm write in opposite orders: `confirmDebrief` sets the state and then appends its
event, `confirmDebriefDraft` appends the event, writes the draft and sets the state, and clones of
the session are on their way to the row meanwhile. `EventInv` therefore speaks of every copy, in
the heap, in a clone and in the row: the event is recorded, or no copy is confirmed
(`Unconfirmed`), or an operation still owes it (`EventOwed`), or a call has failed.

**`DebriefProofs`, the call.** `CallsUseTheService` shows that the actors of a call are clients
of the service (`CallSpec => Spec`), so all of the above holds during calls. `NotLeftCalling`
proves `RestIsNotCalling` for any number of scheduled and manual starts, any facts and leases
that end. `Owed` is its inductive invariant: while the session is *calling* somebody `Owes` its
end, namely a start that has not yet got past its reply or is about to mark it failed, a noted
call that goes on or whose final status is to come, the grace timer, or a status callback inside
`endCallAfterInterruption`. Two hypotheses are part of the theorem: the status callback does not
overtake the provider's reply (`debrief_call_overtaken` shows that it would be false without),
and the actors of the session's calls are served by one process, since a second process has a
map of its own. `DialsDurably` proves `DialsOnceDurable` for a single start (two refute it, §5):
until it has dialled it works alone (`Undialled`).

**`DebriefProofs`, the sync.** `WInv` adds to `SyncedIsWritten` what a run at each await has done
and decided (`TaskAfterCall`, `Undecided`, `PutsResult`, `WantsRead`) to make it inductive;
`SyncTypeCorrect` and `SyncedIsInCrm` follow for any number of runs. `DInv` is an account: `Paid`
charges the records written, and the runs that may each write one more, to failures and overlaps,
and `Kept` does the same for losses of a stored success. A run that begins alone after a stretch
that left no success needs no overlap to be paid by, because that stretch ended in a failure
(`Wasted`); once a success is stored and nobody is under way, nothing is written again
(`Settled`). `DuplicatesCost` and `LossesCost` follow.

**`VoiceBridgeProofs`**, for any number of responses and interruptions and any timeout.
`EndCount` says for each position of `finish()` how often the agent and the host were told;
only the first call moves it off "no", so `CallEndsOnce` follows. `HangsUpAfterGoodbye` relates
things that lie far apart: the mark whose echo is handled now, the audio the stream still had to
play when the mark was sent, and the interruptions in between. Its invariant has two parts.
`Turns`: an audio event in the model's queue, wherever it stands, lies between the start and the
completion of its response (`Under`), so a completed response gets no more audio (`DoneOver`).
`Line`: at most one mark lies before the stream and it is the one waited for (`OneMark`); echoes
still to be handled are of marks that were sent, and an older one has another number (`Echoed`);
what an interruption cleared is not younger than the response the hangup now waits for
(`LostBefore`); and while a mark is waited for, the audio of some completed response younger than
that lies before the mark (`Goodbye`). `Inductive` gives both, and `HeardBeforeHangup` follows: the
echo of the mark means that the mark has left the buffer, and the goodbye with it. That the model
sends audio only inside a response is how the module models the model; the theorem rests on it.

**`AuthzCacheProofs`.** `AnswerFresh` speaks of a finished check; to be inductive it needs to
say where the answer can come from. `IInv` adds that what is in a process's cache is an answer
the tables gave since that cache's version was installed (`CacheHeld`, `CacheSeen`: for a
check that read the same version, or the current one), that the same is true of a decision
about to be stored (`StoreHeld`, `StoreSeen`) as long as the captured state is the process's,
that no version runs ahead of the row (`NotAhead`), and that the tables' present answer is
always among the held and seen ones (`NowHeld`, `NowSeen`). There is one lemma per action;
`ReplaceStep` (a check installs its version over another) and `StoreStep` carry the argument:
a store that comes late goes to the old object, so it reaches no check that reads a newer
version. `Freshness` and `Delegation` follow for any number of processes, checks and writers.

**`AgentLoopProofs`**, for any `maxTurns`. `AbortStops` is not inductive: that the second
operation does not begin depends on the first having lost its race. `Stopping` says so (an
operation begun after the abort is settled by the signal or has thrown at once, and from there the
loop only reports and ends), on the strength of `Signal` (signal and `controlReason` agree, and a
race is lost only to the signal). `Reporting`, `Reported` and `Failing` carry what happened from
the await where it happened to the status, and `Fresh` that nothing has begun while `run_started`
is awaited, the one place where *cancelled* does not mean that the caller cancelled, for
`HonestStatus`; `Bracketing` says which event is the last one while a turn is open, for
`Bracketed`. `AbortIsObeyed` is the theorem for `AbortStops`.

**`OAuthProofs`**, for any number of handlers, users, clients and ids. The properties speak of the
table; the invariant speaks of what handlers hold between a get, a delete and a put. `Origin`:
what is held can be traced like what is stored, the verifier of a code past its check was shown,
and a session past its look-up carries the user of its own handler's callback (`Ready`), so that
two callbacks of one session cannot exchange their users (`TokensAreTraced`). `OneTime`: an id to
be put is in nobody else's hand, not in the table and not spent, and one that was deleted is not
in the table (`OneTimeUse`; a revocation whose delete threw spends nothing). `Forks` counts the
items of a grant in the table together with those on their way: a put is paid for by a delete that
found its item, or by a `missed` one (`OverlapIsTheOnlyFork`).

**`ToolDispatchProofs`**, for any threshold, cooldown, cap and day. The stored counts lag behind
the answers and a late recorder overwrites a newer count, so neither is equal to anything. What
holds is an upper bound: `DailyCounts` and `BreakerCounts` bound each stored count by the number
of answers whose recorder has ended, and each count in a recorder's hand by one more; its own
answer joins that number when it writes. `Flow` ties result, answer and audit to the
position of the call. `CapIsEarned`, `BreakerIsEarned` and `AuditsSayTheAnswer` follow.

**`KitLifecycleProofs`**, for any kits, requests, plans and retries. `Positions` says which
handler awaits where; `Meets` that requests in flight on one kit know of each other.
`OffMeansOff` needs `NoActivation` (none is in flight on a kit promised off) and `StaysOff` (a
deactivation past its status write, that met no activation, finds the record as it left it).
`Databases` says for every await what the four stores hold there, on a kit none of whose
deletions went wrong: a deletion is alone, the record it leaves is gone before the tuple, and
otherwise the kit is at rest. `OvershootStep` gives the count: an admitted request fills one
place, and only a request that saw room is admitted. `OvershootIsBounded`, `OffStaysOff` and
`RecordsHaveDatabases` follow.

Only model-checked: liveness under fairness (`DueIsClaimed`, `StuckIsSurfaced`, `CallingIsLeft`,
`HangupEnds`, `RequestsEnd`, `RunEnds`), which is out of the prover's reach.

## 7. Abstractions to keep in mind

* One session with a customer in `DebriefService`, `DebriefCall` and `CrmSync`; sessions do not
  share state except through the scheduler's table. The sessionless and customerless branches
  return early and write no deterministic event.
* A draft is the set of its non-empty fields; values are not distinguished, except that an
  address is present or not.
* Time is in ticks. A process's clock may run ahead by a constant skew.
* `speaking` in `VoiceBridge` (the playback estimate) may end at any time after it began. The
  clear message reaches the stream at once.
* A relation is part of an object in `AuthzCache`; a cache entry's TTL is a disappearance at
  any moment. `KitLifecycle` and `ToolDispatch` read the grant without the cache.
* One user in `KitLifecycle`: users share no store's item. Registry refusals come before any
  write and are left out.
* Contents of messages, tool inputs and results in `AgentLoop` and `ToolDispatch` are left out;
  only their kind decides what happens next. The conversation's history is not modelled.
* Verifier and challenge are one value in `OAuth`; access tokens are signed and not stored, so
  they have no state.
* Wording, formatting, telemetry content and audio data are left out.

## 8. Not modelled, and the plan

Left out within the modelled components: the demo reset, customer upsert, approving and
publishing memory from a session; the claims map and the local browser harness of the voice
channel; the agent loop's own queues inside the bridge; the JSON-RPC methods other than tool
calls, tool discovery and views; OAuth metadata, `/connected` and the federation of external
identity providers.

Left out altogether:
* *Kit memory*: candidate, approved and published rows changed by read-then-update. An approve
  that overlaps a publish takes a published row back to approved, which `readRelevant` does not
  tell apart. Small, and the next module to write.
* *Development relay*: a reconnecting socket in front of a request mailbox polled to a deadline,
  for development only. (`disconnect.ts` speaks of a TTL of 5 minutes; `connect.ts:22` stores
  the record for 24 hours.)
* *Plugin registry, jobs and triggers*: sequential dispatch around one handler; the awaits they
  add are part of the modelled operations.
* *SDK host, build, CLI, deployment*: request routing, bundling and file output.
* *Telemetry and audit stores*: append-only. *Instructions*: files read by hash. *Model proxy*:
  no state between requests.
* *Other kits*: single-statement tools over their own tables, and views. *Web pages and
  infrastructure*: presentation, forms of single statements, deployment descriptions. Together
  with the SDK's types and build these are most of the repository's lines; they hold no
  protocol state that a model could check.

No safety property of the runs is left to prove. A proof worth adding with a new module is one
for kit memory, whose approve and publish overlap.

## 9. Running

    tlc -config ScheduledCalls.cfg MCScheduledCalls
    tlapm ScheduledCallsProofs.tla

and likewise for the other pairs in `PROJECT.json`.
