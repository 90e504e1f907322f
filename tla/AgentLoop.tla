----------------------------- MODULE AgentLoop -----------------------------
(***************************************************************************)
(* packages/sdk define-agent: one run() of an agent.  The loop awaits four *)
(* kinds of operation that the host supplies (the turn source, the model,  *)
(* a tool, the output sink), each raced against an AbortSignal that the    *)
(* caller or the wall-clock timer fires, and it awaits a lifecycle hook    *)
(* after every event, which is not raced.                                  *)
(*                                                                         *)
(* An operation may never settle.  It is started before the race begins:   *)
(* the arguments of runWithSignal are evaluated first.  A promise that     *)
(* settles and the continuation after its await are two steps, so an abort *)
(* may fall between them.  An operation begun on an aborted signal gets no *)
(* handler: if its promise rejects, the process may die of it.  Hooks      *)
(* return and never throw (emitEvent).  The metadata of the events come    *)
(* from a cost estimator of the host, which may throw.                     *)
(***************************************************************************)
EXTENDS Naturals, Sequences, FiniteSets

CONSTANT maxTurns

ASSUME MaxTurnsAssumption == maxTurns \in Nat \ {0}

VARIABLES
  pc,         \* the await run() is at
  settled,    \* how the raced promise at pc settled, "no" while it has not
  reason,     \* signal.reason, "none" while the signal is not aborted
  control,    \* controlReason: the last abort, also one that came too late
  timer,      \* the timeout is set
  listening,  \* the caller's signal has the abort listener
  turns, toolCalls, outputs,
  terminal,   \* the message to be emitted is the last one
  why,        \* what the loop will report once the hooks of a failed turn are done
  status,
  log,        \* the events emitted
  started,    \* history: started[o], operations of kind o begun
  late,       \* history: operations begun after the abort
  orphan,     \* the promise nobody handles: "none", "pending" or "rejected"
  broke,      \* history: an operation failed or an undeclared tool was asked for
  threw       \* history: the estimator threw

counters == <<turns, toolCalls, outputs>>
vars == <<pc, settled, reason, control, timer, listening, counters, terminal, why, status,
          log, started, late, orphan, broke, threw>>

Operations == {"source", "model", "tool", "output"}

\* How each operation may settle by itself.
Settlements(o) ==
  {"error"} \cup CASE o = "source" -> {"input", "null"}
                   [] o = "model" -> {"message", "terminal", "tool", "undeclared"}
                   [] o = "tool" -> {"value"}
                   [] o = "output" -> {"value"}

\* externalSignal.aborted on entry is an abort without a listener.
Init ==
  /\ pc = "runStarted" /\ settled = "no"
  /\ \/ reason = "none" /\ control = "none" /\ listening = TRUE
     \/ reason = "cancelled" /\ control = "cancelled" /\ listening = FALSE
  /\ timer = TRUE
  /\ turns = 0 /\ toolCalls = 0 /\ outputs = 0
  /\ terminal = FALSE /\ why = "completed" /\ status = "completed"
  /\ log = <<"run_started">>
  /\ started = [o \in Operations |-> 0]
  /\ late = 0 /\ orphan = "none" /\ broke = FALSE /\ threw = FALSE

-----------------------------------------------------------------------------
(* What happens to the promise at the await.                               *)

Settle(s) ==
  /\ pc \in Operations /\ settled = "no"
  /\ s \in Settlements(pc)
  /\ settled' = s
  /\ broke' = (broke \/ s \in {"error", "undeclared"})
  /\ UNCHANGED <<pc, reason, control, timer, listening, counters, terminal, why, status,
                 log, started, late, orphan, threw>>

\* Mutant of Rejected: the race has no abort listener.
RejectedNever == settled

\* onAbort in runWithSignal, for an operation that is still pending.
Rejected ==
  IF reason = "none" /\ pc \in Operations /\ settled = "no" THEN "control" ELSE settled

\* controller.abort: the first reason stays, and rejects a pending race.
Abort(r) ==
  /\ control' = r
  /\ reason' = IF reason = "none" THEN r ELSE reason
  /\ settled' = Rejected
  /\ UNCHANGED <<pc, counters, terminal, why, status, log, started, late, orphan, broke, threw>>

ExternalAbort ==
  /\ listening
  /\ Abort("cancelled")
  /\ listening' = FALSE          \* { once: true }
  /\ UNCHANGED timer

TimerFires ==
  /\ timer
  /\ Abort("timed_out")
  /\ timer' = FALSE
  /\ UNCHANGED listening

\* The promise of an operation begun too late rejects.  Without a handler of the
\* host's for such rejections the process ends here.  After run() has returned it
\* is the host's matter.
LateRejects ==
  /\ orphan = "pending" /\ pc # "returned"
  /\ orphan' = "rejected"
  /\ \/ UNCHANGED <<pc, settled, timer, listening>>
     \/ pc' = "died" /\ settled' = "no" /\ timer' = FALSE /\ listening' = FALSE
  /\ UNCHANGED <<reason, control, counters, terminal, why, status, log, started, late, broke,
                 threw>>

-----------------------------------------------------------------------------
(* The continuations.                                                      *)

\* Mutant of RaceLost: a signal that is already aborted is not looked at.
RaceLostNever == FALSE

\* runWithSignal on entry.
RaceLost == reason # "none"

\* The operation begins; then the race does.  If that is lost on entry, nobody
\* handles the operation's promise; but an operation that throws at once throws
\* before the race, and counts as failed.
Start(o) ==
  /\ pc' = o
  /\ \/ ~RaceLost /\ settled' = "no" /\ UNCHANGED <<orphan, broke>>
     \/ RaceLost /\ settled' = "control" /\ orphan' = "pending" /\ UNCHANGED broke
     \/ RaceLost /\ settled' = "error" /\ broke' = TRUE /\ UNCHANGED orphan
  /\ started' = [started EXCEPT ![o] = @ + 1]
  /\ late' = IF reason # "none" THEN late + 1 ELSE late
  /\ UNCHANGED <<timer, listening, status, log>>

\* Events are emitted in order; the loop goes on when the last hook returns.
Emit(events, to) ==
  /\ log' = log \o events
  /\ pc' = to
  /\ settled' = "no"
  /\ UNCHANGED <<timer, listening, status, started, late, orphan, broke>>

\* finish(): the timer and the listener go, then the last event.
FinishAfter(events, s) ==
  /\ status' = s
  /\ timer' = FALSE /\ listening' = FALSE
  /\ log' = log \o events \o <<"run_finished">>
  /\ pc' = "finishing"
  /\ settled' = "no"
  /\ UNCHANGED <<started, late, orphan, broke>>

Finish(s) == FinishAfter(<<>>, s)

\* What was emitted when metadataFor threw for one of the events.
CutShort(events) == {SubSeq(events, 1, n) : n \in 0..(Len(events) - 1)}

\* Events with metadata: if one throws, the outer catch reports the run failed.
Told(events, to) ==
  \/ Emit(events, to) /\ UNCHANGED threw
  \/ threw' = TRUE /\ \E e \in CutShort(events) : FinishAfter(e, "failed")

keep == <<reason, control>>

AfterRunStarted ==
  /\ pc = "runStarted"
  /\ \/ control # "none" /\ Finish("cancelled")
     \/ control = "none" /\ Start("source")
  /\ UNCHANGED <<keep, threw, counters, terminal, why>>

\* Mutant of ControlStatus: the outer variable is read instead of the error.
ControlStatusLatest == control

\* The outer catch: the AgentControlError's reason is the signal's.
ControlStatus == reason

\* Mutant of LastTurn: allows one turn too many.
LastTurnOff == turns > maxTurns

LastTurn == turns >= maxTurns

\* The inner loop's head.
NextTurn ==
  \/ LastTurn /\ Finish("max_turns") /\ UNCHANGED turns
  \/ ~LastTurn /\ turns' = turns + 1 /\ Emit(<<"turn_started">>, "turnStarted")

AfterSource ==
  /\ pc = "source"
  /\ \/ settled = "input" /\ NextTurn
     \/ settled = "null" /\ Finish("completed") /\ UNCHANGED turns
     \/ settled = "error" /\ Finish("failed") /\ UNCHANGED turns
     \/ settled = "control" /\ Finish(ControlStatus) /\ UNCHANGED turns
  /\ UNCHANGED <<keep, threw, toolCalls, outputs, terminal, why>>

AfterTurnStarted ==
  /\ pc = "turnStarted" /\ Start("model")
  /\ UNCHANGED <<keep, threw, counters, terminal, why>>

\* Mutant of FailedTurnEvents: the catch forgets the event.
FailedTurnEventsNone == <<>>

FailedTurnEvents == <<"turn_finished">>

\* A failed turn tells the hooks first, then how it failed is reported.
FailedTurn(events) ==
  /\ why' = IF settled = "control" THEN ControlStatus ELSE "failed"
  /\ Told(events, "turnFailed")

AfterModel ==
  /\ pc = "model"
  /\ \/ /\ settled \in {"message", "terminal"}
        /\ terminal' = (settled = "terminal")
        /\ Told(<<"turn_finished">>, "messageFinished")
        /\ UNCHANGED <<toolCalls, why>>
     \/ /\ settled = "tool"
        /\ toolCalls' = toolCalls + 1
        /\ Start("tool")
        /\ UNCHANGED <<threw, terminal, why>>
     \/ /\ settled = "undeclared"
        /\ FailedTurn(<<"turn_finished", "tool_called">>)
        /\ UNCHANGED <<terminal, toolCalls>>
     \/ /\ settled \in {"error", "control"}
        /\ FailedTurn(FailedTurnEvents)
        /\ UNCHANGED <<terminal, toolCalls>>
  /\ UNCHANGED <<keep, turns, outputs>>

ToolEvents == <<"tool_called", "turn_finished">>

\* In the try block a throw of the estimator is caught as the tool's error.
AfterTool ==
  /\ pc = "tool"
  /\ \/ /\ settled = "value"
        /\ Emit(ToolEvents, "toolFinished")
        /\ UNCHANGED <<threw, why>>
     \/ /\ settled = "value"
        /\ threw' = TRUE /\ why' = "failed"
        /\ \E e \in CutShort(ToolEvents) :
             \/ Emit(e \o ToolEvents, "turnFailed")
             \/ \E again \in CutShort(ToolEvents) : FinishAfter(e \o again, "failed")
     \/ settled \in {"error", "control"} /\ FailedTurn(ToolEvents)
  /\ UNCHANGED <<keep, counters, terminal>>

AfterToolFinished ==
  /\ pc = "toolFinished" /\ NextTurn
  /\ UNCHANGED <<keep, threw, toolCalls, outputs, terminal, why>>

AfterTurnFailed ==
  /\ pc = "turnFailed" /\ Finish(why)
  /\ UNCHANGED <<keep, threw, counters, terminal, why>>

AfterMessageFinished ==
  /\ pc = "messageFinished" /\ Start("output")
  /\ UNCHANGED <<keep, threw, counters, terminal, why>>

AfterOutput ==
  /\ pc = "output"
  /\ \/ /\ settled = "value"
        /\ outputs' = outputs + 1
        /\ \/ terminal /\ Finish("completed")
           \/ ~terminal /\ Start("source")
     \/ settled = "error" /\ Finish("failed") /\ UNCHANGED outputs
     \/ settled = "control" /\ Finish(ControlStatus) /\ UNCHANGED outputs
  /\ UNCHANGED <<keep, threw, turns, toolCalls, terminal, why>>

AfterRunFinished ==
  /\ pc = "finishing"
  /\ pc' = "returned"
  /\ UNCHANGED <<settled, keep, threw, timer, listening, counters, terminal, why, status, log,
                 started, late, orphan, broke>>

Continue ==
  \/ AfterRunStarted \/ AfterSource \/ AfterTurnStarted \/ AfterModel \/ AfterTool
  \/ AfterToolFinished \/ AfterTurnFailed \/ AfterMessageFinished \/ AfterOutput
  \/ AfterRunFinished

Next ==
  \/ Continue
  \/ \E o \in Operations : \E s \in Settlements(o) : Settle(s)
  \/ ExternalAbort
  \/ TimerFires
  \/ LateRejects

\* Continuations and timers run; operations need not settle and the caller
\* need not abort.
Spec == Init /\ [][Next]_vars /\ WF_vars(Continue) /\ WF_vars(TimerFires)

-----------------------------------------------------------------------------
Statuses == {"completed", "failed", "max_turns", "cancelled", "timed_out"}
Reasons == {"none", "cancelled", "timed_out"}

(* Type correctness; the turns taken never pass maxTurns.                  *)
TypeOK ==
  /\ pc \in Operations \cup { "runStarted", "turnStarted", "turnFailed", "messageFinished",
                              "toolFinished", "finishing", "returned", "died" }
  /\ settled \in { "no", "error", "control", "input", "null", "message", "terminal", "tool",
                   "undeclared", "value" }
  /\ reason \in Reasons /\ control \in Reasons
  /\ timer \in BOOLEAN /\ listening \in BOOLEAN
  /\ turns \in 0..maxTurns /\ toolCalls \in Nat /\ outputs \in Nat
  /\ terminal \in BOOLEAN
  /\ why \in Statuses /\ status \in Statuses
  /\ log \in Seq({"run_started", "turn_started", "turn_finished", "tool_called", "run_finished"})
  /\ started \in [Operations -> Nat]
  /\ late \in Nat /\ orphan \in {"none", "pending", "rejected"}
  /\ broke \in BOOLEAN /\ threw \in BOOLEAN

(***************************************************************************)
(* define-agent 107-127: the arguments of runWithSignal are evaluated      *)
(* before the signal is looked at, so an abort during a hook is followed   *)
(* by an operation that still begins, but by one at most: from there the   *)
(* loop only reports and ends.                                             *)
(***************************************************************************)
AbortStops == late <= 1

(***************************************************************************)
(* define-agent 338-527: the events of a run bracket it.  run_started is   *)
(* first, run_finished is last and once, and every turn_started is closed  *)
(* by a turn_finished before the next turn or the end, on every path out   *)
(* of the turn, unless the host's cost estimator threw.                    *)
(***************************************************************************)
EventsBracketed ==
  pc = "returned" /\ ~threw =>
    /\ log[1] = "run_started" /\ log[Len(log)] = "run_finished"
    /\ Cardinality({i \in DOMAIN log : log[i] = "run_finished"}) = 1
    /\ \A i \in DOMAIN log : log[i] = "turn_started" =>
         \E j \in DOMAIN log :
           /\ i < j /\ log[j] = "turn_finished"
           /\ \A m \in DOMAIN log : i < m /\ m < j => log[m] = "tool_called"

(***************************************************************************)
(* define-agent 530-538: the status is the one that happened.  The run     *)
(* reports a cancellation only if the caller aborted first, and the        *)
(* timeout only if the timer fired first, however the two race with the    *)
(* operations; an abort during the first hook (310-313), before anything   *)
(* was begun, is the exception: it is reported as a cancellation whoever   *)
(* it was.  It reports completion only if nothing it started failed,       *)
(* failure only if something did, and the limit only when all its turns    *)
(* were taken.                                                             *)
(***************************************************************************)
NothingBegun == \A o \in Operations : started[o] = 0

StatusHonest ==
  pc = "returned" =>
    /\ status \in {"cancelled", "timed_out"} => reason # "none"
    /\ status = "cancelled" => reason = "cancelled" \/ NothingBegun
    /\ status = "timed_out" => reason = "timed_out"
    /\ status = "completed" => ~broke
    /\ status = "failed" => broke \/ threw
    /\ status = "max_turns" => turns = maxTurns

(***************************************************************************)
(* define-agent 208-215: the loop is bounded.  The run ends although the   *)
(* source, the model, a tool or the sink may hang for ever, unless the     *)
(* process dies of a rejection nobody handles, which takes an abort.       *)
(***************************************************************************)
RunEnds == <>(pc = "returned" \/ (pc = "died" /\ reason # "none"))
=============================================================================
