-------------------------- MODULE AgentLoopProofs --------------------------
(***************************************************************************)
(* For any limit on the turns: a run that was aborted begins at most one   *)
(* more operation, its events bracket its turns, and the status it reports *)
(* is the one that happened, but for an abort during the first hook.       *)
(***************************************************************************)
EXTENDS AgentLoop, FiniteSetTheorems, TLAPS

USE MaxTurnsAssumption

Ended == {"finishing", "returned"}

Over == {"died"} \cup Ended

\* The positions at which a turn is open: its turn_started is the last event.
InTurn == {"turnStarted", "model", "tool"}

\* controlReason and the signal agree on whether there was an abort, a race is
\* lost only to the signal, a failed operation is known to have failed, and only
\* an operation settles.
Signal ==
  /\ (reason = "none") <=> (control = "none")
  /\ settled = "control" => reason # "none"
  /\ settled \in {"error", "undeclared"} => broke
  /\ settled # "no" => pc \in Operations /\ settled \in {"control"} \cup Settlements(pc)

\* An operation begun after the abort loses its race or has thrown at once, and
\* from there the loop only reports and ends.
Stopping ==
  late = 1 => \/ pc \in Operations /\ settled \in {"control", "error"}
              \/ pc \in {"turnFailed", "died"} \cup Ended

\* What the loop is about to report of a failed turn.
Reporting ==
  pc = "turnFailed" => \/ why = "failed" /\ (broke \/ threw)
                       \/ why # "none" /\ why = reason

\* Before the first hook has returned nothing is begun.
Fresh == pc = "runStarted" => NothingBegun

\* What it has reported.
Reported ==
  pc \in Ended =>
    /\ status \in {"cancelled", "timed_out"} => reason # "none"
    /\ status = "cancelled" => reason = "cancelled" \/ NothingBegun
    /\ status = "timed_out" => reason = "timed_out"
    /\ status = "failed" => broke \/ threw
    /\ status = "max_turns" => turns = maxTurns

\* A failure is never forgotten before it is reported.
Failing ==
  broke => \/ pc \in Operations /\ settled \in {"error", "undeclared"}
           \/ pc \in {"turnFailed", "died"}
           \/ pc \in Ended /\ status # "completed"

\* The turn_started at position i of s is closed.
Closed(s, i) ==
  \E j \in DOMAIN s :
    /\ i < j /\ s[j] = "turn_finished"
    /\ \A m \in DOMAIN s : i < m /\ m < j => s[m] = "tool_called"

\* The events so far: all turns are closed but the one the loop is in.
Bracketing ==
  ~threw /\ pc # "died" =>
    /\ Len(log) >= 1 /\ log[1] = "run_started"
    /\ \A i \in 1..Len(log) : log[i] = "run_finished" => pc \in Ended /\ i = Len(log)
    /\ pc \in Ended => log[Len(log)] = "run_finished"
    /\ pc \in InTurn => log[Len(log)] = "turn_started"
    /\ \A i \in 1..Len(log) :
         log[i] = "turn_started" => Closed(log, i) \/ (pc \in InTurn /\ i = Len(log))

IInv ==
  /\ TypeOK /\ Signal /\ AbortStops /\ Stopping /\ Fresh /\ Reporting /\ Reported /\ Failing
  /\ Bracketing

Event == {"run_started", "turn_started", "turn_finished", "tool_called", "run_finished"}

\* Everything but the events.
Flow ==
  TypeOK /\ Signal /\ AbortStops /\ Stopping /\ Fresh /\ Reporting /\ Reported /\ Failing

-----------------------------------------------------------------------------
\* The events of one step are a sequence of events, cut short or not.
LEMMA CutShortSeq ==
  ASSUME NEW events \in Seq(Event), NEW e \in CutShort(events)
  PROVE  e \in Seq(Event)
<1>1. PICK n \in 0..(Len(events) - 1) : e = SubSeq(events, 1, n)
  BY DEF CutShort
<1> QED
  BY <1>1

\* The events the actions emit.
LEMMA EventSeqs ==
  /\ <<>> \in Seq(Event) /\ <<"turn_started">> \in Seq(Event)
  /\ <<"run_finished">> \in Seq(Event) /\ <<"turn_finished">> \in Seq(Event)
  /\ <<"turn_finished", "tool_called">> \in Seq(Event)
  /\ FailedTurnEvents \in Seq(Event) /\ ToolEvents \in Seq(Event)
BY DEF Event, FailedTurnEvents, ToolEvents

LEMMA Concat ==
  ASSUME NEW s \in Seq(Event), NEW t \in Seq(Event)
  PROVE  /\ s \o t \in Seq(Event)
         /\ Len(s \o t) = Len(s) + Len(t)
         /\ \A i \in 1..Len(s) : (s \o t)[i] = s[i]
         /\ \A i \in 1..Len(t) : (s \o t)[Len(s) + i] = t[i]
OBVIOUS

LEMMA FlowInit == Init => Flow
<1> SUFFICES ASSUME Init PROVE Flow
  OBVIOUS
<1>1. log \in Seq(Event)
  BY DEF Init, Event
<1>2. /\ timer \in BOOLEAN /\ listening \in BOOLEAN /\ terminal \in BOOLEAN
      /\ broke \in BOOLEAN /\ threw \in BOOLEAN
  BY Zenon DEF Init
<1>3. /\ started \in [Operations -> Nat] /\ turns \in 0..maxTurns /\ late \in Nat
      /\ toolCalls \in Nat /\ outputs \in Nat
  BY DEF Init
<1>4. reason \in Reasons /\ control \in Reasons /\ why \in Statuses /\ status \in Statuses
  BY DEF Init, Reasons, Statuses
<1>5. TypeOK
  BY <1>1, <1>2, <1>3, <1>4 DEF Init, TypeOK, Event
<1> QED
  BY <1>5 DEF Init, Flow, Signal, AbortStops, Stopping, Fresh, NothingBegun, Reporting, Reported,
     Failing, Ended

LEMMA SettleFlow ==
  ASSUME Flow, NEW s, Settle(s)
  PROVE  Flow'
<1> USE DEF Flow, Settle, Operations, counters
<1>1. TypeOK'
  BY DEF TypeOK, Settlements
<1>2. s # "no" /\ s # "control"
  BY DEF Settlements
<1>3. Signal' /\ AbortStops'
  BY <1>2 DEF Signal, AbortStops
<1>4. Stopping' /\ Fresh' /\ Reporting' /\ Reported'
  BY DEF Stopping, Fresh, NothingBegun, Reporting, Reported, Ended
<1>5. Failing'
  BY <1>2 DEF Failing, Ended, TypeOK
<1> QED
  BY <1>1, <1>3, <1>4, <1>5

LEMMA AbortFlow ==
  ASSUME Flow, ExternalAbort \/ TimerFires
  PROVE  Flow'
<1> USE DEF Flow, ExternalAbort, TimerFires, Abort, Operations, counters
<1>1. timer' \in BOOLEAN /\ listening' \in BOOLEAN
  BY Zenon DEF TypeOK
<1>2. TypeOK'
  BY <1>1 DEF TypeOK, Rejected, Reasons
<1>3. Signal' /\ AbortStops'
  BY DEF Signal, AbortStops, Rejected, TypeOK, Reasons
<1>4. Stopping' /\ Failing'
  BY DEF Stopping, Failing, Rejected, Ended
<1>5. Fresh' /\ Reporting' /\ Reported'
  BY DEF Fresh, NothingBegun, Reporting, Reported, Ended, Reasons, TypeOK
<1> QED
  BY <1>2, <1>3, <1>4, <1>5

LEMMA LateRejectsFlow ==
  ASSUME Flow, LateRejects
  PROVE  Flow'
<1> USE DEF Flow, LateRejects, Operations, counters
<1>1. timer' \in BOOLEAN /\ listening' \in BOOLEAN
  BY Zenon DEF TypeOK
<1>2. TypeOK'
  BY <1>1 DEF TypeOK
<1>3. Signal' /\ AbortStops' /\ Stopping' /\ Failing'
  BY DEF Signal, AbortStops, Stopping, Failing, Ended
<1>4. Fresh' /\ Reporting' /\ Reported'
  BY DEF Fresh, NothingBegun, Reporting, Reported, Ended
<1> QED
  BY <1>2, <1>3, <1>4

-----------------------------------------------------------------------------
(* What the building blocks of a continuation keep.                        *)

\* The loop's own data.
DataOK ==
  /\ turns \in 0..maxTurns /\ toolCalls \in Nat /\ outputs \in Nat
  /\ terminal \in BOOLEAN /\ why \in Statuses /\ threw \in BOOLEAN

\* An operation begins only where nothing has failed and no abort was seen.
LEMMA StartFlow ==
  ASSUME Flow, NEW o \in Operations, Start(o), UNCHANGED keep, DataOK', late = 0, ~broke
  PROVE  Flow'
<1> USE DEF Flow, Start, keep, RaceLost
<1>0. broke' \in BOOLEAN
  BY Zenon DEF TypeOK
<1>1. TypeOK'
  BY <1>0 DEF TypeOK, DataOK
<1>2. Signal' /\ AbortStops'
  BY DEF Signal, AbortStops, Settlements
<1>3. Stopping' /\ Failing' /\ Fresh' /\ Reporting' /\ Reported'
  BY DEF Stopping, Failing, Fresh, Reporting, Reported, Ended, Operations
<1> QED
  BY <1>1, <1>2, <1>3

LEMMA EmitFlow ==
  ASSUME Flow, NEW events \in Seq(Event),
         NEW to \in {"turnStarted", "messageFinished", "toolFinished", "turnFailed"},
         Emit(events, to), UNCHANGED keep, DataOK',
         to # "turnFailed" => late = 0 /\ ~broke,
         to = "turnFailed" => \/ why' = "failed" /\ (broke \/ threw')
                              \/ why' # "none" /\ why' = reason
  PROVE  Flow'
<1> USE DEF Flow, Emit, keep
<1>1. log' \in Seq(Event)
  BY Concat DEF TypeOK, Event
<1>2. TypeOK'
  BY <1>1 DEF TypeOK, DataOK, Event
<1>3. Signal' /\ AbortStops'
  BY DEF Signal, AbortStops
<1>4. Stopping' /\ Failing' /\ Fresh' /\ Reporting' /\ Reported'
  BY DEF Stopping, Failing, Fresh, Reporting, Reported, Ended, TypeOK
<1> QED
  BY <1>2, <1>3, <1>4

LEMMA FinishFlow ==
  ASSUME Flow, NEW events \in Seq(Event), NEW s \in Statuses,
         FinishAfter(events, s), UNCHANGED keep, DataOK',
         s = "completed" => ~broke,
         s \in {"cancelled", "timed_out"} => reason # "none",
         s = "cancelled" => reason = "cancelled" \/ NothingBegun,
         s = "timed_out" => reason = "timed_out",
         s = "failed" => broke \/ threw',
         s = "max_turns" => turns' = maxTurns
  PROVE  Flow'
<1> USE DEF Flow, FinishAfter, keep
<1>1. log' \in Seq(Event)
  BY Concat, EventSeqs DEF TypeOK, Event
<1>2. timer' \in BOOLEAN /\ listening' \in BOOLEAN
  BY Zenon
<1>3. TypeOK'
  BY <1>1, <1>2 DEF TypeOK, DataOK, Event
<1>4. Signal' /\ AbortStops'
  BY DEF Signal, AbortStops
<1>5. Stopping' /\ Failing' /\ Fresh' /\ Reporting' /\ Reported'
  BY DEF Stopping, Failing, Fresh, NothingBegun, Reporting, Reported, Ended
<1> QED
  BY <1>3, <1>4, <1>5

\* Where no race was lost and nothing has failed, the loop has not been stopped.
LEMMA NotStopped ==
  ASSUME Flow, pc \notin {"turnFailed"} \cup Over
  PROVE  /\ settled \notin {"control", "error"} => late = 0
         /\ settled \notin {"error", "undeclared"} => ~broke
BY DEF Flow, TypeOK, AbortStops, Stopping, Failing, Over, Ended

\* A failed operation is known to have failed.
LEMMA KnownBroke ==
  ASSUME Flow, settled \in {"error", "undeclared"}
  PROVE  broke
BY DEF Flow, Signal

\* The status of a lost race is the signal's reason.
LEMMA ControlReason ==
  ASSUME Flow, settled = "control"
  PROVE  ControlStatus \in {"cancelled", "timed_out"} /\ ControlStatus = reason
BY DEF Flow, TypeOK, Signal, Reasons, ControlStatus

LEMMA NextTurnFlow ==
  ASSUME Flow, NextTurn, UNCHANGED <<keep, threw, toolCalls, outputs, terminal, why>>,
         late = 0, ~broke
  PROVE  Flow'
<1>1. CASE LastTurn
  <2>1. turns' = turns /\ turns = maxTurns /\ DataOK'
    BY <1>1 DEF NextTurn, LastTurn, DataOK, Flow, TypeOK
  <2> QED
    BY <1>1, <2>1, FinishFlow, EventSeqs DEF NextTurn, Finish, Statuses
<1>2. CASE ~LastTurn
  <2>1. DataOK'
    BY <1>2 DEF NextTurn, LastTurn, DataOK, Flow, TypeOK
  <2> QED
    BY <1>2, <2>1, EmitFlow, EventSeqs DEF NextTurn
<1> QED
  BY <1>1, <1>2

\* Events with metadata, where the turn failed.
LEMMA FailedTurnFlow ==
  ASSUME Flow, NEW events \in Seq(Event), FailedTurn(events),
         settled \in {"undeclared", "error", "control"}, UNCHANGED <<keep, counters, terminal>>
  PROVE  Flow'
<1>1. \/ why' = "failed" /\ broke
      \/ why' \in {"cancelled", "timed_out"} /\ why' = reason
  BY ControlReason, KnownBroke DEF FailedTurn
<1>2. CASE Emit(events, "turnFailed") /\ UNCHANGED threw
  <2>1. DataOK'
    BY <1>1, <1>2 DEF DataOK, Flow, TypeOK, counters, Statuses
  <2> QED
    BY <1>1, <1>2, <2>1, EmitFlow
<1>3. ASSUME threw' = TRUE, NEW e \in CutShort(events), FinishAfter(e, "failed") PROVE Flow'
  <2>1. threw' \in BOOLEAN
    BY <1>3, Zenon
  <2>2. DataOK'
    BY <1>1, <2>1 DEF DataOK, Flow, TypeOK, counters, Statuses
  <2>3. "failed" \in Statuses
    BY DEF Statuses
  <2> QED
    BY <1>3, <2>2, <2>3, FinishFlow, CutShortSeq
<1> QED
  BY <1>2, <1>3 DEF FailedTurn, Told

-----------------------------------------------------------------------------
(* The continuations, one by one.                                          *)

LEMMA ContinueFlow ==
  ASSUME Flow, Continue
  PROVE  Flow'
<1> USE EventSeqs
<1>0. DataOK /\ {"completed", "failed", "max_turns", "cancelled", "timed_out"} = Statuses
  BY DEF DataOK, Flow, TypeOK, Statuses
<1>1. CASE AfterRunStarted
  <2>1. DataOK'
    BY <1>0, <1>1 DEF AfterRunStarted, DataOK, counters
  <2>2. late = 0 /\ ~broke
    BY <1>1, NotStopped DEF AfterRunStarted, Flow, Signal, Over, Ended, Operations
  <2>3. (control # "none" => reason # "none") /\ NothingBegun
    BY <1>1 DEF AfterRunStarted, Flow, Signal, Fresh
  <2> QED
    BY <1>0, <1>1, <2>1, <2>2, <2>3, StartFlow, FinishFlow
    DEF AfterRunStarted, Finish, Operations
<1>2. CASE AfterSource
  <2>1. CASE settled = "input"
    <3>1. late = 0 /\ ~broke /\ NextTurn
      BY <1>2, <2>1, NotStopped DEF AfterSource, Over, Ended
    <3> QED
      BY <1>2, <3>1, NextTurnFlow DEF AfterSource
  <2>2. CASE settled # "input"
    <3>1. DataOK'
      BY <1>0, <1>2, <2>2 DEF AfterSource, DataOK
    <3>2. settled = "null" => ~broke
      BY <1>2, NotStopped DEF AfterSource, Over, Ended
    <3>3. settled = "error" => broke
      BY KnownBroke
    <3> QED
      BY <1>0, <1>2, <2>2, <3>1, <3>2, <3>3, ControlReason, FinishFlow DEF AfterSource, Finish
  <2> QED
    BY <2>1, <2>2
<1>3. CASE AfterTurnStarted
  <2>1. DataOK'
    BY <1>0, <1>3 DEF AfterTurnStarted, DataOK, counters
  <2>2. late = 0 /\ ~broke
    BY <1>3, NotStopped DEF AfterTurnStarted, Flow, Signal, Over, Ended, Operations
  <2> QED
    BY <1>3, <2>1, <2>2, StartFlow DEF AfterTurnStarted, Operations
<1>4. CASE AfterModel
  <2>1. ASSUME settled \in {"message", "terminal"},
               terminal' = (settled = "terminal"),
               Told(<<"turn_finished">>, "messageFinished"), UNCHANGED <<toolCalls, why>>
        PROVE  Flow'
    <3>1. late = 0 /\ ~broke
      BY <1>4, <2>1, NotStopped DEF AfterModel, Over, Ended
    <3>2. terminal' \in BOOLEAN
      BY <2>1, Zenon
    <3>3. CASE Emit(<<"turn_finished">>, "messageFinished") /\ UNCHANGED threw
      <4>1. DataOK'
        BY <1>0, <1>4, <2>1, <3>2, <3>3 DEF AfterModel, DataOK
      <4> QED
        BY <1>4, <3>1, <3>3, <4>1, EmitFlow DEF AfterModel
    <3>4. ASSUME threw' = TRUE, NEW e \in CutShort(<<"turn_finished">>),
                 FinishAfter(e, "failed")
          PROVE  Flow'
      <4>1. threw' \in BOOLEAN
        BY <3>4, Zenon
      <4>2. DataOK'
        BY <1>0, <1>4, <2>1, <3>2, <4>1 DEF AfterModel, DataOK
      <4> QED
        BY <1>0, <1>4, <3>4, <4>2, FinishFlow, CutShortSeq DEF AfterModel
    <3> QED
      BY <2>1, <3>3, <3>4 DEF Told
  <2>2. CASE settled = "tool"
    <3>1. DataOK' /\ Start("tool")
      BY <1>0, <1>4, <2>2 DEF AfterModel, DataOK
    <3>2. late = 0 /\ ~broke
      BY <1>4, <2>2, NotStopped DEF AfterModel, Over, Ended
    <3> QED
      BY <1>4, <3>1, <3>2, StartFlow DEF AfterModel, Operations
  <2>3. CASE settled \in {"undeclared", "error", "control"}
    <3>1. UNCHANGED <<keep, counters, terminal>>
      BY <1>4, <2>3 DEF AfterModel, counters
    <3> QED
      BY <1>4, <2>3, <3>1, FailedTurnFlow DEF AfterModel
  <2> QED
    BY <1>4, <2>1, <2>2, <2>3 DEF AfterModel
<1>5. CASE AfterTool
  <2>1. CASE settled = "value" /\ Emit(ToolEvents, "toolFinished") /\ UNCHANGED <<threw, why>>
    <3>1. DataOK'
      BY <1>0, <1>5, <2>1 DEF AfterTool, DataOK, counters
    <3>2. late = 0 /\ ~broke
      BY <1>5, <2>1, NotStopped DEF AfterTool, Over, Ended
    <3> QED
      BY <1>5, <2>1, <3>1, <3>2, EmitFlow DEF AfterTool
  <2>2. ASSUME settled = "value", threw' = TRUE, why' = "failed",
               NEW e \in CutShort(ToolEvents),
               \/ Emit(e \o ToolEvents, "turnFailed")
               \/ \E again \in CutShort(ToolEvents) : FinishAfter(e \o again, "failed")
        PROVE  Flow'
    <3>1. threw' \in BOOLEAN
      BY <2>2, Zenon
    <3>2. DataOK'
      BY <1>0, <1>5, <2>2, <3>1 DEF AfterTool, DataOK, counters
    <3>3. e \o ToolEvents \in Seq(Event) /\ \A again \in CutShort(ToolEvents) : e \o again \in Seq(Event)
      BY <2>2, CutShortSeq, Concat
    <3> QED
      BY <1>0, <1>5, <2>2, <3>2, <3>3, EmitFlow, FinishFlow DEF AfterTool
  <2>3. CASE settled \in {"error", "control"} /\ FailedTurn(ToolEvents)
    BY <1>5, <2>3, FailedTurnFlow DEF AfterTool
  <2> QED
    BY <1>5, <2>1, <2>2, <2>3 DEF AfterTool
<1>6. CASE AfterToolFinished
  <2>1. late = 0 /\ ~broke
    BY <1>6, NotStopped DEF AfterToolFinished, Flow, Signal, Over, Ended, Operations
  <2> QED
    BY <1>6, <2>1, NextTurnFlow DEF AfterToolFinished
<1>7. CASE AfterTurnFailed
  <2>1. DataOK'
    BY <1>0, <1>7 DEF AfterTurnFailed, DataOK, counters
  <2>2. why \in {"failed", "cancelled", "timed_out"} /\ (why # "failed" => why = reason)
    BY <1>7 DEF AfterTurnFailed, Flow, Reporting, TypeOK, Reasons
  <2>3. why = "failed" => broke \/ threw'
    <3>1. why = "failed" => broke \/ threw \/ why = reason
      BY <1>7 DEF AfterTurnFailed, Flow, Reporting
    <3>2. reason # "failed" /\ threw' = threw
      BY <1>7 DEF AfterTurnFailed, Flow, TypeOK, Reasons
    <3> QED
      BY <3>1, <3>2, Zenon
  <2>4. FinishAfter(<<>>, why) /\ UNCHANGED keep /\ why \in Statuses
    BY <1>7 DEF AfterTurnFailed, Finish, Flow, TypeOK
  <2>5. /\ why \in {"cancelled", "timed_out"} => reason # "none"
        /\ why = "cancelled" => reason = "cancelled" \/ NothingBegun
        /\ why = "timed_out" => reason = "timed_out"
    BY <2>2
  <2> QED
    BY <2>1, <2>2, <2>3, <2>4, <2>5, FinishFlow
<1>8. CASE AfterMessageFinished
  <2>1. DataOK'
    BY <1>0, <1>8 DEF AfterMessageFinished, DataOK, counters
  <2>2. late = 0 /\ ~broke
    BY <1>8, NotStopped DEF AfterMessageFinished, Flow, Signal, Over, Ended, Operations
  <2> QED
    BY <1>8, <2>1, <2>2, StartFlow DEF AfterMessageFinished, Operations
<1>9. CASE AfterOutput
  <2>1. DataOK'
    BY <1>0, <1>9 DEF AfterOutput, DataOK
  <2>2. /\ settled = "value" => late = 0 /\ ~broke
        /\ settled = "error" => broke
    BY <1>9, NotStopped, KnownBroke DEF AfterOutput, Over, Ended
  <2> QED
    BY <1>0, <1>9, <2>1, <2>2, ControlReason, StartFlow, FinishFlow
    DEF AfterOutput, Finish, Operations
<1>10. CASE AfterRunFinished
  <2>1. UNCHANGED <<settled, reason, control, broke, threw, late, started, why, status, turns>>
    BY <1>10 DEF AfterRunFinished, keep, counters
  <2>2. TypeOK'
    BY <1>10, <2>1 DEF AfterRunFinished, Flow, TypeOK, counters
  <2>3. Signal' /\ AbortStops' /\ Stopping' /\ Failing'
    BY <1>10, <2>1 DEF AfterRunFinished, Flow, Signal, AbortStops, Stopping, Failing, Ended,
       Operations
  <2>4. Fresh' /\ Reporting' /\ Reported'
    BY <1>10, <2>1 DEF AfterRunFinished, Flow, Fresh, NothingBegun, Reporting, Reported, Ended,
       Operations
  <2> QED
    BY <2>2, <2>3, <2>4 DEF Flow
<1> QED
  BY <1>1, <1>2, <1>3, <1>4, <1>5, <1>6, <1>7, <1>8, <1>9, <1>10 DEF Continue
-----------------------------------------------------------------------------
(* The events.                                                             *)

\* A closed turn stays closed when events are added.
LEMMA StaysClosed ==
  ASSUME NEW s \in Seq(Event), NEW t \in Seq(Event), NEW i \in 1..Len(s), Closed(s, i)
  PROVE  Closed(s \o t, i)
<1>1. PICK j \in DOMAIN s : /\ i < j /\ s[j] = "turn_finished"
                           /\ \A m \in DOMAIN s : i < m /\ m < j => s[m] = "tool_called"
  BY DEF Closed
<1>2. DOMAIN s = 1..Len(s) /\ DOMAIN (s \o t) = 1..(Len(s) + Len(t))
  BY Concat
<1>3. j \in DOMAIN (s \o t) /\ (s \o t)[j] = "turn_finished"
  BY <1>1, <1>2, Concat
<1>4. \A m \in DOMAIN (s \o t) : i < m /\ m < j => (s \o t)[m] = "tool_called"
  BY <1>1, <1>2, Concat
<1> QED
  BY <1>1, <1>3, <1>4 DEF Closed

\* What a turn that ends emits.
Closing == {<<"turn_finished">>, <<"turn_finished", "tool_called">>, <<"tool_called", "turn_finished">>}

LEMMA ClosingSeq ==
  ASSUME NEW t \in Closing
  PROVE  /\ t \in Seq(Event) /\ Len(t) \in {1, 2}
         /\ \A i \in 1..Len(t) : t[i] \in {"turn_finished", "tool_called"}
<1>1. CASE t = <<"turn_finished">>
  BY <1>1 DEF Event
<1>2. CASE t = <<"turn_finished", "tool_called">>
  BY <1>2 DEF Event
<1>3. CASE t = <<"tool_called", "turn_finished">>
  BY <1>3 DEF Event
<1> QED
  BY <1>1, <1>2, <1>3 DEF Closing

\* Such events close a turn_started at the end of the log.
LEMMA Closes ==
  ASSUME NEW s \in Seq(Event), Len(s) >= 1, NEW t \in Closing
  PROVE  Closed(s \o t, Len(s))
<1>0. t \in Seq(Event) /\ Len(t) \in {1, 2}
  BY ClosingSeq
<1>1. DOMAIN (s \o t) = 1..(Len(s) + Len(t))
  BY <1>0, Concat
<1>2. CASE t[1] = "turn_finished"
  <2>1. (s \o t)[Len(s) + 1] = "turn_finished"
    BY <1>0, <1>2, Concat
  <2> QED
    BY <1>0, <1>1, <2>1 DEF Closed
<1>3. CASE t = <<"tool_called", "turn_finished">>
  <2>1. /\ (s \o t)[Len(s) + 2] = "turn_finished"
        /\ (s \o t)[Len(s) + 1] = "tool_called"
    BY <1>0, <1>3, Concat
  <2>2. Len(s) + 2 \in DOMAIN (s \o t)
    BY <1>0, <1>1, <1>3
  <2>3. \A m \in DOMAIN (s \o t) : Len(s) < m /\ m < Len(s) + 2 => m = Len(s) + 1
    BY <1>0, <1>1
  <2> QED
    BY <2>1, <2>2, <2>3, <1>0 DEF Closed
<1> QED
  BY <1>2, <1>3 DEF Closing

LEMMA StartBracketing ==
  ASSUME Flow, Bracketing, NEW o \in Operations, Start(o), UNCHANGED threw,
         pc \notin Over, pc \in InTurn <=> o \in InTurn
  PROVE  Bracketing'
BY DEF Start, Bracketing, Operations, Over, Ended

\* A turn begins.
LEMMA OpenBracketing ==
  ASSUME Flow, Bracketing, Emit(<<"turn_started">>, "turnStarted"), UNCHANGED threw,
         pc \notin Over \cup InTurn
  PROVE  Bracketing'
<1> SUFFICES ASSUME ~threw PROVE Bracketing'
  BY DEF Bracketing
<1>0. log \in Seq(Event) /\ <<"turn_started">> \in Seq(Event) /\ Len(<<"turn_started">>) = 1
  BY DEF Flow, TypeOK, Event
<1>1. /\ log' = log \o <<"turn_started">> /\ pc' = "turnStarted"
      /\ Len(log') = Len(log) + 1 /\ log'[Len(log) + 1] = "turn_started"
      /\ \A i \in 1..Len(log) : log'[i] = log[i]
  BY <1>0, Concat DEF Emit
<1>5. pc # "died" /\ pc \notin InTurn \cup Ended
  BY DEF Over
<1>2. \A i \in 1..Len(log) : log[i] = "turn_started" => Closed(log', i)
  BY <1>0, <1>1, <1>5, StaysClosed DEF Bracketing
<1>3. pc' \in InTurn /\ pc' \notin Ended
  BY <1>1 DEF InTurn, Ended
<1>4. Len(log) \in Nat
  BY <1>0
<1> QED
  BY <1>1, <1>2, <1>3, <1>4, <1>5 DEF Bracketing

\* A turn ends.
LEMMA CloseBracketing ==
  ASSUME Flow, Bracketing, NEW events \in Closing, NEW to, to \notin InTurn \cup Ended,
         Emit(events, to), UNCHANGED threw, pc \in InTurn
  PROVE  Bracketing'
<1> SUFFICES ASSUME ~threw PROVE Bracketing'
  BY DEF Bracketing
<1>0. /\ log \in Seq(Event) /\ events \in Seq(Event) /\ Len(events) \in {1, 2}
      /\ \A i \in 1..Len(events) : events[i] \in {"turn_finished", "tool_called"}
  BY ClosingSeq DEF Flow, TypeOK, Event
<1>1. /\ log' = log \o events /\ pc' = to
      /\ Len(log') = Len(log) + Len(events)
      /\ \A i \in 1..Len(log) : log'[i] = log[i]
      /\ \A i \in 1..Len(events) : log'[Len(log) + i] = events[i]
  BY <1>0, Concat DEF Emit
<1>2. /\ Len(log) \in Nat /\ Len(log) >= 1 /\ log[1] = "run_started"
      /\ pc \notin Ended /\ pc # "died"
  BY <1>0 DEF Bracketing, InTurn, Ended
<1>3. \A i \in 1..Len(log) : log[i] = "turn_started" => Closed(log', i)
  BY <1>0, <1>1, <1>2, StaysClosed, Closes DEF Bracketing
<1>4. \A i \in 1..Len(log') : i \notin 1..Len(log) => log'[i] \in {"turn_finished", "tool_called"}
  <2> TAKE i \in 1..Len(log')
  <2> HAVE i \notin 1..Len(log)
  <2>1. i - Len(log) \in 1..Len(events) /\ i = Len(log) + (i - Len(log))
    BY <1>0, <1>1, <1>2
  <2> QED
    BY <2>1, <1>0, <1>1
<1>5. Len(log') >= 1 /\ log'[1] = "run_started"
  BY <1>0, <1>1, <1>2
<1>6. \A i \in 1..Len(log') : log'[i] # "run_finished"
  BY <1>1, <1>2, <1>4 DEF Bracketing
<1>7. \A i \in 1..Len(log') : log'[i] = "turn_started" => Closed(log', i)
  BY <1>1, <1>3, <1>4
<1> QED
  BY <1>1, <1>5, <1>6, <1>7 DEF Bracketing

\* The run ends outside a turn, or the estimator threw.
LEMMA FinishBracketing ==
  ASSUME Flow, Bracketing, NEW s, Finish(s), UNCHANGED threw, pc \notin InTurn \cup Over
  PROVE  Bracketing'
<1> SUFFICES ASSUME ~threw PROVE Bracketing'
  BY DEF Bracketing
<1>0. log \in Seq(Event) /\ <<"run_finished">> \in Seq(Event) /\ Len(<<"run_finished">>) = 1
  BY DEF Flow, TypeOK, Event
<1>1. log \o <<>> = log
  BY <1>0
<1>2. /\ log' = log \o <<"run_finished">> /\ pc' = "finishing"
      /\ Len(log') = Len(log) + 1 /\ log'[Len(log) + 1] = "run_finished"
      /\ \A i \in 1..Len(log) : log'[i] = log[i]
  BY <1>0, <1>1, Concat DEF Finish, FinishAfter
<1>5. pc # "died" /\ pc \notin InTurn \cup Ended
  BY DEF Over
<1>3. \A i \in 1..Len(log) : log[i] = "turn_started" => Closed(log', i)
  BY <1>0, <1>2, <1>5, StaysClosed DEF Bracketing
<1>4. pc' \in Ended /\ pc' \notin InTurn /\ Len(log) \in Nat
  BY <1>0, <1>2 DEF InTurn, Ended
<1> QED
  BY <1>2, <1>3, <1>4, <1>5 DEF Bracketing

\* Once the estimator threw nothing is claimed.
LEMMA ThrewBracketing == threw' = TRUE => Bracketing'
BY DEF Bracketing

LEMMA NextTurnBracketing ==
  ASSUME Flow, Bracketing, NextTurn, UNCHANGED threw, pc \notin InTurn \cup Over
  PROVE  Bracketing'
BY OpenBracketing, FinishBracketing DEF NextTurn

\* A failed turn is closed, unless the estimator threw.
LEMMA FailedTurnBracketing ==
  ASSUME Flow, Bracketing, NEW events \in Closing, FailedTurn(events), pc \in InTurn
  PROVE  Bracketing'
<1>1. CASE Emit(events, "turnFailed") /\ UNCHANGED threw
  BY <1>1, CloseBracketing DEF InTurn, Over, Ended
<1> QED
  BY <1>1, ThrewBracketing DEF FailedTurn, Told

LEMMA BracketingStep ==
  ASSUME Flow, Bracketing, [Next]_vars
  PROVE  Bracketing'
<1>0. "source" \notin InTurn \cup Over /\ "model" \in InTurn /\ "tool" \in InTurn
      /\ "output" \notin InTurn \cup Over
      /\ {"source", "model", "tool", "output"} = Operations
  BY DEF InTurn, Over, Ended, Operations
<1>1. CASE AfterRunStarted
  BY <1>0, <1>1, StartBracketing, FinishBracketing DEF AfterRunStarted, InTurn, Over, Ended
<1>2. CASE AfterSource
  BY <1>0, <1>2, NextTurnBracketing, FinishBracketing DEF AfterSource
<1>3. CASE AfterTurnStarted
  BY <1>0, <1>3, StartBracketing DEF AfterTurnStarted, InTurn, Over, Ended
<1>4. CASE AfterModel
  <2>1. CASE Told(<<"turn_finished">>, "messageFinished")
    <3>1. CASE Emit(<<"turn_finished">>, "messageFinished") /\ UNCHANGED threw
      BY <1>0, <1>4, <3>1, CloseBracketing DEF AfterModel, Closing, InTurn, Over, Ended
    <3> QED
      BY <2>1, <3>1, ThrewBracketing DEF Told
  <2>2. CASE Start("tool") /\ UNCHANGED threw
    BY <1>0, <1>4, <2>2, StartBracketing DEF AfterModel, InTurn, Over, Ended
  <2>3. CASE FailedTurn(<<"turn_finished", "tool_called">>) \/ FailedTurn(FailedTurnEvents)
    BY <1>0, <1>4, <2>3, FailedTurnBracketing DEF AfterModel, Closing, FailedTurnEvents
  <2> QED
    BY <1>4, <2>1, <2>2, <2>3 DEF AfterModel
<1>5. CASE AfterTool
  <2>1. CASE Emit(ToolEvents, "toolFinished") /\ UNCHANGED threw
    BY <1>0, <1>5, <2>1, CloseBracketing DEF AfterTool, Closing, ToolEvents, InTurn, Over, Ended
  <2>2. CASE FailedTurn(ToolEvents)
    BY <1>0, <1>5, <2>2, FailedTurnBracketing DEF AfterTool, Closing, ToolEvents
  <2> QED
    BY <1>5, <2>1, <2>2, ThrewBracketing DEF AfterTool
<1>6. CASE AfterToolFinished
  BY <1>6, NextTurnBracketing DEF AfterToolFinished, InTurn, Over, Ended
<1>7. CASE AfterTurnFailed
  BY <1>7, FinishBracketing DEF AfterTurnFailed, InTurn, Over, Ended
<1>8. CASE AfterMessageFinished
  BY <1>0, <1>8, StartBracketing DEF AfterMessageFinished, InTurn, Over, Ended
<1>9. CASE AfterOutput
  BY <1>0, <1>9, StartBracketing, FinishBracketing DEF AfterOutput
<1>10. CASE AfterRunFinished
  BY <1>10 DEF AfterRunFinished, Bracketing, InTurn, Ended
<1>11. ASSUME NEW s, Settle(s) PROVE Bracketing'
  BY <1>11 DEF Settle, Bracketing
<1>12. CASE ExternalAbort \/ TimerFires
  BY <1>12 DEF ExternalAbort, TimerFires, Abort, Bracketing
<1>13. CASE LateRejects \/ UNCHANGED vars
  BY <1>13 DEF LateRejects, vars, Bracketing
<1> QED
  BY <1>1, <1>2, <1>3, <1>4, <1>5, <1>6, <1>7, <1>8, <1>9, <1>10, <1>11, <1>12, <1>13
  DEF Next, Continue

-----------------------------------------------------------------------------
\* The invariant holds in every state of a run.
THEOREM Inductive == Spec => []IInv
<1>1. Init => IInv
  <2> SUFFICES ASSUME Init PROVE IInv
    OBVIOUS
  <2>1. Bracketing
    BY DEF Init, Bracketing, Over, Ended, InTurn
  <2> QED
    BY <2>1, FlowInit DEF IInv, Flow
<1>2. IInv /\ [Next]_vars => IInv'
  <2> SUFFICES ASSUME IInv, [Next]_vars PROVE IInv'
    OBVIOUS
  <2>1. Flow /\ Bracketing
    BY DEF IInv, Flow
  <2>2. ASSUME UNCHANGED vars PROVE Flow'
    BY <2>1, <2>2 DEF vars, counters, Flow, TypeOK, Signal, AbortStops, Stopping, Fresh,
       NothingBegun, Reporting, Reported, Failing
  <2>3. Flow'
    BY <2>1, <2>2, ContinueFlow, SettleFlow, AbortFlow, LateRejectsFlow DEF Next
  <2> QED
    BY <2>1, <2>3, BracketingStep DEF IInv, Flow
<1> QED
  BY <1>1, <1>2, PTL DEF Spec

\* The variables of a run keep their types, and the turns taken never pass maxTurns.
THEOREM TypeCorrect == Spec => []TypeOK
BY Inductive, PTL DEF IInv

\* define-agent 107-127: after an abort at most one more operation begins, whenever it comes
\* and however many turns the run may take.
THEOREM AbortIsObeyed == Spec => []AbortStops
BY Inductive, PTL DEF IInv

\* define-agent 530-538: the status reported at the end is the one that happened, whoever
\* aborted first, but for an abort during the first hook.
THEOREM HonestStatus == Spec => []StatusHonest
<1>1. IInv => StatusHonest
  BY DEF IInv, StatusHonest, Reported, Failing, Ended, Operations
<1> QED
  BY <1>1, Inductive, PTL

\* define-agent 338-527: the events of a run bracket its turns, on every way out of a turn.
THEOREM Bracketed == Spec => []EventsBracketed
<1>1. IInv => EventsBracketed
  <2> SUFFICES ASSUME IInv, pc = "returned", ~threw
               PROVE  /\ log[1] = "run_started" /\ log[Len(log)] = "run_finished"
                      /\ Cardinality({i \in DOMAIN log : log[i] = "run_finished"}) = 1
                      /\ \A i \in DOMAIN log : log[i] = "turn_started" => Closed(log, i)
    BY DEF EventsBracketed, Closed
  <2>1. log \in Seq(Event) /\ DOMAIN log = 1..Len(log)
    BY DEF IInv, TypeOK, Event
  <2>2. pc \in Ended /\ pc \notin InTurn
    BY DEF Over, Ended, InTurn
  <2>3. Len(log) \in 1..Len(log)
    <3>1. Len(log) >= 1
      BY Zenon DEF IInv, Bracketing
    <3>2. Len(log) \in Nat
      BY <2>1
    <3> QED
      BY <3>1, <3>2
  <2>4. {i \in DOMAIN log : log[i] = "run_finished"} = {Len(log)}
    <3>1. log[Len(log)] = "run_finished"
      BY <2>2 DEF IInv, Bracketing
    <3>2. \A i \in 1..Len(log) : log[i] = "run_finished" => i = Len(log)
      BY DEF IInv, Bracketing
    <3> QED
      BY <2>1, <2>3, <3>1, <3>2, Zenon
  <2> QED
    BY <2>1, <2>2, <2>4, FS_Singleton DEF IInv, Bracketing
<1> QED
  BY <1>1, Inductive, PTL
=============================================================================
