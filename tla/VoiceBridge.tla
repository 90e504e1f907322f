---------------------------- MODULE VoiceBridge ----------------------------
(***************************************************************************)
(* bridgeTwilioToOpenAI (packages/voice/src/realtime.ts): one phone call,  *)
(* its media stream on one side and its realtime model on the other.       *)
(*                                                                         *)
(* The bridge handles the model's events in one promise chain and the      *)
(* stream's messages in another; timers, socket closes and the agent's     *)
(* tools come in between.  The stream buffers what it is sent: audio is    *)
(* played in order, and a mark is echoed when everything before it has     *)
(* been played, or at once when the buffer is cleared.                     *)
(***************************************************************************)
EXTENDS Integers, Sequences, FiniteSets

CONSTANTS
  MaxResponse,    \* bound: responses the model starts
  MaxSpeech,      \* bound: times the caller starts to speak
  HangupTimeout,  \* hangupTimeoutMs, in ticks
  None

ASSUME VoiceBridgeAssumption ==
  /\ MaxResponse \in Nat
  /\ MaxSpeech \in Nat
  /\ HangupTimeout \in Nat \ {0}
  /\ None \notin Nat

VARIABLES
  setup,        \* how far the handler of the stream's start message has come
  bound,        \* the binding store knows the stream
  realtime,     \* the socket to the model
  stream,       \* the socket to the telephone provider
  finishing,    \* how far finish() has come
  reason,       \* the reason finish() was called with
  current,      \* finish() found the stream bound
  told,         \* calls of agent.onStop and agent.onError
  completions,  \* calls of onCallCompleted
  started,      \* responsesStarted
  active,       \* responseActive
  speaking,     \* Date.now() < playbackEndsAt
  turn,         \* callerTurn
  hangupAfter,  \* hangupAfterResponse
  hangupMark,   \* the number of the mark whose echo ends the call
  hangupMarks,
  timer,        \* ticks left on hangupTimer
  tool,         \* the end_call tool: called by the model, then run by the agent
  openaiQueue,  \* what the model's promise chain has still to handle
  twilioQueue,  \* marks echoed by the stream and not yet handled
  buffer,       \* audio and marks the stream has not reached yet
  asked,        \* requests on their way to the model
  speech,       \* what the caller is doing, and how often it began
  answering,    \* the model is producing a response, and whether it has sent audio
  unheard,      \* responses of which audio was cleared
  done          \* responses that were completed

lifecycle == <<setup, bound, realtime, stream, finishing, reason, current, told, completions>>
hanging == <<hangupAfter, hangupMark, hangupMarks, timer>>
talk == <<started, active, speaking, turn, done>>
line == <<twilioQueue, buffer, unheard>>
model == <<asked, speech, answering, tool>>
vars == <<lifecycle, hanging, talk, line, model, openaiQueue>>

Finished == finishing # "no"

Init ==
  /\ setup = "waiting" /\ bound = FALSE /\ realtime = "none" /\ stream = "open"
  /\ finishing = "no" /\ reason = None /\ current = FALSE /\ told = 0 /\ completions = 0
  /\ started = 0 /\ active = FALSE /\ speaking = FALSE /\ turn = "none" /\ done = {}
  /\ hangupAfter = None /\ hangupMark = None /\ hangupMarks = 0 /\ timer = None
  /\ openaiQueue = <<>> /\ twilioQueue = <<>> /\ buffer = <<>> /\ unheard = {}
  /\ asked = <<>> /\ speech = [now |-> "silent", times |-> 0] /\ answering = "no"
  /\ tool = "none"
-----------------------------------------------------------------------------
(* The end of the call. *)

Errors == {"twilio_error", "openai_error", "openai_close"}
Hangups == {"agent_hangup", "agent_hangup_timeout"}

\* Mutant of Finish: the check for an earlier finish() is missing.
FinishAgain(why) ==
  /\ finishing' = IF setup \in {"announcing", "live"} THEN "agent" ELSE "completed"
  /\ reason' = why
  /\ current' = bound
  /\ bound' = FALSE
  /\ timer' = None
  /\ realtime' = IF realtime = "none" THEN "none" ELSE "closed"

\* finish(): only the first call does anything (endCall() clears its timer in any case).  It
\* clears the timers, releases the binding and closes the model's socket before its first
\* await, the agent's onStop or onError.
Finish(why) ==
  IF Finished
  THEN /\ timer' = IF why \in Hangups THEN None ELSE timer
       /\ UNCHANGED <<finishing, reason, current, bound, realtime>>
  ELSE /\ finishing' = IF setup \in {"announcing", "live"} THEN "agent" ELSE "completed"
       /\ reason' = why
       /\ current' = bound
       /\ bound' = FALSE
       /\ timer' = None
       /\ realtime' = IF realtime = "none" THEN "none" ELSE "closed"

\* endCall(): after an earlier finish(), whatever became of it, the stream is closed at once.
EndCall(why) ==
  /\ Finish(why)
  /\ stream' = IF Finished THEN "closed" ELSE stream

\* The agent has cleaned up, or it rejects and finish() with it.
AgentTold ==
  /\ finishing = "agent"
  /\ told' = told + 1
  /\ finishing' \in {"completed", "rejected"}
  /\ UNCHANGED <<setup, bound, realtime, stream, reason, current, completions, hanging, talk,
                 line, model, openaiQueue>>

\* onCallCompleted() for a call that ended without an error; telemetry; then an error, or
\* endCall(), closes the stream.  When the telemetry rejects, finish() does, and neither closes
\* it.
CallCompleted ==
  /\ finishing = "completed"
  /\ completions' = IF reason \notin Errors /\ current THEN completions + 1 ELSE completions
  /\ \/ /\ finishing' = "done"
        /\ stream' = IF reason \in Errors \cup Hangups THEN "closed" ELSE stream
     \/ finishing' = "rejected" /\ UNCHANGED stream
  /\ UNCHANGED <<setup, bound, realtime, reason, current, told, hanging, talk, line, model,
                 openaiQueue>>

\* The stream sends stop, closes or breaks; the model's socket closes or breaks.  A stop
\* waits in the chain behind the start handler.
SocketEnds(why) ==
  /\ \/ why = "twilio_stop" /\ setup \in {"waiting", "live"} /\ stream = "open"
     \/ why \in {"twilio_close", "twilio_error"} /\ stream = "open"
     \/ why \in {"openai_close", "openai_error"} /\ setup \in {"announcing", "live"}
  /\ stream' = IF why = "twilio_close" THEN "closed" ELSE stream
  /\ Finish(why)
  /\ UNCHANGED <<setup, told, completions, hangupAfter, hangupMark, hangupMarks, talk,
                 line, model, openaiQueue>>
-----------------------------------------------------------------------------
(* The start message: verify the token, bind, open the model, create the agent, greet. *)

StartMessage ==
  /\ setup = "waiting"
  /\ stream = "open" /\ ~Finished
  /\ setup' = "verifying"
  /\ UNCHANGED <<bound, realtime, stream, finishing, reason, current, told, completions,
                 hanging, talk, line, model, openaiQueue>>

Verified ==
  /\ setup = "verifying"
  /\ setup' = "opening"
  /\ bound' = TRUE
  /\ UNCHANGED <<realtime, stream, finishing, reason, current, told, completions, hanging,
                 talk, line, model, openaiQueue>>

\* The handler does not look whether the call has ended meanwhile.
Opened ==
  /\ setup = "opening"
  /\ setup' = "joining"
  /\ realtime' = "open"
  /\ UNCHANGED <<bound, stream, finishing, reason, current, told, completions, hanging, talk,
                 line, model, openaiQueue>>

\* The agent exists and the model's events are listened to.
Joined ==
  /\ setup = "joining"
  /\ setup' = "announcing"
  /\ UNCHANGED <<bound, realtime, stream, finishing, reason, current, told, completions,
                 hanging, talk, line, model, openaiQueue>>

Announced ==
  /\ setup = "announcing"
  /\ setup' = "live"
  /\ asked' = Append(asked, "create")
  /\ UNCHANGED <<bound, realtime, stream, finishing, reason, current, told, completions,
                 hanging, talk, line, speech, answering, tool, openaiQueue>>

\* Any of the awaits rejects: the chain's catch calls finish().
SetupFails ==
  /\ setup \in {"verifying", "opening", "joining", "announcing"}
  /\ setup' = "failed"
  /\ Finish("twilio_error")
  /\ UNCHANGED <<stream, told, completions, hangupAfter, hangupMark, hangupMarks, talk,
                 line, model, openaiQueue>>
-----------------------------------------------------------------------------
(* Hanging up. *)

\* Mutant of Hangup: the hangup waits for the response after the next.
HangupLate ==
  /\ tool = "called"
  /\ tool' = "ran"
  /\ IF hangupAfter = None /\ ~Finished
     THEN hangupAfter' = started + 1 /\ timer' = HangupTimeout
     ELSE UNCHANGED <<hangupAfter, timer>>
  /\ UNCHANGED <<lifecycle, hangupMark, hangupMarks, talk, line, asked, speech,
                 answering, openaiQueue>>

\* hangup(), called by the end_call tool: wait for a response that starts after this.
Hangup ==
  /\ tool = "called"
  /\ tool' = "ran"
  /\ IF hangupAfter = None /\ ~Finished
     THEN hangupAfter' = started /\ timer' = HangupTimeout
     ELSE UNCHANGED <<hangupAfter, timer>>
  /\ UNCHANGED <<lifecycle, hangupMark, hangupMarks, talk, line, asked, speech,
                 answering, openaiQueue>>

\* The agent sends the tool's result to the model, which is to answer it.
SendToolResult ==
  /\ tool = "ran"
  /\ tool' = "none"
  /\ asked' = Append(asked, "create")
  /\ UNCHANGED <<lifecycle, hanging, talk, line, speech, answering, openaiQueue>>

\* Mutant of SendHangupMark: every hangup mark has the same name.
SendHangupMarkSameName ==
  IF hangupMark # None \/ Finished THEN UNCHANGED <<hangupMark, hangupMarks, buffer>>
  ELSE /\ hangupMarks' = 1
       /\ hangupMark' = 1
       /\ buffer' = Append(buffer, [mark |-> 1])

SendHangupMark ==
  IF hangupMark # None \/ Finished THEN UNCHANGED <<hangupMark, hangupMarks, buffer>>
  ELSE /\ hangupMarks' = hangupMarks + 1
       /\ hangupMark' = hangupMarks + 1
       /\ buffer' = Append(buffer, [mark |-> hangupMarks + 1])

\* A mark echoed by the stream: the one waited for ends the call.
HandleMark ==
  /\ twilioQueue # <<>>
  /\ twilioQueue' = Tail(twilioQueue)
  /\ IF hangupMark # None /\ Head(twilioQueue) = hangupMark
     THEN EndCall("agent_hangup")
     ELSE UNCHANGED <<finishing, reason, current, bound, timer, realtime, stream>>
  /\ UNCHANGED <<setup, told, completions, hangupAfter, hangupMark, hangupMarks,
                 talk, buffer, unheard, model, openaiQueue>>

Tick ==
  /\ timer # None /\ timer > 0
  /\ timer' = timer - 1
  /\ UNCHANGED <<lifecycle, hangupAfter, hangupMark, hangupMarks, talk, line, model,
                 openaiQueue>>

TimeUp ==
  /\ timer = 0
  /\ EndCall("agent_hangup_timeout")
  /\ UNCHANGED <<setup, told, completions, hangupAfter, hangupMark, hangupMarks,
                 talk, line, model, openaiQueue>>
-----------------------------------------------------------------------------
(* handleOpenAI. *)

Next1(kind) == openaiQueue # <<>> /\ Head(openaiQueue) = kind /\ openaiQueue' = Tail(openaiQueue)

TurnStarted ==
  /\ Next1("turn_started")
  /\ started' = started + 1
  /\ active' = TRUE
  /\ UNCHANGED <<speaking, turn, done, lifecycle, hanging, line, model>>

AudioDelta ==
  /\ Next1("audio_delta")
  /\ buffer' = Append(buffer, [audio |-> started])
  /\ speaking' = TRUE
  /\ UNCHANGED <<started, active, turn, done, lifecycle, hanging, twilioQueue, unheard, model>>

\* The estimated playback time of the audio sent so far is over.
PlaybackEnds ==
  /\ speaking
  /\ speaking' = FALSE
  /\ UNCHANGED <<started, active, turn, done, lifecycle, hanging, line, model, openaiQueue>>

ToolCall ==
  /\ Next1("tool_call")
  /\ tool' = "called"
  /\ UNCHANGED <<lifecycle, hanging, talk, line, asked, speech, answering>>

TurnCompleted ==
  /\ Next1("turn_completed")
  /\ active' = FALSE
  /\ done' = done \cup {started}
  /\ IF hangupAfter # None /\ started > hangupAfter THEN SendHangupMark
     ELSE UNCHANGED <<hangupMark, hangupMarks, buffer>>
  /\ UNCHANGED <<started, speaking, turn, lifecycle, hangupAfter, timer, twilioQueue,
                 unheard, model>>

\* Any other error than response_cancel_not_active throws.
ErrorEvent ==
  /\ Next1("error")
  /\ Finish("openai_error")
  /\ UNCHANGED <<setup, stream, told, completions, hangupAfter, hangupMark, hangupMarks,
                 talk, line, model>>

\* The caller's turn: "answer" when the agent is silent, else a barge-in to be confirmed by
\* a timer unless the caller stops first.
SpeechStarted ==
  /\ Next1("speech_started")
  /\ turn' = IF active \/ speaking THEN "armed" ELSE "answer"
  /\ UNCHANGED <<started, active, speaking, done, lifecycle, hanging, line, model>>

SpeechStopped ==
  /\ Next1("speech_stopped")
  /\ turn' = IF turn = "armed" THEN "stopped" ELSE turn
  /\ UNCHANGED <<started, active, speaking, done, lifecycle, hanging, line, model>>

\* A sound too short to be a barge-in is forgotten while the agent still speaks.
SpeechCommitted ==
  /\ Next1("speech_committed")
  /\ turn' = "none"
  /\ asked' = IF turn \in {"armed", "stopped"} /\ (active \/ speaking)
              THEN asked
              ELSE Append(asked, "create")
  /\ UNCHANGED <<started, active, speaking, done, lifecycle, hanging, line, speech, answering,
                 tool>>

\* The barge-in timer fires: the interruption takes its place in the chain.
BargeIn ==
  /\ turn = "armed"
  /\ ~Finished
  /\ turn' = "confirmed"
  /\ openaiQueue' = Append(openaiQueue, "interrupt")
  /\ UNCHANGED <<started, active, speaking, done, lifecycle, hanging, line, model>>

IsMark(item) == "mark" \in DOMAIN item
Marks(items) == {i \in DOMAIN items : IsMark(items[i])}
Audio(items) == {items[i].audio : i \in DOMAIN items \ Marks(items)}

\* The buffered marks, in their order.
Echoes(items) ==
  {[k \in DOMAIN at |-> items[at[k]].mark] :
     at \in {f \in [1..Cardinality(Marks(items)) -> Marks(items)] :
             \A j, k \in DOMAIN f : j < k => f[j] < f[k]}}

\* The clear message: buffered audio is dropped, buffered marks are echoed at once.
Clear ==
  /\ buffer' = <<>>
  /\ unheard' = unheard \cup Audio(buffer)
  /\ \E echoes \in Echoes(buffer) : twilioQueue' = twilioQueue \o echoes

\* Mutant of Interrupt: the timer is not set again.
InterruptNoTimer ==
  /\ Next1("interrupt")
  /\ asked' = IF active THEN Append(asked, "cancel") ELSE asked
  /\ speaking' = FALSE
  /\ IF hangupAfter # None
     THEN hangupMark' = None /\ hangupAfter' = started /\ timer' = None
     ELSE UNCHANGED <<hangupMark, hangupAfter, timer>>
  /\ Clear
  /\ UNCHANGED <<lifecycle, hangupMarks, started, active, turn, done, speech,
                 answering, tool>>

\* interruptAgent().  A hangup under way now waits for the response after this one, and its
\* timer begins anew, in a finished call too.
Interrupt ==
  /\ Next1("interrupt")
  /\ asked' = IF active THEN Append(asked, "cancel") ELSE asked
  /\ speaking' = FALSE
  /\ IF hangupAfter # None
     THEN hangupMark' = None /\ hangupAfter' = started /\ timer' = HangupTimeout
     ELSE UNCHANGED <<hangupMark, hangupAfter, timer>>
  /\ Clear
  /\ UNCHANGED <<lifecycle, hangupMarks, started, active, turn, done, speech,
                 answering, tool>>
-----------------------------------------------------------------------------
(* The provider's stream, the model and the caller. *)

\* The stream plays the next audio, or reaches a mark and echoes it.
Play ==
  /\ buffer # <<>> /\ stream = "open"
  /\ buffer' = Tail(buffer)
  /\ twilioQueue' = IF IsMark(Head(buffer)) THEN Append(twilioQueue, Head(buffer).mark)
                    ELSE twilioQueue
  /\ UNCHANGED <<lifecycle, hanging, talk, unheard, model, openaiQueue>>

Emit(kind) == realtime = "open" /\ openaiQueue' = Append(openaiQueue, kind)

\* Requests are taken in order.  A create while a response is produced waits or is an error.
BeginAnswer ==
  /\ asked # <<>> /\ Head(asked) = "create" /\ answering = "no"
  /\ started < MaxResponse
  /\ asked' = Tail(asked)
  /\ answering' = "begun"
  /\ Emit("turn_started")
  /\ UNCHANGED <<lifecycle, hanging, talk, line, speech, tool>>

RefuseAnswer ==
  /\ asked # <<>> /\ Head(asked) = "create" /\ answering # "no"
  /\ asked' = Tail(asked)
  /\ Emit("error")
  /\ UNCHANGED <<lifecycle, hanging, talk, line, speech, answering, tool>>

CancelAnswer ==
  /\ asked # <<>> /\ Head(asked) = "cancel"
  /\ asked' = Tail(asked)
  /\ answering' = "no"
  /\ IF answering # "no" THEN Emit("turn_completed") ELSE UNCHANGED openaiQueue
  /\ UNCHANGED <<lifecycle, hanging, talk, line, speech, tool>>

\* A response is audio or a call of end_call, and then complete.
Answer ==
  /\ \/ answering = "begun" /\ Emit("audio_delta") /\ answering' = "spoken"
     \/ answering = "begun" /\ tool = "none" /\ Emit("tool_call") /\ answering' = "spoken"
     \/ answering = "spoken" /\ Emit("turn_completed") /\ answering' = "no"
  /\ UNCHANGED <<lifecycle, hanging, talk, line, asked, speech, tool>>

Speak ==
  /\ \/ /\ speech.now = "silent" /\ speech.times < MaxSpeech
        /\ Emit("speech_started")
        /\ speech' = [now |-> "speaking", times |-> speech.times + 1]
     \/ /\ speech.now = "speaking"
        /\ Emit("speech_stopped")
        /\ speech' = [speech EXCEPT !.now = "stopped"]
     \/ /\ speech.now = "stopped"
        /\ Emit("speech_committed")
        /\ speech' = [speech EXCEPT !.now = "silent"]
  /\ UNCHANGED <<lifecycle, hanging, talk, line, asked, answering, tool>>
-----------------------------------------------------------------------------
Ending == AgentTold \/ CallCompleted \/ TimeUp \/ Tick

Setup == StartMessage \/ Verified \/ Opened \/ Joined \/ Announced \/ SetupFails

HandleOpenAI ==
  \/ TurnStarted \/ AudioDelta \/ ToolCall \/ TurnCompleted \/ ErrorEvent
  \/ SpeechStarted \/ SpeechStopped \/ SpeechCommitted \/ Interrupt

World == Play \/ BeginAnswer \/ RefuseAnswer \/ CancelAnswer \/ Answer \/ Speak

Next ==
  \/ Ending \/ Setup \/ HandleOpenAI \/ World
  \/ HandleMark \/ PlaybackEnds \/ BargeIn \/ Hangup \/ SendToolResult
  \/ \E why \in Errors \cup {"twilio_stop", "twilio_close"} : SocketEnds(why)

Spec == Init /\ [][Next]_vars

\* The bridge's own steps: timers fire and pending promises go on.  Nothing is assumed of
\* the caller, of the model or of the stream.
Fairness ==
  /\ WF_vars(AgentTold) /\ WF_vars(CallCompleted) /\ WF_vars(TimeUp) /\ WF_vars(Tick)
  /\ WF_vars(HandleOpenAI)

FairSpec == Spec /\ Fairness
-----------------------------------------------------------------------------
(* Properties. *)

TypeOK ==
  /\ setup \in {"waiting", "verifying", "opening", "joining", "announcing", "live",
             "failed"}
  /\ bound \in BOOLEAN /\ current \in BOOLEAN /\ active \in BOOLEAN /\ speaking \in BOOLEAN
  /\ realtime \in {"none", "open", "closed"}
  /\ stream \in {"open", "closed"}
  /\ finishing \in {"no", "agent", "completed", "done", "rejected"}
  /\ reason \in Errors \cup Hangups \cup {"twilio_stop", "twilio_close", None}
  /\ turn \in {"none", "answer", "armed", "stopped", "confirmed"}
  /\ started \in Nat /\ hangupMarks \in Nat /\ told \in Nat /\ completions \in Nat
  /\ hangupAfter \in 0..started \cup {None}
  /\ hangupMark \in 1..hangupMarks \cup {None}
  /\ timer \in 0..HangupTimeout \cup {None}

\* However a call ends, and however many of the ways to end it happen at once, the agent is
\* told once and the call is finalized once: "Finalize metadata-only call state once, after
\* the provider stream stops."
EndsOnce ==
  told <= 1 /\ completions <= 1 /\ (completions = 1 => finishing \in {"done", "rejected"})

\* The response the mark was sent for is over and was heard in full: none of its audio was
\* cleared or is still to be played.
GoodbyePlayed ==
  \E n \in done : n > hangupAfter /\ n \notin unheard \cup Audio(buffer)

\* "so the caller hears it before the line drops": the agent's hangup ends the call only
\* when a response that began after the hangup was asked for, and after the caller last
\* interrupted, has been played.
HangsUpAfterGoodbye ==
  [][reason' = "agent_hangup" /\ reason # "agent_hangup" => GoodbyePlayed]_vars

\* A hangup once asked for closes the stream, whatever the model and the stream do, unless
\*  - the caller interrupts the agent again and again: each interruption sets the timer anew
\*    (realtime.ts 1041), so hangupTimeoutMs, "Upper bound between an agent hangup request and
\*    the call ending", bounds the time from the last interruption only;
\*  - finish() rejects in the agent or in the telemetry, before the stream is closed;
\*  - the provider has stopped the stream itself.
HangupEnds ==
  \/ hangupAfter # None ~>
       stream = "closed" \/ finishing = "rejected" \/ reason = "twilio_stop"
  \/ []<><<Interrupt>>_vars
=============================================================================
