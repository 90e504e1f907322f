------------------------- MODULE VoiceBridgeProofs -------------------------
(***************************************************************************)
(* Proofs about VoiceBridge, for any number of responses and interruptions *)
(* and any timeout: the bridge ends a call once, and its agent hangs up    *)
(* only after a goodbye the caller has heard.                              *)
(***************************************************************************)
EXTENDS VoiceBridge, FiniteSetTheorems, SequenceTheorems, TLAPS

USE VoiceBridgeAssumption

\* What the queues between the bridge, the model and the stream carry.
Event == {"turn_started", "audio_delta", "tool_call", "turn_completed", "error",
          "speech_started", "speech_stopped", "speech_committed", "interrupt"}
Item == [mark : Nat] \cup [audio : Nat]

Channels ==
  /\ openaiQueue \in Seq(Event)
  /\ twilioQueue \in Seq(Nat)
  /\ buffer \in Seq(Item)

Typed == TypeOK /\ Channels

\* A buffered item is a mark or audio, never both.
LEMMA MarkItem ==
  ASSUME NEW n \in Nat
  PROVE  [mark |-> n] \in Item /\ IsMark([mark |-> n]) /\ [mark |-> n].mark = n
BY DEF Item, IsMark

LEMMA AudioItem ==
  ASSUME NEW n \in Nat
  PROVE  [audio |-> n] \in Item /\ ~IsMark([audio |-> n]) /\ [audio |-> n].audio = n
BY DEF Item, IsMark

LEMMA ItemFields ==
  ASSUME NEW item \in Item
  PROVE  /\ IsMark(item) => item.mark \in Nat
         /\ ~IsMark(item) => item.audio \in Nat
BY DEF Item, IsMark

\* Clearing echoes the buffered marks and nothing else.
LEMMA EchoesOf ==
  ASSUME NEW items \in Seq(Item), NEW echoes \in Echoes(items)
  PROVE  /\ echoes \in Seq(Nat)
         /\ \A k \in DOMAIN echoes : \E i \in Marks(items) : echoes[k] = items[i].mark
<1>1. PICK at \in [1..Cardinality(Marks(items)) -> Marks(items)] :
        echoes = [k \in DOMAIN at |-> items[at[k]].mark]
  BY DEF Echoes
<1>2. Cardinality(Marks(items)) \in Nat
  <2>1. IsFiniteSet(1..Len(items))
    BY FS_Interval
  <2>2. Marks(items) \subseteq 1..Len(items)
    BY DEF Marks
  <2> QED
    BY <2>1, <2>2, FS_Subset, FS_CardinalityType
<1>3. \A k \in DOMAIN at : at[k] \in Marks(items) /\ items[at[k]].mark \in Nat
  BY ItemFields DEF Marks
<1> DEFINE n == Cardinality(Marks(items))
<1>4. echoes \in [1..n -> Nat]
  BY <1>1, <1>3
<1>5. echoes \in Seq(Nat)
  BY <1>2, <1>4
<1> QED
  BY <1>1, <1>3, <1>5

\* finish() keeps the types.
LEMMA FinishTyped ==
  ASSUME TypeOK, NEW why \in Errors \cup Hangups \cup {"twilio_stop", "twilio_close"}, Finish(why)
  PROVE  /\ bound' \in BOOLEAN /\ current' \in BOOLEAN
         /\ realtime' \in {"none", "open", "closed"}
         /\ finishing' \in {"no", "agent", "completed", "done", "rejected"}
         /\ reason' \in Errors \cup Hangups \cup {"twilio_stop", "twilio_close", None}
         /\ timer' \in 0..HangupTimeout \cup {None}
BY DEF TypeOK, Finish, Finished

LEMMA InitTyped == Init => Typed
<1> SUFFICES ASSUME Init PROVE Typed
  OBVIOUS
<1>1. bound \in BOOLEAN /\ current \in BOOLEAN /\ active \in BOOLEAN /\ speaking \in BOOLEAN
  BY DEF Init
<1> QED
  BY <1>1 DEF Init, Typed, TypeOK, Channels

\* Every step keeps the types, action by action.
LEMMA TypedStep == Typed /\ [Next]_vars => Typed'
<1> SUFFICES ASSUME Typed, [Next]_vars PROVE Typed'
  OBVIOUS
<1> USE DEF Typed
<1>1. CASE AgentTold
  BY <1>1 DEF AgentTold, TypeOK, Channels, hanging, talk, line
<1>2. CASE CallCompleted
  BY <1>2 DEF CallCompleted, TypeOK, Channels, hanging, talk, line
<1>3. CASE TimeUp
  <2>1. Finish("agent_hangup_timeout") /\ stream' \in {"open", "closed"}
    BY <1>3 DEF TimeUp, EndCall, TypeOK
  <2> QED
    BY <1>3, <2>1, FinishTyped DEF TimeUp, TypeOK, Channels, talk, line, Hangups
<1>4. CASE Tick
  BY <1>4 DEF Tick, TypeOK, Channels, lifecycle, talk, line
<1>5. CASE Setup
  <2>1. CASE SetupFails
    <3>1. Finish("twilio_error")
      BY <2>1 DEF SetupFails
    <3> QED
      BY <2>1, <3>1, FinishTyped DEF SetupFails, TypeOK, Channels, talk, line, Errors
  <2>2. CASE ~SetupFails
    <3>1. bound' \in BOOLEAN
      BY <1>5, <2>2 DEF Setup, StartMessage, Verified, Opened, Joined, Announced, TypeOK
    <3> QED
      BY <1>5, <2>2, <3>1 DEF Setup, StartMessage, Verified, Opened, Joined, Announced, TypeOK,
                              Channels, hanging, talk, line
  <2> QED
    BY <2>1, <2>2
<1>6. CASE TurnStarted
  BY <1>6 DEF TurnStarted, Next1, TypeOK, Channels, lifecycle, hanging, line
<1>7. CASE AudioDelta
  <2>1. buffer' \in Seq(Item)
    <3>1. started \in Nat /\ buffer \in Seq(Item)
      BY DEF TypeOK, Channels
    <3>2. [audio |-> started] \in Item
      BY <3>1, AudioItem
    <3>3. buffer' = Append(buffer, [audio |-> started])
      BY <1>7 DEF AudioDelta
    <3> QED
      BY <3>1, <3>2, <3>3, AppendProperties
  <2> QED
    BY <1>7, <2>1 DEF AudioDelta, Next1, TypeOK, Channels, lifecycle, hanging
<1>8. CASE ToolCall
  BY <1>8 DEF ToolCall, Next1, TypeOK, Channels, lifecycle, hanging, talk, line
<1>9. CASE TurnCompleted
  <2>1. /\ buffer' \in Seq(Item) /\ hangupMarks' \in Nat
        /\ hangupMark' \in 1..hangupMarks' \cup {None}
    <3>1. CASE UNCHANGED <<hangupMark, hangupMarks, buffer>>
      BY <3>1 DEF TypeOK, Channels
    <3>2. CASE /\ hangupMarks' = hangupMarks + 1
               /\ hangupMark' = hangupMarks + 1
               /\ buffer' = Append(buffer, [mark |-> hangupMarks + 1])
      <4>1. hangupMarks + 1 \in Nat
        BY DEF TypeOK
      <4> QED
        BY <3>2, <4>1, MarkItem DEF TypeOK, Channels
    <3> QED
      BY <1>9, <3>1, <3>2 DEF TurnCompleted, SendHangupMark
  <2>2. active' \in BOOLEAN
    BY <1>9 DEF TurnCompleted
  <2> QED
    BY <1>9, <2>1, <2>2 DEF TurnCompleted, Next1, TypeOK, Channels, lifecycle
<1>10. CASE ErrorEvent
  <2>1. Finish("openai_error")
    BY <1>10 DEF ErrorEvent
  <2> QED
    BY <1>10, <2>1, FinishTyped DEF ErrorEvent, Next1, TypeOK, Channels, talk, line, Errors
<1>11. CASE SpeechStarted \/ SpeechStopped \/ SpeechCommitted
  <2>1. turn' \in {"none", "answer", "armed", "stopped", "confirmed"}
    BY <1>11 DEF SpeechStarted, SpeechStopped, SpeechCommitted, TypeOK
  <2>2. openaiQueue' = Tail(openaiQueue) /\ openaiQueue # <<>>
    BY <1>11 DEF SpeechStarted, SpeechStopped, SpeechCommitted, Next1
  <2>3. UNCHANGED <<started, active, speaking, done, lifecycle, hanging, line>>
    BY <1>11 DEF SpeechStarted, SpeechStopped, SpeechCommitted
  <2> QED
    BY <2>1, <2>2, <2>3 DEF TypeOK, Channels, lifecycle, hanging, line
<1>12. CASE Interrupt
  <2>1. PICK echoes \in Echoes(buffer) : twilioQueue' = twilioQueue \o echoes
    BY <1>12 DEF Interrupt, Clear
  <2>2. twilioQueue' \in Seq(Nat)
    BY <2>1, EchoesOf, ConcatProperties DEF Channels
  <2>3. hangupAfter' \in 0..started \cup {None} /\ timer' \in 0..HangupTimeout \cup {None}
    BY <1>12 DEF Interrupt, TypeOK
  <2>4. speaking' \in BOOLEAN
    BY <1>12 DEF Interrupt
  <2> QED
    BY <1>12, <2>2, <2>3, <2>4 DEF Interrupt, Clear, Next1, TypeOK, Channels, lifecycle
<1>13. CASE Play
  <2>1. twilioQueue' \in Seq(Nat)
    BY <1>13, ItemFields DEF Play, Channels
  <2> QED
    BY <1>13, <2>1 DEF Play, TypeOK, Channels, lifecycle, hanging, talk
<1>14. CASE BeginAnswer \/ RefuseAnswer \/ CancelAnswer \/ Answer \/ Speak
  <2>1. openaiQueue' \in Seq(Event)
    <3>1. UNCHANGED openaiQueue \/ \E kind \in Event : openaiQueue' = Append(openaiQueue, kind)
      <4>1. CASE BeginAnswer \/ RefuseAnswer
        BY <4>1 DEF BeginAnswer, RefuseAnswer, Emit, Event
      <4>2. CASE CancelAnswer
        BY <4>2 DEF CancelAnswer, Emit, Event
      <4>3. CASE Answer
        BY <4>3 DEF Answer, Emit, Event
      <4>4. CASE Speak
        BY <4>4 DEF Speak, Emit, Event
      <4> QED
        BY <1>14, <4>1, <4>2, <4>3, <4>4
    <3>2. ASSUME NEW kind \in Event PROVE Append(openaiQueue, kind) \in Seq(Event)
      BY AppendProperties DEF Channels
    <3> QED
      BY <3>1, <3>2 DEF Channels
  <2> QED
    BY <1>14, <2>1 DEF BeginAnswer, RefuseAnswer, CancelAnswer, Answer, Speak, TypeOK, Channels,
                       lifecycle, hanging, talk, line
<1>15. CASE HandleMark
  <2>1. CASE EndCall("agent_hangup")
    <3>1. Finish("agent_hangup") /\ stream' \in {"open", "closed"}
      BY <2>1 DEF EndCall, TypeOK
    <3> QED
      BY <1>15, <3>1, FinishTyped DEF HandleMark, TypeOK, Channels, talk, Hangups
  <2>2. CASE UNCHANGED <<finishing, reason, current, bound, timer, realtime, stream>>
    BY <1>15, <2>2 DEF HandleMark, TypeOK, Channels, talk
  <2> QED
    BY <1>15, <2>1, <2>2 DEF HandleMark
<1>16. CASE PlaybackEnds
  <2>1. speaking' \in BOOLEAN
    BY <1>16 DEF PlaybackEnds
  <2> QED
    BY <1>16, <2>1 DEF PlaybackEnds, TypeOK, Channels, lifecycle, hanging, line
<1>17. CASE BargeIn
  BY <1>17 DEF BargeIn, TypeOK, Channels, Event, lifecycle, hanging, line
<1>18. CASE Hangup
  BY <1>18 DEF Hangup, TypeOK, Channels, lifecycle, talk, line
<1>19. CASE SendToolResult
  BY <1>19 DEF SendToolResult, TypeOK, Channels, lifecycle, hanging, talk, line
<1>20. ASSUME NEW why \in Errors \cup {"twilio_stop", "twilio_close"}, SocketEnds(why)
       PROVE  Typed'
  <2>1. Finish(why)
    BY <1>20 DEF SocketEnds
  <2> QED
    BY <1>20, <2>1, FinishTyped DEF SocketEnds, TypeOK, Channels, talk, line
<1>21. CASE UNCHANGED vars
  BY <1>21 DEF vars, TypeOK, Channels, lifecycle, hanging, talk, line
<1> QED
  BY <1>1, <1>2, <1>3, <1>4, <1>5, <1>6, <1>7, <1>8, <1>9, <1>10, <1>11, <1>12, <1>13, <1>14,
     <1>15, <1>16, <1>17, <1>18, <1>19, <1>20, <1>21 DEF Next, Ending, HandleOpenAI, World

\* Types: a hangup waits for a response that has begun or is the next, on a mark that was
\* sent, with a timer within its timeout (realtime.ts, hangup() and interruptAgent()).
THEOREM TypeCorrect == Spec => []TypeOK
<1>1. Typed => TypeOK
  BY DEF Typed
<1> QED
  BY <1>1, InitTyped, TypedStep, PTL DEF Spec
-----------------------------------------------------------------------------
(* The end of the call. *)

\* How far finish() has come says what it has done: with it EndsOnce is inductive.
EndCount ==
  /\ finishing \in {"no", "agent"} => told = 0
  /\ finishing \notin {"done", "rejected"} => completions = 0
  /\ told \in {0, 1} /\ completions \in {0, 1}

\* Whoever calls finish(), nobody is told by the call itself.
LEMMA FinishCounts ==
  ASSUME EndCount, NEW why, Finish(why), UNCHANGED <<told, completions>>
  PROVE  EndCount'
<1>1. CASE Finished
  BY <1>1 DEF Finish, EndCount
<1>2. CASE ~Finished
  BY <1>2 DEF Finish, EndCount, Finished
<1> QED
  BY <1>1, <1>2

\* Every step keeps the counts: three kinds of step can disturb them.
LEMMA EndCountStep == EndCount /\ [Next]_vars => EndCount'
<1> SUFFICES ASSUME EndCount, [Next]_vars PROVE EndCount'
  OBVIOUS
<1>1. CASE AgentTold
  BY <1>1 DEF AgentTold, EndCount
<1>2. CASE CallCompleted
  BY <1>2 DEF CallCompleted, EndCount
<1>3. CASE TimeUp
  BY <1>3, FinishCounts DEF TimeUp, EndCall
<1>4. CASE SetupFails
  BY <1>4, FinishCounts DEF SetupFails
<1>5. CASE ErrorEvent
  BY <1>5, FinishCounts DEF ErrorEvent
<1>6. CASE HandleMark
  <2>1. CASE EndCall("agent_hangup")
    BY <1>6, <2>1, FinishCounts DEF HandleMark, EndCall
  <2>2. CASE UNCHANGED finishing
    BY <1>6, <2>2 DEF HandleMark, EndCount
  <2> QED
    BY <1>6, <2>1, <2>2 DEF HandleMark
<1>7. ASSUME NEW why \in Errors \cup {"twilio_stop", "twilio_close"}, SocketEnds(why)
      PROVE  EndCount'
  BY <1>7, FinishCounts DEF SocketEnds
<1>8. CASE UNCHANGED <<finishing, told, completions>>
  BY <1>8 DEF EndCount
<1>9. CASE Setup /\ ~SetupFails
  BY <1>8, <1>9 DEF Setup, StartMessage, Verified, Opened, Joined, Announced
<1>10. CASE HandleOpenAI /\ ~ErrorEvent
  BY <1>8, <1>10 DEF HandleOpenAI, TurnStarted, AudioDelta, ToolCall, TurnCompleted, SpeechStarted,
                     SpeechStopped, SpeechCommitted, Interrupt, lifecycle
<1>11. CASE World
  BY <1>8, <1>11 DEF World, Play, BeginAnswer, RefuseAnswer, CancelAnswer, Answer, Speak, lifecycle
<1>12. CASE Tick \/ PlaybackEnds \/ BargeIn \/ Hangup \/ SendToolResult
  BY <1>8, <1>12 DEF Tick, PlaybackEnds, BargeIn, Hangup, SendToolResult, lifecycle
<1>13. CASE UNCHANGED vars
  BY <1>8, <1>13 DEF vars, lifecycle
<1> QED
  BY <1>1, <1>2, <1>3, <1>4, <1>5, <1>6, <1>7, <1>9, <1>10, <1>11, <1>12, <1>13 DEF Next, Ending

\* However many of the ways to end a call happen at once, the agent is told once and the
\* call is finalized once (realtime.ts, finish()): for any number of responses, timeouts
\* and interruptions.
THEOREM CallEndsOnce == Spec => []EndsOnce
<1>1. Init => EndCount
  BY DEF Init, EndCount
<1>2. EndCount => EndsOnce
  BY DEF EndCount, EndsOnce
<1> QED
  BY <1>1, <1>2, EndCountStep, PTL DEF Spec
-----------------------------------------------------------------------------
(* Audio belongs to a response that has begun and is not complete. *)

\* At place i of the queue q a response is under way: the last start before it, in the queue
\* or, when a holds, before the queue, is not followed by a completion.
Under(q, a, i) ==
  \/ a /\ \A k \in 1..(i - 1) : q[k] # "turn_completed"
  \/ \E j \in 1..(i - 1) :
       q[j] = "turn_started" /\ \A k \in (j + 1)..(i - 1) : q[k] # "turn_completed"

Turns ==
  /\ \A i \in DOMAIN openaiQueue :
       openaiQueue[i] = "audio_delta" => Under(openaiQueue, active, i)
  /\ answering # "no" => Under(openaiQueue, active, Len(openaiQueue) + 1)

\* A new event does not change what is under way at the places before it.
LEMMA UnderAppend ==
  ASSUME NEW q \in Seq(Event), NEW a \in BOOLEAN, NEW e \in Event, NEW i \in 1..(Len(q) + 1),
         Under(q, a, i)
  PROVE  Under(Append(q, e), a, i)
<1>1. \A k \in 1..(i - 1) : Append(q, e)[k] = q[k]
  OBVIOUS
<1> QED
  BY <1>1 DEF Under

\* After a start, or after anything but a completion, a response is still under way.
LEMMA UnderLast ==
  ASSUME NEW q \in Seq(Event), NEW a \in BOOLEAN, NEW e \in Event,
         \/ e = "turn_started"
         \/ e # "turn_completed" /\ Under(q, a, Len(q) + 1)
  PROVE  Under(Append(q, e), a, Len(Append(q, e)) + 1)
<1>1. /\ Len(Append(q, e)) = Len(q) + 1
      /\ \A k \in 1..Len(q) : Append(q, e)[k] = q[k]
      /\ Append(q, e)[Len(q) + 1] = e
  OBVIOUS
<1>2. CASE e = "turn_started"
  BY <1>1, <1>2 DEF Under
<1>3. CASE e # "turn_completed" /\ Under(q, a, Len(q) + 1)
  BY <1>1, <1>3 DEF Under
<1> QED
  BY <1>2, <1>3

\* Handling the first event moves what it says from the queue to the flag.
LEMMA UnderTail ==
  ASSUME NEW q \in Seq(Event), q # <<>>, NEW a \in BOOLEAN, NEW b \in BOOLEAN,
         Head(q) = "turn_started" => b,
         Head(q) \notin {"turn_started", "turn_completed"} => (a => b),
         NEW i \in 2..(Len(q) + 1), Under(q, a, i)
  PROVE  Under(Tail(q), b, i - 1)
<1>1. /\ \A k \in 1..(Len(q) - 1) : Tail(q)[k] = q[k + 1]
      /\ q[1] = Head(q) /\ Len(q) >= 1
  OBVIOUS
<1>2. CASE a /\ \A k \in 1..(i - 1) : q[k] # "turn_completed"
  <2>1. q[1] # "turn_completed" /\ b
    BY <1>1, <1>2
  <2> QED
    BY <1>1, <1>2, <2>1 DEF Under
<1>3. ASSUME NEW j \in 1..(i - 1), q[j] = "turn_started",
             \A k \in (j + 1)..(i - 1) : q[k] # "turn_completed"
      PROVE  Under(Tail(q), b, i - 1)
  <2>1. CASE j = 1
    <3>1. b
      BY <1>1, <1>3, <2>1
    <3>2. \A k \in 1..(i - 2) : Tail(q)[k] # "turn_completed"
      BY <1>1, <1>3, <2>1
    <3> QED
      BY <3>1, <3>2 DEF Under
  <2>2. CASE j # 1
    <3>1. j - 1 \in 1..(i - 2) /\ Tail(q)[j - 1] = "turn_started"
      BY <1>1, <1>3, <2>2
    <3>2. \A k \in j..(i - 2) : Tail(q)[k] # "turn_completed"
      BY <1>1, <1>3, <2>2
    <3> QED
      BY <3>1, <3>2 DEF Under
  <2> QED
    BY <2>1, <2>2
<1> QED
  BY <1>2, <1>3 DEF Under

\* The model sends an event: audio only while it answers.
LEMMA EmitTurns ==
  ASSUME Typed, Turns, NEW kind \in Event, openaiQueue' = Append(openaiQueue, kind),
         active' = active,
         kind = "audio_delta" => answering # "no",
         answering' # "no" =>
           kind = "turn_started" \/ (kind # "turn_completed" /\ answering # "no")
  PROVE  Turns'
<1>1. openaiQueue \in Seq(Event) /\ active \in BOOLEAN
  BY DEF Typed, TypeOK, Channels
<1>2. \A i \in 1..(Len(openaiQueue) + 1) :
        Under(openaiQueue, active, i) => Under(openaiQueue', active, i)
  BY <1>1, UnderAppend
<1>3. ASSUME NEW i \in DOMAIN openaiQueue', openaiQueue'[i] = "audio_delta"
      PROVE  Under(openaiQueue', active, i)
  <2>1. CASE i \in DOMAIN openaiQueue
    BY <1>1, <1>2, <1>3, <2>1 DEF Turns
  <2>2. CASE i = Len(openaiQueue) + 1
    BY <1>1, <1>2, <1>3, <2>2 DEF Turns
  <2> QED
    BY <1>1, <2>1, <2>2
<1>4. ASSUME answering' # "no" PROVE Under(openaiQueue', active, Len(openaiQueue') + 1)
  BY <1>1, <1>4, UnderLast DEF Turns
<1> QED
  BY <1>3, <1>4 DEF Turns

\* The bridge handles an event.
LEMMA TakeTurns ==
  ASSUME Typed, Turns, openaiQueue # <<>>, openaiQueue' = Tail(openaiQueue),
         UNCHANGED answering, active' \in BOOLEAN,
         Head(openaiQueue) = "turn_started" => active',
         Head(openaiQueue) \notin {"turn_started", "turn_completed"} => active' = active
  PROVE  Turns'
<1>1. openaiQueue \in Seq(Event) /\ active \in BOOLEAN
  BY DEF Typed, TypeOK, Channels
<1>2. Head(openaiQueue) \notin {"turn_started", "turn_completed"} => (active => active')
  OBVIOUS
<1>3. \A i \in 2..(Len(openaiQueue) + 1) :
        Under(openaiQueue, active, i) => Under(openaiQueue', active', i - 1)
  BY <1>1, <1>2, UnderTail
<1>4. ASSUME NEW i \in DOMAIN openaiQueue', openaiQueue'[i] = "audio_delta"
      PROVE  Under(openaiQueue', active', i)
  <2>1. i + 1 \in 2..(Len(openaiQueue) + 1) /\ i + 1 \in DOMAIN openaiQueue
        /\ openaiQueue[i + 1] = "audio_delta" /\ (i + 1) - 1 = i
    BY <1>1, <1>4
  <2> QED
    BY <1>3, <2>1 DEF Turns
<1>5. ASSUME answering' # "no" PROVE Under(openaiQueue', active', Len(openaiQueue') + 1)
  <2>1. Len(openaiQueue) + 1 \in 2..(Len(openaiQueue) + 1)
        /\ Len(openaiQueue') + 1 = (Len(openaiQueue) + 1) - 1
    BY <1>1
  <2> QED
    BY <1>3, <1>5, <2>1 DEF Turns
<1> QED
  BY <1>4, <1>5 DEF Turns

\* Every step keeps audio within its response.
LEMMA TurnsStep == Typed /\ Turns /\ [Next]_vars => Turns'
<1> SUFFICES ASSUME Typed, Turns, [Next]_vars PROVE Turns'
  OBVIOUS
<1>1. CASE TurnStarted
  <2>1. openaiQueue # <<>> /\ openaiQueue' = Tail(openaiQueue) /\ UNCHANGED answering
        /\ Head(openaiQueue) = "turn_started" /\ active' = TRUE
    BY <1>1 DEF TurnStarted, Next1, model
  <2> QED
    BY <2>1, TakeTurns
<1>2. CASE TurnCompleted
  <2>1. openaiQueue # <<>> /\ openaiQueue' = Tail(openaiQueue) /\ UNCHANGED answering
        /\ Head(openaiQueue) = "turn_completed" /\ active' = FALSE
    BY <1>2 DEF TurnCompleted, Next1, model
  <2> QED
    BY <2>1, TakeTurns
<1>3. CASE \/ AudioDelta \/ ToolCall \/ ErrorEvent \/ SpeechStarted \/ SpeechStopped
           \/ SpeechCommitted \/ Interrupt
  <2>1. openaiQueue # <<>> /\ openaiQueue' = Tail(openaiQueue) /\ UNCHANGED answering
        /\ Head(openaiQueue) \notin {"turn_started", "turn_completed"} /\ active' = active
    BY <1>3 DEF AudioDelta, ToolCall, ErrorEvent, SpeechStarted, SpeechStopped, SpeechCommitted,
                Interrupt, Next1, model, talk
  <2>2. active' \in BOOLEAN
    BY <2>1 DEF Typed, TypeOK
  <2> QED
    BY <2>1, <2>2, TakeTurns
<1>4. CASE BeginAnswer
  <2>1. openaiQueue' = Append(openaiQueue, "turn_started") /\ UNCHANGED active
    BY <1>4 DEF BeginAnswer, Emit, talk
  <2> QED
    BY <2>1, EmitTurns DEF Event
<1>5. CASE RefuseAnswer
  <2>1. openaiQueue' = Append(openaiQueue, "error") /\ UNCHANGED <<active, answering>>
    BY <1>5 DEF RefuseAnswer, Emit, talk
  <2> QED
    BY <2>1, EmitTurns DEF Event
<1>6. CASE UNCHANGED <<openaiQueue, active, answering>>
  BY <1>6 DEF Turns
<1>7. CASE CancelAnswer
  <2>1. CASE answering = "no"
    BY <1>6, <1>7, <2>1 DEF CancelAnswer, talk
  <2>2. CASE answering # "no"
    <3>1. openaiQueue' = Append(openaiQueue, "turn_completed") /\ UNCHANGED active
          /\ answering' = "no"
      BY <1>7, <2>2 DEF CancelAnswer, Emit, talk
    <3> QED
      BY <3>1, EmitTurns DEF Event
  <2> QED
    BY <2>1, <2>2
<1>8. CASE Answer
  <2>1. UNCHANGED active
    BY <1>8 DEF Answer, talk
  <2>2. CASE answering = "begun" /\ Emit("audio_delta") /\ answering' = "spoken"
    BY <2>1, <2>2, EmitTurns DEF Emit, Event
  <2>3. CASE answering = "begun" /\ Emit("tool_call") /\ answering' = "spoken"
    BY <2>1, <2>3, EmitTurns DEF Emit, Event
  <2>4. CASE Emit("turn_completed") /\ answering' = "no"
    BY <2>1, <2>4, EmitTurns DEF Emit, Event
  <2> QED
    BY <1>8, <2>2, <2>3, <2>4 DEF Answer
<1>9. CASE Speak
  <2>1. UNCHANGED <<active, answering>>
    BY <1>9 DEF Speak, talk
  <2>2. PICK kind \in {"speech_started", "speech_stopped", "speech_committed"} :
          openaiQueue' = Append(openaiQueue, kind)
    BY <1>9 DEF Speak, Emit
  <2> QED
    BY <2>1, <2>2, EmitTurns DEF Event
<1>10. CASE BargeIn
  <2>1. openaiQueue' = Append(openaiQueue, "interrupt") /\ UNCHANGED <<active, answering>>
    BY <1>10 DEF BargeIn, model
  <2> QED
    BY <2>1, EmitTurns DEF Event
<1>11. CASE Ending \/ Setup
  BY <1>6, <1>11 DEF Ending, AgentTold, CallCompleted, TimeUp, Tick, Setup, StartMessage, Verified,
                     Opened, Joined, Announced, SetupFails, talk, model
<1>12. CASE Play \/ HandleMark \/ PlaybackEnds \/ Hangup \/ SendToolResult
  BY <1>6, <1>12 DEF Play, HandleMark, PlaybackEnds, Hangup, SendToolResult, talk, model
<1>13. ASSUME NEW why, SocketEnds(why) PROVE Turns'
  BY <1>6, <1>13 DEF SocketEnds, talk, model
<1>14. CASE UNCHANGED vars
  BY <1>6, <1>14 DEF vars, talk, model
<1> QED
  BY <1>1, <1>2, <1>3, <1>4, <1>5, <1>7, <1>8, <1>9, <1>10, <1>11, <1>12, <1>13, <1>14
     DEF Next, HandleOpenAI, World
-----------------------------------------------------------------------------
(* The goodbye. *)

\* Only a hangup under way waits for a mark.
MarkWaits == hangupMark # None => hangupAfter # None

\* The stream has at most one mark before it: the one waited for.
OneMark ==
  /\ \A i \in Marks(buffer) : buffer[i].mark = hangupMark
  /\ \A i, j \in Marks(buffer) : i = j

\* An echo is that of a mark sent, and the one waited for is echoed once.
Echoed ==
  \A i \in DOMAIN twilioQueue :
    twilioQueue[i] <= hangupMarks /\ (twilioQueue[i] = hangupMark => Marks(buffer) = {})

\* Nothing was heard or lost of a response that has not begun, ...
AudioKnown == \A i \in DOMAIN buffer \ Marks(buffer) : buffer[i].audio <= started

\* ... what was lost was lost before the response the hangup waits for, ...
LostBefore ==
  /\ unheard \subseteq 0..started
  /\ hangupAfter # None => unheard \subseteq 0..hangupAfter

\* ... and a completed response gets no more audio.
DoneOver == \A n \in done : n \in 0..started /\ (n = started => ~active)

\* While a mark is waited for, the audio of some goodbye lies before it.
Goodbye ==
  hangupMark # None =>
    \E n \in done :
      /\ n > hangupAfter
      /\ \A i \in DOMAIN buffer \ Marks(buffer) :
           buffer[i].audio = n => \E j \in Marks(buffer) : j > i

Line == MarkWaits /\ OneMark /\ Echoed /\ AudioKnown /\ LostBefore /\ DoneOver /\ Goodbye

\* A new item lies behind the others.
LEMMA MarksAppend ==
  ASSUME NEW items \in Seq(Item), NEW item \in Item
  PROVE  /\ IsMark(item) => Marks(Append(items, item)) = Marks(items) \cup {Len(items) + 1}
         /\ ~IsMark(item) => Marks(Append(items, item)) = Marks(items)
         /\ Marks(items) \subseteq 1..Len(items)
         /\ \A i \in Marks(items) : Append(items, item)[i] = items[i]
BY DEF Marks

\* What was behind the first item moves up.
LEMMA MarksTail ==
  ASSUME NEW items \in Seq(Item), items # <<>>
  PROVE  /\ Len(Tail(items)) = Len(items) - 1
         /\ \A i \in 1..(Len(items) - 1) :
              Tail(items)[i] = items[i + 1] /\ (i \in Marks(Tail(items)) <=> i + 1 \in Marks(items))
         /\ Marks(Tail(items)) \subseteq 1..(Len(items) - 1)
         /\ Marks(items) \subseteq 1..Len(items)
BY DEF Marks

LEMMA InitLine == Init => Line
<1> SUFFICES ASSUME Init PROVE Line
  OBVIOUS
<1>1. Marks(buffer) = {} /\ DOMAIN buffer = {} /\ DOMAIN twilioQueue = {}
  BY DEF Init, Marks
<1> QED
  BY <1>1 DEF Init, Line, MarkWaits, OneMark, Echoed, AudioKnown, LostBefore, DoneOver, Goodbye

\* A response begins: what was said belongs to earlier ones.
LEMMA LineTurnStarted == Typed /\ Line /\ TurnStarted => Line'
<1> SUFFICES ASSUME Typed, Line, TurnStarted PROVE Line'
  OBVIOUS
<1>1. /\ started' = started + 1 /\ started \in Nat
      /\ UNCHANGED <<hangupAfter, hangupMark, hangupMarks, buffer, twilioQueue, unheard, done>>
  BY DEF TurnStarted, Typed, TypeOK, hanging, line
<1>2. UNCHANGED <<MarkWaits, OneMark, Echoed, Goodbye>>
  BY <1>1 DEF MarkWaits, OneMark, Echoed, Goodbye
<1>3. AudioKnown'
  <2> SUFFICES ASSUME NEW i \in DOMAIN buffer \ Marks(buffer) PROVE buffer[i].audio <= started + 1
    BY <1>1 DEF AudioKnown
  <2>1. buffer[i].audio <= started /\ buffer[i].audio \in Nat
    BY ItemFields DEF Line, AudioKnown, Typed, Channels, Marks
  <2> QED
    BY <1>1, <2>1
<1>4. LostBefore' /\ DoneOver'
  BY <1>1 DEF Line, LostBefore, DoneOver
<1> QED
  BY <1>2, <1>3, <1>4 DEF Line

\* Audio of the current response, which is not complete, is sent.
LEMMA LineAudioDelta == Typed /\ Turns /\ Line /\ AudioDelta => Line'
<1> SUFFICES ASSUME Typed, Turns, Line, AudioDelta PROVE Line'
  OBVIOUS
<1>1. /\ buffer' = Append(buffer, [audio |-> started]) /\ started \in Nat /\ buffer \in Seq(Item)
      /\ UNCHANGED <<hangupAfter, hangupMark, hangupMarks, twilioQueue, unheard, done, started,
                     active>>
  BY DEF AudioDelta, Typed, TypeOK, Channels, hanging
<1>2. active
  <2>1. openaiQueue \in Seq(Event) /\ openaiQueue # <<>> /\ openaiQueue[1] = "audio_delta"
    BY DEF AudioDelta, Next1, Typed, Channels
  <2>2. Under(openaiQueue, active, 1)
    BY <2>1 DEF Turns
  <2> QED
    BY <2>2 DEF Under
<1>3. /\ Marks(buffer') = Marks(buffer) /\ Len(buffer') = Len(buffer) + 1
      /\ \A i \in 1..Len(buffer) : buffer'[i] = buffer[i]
      /\ buffer'[Len(buffer) + 1].audio = started
      /\ Marks(buffer) \subseteq 1..Len(buffer)
  BY <1>1, AudioItem, MarksAppend
<1>4. MarkWaits' /\ OneMark' /\ Echoed' /\ LostBefore' /\ DoneOver'
  BY <1>1, <1>3 DEF Line, MarkWaits, OneMark, Echoed, LostBefore, DoneOver
<1>5. AudioKnown'
  BY <1>1, <1>3 DEF Line, AudioKnown
<1>6. ASSUME hangupMark # None PROVE Goodbye'
  <2>1. PICK n \in done :
          /\ n > hangupAfter
          /\ \A i \in DOMAIN buffer \ Marks(buffer) :
               buffer[i].audio = n => \E j \in Marks(buffer) : j > i
    BY <1>6 DEF Line, Goodbye
  <2>2. n # started
    BY <1>2 DEF Line, DoneOver
  <2>3. \A i \in DOMAIN buffer' \ Marks(buffer') :
          buffer'[i].audio = n => \E j \in Marks(buffer') : j > i
    BY <1>1, <1>3, <2>1, <2>2
  <2> QED
    BY <1>1, <2>1, <2>3 DEF Goodbye
<1>7. Goodbye'
  BY <1>1, <1>6 DEF Goodbye
<1> QED
  BY <1>4, <1>5, <1>7 DEF Line

\* A response is complete; the goodbye is followed by a mark of a number never used before.
LEMMA LineTurnCompleted == Typed /\ Line /\ TurnCompleted => Line'
<1> SUFFICES ASSUME Typed, Line, TurnCompleted PROVE Line'
  OBVIOUS
<1>1. /\ done' = done \cup {started} /\ started \in Nat /\ buffer \in Seq(Item)
      /\ active' = FALSE /\ hangupMarks \in Nat /\ twilioQueue \in Seq(Nat)
      /\ UNCHANGED <<hangupAfter, twilioQueue, unheard, started>>
  BY DEF TurnCompleted, Typed, TypeOK, Channels
<1>2. LostBefore' /\ DoneOver'
  BY <1>1 DEF Line, LostBefore, DoneOver
<1>3. CASE UNCHANGED <<hangupMark, hangupMarks, buffer>>
  <2>1. MarkWaits' /\ OneMark' /\ Echoed' /\ AudioKnown'
    BY <1>1, <1>3 DEF Line, MarkWaits, OneMark, Echoed, AudioKnown
  <2>2. Goodbye'
    BY <1>1, <1>3 DEF Line, Goodbye
  <2> QED
    BY <1>2, <2>1, <2>2 DEF Line
<1>4. CASE /\ hangupAfter # None /\ started > hangupAfter /\ hangupMark = None
           /\ hangupMarks' = hangupMarks + 1
           /\ hangupMark' = hangupMarks + 1
           /\ buffer' = Append(buffer, [mark |-> hangupMarks + 1])
  <2>1. hangupMarks + 1 \in Nat /\ hangupMarks + 1 # None
    BY <1>1
  <2>2. Marks(buffer) = {}
    <3> SUFFICES ASSUME NEW i \in Marks(buffer) PROVE FALSE
      OBVIOUS
    <3>1. buffer[i].mark \in Nat
      BY <1>1, ItemFields DEF Marks
    <3> QED
      BY <1>4, <3>1 DEF Line, OneMark
  <2>3. /\ Marks(buffer') = {Len(buffer) + 1} /\ Len(buffer') = Len(buffer) + 1
        /\ \A i \in 1..Len(buffer) : buffer'[i] = buffer[i]
        /\ buffer'[Len(buffer) + 1].mark = hangupMarks + 1
    BY <1>1, <1>4, <2>1, <2>2, MarkItem, MarksAppend
  <2>4. MarkWaits' /\ OneMark'
    BY <1>1, <1>4, <2>3 DEF MarkWaits, OneMark
  <2>5. Echoed'
    BY <1>1, <1>4 DEF Line, Echoed
  <2>6. DOMAIN buffer' = 1..(Len(buffer) + 1) /\ DOMAIN buffer = 1..Len(buffer)
    BY <1>1, <1>4, <2>1, MarkItem
  <2>7. \A i \in DOMAIN buffer' \ Marks(buffer') :
          i \in DOMAIN buffer \ Marks(buffer) /\ buffer'[i] = buffer[i] /\ i < Len(buffer) + 1
    BY <1>1, <2>2, <2>3, <2>6
  <2>8. AudioKnown'
    BY <1>1, <2>7 DEF Line, AudioKnown
  <2>9. \A i \in DOMAIN buffer' \ Marks(buffer') : \E j \in Marks(buffer') : j > i
    BY <1>1, <2>3, <2>7
  <2>10. Goodbye'
    BY <1>1, <1>4, <2>9 DEF Goodbye
  <2> QED
    BY <1>2, <2>4, <2>5, <2>8, <2>10 DEF Line
<1> QED
  BY <1>3, <1>4 DEF TurnCompleted, SendHangupMark

\* The caller interrupts: nothing that was cleared counts as the goodbye any more.
LEMMA LineInterrupt == Typed /\ Line /\ Interrupt => Line'
<1> SUFFICES ASSUME Typed, Line, Interrupt PROVE Line'
  OBVIOUS
<1>1. /\ started \in Nat /\ buffer \in Seq(Item) /\ twilioQueue \in Seq(Nat) /\ hangupMarks \in Nat
      /\ hangupMark \in 1..hangupMarks \cup {None}
      /\ buffer' = <<>> /\ unheard' = unheard \cup Audio(buffer)
      /\ UNCHANGED <<hangupMarks, started, active, done>>
  BY DEF Interrupt, Clear, Typed, TypeOK, Channels
<1>2. /\ hangupMark' = None
      /\ hangupAfter' = IF hangupAfter # None THEN started ELSE None
  BY DEF Interrupt, Line, MarkWaits
<1>3. Marks(buffer') = {} /\ DOMAIN buffer' = {}
  BY <1>1 DEF Marks
<1>4. MarkWaits' /\ OneMark' /\ AudioKnown' /\ Goodbye'
  BY <1>2, <1>3 DEF MarkWaits, OneMark, AudioKnown, Goodbye
<1>5. DoneOver'
  BY <1>1 DEF Line, DoneOver
<1>6. LostBefore'
  <2>1. Audio(buffer) \subseteq 0..started
    BY <1>1, ItemFields DEF Audio, Marks, Line, AudioKnown
  <2> QED
    BY <1>1, <1>2, <2>1 DEF Line, LostBefore
<1>7. Echoed'
  <2>1. PICK echoes \in Echoes(buffer) : twilioQueue' = twilioQueue \o echoes
    BY DEF Interrupt, Clear
  <2>2. /\ echoes \in Seq(Nat)
        /\ \A k \in DOMAIN echoes : \E i \in Marks(buffer) : echoes[k] = buffer[i].mark
    BY <1>1, EchoesOf
  <2>3. \A k \in DOMAIN echoes : echoes[k] <= hangupMarks
    <3> SUFFICES ASSUME NEW k \in DOMAIN echoes PROVE echoes[k] <= hangupMarks
      OBVIOUS
    <3>1. echoes[k] = hangupMark /\ echoes[k] \in Nat
      BY <2>2 DEF Line, OneMark
    <3> QED
      BY <1>1, <3>1
  <2>4. \A k \in DOMAIN twilioQueue' : twilioQueue'[k] <= hangupMarks
    <3> SUFFICES ASSUME NEW k \in DOMAIN twilioQueue' PROVE twilioQueue'[k] <= hangupMarks
      OBVIOUS
    <3>1. /\ Len(twilioQueue') = Len(twilioQueue) + Len(echoes)
          /\ twilioQueue'[k] = IF k <= Len(twilioQueue) THEN twilioQueue[k]
                               ELSE echoes[k - Len(twilioQueue)]
          /\ k \in 1..Len(twilioQueue')
      BY <1>1, <2>1, <2>2, ConcatProperties
    <3>2. CASE k <= Len(twilioQueue)
      BY <1>1, <3>1, <3>2 DEF Line, Echoed
    <3>3. CASE ~(k <= Len(twilioQueue))
      BY <1>1, <2>2, <2>3, <3>1, <3>3
    <3> QED
      BY <3>2, <3>3
  <2> QED
    BY <1>1, <1>3, <2>4 DEF Echoed
<1> QED
  BY <1>4, <1>5, <1>6, <1>7 DEF Line

\* The stream plays audio, or echoes the mark: then all of the goodbye was played.
LEMMA LinePlay == Typed /\ Line /\ Play => Line'
<1> SUFFICES ASSUME Typed, Line, Play PROVE Line'
  OBVIOUS
<1>1. /\ buffer \in Seq(Item) /\ buffer # <<>> /\ buffer' = Tail(buffer)
      /\ twilioQueue \in Seq(Nat) /\ hangupMarks \in Nat
      /\ hangupMark \in 1..hangupMarks \cup {None}
      /\ UNCHANGED <<hangupAfter, hangupMark, hangupMarks, unheard, done, started, active>>
  BY DEF Play, Typed, TypeOK, Channels, hanging, talk
<1>2. /\ Len(buffer') = Len(buffer) - 1
      /\ \A i \in 1..(Len(buffer) - 1) :
           buffer'[i] = buffer[i + 1] /\ (i \in Marks(buffer') <=> i + 1 \in Marks(buffer))
      /\ Marks(buffer') \subseteq 1..(Len(buffer) - 1)
      /\ Marks(buffer) \subseteq 1..Len(buffer)
  BY <1>1, MarksTail
<1>3. MarkWaits' /\ LostBefore' /\ DoneOver'
  BY <1>1 DEF Line, MarkWaits, LostBefore, DoneOver
<1>4. OneMark'
  <2>1. \A i \in Marks(buffer') : i + 1 \in Marks(buffer) /\ buffer'[i] = buffer[i + 1] /\ i \in Nat
    BY <1>1, <1>2
  <2>2. \A i \in Marks(buffer') : buffer'[i].mark = hangupMark
    BY <2>1 DEF Line, OneMark
  <2>3. ASSUME NEW i \in Marks(buffer'), NEW j \in Marks(buffer') PROVE i = j
    <3>1. i + 1 = j + 1
      BY <2>1 DEF Line, OneMark
    <3> QED
      BY <2>1, <3>1
  <2> QED
    BY <1>1, <2>2, <2>3 DEF OneMark
<1>5. AudioKnown'
  BY <1>1, <1>2 DEF Line, AudioKnown
<1>6. Echoed'
  <2>1. CASE IsMark(Head(buffer))
    <3>1. 1 \in Marks(buffer) /\ buffer[1] = Head(buffer)
      BY <1>1, <2>1 DEF Marks
    <3>2. Marks(buffer') = {}
      <4> SUFFICES ASSUME NEW i \in Marks(buffer') PROVE FALSE
        OBVIOUS
      <4>1. i + 1 \in Marks(buffer) /\ i \in 1..(Len(buffer) - 1)
        BY <1>2
      <4> QED
        BY <1>1, <3>1, <4>1 DEF Line, OneMark
    <3>3. buffer[1].mark = hangupMark /\ buffer[1].mark \in Nat
      BY <1>1, <2>1, <3>1, ItemFields DEF Line, OneMark
    <3>4. hangupMark <= hangupMarks
      BY <1>1, <3>3
    <3>5. twilioQueue' = Append(twilioQueue, hangupMark)
      BY <2>1, <3>1, <3>3 DEF Play
    <3>6. \A i \in DOMAIN twilioQueue' : twilioQueue'[i] <= hangupMarks
      BY <1>1, <3>3, <3>4, <3>5 DEF Line, Echoed
    <3> QED
      BY <1>1, <3>2, <3>6 DEF Echoed
  <2>2. CASE ~IsMark(Head(buffer))
    <3>1. twilioQueue' = twilioQueue
      BY <2>2 DEF Play
    <3>2. Marks(buffer) = {} => Marks(buffer') = {}
      BY <1>2
    <3> QED
      BY <1>1, <3>1, <3>2 DEF Line, Echoed
  <2> QED
    BY <2>1, <2>2
<1>7. ASSUME hangupMark # None PROVE Goodbye'
  <2>1. PICK n \in done :
          /\ n > hangupAfter
          /\ \A i \in DOMAIN buffer \ Marks(buffer) :
               buffer[i].audio = n => \E j \in Marks(buffer) : j > i
    BY <1>7 DEF Line, Goodbye
  <2>2. ASSUME NEW i \in DOMAIN buffer' \ Marks(buffer'), buffer'[i].audio = n
        PROVE  \E j \in Marks(buffer') : j > i
    <3>1. /\ i \in 1..(Len(buffer) - 1) /\ i + 1 \in DOMAIN buffer \ Marks(buffer)
          /\ buffer[i + 1].audio = n
      BY <1>1, <1>2, <2>2
    <3>2. PICK j \in Marks(buffer) : j > i + 1
      BY <2>1, <3>1
    <3>3. j - 1 \in Marks(buffer') /\ j - 1 > i
      BY <1>1, <1>2, <3>1, <3>2
    <3> QED
      BY <3>3
  <2> QED
    BY <1>1, <2>1, <2>2 DEF Goodbye
<1>8. Goodbye'
  BY <1>1, <1>7 DEF Goodbye
<1> QED
  BY <1>3, <1>4, <1>5, <1>6, <1>8 DEF Line

\* Every step keeps the line's invariant: seven actions touch what it is about.
LEMMA LineStep == Typed /\ Turns /\ Line /\ [Next]_vars => Line'
<1> SUFFICES ASSUME Typed, Turns, Line, [Next]_vars PROVE Line'
  OBVIOUS
<1>1. CASE TurnStarted \/ AudioDelta \/ TurnCompleted \/ Interrupt \/ Play
  BY <1>1, LineTurnStarted, LineAudioDelta, LineTurnCompleted, LineInterrupt, LinePlay
<1>2. CASE HandleMark
  <2>1. /\ twilioQueue \in Seq(Nat) /\ twilioQueue # <<>> /\ twilioQueue' = Tail(twilioQueue)
        /\ UNCHANGED <<hangupAfter, hangupMark, hangupMarks, buffer, unheard, done, started,
                       active>>
    BY <1>2 DEF HandleMark, Typed, Channels, talk
  <2>2. UNCHANGED <<MarkWaits, OneMark, AudioKnown, LostBefore, DoneOver, Goodbye>>
    BY <2>1 DEF MarkWaits, OneMark, AudioKnown, LostBefore, DoneOver, Goodbye
  <2>3. Echoed'
    BY <2>1 DEF Line, Echoed
  <2> QED
    BY <2>2, <2>3 DEF Line
<1>3. CASE UNCHANGED <<hangupAfter, hangupMark, hangupMarks, twilioQueue, buffer, unheard, done,
                       started, active>>
  BY <1>3 DEF Line, MarkWaits, OneMark, Echoed, AudioKnown, LostBefore, DoneOver, Goodbye
<1>4. CASE Hangup
  <2>1. UNCHANGED <<hangupMark, hangupMarks, twilioQueue, buffer, unheard, done, started, active>>
    BY <1>4 DEF Hangup, talk, line
  <2>2. CASE UNCHANGED hangupAfter
    BY <1>3, <2>1, <2>2
  <2>3. CASE hangupAfter = None /\ hangupAfter' = started
    <3>1. hangupMark = None
      BY <2>3 DEF Line, MarkWaits
    <3>2. MarkWaits' /\ OneMark' /\ Echoed' /\ AudioKnown' /\ DoneOver' /\ Goodbye'
      BY <2>1, <3>1 DEF Line, MarkWaits, OneMark, Echoed, AudioKnown, DoneOver, Goodbye
    <3>3. LostBefore'
      BY <2>1, <2>3 DEF Line, LostBefore
    <3> QED
      BY <3>2, <3>3 DEF Line
  <2> QED
    BY <1>4, <2>2, <2>3 DEF Hangup
<1>5. CASE Ending \/ Setup
  BY <1>3, <1>5 DEF Ending, AgentTold, CallCompleted, TimeUp, Tick, Setup, StartMessage, Verified,
                    Opened, Joined, Announced, SetupFails, hanging, talk, line
<1>6. CASE ToolCall \/ ErrorEvent \/ SpeechStarted \/ SpeechStopped \/ SpeechCommitted
  BY <1>3, <1>6 DEF ToolCall, ErrorEvent, SpeechStarted, SpeechStopped, SpeechCommitted, hanging,
                    talk, line
<1>7. CASE BeginAnswer \/ RefuseAnswer \/ CancelAnswer \/ Answer \/ Speak
  BY <1>3, <1>7 DEF BeginAnswer, RefuseAnswer, CancelAnswer, Answer, Speak, hanging, talk, line
<1>8. CASE PlaybackEnds \/ BargeIn \/ SendToolResult
  BY <1>3, <1>8 DEF PlaybackEnds, BargeIn, SendToolResult, hanging, talk, line
<1>9. ASSUME NEW why, SocketEnds(why) PROVE Line'
  BY <1>3, <1>9 DEF SocketEnds, talk, line
<1>10. CASE UNCHANGED vars
  BY <1>3, <1>10 DEF vars, hanging, talk, line
<1> QED
  BY <1>1, <1>2, <1>4, <1>5, <1>6, <1>7, <1>8, <1>9, <1>10 DEF Next, HandleOpenAI, World

\* Only the echo of the mark waited for makes the agent hang up.
LEMMA OnlyMarkHangsUp ==
  ASSUME [Next]_vars, reason' = "agent_hangup", reason # "agent_hangup"
  PROVE  HandleMark /\ hangupMark # None /\ Head(twilioQueue) = hangupMark
<1>1. ASSUME NEW why, Finish(why), why # "agent_hangup" PROVE FALSE
  BY <1>1 DEF Finish
<1>2. CASE TimeUp \/ SetupFails \/ ErrorEvent
  BY <1>1, <1>2 DEF TimeUp, EndCall, SetupFails, ErrorEvent
<1>3. ASSUME NEW why \in Errors \cup {"twilio_stop", "twilio_close"}, SocketEnds(why) PROVE FALSE
  BY <1>1, <1>3 DEF SocketEnds, Errors
<1>4. CASE HandleMark
  BY <1>4 DEF HandleMark
<1>5. CASE AgentTold \/ CallCompleted \/ Tick \/ (Setup /\ ~SetupFails)
  BY <1>5 DEF AgentTold, CallCompleted, Tick, Setup, StartMessage, Verified, Opened, Joined,
              Announced, lifecycle
<1>6. CASE HandleOpenAI /\ ~ErrorEvent
  BY <1>6 DEF HandleOpenAI, TurnStarted, AudioDelta, ToolCall, TurnCompleted, SpeechStarted,
              SpeechStopped, SpeechCommitted, Interrupt, lifecycle
<1>7. CASE World \/ PlaybackEnds \/ BargeIn \/ Hangup \/ SendToolResult
  BY <1>7 DEF World, Play, BeginAnswer, RefuseAnswer, CancelAnswer, Answer, Speak, PlaybackEnds,
              BargeIn, Hangup, SendToolResult, lifecycle
<1>8. CASE UNCHANGED vars
  BY <1>8 DEF vars, lifecycle
<1> QED
  BY <1>2, <1>3, <1>4, <1>5, <1>6, <1>7, <1>8 DEF Next, Ending

\* The echo of the mark waited for says that a goodbye was played.
LEMMA EchoAfterGoodbye ==
  ASSUME Typed, Line, twilioQueue # <<>>, hangupMark # None, Head(twilioQueue) = hangupMark
  PROVE  GoodbyePlayed
<1>1. Marks(buffer) = {}
  <2>1. 1 \in DOMAIN twilioQueue /\ twilioQueue[1] = hangupMark
    BY DEF Typed, Channels
  <2> QED
    BY <2>1 DEF Line, Echoed
<1>2. PICK n \in done :
        n > hangupAfter /\ \A i \in DOMAIN buffer \ Marks(buffer) : buffer[i].audio # n
  BY <1>1 DEF Line, Goodbye
<1>3. n \notin Audio(buffer)
  BY <1>2 DEF Audio
<1>4. n \notin unheard
  <2>1. hangupAfter \in Nat /\ n \in Nat
    BY DEF Line, MarkWaits, DoneOver, Typed, TypeOK
  <2>2. unheard \subseteq 0..hangupAfter
    BY DEF Line, MarkWaits, LostBefore
  <2> QED
    BY <1>2, <2>1, <2>2
<1> QED
  BY <1>2, <1>3, <1>4 DEF GoodbyePlayed

\* What holds of the line at every moment: audio reaches the stream within its response, at
\* most one mark is on its way and an older echo has another number, what an interruption
\* cleared is older than what the hangup waits for, and the goodbye lies before its mark
\* (realtime.ts, handleOpenAI, sendHangupMark() and interruptAgent()).
THEOREM Inductive == Spec => [](Typed /\ Turns /\ Line)
<1>1. Init => Turns
  BY DEF Init, Turns
<1>2. Init => Typed /\ Turns /\ Line
  BY <1>1, InitTyped, InitLine
<1>3. (Typed /\ Turns /\ Line) /\ [Next]_vars => (Typed /\ Turns /\ Line)'
  BY TypedStep, TurnsStep, LineStep
<1> QED
  BY <1>2, <1>3, PTL DEF Spec

\* The agent's hangup ends the call only when a response that began after the hangup was
\* asked for, and after the caller last interrupted, was completed and played in full
\* (realtime.ts, hangup(), sendHangupMark() and interruptAgent()): for any number of
\* responses, interruptions and stale echoes.
THEOREM HeardBeforeHangup == Spec => HangsUpAfterGoodbye
<1>1. Typed /\ Line /\ [Next]_vars =>
        [reason' = "agent_hangup" /\ reason # "agent_hangup" => GoodbyePlayed]_vars
  <2> SUFFICES ASSUME Typed, Line, [Next]_vars, reason' = "agent_hangup", reason # "agent_hangup"
               PROVE  GoodbyePlayed
    OBVIOUS
  <2>1. twilioQueue # <<>> /\ hangupMark # None /\ Head(twilioQueue) = hangupMark
    BY OnlyMarkHangsUp DEF HandleMark
  <2> QED
    BY <2>1, EchoAfterGoodbye
<1> QED
  BY <1>1, Inductive, PTL DEF Spec, HangsUpAfterGoodbye
=============================================================================
