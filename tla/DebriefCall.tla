---------------------------- MODULE DebriefCall ----------------------------
(***************************************************************************)
(* One debrief session on the phone: the scheduled job and the operator's  *)
(* start route (packages/voice/src/http.ts, transports/server.ts), the     *)
(* media bridge's agent and its end (packages/voice/src/realtime.ts), and  *)
(* the provider's status callbacks (packages/voice/src/channel.ts), all    *)
(* working on the same session through the operations of DebriefService.   *)
(*                                                                         *)
(* A start k is also the name of the call it places.  Each actor is a task *)
(* of the service: it asks for its next operation only when the previous   *)
(* one has returned, and the operations of different actors interleave at  *)
(* every await.                                                            *)
(***************************************************************************)
EXTENDS DebriefService

CONSTANTS
  Start,       \* the starts of a call for this session
  Scheduled,   \* the starts made by the scheduled job; the others are manual
  Facts,       \* the draft fields the agent may save during a call
  LeaseEnds,   \* whether the job's lease may run out while the call is being placed
  Overtakes    \* whether a status callback may arrive before the start has noted the call

Role == {"start", "tool", "bridge", "status"}

ASSUME DebriefCallAssumption ==
  /\ Start \X Role \subseteq Task
  /\ Scheduled \subseteq Start
  /\ Facts \subseteq Field \cup {"address"}
  /\ LeaseEnds \in BOOLEAN
  /\ Overtakes \in BOOLEAN

VARIABLES
  stage,   \* stage[k]: how far start k has come
  line,    \* line[k]: the telephone call at the provider
  media,   \* media[k]: the media bridge of the call
  fate,    \* fate[k]: the final status the provider reports, and what became of it
  noted    \* calls whose id resolves to the session: callSessions or the job's row

call == <<stage, line, media, fate, noted>>
allVars == <<vars, call>>

Stage == {"waiting", "loading", "mark", "place", "reply", "record", "onFailure", "fail", "notify",
          "done"}

CallTypeOK ==
  /\ stage \in [Start -> Stage]
  /\ line \in [Start -> {"none", "dialling", "talking", "over"}]
  /\ media \in [Start -> {"none", "bound", "stopping", "recording", "erring", "closed"}]
  /\ fate \in [Start -> {"none", "completed", "failed", "grace", "handled"}]
  /\ noted \subseteq Start

\* A session has been prepared and persisted.
CallInit ==
  /\ Init
  /\ stage = [k \in Start |-> "waiting"]
  /\ line = [k \in Start |-> "none"]
  /\ media = [k \in Start |-> "none"]
  /\ fate = [k \in Start |-> "none"]
  /\ noted = {}

Free(k, role) == pc[<<k, role>>] = "idle"
Session == heap[Cur(<<CHOOSE k \in Start : TRUE, "start">>)]

Calling == heap # <<>> /\ Session = "calling"

GoTo(k, s) == stage' = [stage EXCEPT ![k] = s] /\ UNCHANGED <<line, media, fate, noted>>
-----------------------------------------------------------------------------
(* Preparing and starting. *)

\* The session is prepared once, on behalf of any of the tasks.
Prepare(k) == PrepareDebrief(<<k, "start">>) /\ UNCHANGED call

\* The job is claimed and refreshes the session from the database; the manual route does
\* not.
Begin(k) ==
  /\ stage[k] = "waiting"
  /\ disk # None
  /\ Free(k, "start")
  /\ IF k \in Scheduled
     THEN HydrateSession(<<k, "start">>) /\ GoTo(k, "loading")
     ELSE UNCHANGED vars /\ GoTo(k, "mark")

Hydrated(k) ==
  /\ stage[k] = "loading"
  /\ Free(k, "start")
  /\ GoTo(k, "mark")
  /\ UNCHANGED vars

\* beforeStart: markCalling() throws unless the session is prepared or already calling.
BeforeStart(k) ==
  /\ stage[k] = "mark"
  /\ Free(k, "start")
  /\ MarkCalling(<<k, "start">>)
  /\ GoTo(k, IF Session \in {"prepared", "calling"} THEN "place" ELSE "onFailure")

\* Mutant of CreateCall: markCalling() is not awaited.
CreateCallEarly(k) ==
  /\ stage[k] = "place"
  /\ stage' = [stage EXCEPT ![k] = "reply"]
  /\ line' = [line EXCEPT ![k] = "dialling"]
  /\ UNCHANGED <<media, fate, noted, vars>>

\* createCall(): the provider dials, or the request fails.
CreateCall(k) ==
  /\ stage[k] = "place"
  /\ Free(k, "start")
  /\ \/ /\ stage' = [stage EXCEPT ![k] = "reply"]
        /\ line' = [line EXCEPT ![k] = "dialling"]
        /\ UNCHANGED <<media, fate, noted>>
     \/ GoTo(k, "onFailure")
  /\ UNCHANGED vars

\* The reply and its telemetry record have arrived: onProviderStart notes the call id and
\* stores it; or the reply is lost although the phone rings.
ProviderReplies(k) ==
  /\ stage[k] = "reply"
  /\ \/ /\ SetCallId(<<k, "start">>)
        /\ noted' = noted \cup {k}
        /\ stage' = [stage EXCEPT ![k] = "record"]
        /\ UNCHANGED <<line, media, fate>>
     \/ GoTo(k, "onFailure") /\ UNCHANGED vars

\* The manual start answers its request; the job calls complete(), which throws when the
\* lease has run out.
Started(k) ==
  /\ stage[k] = "record"
  /\ Free(k, "start")
  /\ \/ GoTo(k, "done")
     \/ k \in Scheduled /\ LeaseEnds /\ GoTo(k, "fail")
  /\ UNCHANGED vars

\* onFailure: the session is marked failed, then the error goes to the caller.
OnFailure(k) ==
  /\ stage[k] = "onFailure"
  /\ Free(k, "start")
  /\ MarkFailed(<<k, "start">>)
  /\ GoTo(k, IF k \in Scheduled THEN "fail" ELSE "done")

\* fail(): throws when a sweep has already surfaced the job, and then nobody is told.
FailJob(k) ==
  /\ stage[k] = "fail"
  /\ Free(k, "start")
  /\ \/ GoTo(k, "notify")
     \/ LeaseEnds /\ GoTo(k, "done")
  /\ UNCHANGED vars

OnProviderFailure(k) ==
  /\ stage[k] = "notify"
  /\ MarkFailed(<<k, "start">>)
  /\ GoTo(k, "done")
-----------------------------------------------------------------------------
(* The provider, and the media bridge. *)

\* The callee answers and the media stream opens; the bridge binds its agent, or its setup
\* fails before there is an agent to tell.
Answer(k) ==
  /\ line[k] = "dialling"
  /\ line' = [line EXCEPT ![k] = "talking"]
  /\ \E m \in {"bound", "closed"} : media' = [media EXCEPT ![k] = m]
  /\ UNCHANGED <<vars, stage, fate, noted>>

\* busy, no-answer, canceled and failed all count as failed.
NoAnswer(k) ==
  /\ line[k] = "dialling"
  /\ line' = [line EXCEPT ![k] = "over"]
  /\ fate' = [fate EXCEPT ![k] = "failed"]
  /\ UNCHANGED <<vars, stage, media, noted>>

\* The call ends: by a hangup (the stream stops) or by an error of the model's connection.
HangUp(k) ==
  /\ line[k] = "talking"
  /\ line' = [line EXCEPT ![k] = "over"]
  /\ fate' = [fate EXCEPT ![k] = "completed"]
  /\ IF media[k] = "bound"
     THEN \E m \in {"stopping", "erring"} : media' = [media EXCEPT ![k] = m]
     ELSE UNCHANGED media
  /\ UNCHANGED <<vars, stage, noted>>

\* The agent saves a fact with update_debrief_draft.
AgentSaves(k) ==
  /\ media[k] = "bound"
  /\ \E f \in Facts \ draftFields : UpdateDebriefDraft(<<k, "tool">>, {f})
  /\ UNCHANGED call

Bridge(k, m) == media' = [media EXCEPT ![k] = m] /\ UNCHANGED <<stage, line, fate, noted>>

\* finish() without an error: onStop awaits the confirmation (its error is swallowed) ...
OnStop(k) ==
  /\ media[k] = "stopping"
  /\ AwaitConfirmation(<<k, "bridge">>)
  /\ Bridge(k, "recording")

\* ... and the completed call is recorded.
OnCallCompleted(k) ==
  /\ media[k] = "recording"
  /\ Free(k, "bridge")
  /\ RecordCallCompleted(<<k, "bridge">>)
  /\ Bridge(k, "closed")

\* finish() with an error: onError only.
OnError(k) ==
  /\ media[k] = "erring"
  /\ EndCallAfterInterruption(<<k, "bridge">>)
  /\ Bridge(k, "closed")
-----------------------------------------------------------------------------
(* Status callbacks. *)

Status(k, f) == fate' = [fate EXCEPT ![k] = f] /\ UNCHANGED <<stage, line, media>>

\* Mutant of OnProviderStatus: the safety net after "completed" is missing.
OnProviderStatusNoNet(k) ==
  /\ fate[k] \in {"completed", "failed"}
  /\ Overtakes \/ stage[k] # "reply"
  /\ IF k \in noted /\ fate[k] = "failed"
     THEN EndCallAfterInterruption(<<k, "status">>)
     ELSE UNCHANGED vars
  /\ Status(k, "handled")
  /\ noted' = noted \ {k}

\* The final status arrives.  A call id that resolves to no session is dropped; "failed"
\* ends the call, "completed" arms the timer of the safety net.
OnProviderStatus(k) ==
  /\ fate[k] \in {"completed", "failed"}
  /\ Overtakes \/ stage[k] # "reply"
  /\ \/ k \notin noted /\ Status(k, "handled") /\ UNCHANGED vars
     \/ k \in noted /\ fate[k] = "failed"
        /\ EndCallAfterInterruption(<<k, "status">>) /\ Status(k, "handled")
     \/ k \in noted /\ fate[k] = "completed" /\ Status(k, "grace") /\ UNCHANGED vars
  /\ noted' = noted \ {k}

\* finalizeGraceMs later.
GraceOver(k) ==
  /\ fate[k] = "grace"
  /\ EndCallAfterInterruption(<<k, "status">>)
  /\ Status(k, "handled")
  /\ UNCHANGED noted
-----------------------------------------------------------------------------
Placing(k) ==
  \/ Begin(k) \/ Hydrated(k) \/ BeforeStart(k) \/ CreateCall(k) \/ ProviderReplies(k)
  \/ Started(k) \/ OnFailure(k) \/ FailJob(k) \/ OnProviderFailure(k)

Talking(k) == Answer(k) \/ NoAnswer(k) \/ HangUp(k)

Ending(k) == OnStop(k) \/ OnCallCompleted(k) \/ OnError(k)

Reporting(k) == OnProviderStatus(k) \/ GraceOver(k)

Working(t) == Step(t) /\ UNCHANGED call

CallNext ==
  \/ \E k \in Start : \/ Prepare(k) \/ Placing(k) \/ Talking(k) \/ AgentSaves(k)
                      \/ Ending(k) \/ Reporting(k)
  \/ \E t \in Task : Working(t)

CallSpec == CallInit /\ [][CallNext]_allVars

\* The event loop runs every operation and every handler that is due; the provider ends
\* every call and reports its final status; the timer fires.
CallFairness ==
  /\ \A t \in Task : WF_allVars(Working(t))
  /\ \A k \in Start : /\ WF_allVars(Placing(k)) /\ WF_allVars(Talking(k))
                      /\ WF_allVars(Ending(k)) /\ WF_allVars(Reporting(k))

FairCallSpec == CallSpec /\ CallFairness
-----------------------------------------------------------------------------
(* Properties. *)

\* The comment on the safety net in channel.ts: it is there "so a session can never stay in
\* "calling"": whichever of reply, media stream, error and callback comes first or not at
\* all, the session leaves calling.
CallingIsLeft == Calling ~> ~Calling

\* The same for any number of starts, without fairness: once every start, call, callback
\* and operation is over, the session is not left in calling.
AtRest ==
  /\ \A t \in Task : pc[t] = "idle"
  /\ \A k \in Start : stage[k] = "done" /\ line[k] \in {"none", "over"}
                      /\ media[k] \in {"none", "closed"} /\ fate[k] \in {"none", "handled"}
RestIsNotCalling == AtRest => ~Calling

\* The phone rings only when the session's calling state is durable, so that a restarted
\* host knows of the call.
DialsOnceDurable ==
  [][\A k \in Start : line'[k] # line[k] /\ line'[k] = "dialling" => disk = "calling"]_allVars
=============================================================================
