--------------------------- MODULE DebriefProofs ---------------------------
(***************************************************************************)
(* Proofs about DebriefService, for any number of requests, hosts, fields, *)
(* session objects and faults, and about DebriefCall, whose actors are     *)
(* clients of the service, for any number of starts; and about CrmSync,    *)
(* which writes a confirmed debrief to the CRM, for any number of runs.    *)
(***************************************************************************)
EXTENDS DebriefCall, CrmSync, SequenceTheorems, FiniteSetTheorems, TLAPS

USE DebriefServiceAssumption

\* The type invariant with what makes it inductive.
Typed == TypeOK /\ HoldsSession

\* Assigning a state to a session object keeps the heap well formed.
LEMMA HeapSet ==
  ASSUME TypeOK, NEW o \in 1..Len(heap), NEW s \in State
  PROVE  /\ [heap EXCEPT ![o] = s] \in Seq(State)
         /\ Len([heap EXCEPT ![o] = s]) = Len(heap)
BY DEF TypeOK

\* So does a new object made from a persisted row.
LEMMA HeapNew ==
  ASSUME TypeOK, NEW s \in State
  PROVE  /\ Append(heap, s) \in Seq(State)
         /\ Len(Append(heap, s)) = Len(heap) + 1
BY DEF TypeOK

\* A section that assigns session.state and enters persist() keeps the types.
LEMMA SetStateTyped ==
  ASSUME Typed, NEW t \in Task, NEW o \in 1..Len(heap), NEW s \in State,
         NEW l \in {"idle", "log", "event"}, SetState(t, o, s, l), UNCHANGED <<store, faults>>
  PROVE  Typed'
<1>1. heap' \in Seq(State) /\ Len(heap') = Len(heap)
  BY HeapSet DEF Typed, SetState
<1>2. TypeOK'
  BY <1>1 DEF Typed, TypeOK, SetState, Ret, Pc, store, draft
<1>3. HoldsSession'
  BY DEF Typed, TypeOK, HoldsSession, SetState, Cur
<1> QED
  BY <1>2, <1>3 DEF Typed

\* The end of an operation keeps the types.
LEMMA EndTyped ==
  ASSUME Typed, NEW t \in Task, End(t), UNCHANGED memory,
         disk' \in State \cup {None}, UNCHANGED draft, events' \subseteq Event, faults' \in Nat
  PROVE  Typed'
<1>1. TypeOK'
  BY DEF Typed, TypeOK, End, Ret, Pc, memory, draft
<1>2. HoldsSession'
  BY DEF Typed, TypeOK, HoldsSession, End, Cur, memory
<1> QED
  BY <1>1, <1>2 DEF Typed

\* Entering saveDraft() keeps the types.
LEMMA SaveDraftTyped ==
  ASSUME Typed, NEW t \in Task, NEW o \in 1..Len(heap), NEW f \in SUBSET Fields,
         NEW s \in {"draft", "partial", "confirmed"}, NEW l \in Ret, SaveDraft(t, o, f, s, l),
         UNCHANGED <<memory, disk, draft, faults>>, events' \subseteq Event
  PROVE  Typed'
<1>1. TypeOK'
  BY DEF Typed, TypeOK, SaveDraft, Ret, Pc, memory, draft
<1>2. HoldsSession'
  BY DEF Typed, TypeOK, HoldsSession, SaveDraft, Cur, memory
<1> QED
  BY <1>1, <1>2 DEF Typed

\* transition() keeps the types.
LEMMA MoveTyped ==
  ASSUME Typed, NEW t \in Task, Cur(t) # None, NEW s \in State, Move(t, s),
         UNCHANGED <<store, faults>>
  PROVE  Typed'
<1>1. Cur(t) \in 1..Len(heap)
  BY DEF Typed, TypeOK, Cur
<1>2. CASE heap[Cur(t)] # s /\ Allowed(heap[Cur(t)], s)
  BY <1>1, <1>2, SetStateTyped DEF Move
<1>3. CASE ~(heap[Cur(t)] # s /\ Allowed(heap[Cur(t)], s))
  <2>1. End(t) /\ UNCHANGED memory
    BY <1>3 DEF Move
  <2> QED
    BY <2>1, EndTyped DEF Typed, TypeOK, store, draft
<1> QED
  BY <1>2, <1>3

\* Appending an event of a known type keeps the events well typed.
LEMMA AppendTyped ==
  ASSUME TypeOK, NEW type \in EventType, NEW f \in SUBSET Fields, AppendEvent(type, f)
  PROVE  events' \subseteq Event
BY DEF TypeOK, AppendEvent, Event

\* Every request, up to its first await, keeps the types.
LEMMA RequestTyped ==
  ASSUME Typed, NEW t \in Task, Request(t)
  PROVE  Typed'
<1> USE DEF Ready
<1>0. cur[HostOf[t]] # None => Cur(t) \in 1..Len(heap) /\ heap[Cur(t)] \in State
  BY DEF Typed, TypeOK, Cur
<1>1. ASSUME PrepareDebrief(t) PROVE Typed'
  <2>1. heap' \in Seq(State) /\ Len(heap') = 1 /\ Len(heap) = 0
    BY <1>1 DEF PrepareDebrief, State
  <2>2. TypeOK'
    BY <1>1, <2>1 DEF PrepareDebrief, Typed, TypeOK, Ret, Pc, State, store, draft
  <2>3. HoldsSession'
    BY <1>1, <2>1 DEF PrepareDebrief, Typed, TypeOK, HoldsSession, Cur, State
  <2> QED
    BY <2>2, <2>3 DEF Typed
<1>2. ASSUME HydrateSession(t) PROVE Typed'
  <2>1. TypeOK'
    BY <1>2 DEF HydrateSession, Goto, Typed, TypeOK, Pc, memory, store, draft
  <2>2. HoldsSession'
    BY <1>2 DEF HydrateSession, Goto, Typed, TypeOK, HoldsSession, Cur, memory, store, draft
  <2> QED
    BY <2>1, <2>2 DEF Typed
<1>3. ASSUME NEW s \in State, Transition(t, s) PROVE Typed'
  BY <1>3, MoveTyped DEF Transition, Cur
<1>4. ASSUME MarkFailed(t) PROVE Typed'
  BY <1>4, <1>0, SetStateTyped DEF MarkFailed, State
<1>5. ASSUME NEW l \in {"endRead", "teachWrite"}, Ready(t), Hold(t, Cur(t), l),
             UNCHANGED <<memory, store, faults>>
      PROVE  Typed'
  <2>1. TypeOK'
    BY <1>0, <1>5 DEF Hold, Typed, TypeOK, Pc, memory, store, draft
  <2>2. HoldsSession'
    BY <1>0, <1>5 DEF Hold, Typed, TypeOK, HoldsSession, Cur, memory
  <2> QED
    BY <2>1, <2>2 DEF Typed
<1>6. ASSUME End(t), UNCHANGED <<memory, store, faults>> PROVE Typed'
  BY <1>6, EndTyped DEF Typed, TypeOK, store, draft
<1>7. ASSUME EndCallAfterInterruption(t) PROVE Typed'
  BY <1>5, <1>6, <1>7 DEF EndCallAfterInterruption
<1>8. ASSUME TeachFromCorrection(t) PROVE Typed'
  BY <1>5, <1>6, <1>8 DEF TeachFromCorrection
<1>9. ASSUME SetCallId(t) PROVE Typed'
  BY <1>9, <1>0, SetStateTyped DEF SetCallId
<1>10. ASSUME RecordCallCompleted(t) PROVE Typed'
  BY <1>10, <1>0, SaveDraftTyped DEF RecordCallCompleted, Fields, Ret, Typed, TypeOK, store
<1>11. ASSUME NEW f \in Field \cup {"address"}, UpdateDebriefDraft(t, {f}) PROVE Typed'
  BY <1>0, <1>6, <1>11, SaveDraftTyped DEF UpdateDebriefDraft, Fields, Ret, Typed, TypeOK, store
<1>12. ASSUME NEW l \in {"idle", "confirmList"}, ReadDraft(t, l) PROVE Typed'
  <2>1. CASE End(t)
    BY <1>6, <1>12, <2>1 DEF ReadDraft
  <2>2. CASE ~End(t)
    <3>1. TypeOK'
      BY <1>0, <1>12, <2>2 DEF ReadDraft, Typed, TypeOK, Pc, Ret, memory, store, draft
    <3>2. HoldsSession'
      BY <1>0, <1>12, <2>2 DEF ReadDraft, Typed, TypeOK, HoldsSession, Cur, memory
    <3> QED
      BY <3>1, <3>2 DEF Typed
  <2> QED
    BY <2>1, <2>2
<1> QED
  BY <1>1, <1>2, <1>3, <1>4, <1>7, <1>8, <1>9, <1>10, <1>11, <1>12
  DEF Request, MarkCalling, AwaitConfirmation, MarkPartial, ConfirmDebrief,
      GetDebriefForConfirmation, ConfirmDebriefDraft, State

\* So does every step from one await to the next.
LEMMA StepTyped ==
  ASSUME Typed, NEW t \in Task, Step(t)
  PROVE  Typed'
<1>1. ASSUME Persist(t) PROVE Typed'
  <2>1. TypeOK'
    BY <1>1 DEF Persist, Typed, TypeOK, HoldsSession, Pc, Ret, memory, draft
  <2>2. HoldsSession'
    BY <1>1 DEF Persist, Typed, TypeOK, HoldsSession, Cur, memory
  <2> QED
    BY <2>1, <2>2 DEF Typed
<1>2. ASSUME NEW l \in {"log", "confirmEvent"}, Goto(t, l), l = "confirmEvent" => ref[t] # None,
             UNCHANGED <<memory, disk, draft, faults>>, events' \subseteq Event
      PROVE  Typed'
  <2>1. TypeOK'
    BY <1>2 DEF Goto, Typed, TypeOK, Pc, Ret, memory, draft
  <2>2. HoldsSession'
    BY <1>2 DEF Goto, Typed, TypeOK, HoldsSession, Cur, memory
  <2> QED
    BY <2>1, <2>2 DEF Typed
<1>3. ASSUME TransitionEvent(t) PROVE Typed'
  <2>1. events' \subseteq Event
    BY <1>3, AppendTyped DEF TransitionEvent, EventType, Fields, Typed
  <2> QED
    BY <1>2, <1>3, <2>1 DEF TransitionEvent
<1>4. ASSUME Log(t) PROVE Typed'
  BY <1>4, EndTyped DEF Log, Typed, TypeOK, store, draft
<1>5. ASSUME EndRead(t) PROVE Typed'
  <2>1. TypeOK'
    BY <1>5 DEF EndRead, Goto, Typed, TypeOK, Pc, memory, store, draft
  <2>2. HoldsSession'
    BY <1>5 DEF EndRead, Goto, Typed, TypeOK, HoldsSession, Cur, memory
  <2> QED
    BY <2>1, <2>2 DEF Typed
<1>6. ASSUME EndAnswered(t) PROVE Typed'
  <2>1. Cur(t) # None /\ Cur(t) \in 1..Len(heap)
    BY <1>6 DEF EndAnswered, Typed, HoldsSession, TypeOK, Cur
  <2> QED
    BY <1>6, <2>1, MoveTyped, SetStateTyped DEF EndAnswered, State
<1>7. pc[t] \in {"teachWrite", "draftRead", "draftMerge", "draftWrite", "confirmList",
                 "confirmAddress", "confirmEvent", "confirmState"}
        => ref[t] # None /\ ref[t] \in 1..Len(heap)
  BY DEF Typed, TypeOK, HoldsSession
<1>8. ASSUME TeachWrite(t) PROVE Typed'
  BY <1>7, <1>8, SetStateTyped DEF TeachWrite, State
<1>9. ASSUME End(t), UNCHANGED <<memory, store, faults>> PROVE Typed'
  BY <1>9, EndTyped DEF Typed, TypeOK, store, draft
<1>10. ASSUME DraftRead(t) PROVE Typed'
  <2>1. CASE draftStatus = "none"
    <3>1. ret[t] \in Ret
      BY DEF Typed, TypeOK
    <3> QED
      BY <1>7, <1>10, <2>1, <3>1, SaveDraftTyped DEF DraftRead, Typed, TypeOK, store
  <2>2. CASE draftStatus # "none" /\ ret[t] = "idle"
    BY <1>9, <1>10, <2>2 DEF DraftRead
  <2>3. CASE draftStatus # "none" /\ ret[t] # "idle"
    <3>1. TypeOK'
      BY <1>10, <2>3 DEF DraftRead, Typed, TypeOK, Pc, memory, store, draft
    <3>2. HoldsSession'
      BY <1>7, <1>10, <2>3 DEF DraftRead, Typed, TypeOK, HoldsSession, Cur, memory, Ret
    <3> QED
      BY <3>1, <3>2 DEF Typed
  <2> QED
    BY <2>1, <2>2, <2>3
<1>11. ASSUME DraftMerge(t) PROVE Typed'
  <2>1. TypeOK'
    BY <1>11 DEF DraftMerge, Typed, TypeOK, Pc, memory, store, draft
  <2>2. HoldsSession'
    BY <1>7, <1>11 DEF DraftMerge, Typed, TypeOK, HoldsSession, Cur, memory
  <2> QED
    BY <2>1, <2>2 DEF Typed
<1>12. ASSUME DraftWrite(t) PROVE Typed'
  <2>1. TypeOK'
    BY <1>12 DEF DraftWrite, GoOn, Goto, End, Typed, TypeOK, Pc, Ret, memory
  <2>2. HoldsSession'
    BY <1>7, <1>12 DEF DraftWrite, GoOn, Goto, End, Typed, TypeOK, HoldsSession, Cur, memory, Ret
  <2> QED
    BY <2>1, <2>2 DEF Typed
<1>13. ASSUME ConfirmList(t) PROVE Typed'
  <2>1. CASE Recorded("debrief_confirmed")
    BY <1>9, <1>13, <2>1 DEF ConfirmList
  <2>2. CASE ~Recorded("debrief_confirmed")
    <3>1. TypeOK'
      BY <1>13, <2>2 DEF ConfirmList, Goto, Typed, TypeOK, Pc, memory, store, draft
    <3>2. HoldsSession'
      BY <1>7, <1>13, <2>2 DEF ConfirmList, Goto, Typed, TypeOK, HoldsSession, Cur, memory
    <3> QED
      BY <3>1, <3>2 DEF Typed
  <2> QED
    BY <2>1, <2>2
<1>14. ASSUME ConfirmAddress(t) PROVE Typed'
  <2>1. events' \subseteq Event
    BY <1>14, AppendTyped DEF ConfirmAddress, EventType, Fields, Typed
  <2> QED
    BY <1>2, <1>7, <1>14, <2>1 DEF ConfirmAddress
<1>15. ASSUME ConfirmEvent(t) PROVE Typed'
  <2>1. got[t] \in SUBSET Fields
    BY DEF Typed, TypeOK
  <2>2. events' \subseteq Event
    BY <1>15, <2>1, AppendTyped DEF ConfirmEvent, EventType, Typed
  <2> QED
    BY <1>7, <1>15, <2>1, <2>2, SaveDraftTyped DEF ConfirmEvent, Ret
<1>16. ASSUME ConfirmState(t) PROVE Typed'
  BY <1>7, <1>9, <1>16, SetStateTyped DEF ConfirmState, State
<1>17. ASSUME Load(t) PROVE Typed'
  <2>1. TypeOK'
    BY <1>17 DEF Load, Typed, TypeOK, Pc, memory, store, draft
  <2>2. HoldsSession'
    BY <1>17 DEF Load, Typed, TypeOK, HoldsSession, Cur, memory
  <2> QED
    BY <2>1, <2>2 DEF Typed
<1>18. ASSUME Loaded(t) PROVE Typed'
  <2>1. CASE snap[t] = None
    BY <1>9, <1>18, <2>1 DEF Loaded
  <2>2. CASE snap[t] # None
    <3>1. heap' \in Seq(State) /\ Len(heap') = Len(heap) + 1
      <4>1. TypeOK /\ snap[t] \in State
        BY <2>2 DEF Typed, TypeOK
      <4> QED
        BY <1>18, <2>2, <4>1, HeapNew DEF Loaded
    <3>2. Len(heap) \in Nat
      BY DEF Typed, TypeOK
    <3>3. cur' \in [Host -> 1..Len(heap') \cup {None}]
      BY <1>18, <2>2, <3>1, <3>2 DEF Loaded, Typed, TypeOK
    <3>4. ref' \in [Task -> 1..Len(heap') \cup {None}]
      BY <1>18, <3>1, <3>2 DEF Loaded, End, Typed, TypeOK
    <3>5. TypeOK'
      BY <1>18, <3>1, <3>3, <3>4 DEF Loaded, End, Typed, TypeOK, Pc, Ret, store, draft
    <3>6. \A u \in Task : Cur(u) # None => cur'[HostOf[u]] # None
      BY <1>18, <2>2, <3>2 DEF Loaded, Cur, Typed, TypeOK
    <3>7. HoldsSession'
      BY <1>18, <3>6 DEF Loaded, End, Typed, TypeOK, HoldsSession, Cur
    <3> QED
      BY <3>5, <3>7 DEF Typed
  <2> QED
    BY <2>1, <2>2
<1> QED
  BY <1>1, <1>3, <1>4, <1>5, <1>6, <1>8, <1>10, <1>11, <1>12, <1>13, <1>14, <1>15, <1>16,
     <1>17, <1>18 DEF Step

\* Initially, and after a fault, the types hold too: no require() of an operation in flight
\* can fail, whatever the requests, hydrations and restarts.
LEMMA TypedStep == Typed /\ [Next]_vars => Typed'
<1> SUFFICES ASSUME Typed, [Next]_vars PROVE Typed'
  OBVIOUS
<1>1. ASSUME NEW t \in Task, Throw(t) PROVE Typed'
  <2>1. faults' \in Nat
    BY <1>1 DEF Throw, Typed, TypeOK
  <2> QED
    BY <1>1, <2>1, EndTyped DEF Throw, Typed, TypeOK, store, draft
<1>2. ASSUME NEW h \in Host, Restart(h) PROVE Typed'
  <2>1. Len(heap) \in Nat
    BY DEF Typed, TypeOK
  <2>2. /\ heap' \in Seq(State)
        /\ Len(heap') = IF disk # None THEN Len(heap) + 1 ELSE Len(heap)
    <3>1. TypeOK /\ (disk # None => disk \in State)
      BY DEF Typed, TypeOK
    <3>2. CASE disk # None
      BY <1>2, <3>1, <3>2, HeapNew DEF Restart
    <3>3. CASE disk = None
      BY <1>2, <3>3 DEF Restart, Typed, TypeOK
    <3> QED
      BY <3>2, <3>3
  <2>3. cur' \in [Host -> 1..Len(heap') \cup {None}]
    BY <1>2, <2>1, <2>2 DEF Restart, Typed, TypeOK
  <2>4. ref' \in [Task -> 1..Len(heap') \cup {None}]
    BY <1>2, <2>1, <2>2 DEF Restart, Typed, TypeOK
  <2>5. /\ pc' \in [Task -> Pc] /\ snap' \in [Task -> State \cup {None}]
        /\ got' \in [Task -> SUBSET Fields] /\ ret' \in [Task -> Ret]
        /\ want' \in [Task -> {"draft", "partial", "confirmed"}]
    BY <1>2 DEF Restart, Typed, TypeOK, Pc, Ret
  <2>6. TypeOK'
    BY <1>2, <2>2, <2>3, <2>4, <2>5 DEF Restart, Typed, TypeOK, store, draft
  <2>7. HoldsSession'
    BY <1>2, <2>1 DEF Restart, Typed, TypeOK, HoldsSession, Cur
  <2> QED
    BY <2>6, <2>7 DEF Typed
<1>3. CASE UNCHANGED vars
  <2>1. TypeOK'
    BY <1>3 DEF vars, memory, store, draft, task, Typed, TypeOK
  <2>2. HoldsSession'
    BY <1>3 DEF vars, memory, store, draft, task, Typed, HoldsSession, Cur
  <2> QED
    BY <2>1, <2>2 DEF Typed
<1> QED
  BY <1>1, <1>2, <1>3, RequestTyped, StepTyped DEF Next

\* What is claimed about confirmations, in inductive form.
Confirmation ==
  /\ ConfirmedOnce
  /\ ConfirmedAddressRecorded
  /\ DraftConfirmedAfterEvent
  /\ ConfirmInFlight

\* Task u is no closer to a confirmation than before.
Calm(u) ==
  /\ pc'[u] = "confirmEvent" => pc[u] = "confirmEvent" /\ got'[u] = got[u]
  /\ pc'[u] = "confirmState" \/ ret'[u] = "confirmState" \/ want'[u] = "confirmed"
       => pc[u] = "confirmState" \/ ret[u] = "confirmState" \/ want[u] = "confirmed"

\* A step that appends no event, writes no confirmed draft and leaves all tasks calm keeps
\* the claim.
LEMMA CalmStep ==
  ASSUME Confirmation, events' = events, \A u \in Task : Calm(u),
         draftStatus' = "confirmed" =>
           \/ draftStatus = "confirmed"
           \/ \E u \in Task : want[u] = "confirmed"
  PROVE  Confirmation'
BY DEF Confirmation, Calm, ConfirmedOnce, ConfirmedAddressRecorded, DraftConfirmedAfterEvent,
       ConfirmInFlight, Recorded

\* An appended event is recorded, and everything recorded stays.
LEMMA Appended ==
  ASSUME NEW type \in EventType, NEW f, AppendEvent(type, f)
  PROVE  /\ Recorded(type)'
         /\ events \subseteq events'
         /\ \A any : Recorded(any) => Recorded(any)'
         /\ ConfirmedOnce => ConfirmedOnce'
         /\ \A e \in events' \ events : e.type = type /\ e.fields = f
<1> DEFINE new == [type |-> type, fields |-> f]
<1>1. CASE \E e \in events : e.type = type
  <2>1. events' = events
    BY <1>1 DEF AppendEvent
  <2> QED
    BY <1>1, <2>1 DEF Recorded, ConfirmedOnce
<1>2. CASE ~\E e \in events : e.type = type
  <2>1. events' = events \cup {new} /\ new.type = type /\ new.fields = f
    BY <1>2 DEF AppendEvent
  <2> HIDE DEF new
  <2>2. Recorded(type)' /\ \A any : Recorded(any) => Recorded(any)'
    BY <2>1 DEF Recorded
  <2>3. ConfirmedOnce => ConfirmedOnce'
    BY <1>2, <2>1 DEF ConfirmedOnce
  <2> QED
    BY <2>1, <2>2, <2>3
<1> QED
  BY <1>1, <1>2

\* Locals of the other tasks are left alone by the building blocks, and entering one of
\* them brings a task no closer to a confirmation.
LEMMA BlocksCalm ==
  ASSUME Typed, NEW t \in Task
  PROVE  /\ End(t) => \A u \in Task : Calm(u)
         /\ \A l : Goto(t, l) /\ l \notin {"confirmEvent", "confirmState"}
                     => \A u \in Task : Calm(u)
         /\ \A o, l : Hold(t, o, l) /\ l \notin {"confirmEvent", "confirmState"}
                     => \A u \in Task : Calm(u)
         /\ \A o, s, l : SetState(t, o, s, l) /\ l # "confirmState"
                     => \A u \in Task : Calm(u)
         /\ \A o, f, s, l : SaveDraft(t, o, f, s, l) /\ s # "confirmed" /\ l # "confirmState"
                     => \A u \in Task : Calm(u)
<1>1. End(t) => \A u \in Task : Calm(u)
  BY DEF End, Calm, Typed, TypeOK
<1>2. \A l : Goto(t, l) /\ l \notin {"confirmEvent", "confirmState"}
        => \A u \in Task : Calm(u)
  BY DEF Goto, Calm, Typed, TypeOK
<1>3. \A o, l : Hold(t, o, l) /\ l \notin {"confirmEvent", "confirmState"}
        => \A u \in Task : Calm(u)
  BY DEF Hold, Calm, Typed, TypeOK
<1>4. \A o, s, l : SetState(t, o, s, l) /\ l # "confirmState"
        => \A u \in Task : Calm(u)
  BY DEF SetState, Calm, Typed, TypeOK
<1>5. \A o, f, s, l : SaveDraft(t, o, f, s, l) /\ s # "confirmed" /\ l # "confirmState"
        => \A u \in Task : Calm(u)
  BY DEF SaveDraft, Calm, Typed, TypeOK
<1> QED
  BY <1>1, <1>2, <1>3, <1>4, <1>5

\* Every step keeps the claim.
LEMMA ConfirmationStep == Typed /\ Confirmation /\ [Next]_vars => Confirmation'
<1> SUFFICES ASSUME Typed, Confirmation, [Next]_vars PROVE Confirmation'
  OBVIOUS
<1>1. ASSUME NEW t \in Task, Request(t) PROVE Confirmation'
  <2>1. events' = events /\ draftStatus' = draftStatus
    BY <1>1 DEF Request, PrepareDebrief, HydrateSession, MarkCalling, AwaitConfirmation,
         MarkPartial, ConfirmDebrief, Transition, MarkFailed, EndCallAfterInterruption, SetCallId,
         RecordCallCompleted, UpdateDebriefDraft, GetDebriefForConfirmation,
         ConfirmDebriefDraft, ReadDraft, TeachFromCorrection, store, draft
  <2>2. ASSUME PrepareDebrief(t) PROVE \A u \in Task : Calm(u)
    BY <2>2 DEF PrepareDebrief, Calm, Typed, TypeOK
  <2>3. ASSUME HydrateSession(t) PROVE \A u \in Task : Calm(u)
    BY <2>3, BlocksCalm DEF HydrateSession
  <2>4. ASSUME NEW s \in State, Transition(t, s) PROVE \A u \in Task : Calm(u)
    BY <2>4, BlocksCalm DEF Transition, Move
  <2>5. ASSUME \/ MarkFailed(t) \/ SetCallId(t) \/ EndCallAfterInterruption(t)
               \/ TeachFromCorrection(t)
        PROVE  \A u \in Task : Calm(u)
    BY <2>5, BlocksCalm DEF MarkFailed, SetCallId, EndCallAfterInterruption, TeachFromCorrection
  <2>6. ASSUME RecordCallCompleted(t) PROVE \A u \in Task : Calm(u)
    BY <2>6, BlocksCalm DEF RecordCallCompleted
  <2>7. ASSUME NEW f, UpdateDebriefDraft(t, f) PROVE \A u \in Task : Calm(u)
    BY <2>7, BlocksCalm DEF UpdateDebriefDraft
  <2>8. ASSUME NEW l \in {"idle", "confirmList"}, ReadDraft(t, l)
        PROVE  \A u \in Task : Calm(u)
    <3>1. CASE End(t)
      BY <3>1, BlocksCalm
    <3>2. CASE ~End(t)
      BY <2>8, <3>2 DEF ReadDraft, Calm, Typed, TypeOK
    <3> QED
      BY <3>1, <3>2
  <2>9. \A u \in Task : Calm(u)
    BY <1>1, <2>2, <2>3, <2>4, <2>5, <2>6, <2>7, <2>8
    DEF Request, MarkCalling, AwaitConfirmation, MarkPartial, ConfirmDebrief,
        GetDebriefForConfirmation, ConfirmDebriefDraft, State
  <2> QED
    BY <2>1, <2>9, CalmStep
<1>2. ASSUME NEW t \in Task, Step(t) PROVE Confirmation'
  <2>1. CASE TransitionEvent(t)
    <3>1. /\ \A any : Recorded(any) => Recorded(any)'
          /\ ConfirmedOnce'
          /\ \A e \in events' \ events : e.fields = {}
      BY <2>1, Appended DEF TransitionEvent, EventType, Confirmation
    <3>2. \A u \in Task : Calm(u)
      BY <2>1, BlocksCalm DEF TransitionEvent
    <3>3. draftStatus' = draftStatus
      BY <2>1 DEF TransitionEvent, draft
    <3> QED
      BY <3>1, <3>2, <3>3 DEF Confirmation, Calm, ConfirmedAddressRecorded,
         DraftConfirmedAfterEvent, ConfirmInFlight
  <2>2. CASE ConfirmAddress(t)
    <3>1. /\ Recorded("address_discovered")'
          /\ \A any : Recorded(any) => Recorded(any)'
          /\ ConfirmedOnce'
      BY <2>2, Appended DEF ConfirmAddress, EventType, Confirmation
    <3>2. draftStatus' = draftStatus /\ got' = got /\ ret' = ret /\ want' = want
          /\ pc' = [pc EXCEPT ![t] = "confirmEvent"]
      BY <2>2 DEF ConfirmAddress, Goto, draft
    <3> QED
      BY <3>1, <3>2 DEF Confirmation, ConfirmedAddressRecorded, DraftConfirmedAfterEvent,
         ConfirmInFlight, Typed, TypeOK
  <2>3. CASE ConfirmEvent(t)
    <3>1. /\ Recorded("debrief_confirmed")'
          /\ \A any : Recorded(any) => Recorded(any)'
          /\ ConfirmedOnce'
          /\ \A e \in events' \ events : e.fields = got[t]
      BY <2>3, Appended DEF ConfirmEvent, EventType, Confirmation
    <3>2. ConfirmedAddressRecorded'
      <4>1. "address" \in got[t] => Recorded("address_discovered")
        BY <2>3 DEF ConfirmEvent, Confirmation, ConfirmInFlight
      <4> QED
        BY <3>1, <4>1 DEF Confirmation, ConfirmedAddressRecorded
    <3>3. ConfirmInFlight'
      BY <2>3, <3>1 DEF ConfirmEvent, SaveDraft, Confirmation, ConfirmInFlight, Typed, TypeOK
    <3> QED
      BY <3>1, <3>2, <3>3 DEF Confirmation, DraftConfirmedAfterEvent
  <2>4. CASE ConfirmList(t)
    <3>1. CASE Recorded("debrief_confirmed")
      BY <2>4, <3>1, BlocksCalm, CalmStep DEF ConfirmList, store, draft
    <3>2. CASE ~Recorded("debrief_confirmed")
      <4>1. /\ events' = events /\ draftStatus' = draftStatus
            /\ got' = got /\ ret' = ret /\ want' = want
            /\ pc' = [pc EXCEPT ![t] = IF "address" \in got[t] THEN "confirmAddress"
                                                            ELSE "confirmEvent"]
        BY <2>4, <3>2 DEF ConfirmList, Goto, store, draft
      <4> QED
        BY <4>1 DEF Confirmation, ConfirmedOnce, ConfirmedAddressRecorded,
           DraftConfirmedAfterEvent, ConfirmInFlight, Recorded, Typed, TypeOK
    <3> QED
      BY <3>1, <3>2
  <2>5. CASE DraftWrite(t)
    <3>1. \A u \in Task : Calm(u)
      <4>1. ret[t] \in Ret
        BY DEF Typed, TypeOK
      <4>2. CASE ret[t] = "idle"
        BY <2>5, <4>2, BlocksCalm DEF DraftWrite, GoOn
      <4>3. CASE ret[t] # "idle"
        BY <2>5, <4>1, <4>3 DEF DraftWrite, GoOn, Goto, Calm, Typed, TypeOK, Ret
      <4> QED
        BY <4>2, <4>3
    <3> QED
      BY <2>5, <3>1, CalmStep DEF DraftWrite
  <2>6. CASE \/ Log(t) \/ EndAnswered(t) \/ EndRead(t) \/ TeachWrite(t) \/ ConfirmState(t)
             \/ Loaded(t)
    <3>1. events' = events /\ draftStatus' = draftStatus
      BY <2>6 DEF Log, EndAnswered, EndRead, TeachWrite, ConfirmState, Loaded, store, draft
    <3>2. \A u \in Task : Calm(u)
      BY <2>6, BlocksCalm DEF Log, EndAnswered, Move, EndRead, TeachWrite, ConfirmState, Loaded
    <3> QED
      BY <3>1, <3>2, CalmStep
  <2>7. CASE Persist(t) \/ DraftMerge(t) \/ Load(t)
    <3>1. events' = events /\ draftStatus' = draftStatus
      BY <2>7 DEF Persist, DraftMerge, Load, store, draft
    <3>2. \A u \in Task : Calm(u)
      BY <2>7 DEF Persist, DraftMerge, Load, Calm, Typed, TypeOK, HoldsSession
    <3> QED
      BY <3>1, <3>2, CalmStep
  <2>8. CASE DraftRead(t)
    <3>1. events' = events /\ draftStatus' = draftStatus
      BY <2>8 DEF DraftRead, store, draft
    <3>2. CASE draftStatus = "none"
      <4>1. ret'[t] = ret[t] /\ want'[t] = "draft" /\ pc'[t] = "draftMerge"
            /\ \A u \in Task \ {t} : Calm(u)
        BY <2>8, <3>2 DEF DraftRead, SaveDraft, Calm, Typed, TypeOK
      <4> QED
        BY <3>1, <4>1, CalmStep DEF Calm
    <3>3. CASE draftStatus # "none" /\ ret[t] = "idle"
      BY <2>8, <3>1, <3>3, BlocksCalm, CalmStep DEF DraftRead
    <3>4. CASE draftStatus # "none" /\ ret[t] # "idle"
      <4>1. \A u \in Task : Calm(u)
        BY <2>8, <3>4 DEF DraftRead, Calm, Typed, TypeOK, Ret
      <4> QED
        BY <3>1, <4>1, CalmStep
    <3> QED
      BY <3>2, <3>3, <3>4
  <2> QED
    BY <1>2, <2>1, <2>2, <2>3, <2>4, <2>5, <2>6, <2>7, <2>8 DEF Step
<1>3. ASSUME NEW t \in Task, Throw(t) PROVE Confirmation'
  BY <1>3, BlocksCalm, CalmStep DEF Throw, store, draft
<1>4. ASSUME NEW h \in Host, Restart(h) PROVE Confirmation'
  <2>1. \A u \in Task : Calm(u)
    BY <1>4 DEF Restart, Calm
  <2> QED
    BY <1>4, <2>1, CalmStep DEF Restart, store, draft
<1>5. CASE UNCHANGED vars
  <2>1. \A u \in Task : Calm(u)
    BY <1>5 DEF vars, task, Calm
  <2> QED
    BY <1>5, <2>1, CalmStep DEF vars, store, draft
<1> QED
  BY <1>1, <1>2, <1>3, <1>4, <1>5 DEF Next

\* The inductive invariant of the debrief service: the types, the session every operation
\* in flight holds, and what confirmations have recorded (functions/index.ts, 238-498).
THEOREM Inductive == Spec => []IInv
<1>1. Init => Typed
  <2> SUFFICES ASSUME Init PROVE TypeOK /\ HoldsSession
    BY DEF Typed
  <2>1. heap \in Seq(State) /\ Len(heap) = 0
    BY DEF Init
  <2>2. TypeOK
    BY <2>1 DEF Init, TypeOK, Pc, Ret
  <2> QED
    BY <2>2 DEF Init, HoldsSession
<1>2. Init => Confirmation
  BY DEF Init, Confirmation, ConfirmedOnce, ConfirmedAddressRecorded, DraftConfirmedAfterEvent,
         ConfirmInFlight
<1>3. Typed /\ Confirmation => IInv
  BY DEF Typed, Confirmation, IInv
<1> QED
  BY <1>1, <1>2, <1>3, TypedStep, ConfirmationStep, PTL DEF Spec

\* However many confirm requests race on however many hosts, and wherever a database call
\* fails or a host dies, a session has at most one confirmation event and one address event.
THEOREM OneConfirmation == Spec => []ConfirmedOnce
BY Inductive, PTL DEF IInv

\* The address event is durable before a confirmation that reports the address.
THEOREM AddressBeforeConfirmation == Spec => []ConfirmedAddressRecorded
BY Inductive, PTL DEF IInv

\* Types, for every number of requests, hosts, session objects and faults.
THEOREM TypeCorrect == Spec => []TypeOK
BY Inductive, PTL DEF IInv

\* The draft row says confirmed only when the confirmation event is durable.
THEOREM ConfirmedDraftHasEvent == Spec => []DraftConfirmedAfterEvent
BY Inductive, PTL DEF IInv

\* A confirmation event is owed: an operation has set the state and not yet appended it.
EventOwed == \E t \in Task : pc[t] = "event" \/ (pc[t] = "persist" /\ ret[t] = "event")

\* No copy of the session is confirmed, nor about to be written as such.
Unconfirmed ==
  /\ disk # "confirmed"
  /\ \A o \in DOMAIN heap : heap[o] # "confirmed"
  /\ \A t \in Task : snap[t] # "confirmed"

EventInv == Recorded("debrief_confirmed") \/ faults > 0 \/ EventOwed \/ Unconfirmed

\* A task leaves the others' places alone.
LEMMA OthersStay ==
  ASSUME Typed, NEW t \in Task, Request(t) \/ Step(t), NEW u \in Task \ {t}
  PROVE  pc'[u] = pc[u] /\ ret'[u] = ret[u]
<1> USE DEF Typed, TypeOK
<1>1. CASE Request(t)
  BY <1>1 DEF Request, PrepareDebrief, HydrateSession, MarkCalling, AwaitConfirmation, MarkPartial,
    ConfirmDebrief, Transition, Move, MarkFailed, EndCallAfterInterruption, SetCallId,
    RecordCallCompleted, UpdateDebriefDraft, GetDebriefForConfirmation, ConfirmDebriefDraft,
    ReadDraft, TeachFromCorrection, End, Goto, Hold, SetState, SaveDraft
<1>2. CASE Step(t)
  BY <1>2 DEF Step, Persist, TransitionEvent, Log, EndRead, EndAnswered, Move, TeachWrite,
    DraftRead, DraftMerge, DraftWrite, ConfirmList, ConfirmAddress, ConfirmEvent, ConfirmState,
    Load, Loaded, End, Goto, GoOn, SetState, SaveDraft
<1> QED
  BY <1>1, <1>2

\* Setting another state, or leaving the copies alone, confirms none.
LEMMA StaysUnconfirmed ==
  ASSUME Typed, Unconfirmed, disk' = disk, NEW t \in Task
  PROVE  /\ \A o \in DOMAIN heap : \A s, l : SetState(t, o, s, l) /\ s # "confirmed" => Unconfirmed'
         /\ heap' = heap /\ (\A u \in Task : snap'[u] \in {snap[u], None}) => Unconfirmed'
<1> None # "confirmed"
  BY DebriefServiceAssumption DEF State
<1>1. ASSUME NEW o \in DOMAIN heap, NEW s, NEW l, SetState(t, o, s, l), s # "confirmed"
      PROVE  Unconfirmed'
  <2>1. DOMAIN heap' = DOMAIN heap /\ \A x \in DOMAIN heap : heap'[x] \in {heap[x], s}
    BY <1>1 DEF SetState
  <2>2. \A u \in Task : snap'[u] \in {snap[u], s}
    BY <1>1 DEF SetState, Typed, TypeOK
  <2> QED
    BY <1>1, <2>1, <2>2 DEF Unconfirmed
<1>2. heap' = heap /\ (\A u \in Task : snap'[u] \in {snap[u], None}) => Unconfirmed'
  BY DEF Unconfirmed
<1> QED
  BY <1>1, <1>2

\* transition() to confirmed owes the event.
LEMMA MoveOwes ==
  ASSUME Typed, Unconfirmed, disk' = disk, NEW t \in Task, Cur(t) \in DOMAIN heap, NEW to,
         Move(t, to)
  PROVE  EventOwed' \/ Unconfirmed'
<1>1. CASE End(t) /\ UNCHANGED memory
  BY <1>1, StaysUnconfirmed DEF End, memory, Typed, TypeOK
<1>2. CASE SetState(t, Cur(t), "confirmed", "event")
  BY <1>2 DEF SetState, EventOwed, Typed, TypeOK
<1>3. CASE to # "confirmed" /\ SetState(t, Cur(t), to, "log")
  BY <1>3, StaysUnconfirmed
<1> QED
  BY <1>1, <1>2, <1>3 DEF Move

\* An operation's first step confirms a copy only with the event owed.
LEMMA EventRequest ==
  ASSUME Typed, NEW t \in Task, Request(t), Unconfirmed
  PROVE  EventOwed' \/ Unconfirmed'
<1>0. disk' = disk
  BY DEF Request, PrepareDebrief, HydrateSession, MarkCalling, AwaitConfirmation,
    MarkPartial, ConfirmDebrief, Transition, MarkFailed, EndCallAfterInterruption, SetCallId,
    RecordCallCompleted, UpdateDebriefDraft, GetDebriefForConfirmation,
    ConfirmDebriefDraft, ReadDraft, TeachFromCorrection, store
<1>1. Ready(t) => Cur(t) \in DOMAIN heap
  BY DEF Ready, Cur, Typed, TypeOK
<1>2. ASSUME NEW to, Transition(t, to) PROVE EventOwed' \/ Unconfirmed'
  BY <1>0, <1>1, <1>2, MoveOwes DEF Transition
<1>3. CASE MarkFailed(t) \/ SetCallId(t)
  BY <1>0, <1>1, <1>3, StaysUnconfirmed DEF MarkFailed, SetCallId, Unconfirmed
<1>4. CASE PrepareDebrief(t)
  BY <1>0, <1>4 DEF PrepareDebrief, Unconfirmed, Typed, TypeOK
<1>5. CASE HydrateSession(t) \/ EndCallAfterInterruption(t) \/ TeachFromCorrection(t)
  <2>1. heap' = heap /\ \A u \in Task : snap'[u] \in {snap[u], None}
    BY <1>5 DEF HydrateSession, EndCallAfterInterruption, TeachFromCorrection, Goto, Hold, End,
      memory, Typed, TypeOK
  <2> QED
    BY <1>0, <2>1, StaysUnconfirmed
<1>6. CASE \/ RecordCallCompleted(t) \/ GetDebriefForConfirmation(t) \/ ConfirmDebriefDraft(t)
           \/ \E f : UpdateDebriefDraft(t, f)
  <2>1. heap' = heap /\ \A u \in Task : snap'[u] \in {snap[u], None}
    BY <1>6 DEF RecordCallCompleted, GetDebriefForConfirmation, ConfirmDebriefDraft, ReadDraft,
      UpdateDebriefDraft, SaveDraft, End, memory, Typed, TypeOK
  <2> QED
    BY <1>0, <2>1, StaysUnconfirmed
<1> QED
  BY <1>2, <1>3, <1>4, <1>5, <1>6 DEF Request, MarkCalling, AwaitConfirmation, MarkPartial,
    ConfirmDebrief

LEMMA EventStep == IInv /\ EventInv /\ [Next]_vars => EventInv'
<1> SUFFICES ASSUME IInv, EventInv, [Next]_vars PROVE EventInv'
  OBVIOUS
<1>0. Typed /\ faults \in Nat
  BY DEF IInv, Typed, TypeOK
<1>1. CASE UNCHANGED vars
  BY <1>1 DEF vars, memory, store, task, EventInv, Recorded, EventOwed, Unconfirmed
<1>2. CASE (\E t \in Task : Throw(t)) \/ (\E h \in Host : Restart(h))
  BY <1>0, <1>2 DEF Throw, Restart, EventInv
<1>3. ASSUME NEW t \in Task, Request(t) PROVE EventInv'
  <2>1. events' = events /\ faults' = faults
    BY <1>3 DEF Request, PrepareDebrief, HydrateSession, MarkCalling, AwaitConfirmation,
         MarkPartial, ConfirmDebrief, Transition, MarkFailed, EndCallAfterInterruption, SetCallId,
         RecordCallCompleted, UpdateDebriefDraft, GetDebriefForConfirmation,
         ConfirmDebriefDraft, ReadDraft, TeachFromCorrection, store
  <2>2. pc[t] = "idle"
    BY <1>3 DEF Request, PrepareDebrief, HydrateSession, MarkCalling, AwaitConfirmation,
         MarkPartial, ConfirmDebrief, Transition, MarkFailed, EndCallAfterInterruption, SetCallId,
         RecordCallCompleted, UpdateDebriefDraft, GetDebriefForConfirmation,
         ConfirmDebriefDraft, ReadDraft, TeachFromCorrection, Ready
  <2>3. EventOwed => EventOwed'
    BY <1>0, <1>3, <2>2, OthersStay DEF EventOwed
  <2> QED
    BY <1>0, <1>3, <2>1, <2>3, EventRequest DEF EventInv, Recorded
<1>4. ASSUME NEW t \in Task, Step(t) PROVE EventInv'
  <2>1. faults' = faults
    BY <1>4 DEF Step, Persist, TransitionEvent, Log, EndRead, EndAnswered, TeachWrite, DraftRead,
      DraftMerge, DraftWrite, ConfirmList, ConfirmAddress, ConfirmEvent, ConfirmState, Load, Loaded
  <2>2. Recorded("debrief_confirmed") => Recorded("debrief_confirmed")'
    <3>1. CASE TransitionEvent(t) \/ ConfirmAddress(t) \/ ConfirmEvent(t)
      BY <3>1, Appended DEF TransitionEvent, ConfirmAddress, ConfirmEvent, EventType
    <3>2. CASE events' = events
      BY <3>2 DEF Recorded
    <3> QED
      BY <1>4, <3>1, <3>2 DEF Step, Persist, Log, EndRead, EndAnswered, TeachWrite, DraftRead,
        DraftMerge, DraftWrite, ConfirmList, ConfirmState, Load, Loaded, store
  <2>3. EventOwed => EventOwed' \/ Recorded("debrief_confirmed")'
    <3> SUFFICES ASSUME NEW u \in Task,
                        pc[u] = "event" \/ (pc[u] = "persist" /\ ret[u] = "event")
                 PROVE  EventOwed' \/ Recorded("debrief_confirmed")'
      BY DEF EventOwed
    <3>1. CASE u # t
      BY <1>0, <1>4, <3>1, OthersStay DEF EventOwed
    <3>2. CASE u = t
      <4>1. Persist(t) \/ TransitionEvent(t)
        BY <1>4, <3>2 DEF Step, Log, EndRead, EndAnswered, TeachWrite, DraftRead, DraftMerge,
          DraftWrite, ConfirmList, ConfirmAddress, ConfirmEvent, ConfirmState, Load, Loaded
      <4>2. CASE TransitionEvent(t)
        BY <4>2, Appended DEF TransitionEvent, EventType
      <4>3. CASE Persist(t)
        <5>1. ret[t] = "event" /\ pc' = [pc EXCEPT ![t] = ret[t]] /\ DOMAIN pc = Task
          BY <1>0, <3>2, <4>3 DEF Persist, Typed, TypeOK
        <5> QED
          BY <5>1 DEF EventOwed
      <4> QED
        BY <4>1, <4>2, <4>3
    <3> QED
      BY <3>1, <3>2
  <2>4. ASSUME Unconfirmed, ~Recorded("debrief_confirmed") PROVE EventOwed' \/ Unconfirmed'
    <3>1. CASE EndAnswered(t)
      <4>1. Cur(t) \in DOMAIN heap /\ disk' = disk
        BY <3>1 DEF EndAnswered, IInv, HoldsSession, TypeOK, Cur, store
      <4> QED
        BY <1>0, <2>4, <3>1, <4>1, MoveOwes, StaysUnconfirmed DEF EndAnswered
    <3>2. CASE TeachWrite(t)
      <4>1. ref[t] \in DOMAIN heap /\ disk' = disk
        BY <3>2 DEF TeachWrite, IInv, HoldsSession, TypeOK, store
      <4> QED
        BY <1>0, <2>4, <3>2, <4>1, StaysUnconfirmed DEF TeachWrite
    <3>3. ~ConfirmState(t)
      BY <2>4 DEF ConfirmState, IInv, ConfirmInFlight
    <3>4. CASE Loaded(t)
      <4>1. disk' = disk /\ \A u \in Task : snap'[u] \in {snap[u], None}
        BY <1>0, <3>4 DEF Loaded, End, store, Typed, TypeOK
      <4>2. CASE snap[t] = None
        BY <1>0, <2>4, <3>4, <4>1, <4>2, StaysUnconfirmed DEF Loaded, memory
      <4>3. CASE snap[t] # None
        <5>1. snap[t] \in State /\ heap \in Seq(State) /\ heap' = Append(heap, snap[t])
          BY <1>0, <3>4, <4>3 DEF Loaded, Typed, TypeOK
        <5>2. DOMAIN heap' = 1..(Len(heap) + 1) /\ DOMAIN heap = 1..Len(heap)
          BY <5>1
        <5>3. \A o \in 1..(Len(heap) + 1) :
                heap'[o] = IF o = Len(heap) + 1 THEN snap[t] ELSE heap[o]
          BY <5>1
        <5>4. \A o \in DOMAIN heap' : heap'[o] = snap[t] \/ (o \in DOMAIN heap /\ heap'[o] = heap[o])
          BY <5>1, <5>2, <5>3
        <5> None # "confirmed"
          BY DebriefServiceAssumption DEF State
        <5> QED
          BY <2>4, <4>1, <5>4 DEF Unconfirmed
      <4> QED
        BY <4>2, <4>3
    <3>5. CASE Persist(t) \/ Load(t)
      <4> None # "confirmed"
        BY DebriefServiceAssumption DEF State
      <4> QED
        BY <1>0, <2>4, <3>5 DEF Persist, Load, memory, store, Unconfirmed, Typed, TypeOK
    <3>6. CASE \/ TransitionEvent(t) \/ Log(t) \/ EndRead(t) \/ DraftRead(t) \/ DraftMerge(t)
               \/ DraftWrite(t) \/ ConfirmList(t) \/ ConfirmAddress(t) \/ ConfirmEvent(t)
      <4>1. disk' = disk /\ heap' = heap
        BY <3>6 DEF TransitionEvent, Log, EndRead, DraftRead, DraftMerge, DraftWrite,
          ConfirmList, ConfirmAddress, ConfirmEvent, memory, store
      <4>2. \A u \in Task : snap'[u] \in {snap[u], None}
        BY <1>0, <3>6 DEF TransitionEvent, Log, EndRead, DraftRead, DraftMerge, DraftWrite,
          ConfirmList, ConfirmAddress, ConfirmEvent, Goto, GoOn, End, SaveDraft, Typed, TypeOK
      <4> QED
        BY <1>0, <2>4, <4>1, <4>2, StaysUnconfirmed
    <3> QED
      BY <1>4, <3>1, <3>2, <3>3, <3>4, <3>5, <3>6 DEF Step
  <2> QED
    BY <2>1, <2>2, <2>3, <2>4 DEF EventInv
<1> QED
  BY <1>1, <1>2, <1>3, <1>4 DEF Next

\* A confirmed session has its confirmation event, recorded or on its way, unless something
\* failed in between (transition(), which persists the state first, and confirmDebriefDraft(),
\* which appends the event first), for any number of requests on any number of hosts.
THEOREM ConfirmedSessionHasEvent == Spec => []ConfirmedHasEvent
<1>1. Init => EventInv
  BY DEF Init, EventInv, Unconfirmed, DebriefServiceAssumption, State
<1>2. EventInv => ConfirmedHasEvent
  BY DEF EventInv, EventOwed, Unconfirmed, ConfirmedHasEvent
<1> QED
  BY <1>1, <1>2, EventStep, Inductive, PTL DEF Spec
-----------------------------------------------------------------------------
(* The phone call of a session. *)

\* All tasks of the call are served by one process, the one that placed it.
OneHost == \A t, u \in Task : HostOf[t] = HostOf[u]

\* Inside endCallAfterInterruption().
AtEnd == {"endRead", "endFail", "endAwait"}

\* Start k, its call or its status callback is still going to end the session's call.
Owes(k) ==
  \/ stage[k] \in {"loading", "mark", "place", "reply", "onFailure", "notify"}
  \/ k \in noted /\ (line[k] \in {"dialling", "talking"} \/ fate[k] \in {"completed", "failed"})
  \/ fate[k] = "grace"
  \/ pc[<<k, "status">>] \in AtEnd

\* A call is placed once and its final status follows its end; while its reply is outstanding
\* it goes on, or its final status is still to come.
Awaited ==
  \A k \in Start :
    /\ stage[k] \in {"waiting", "loading", "mark", "place"} => line[k] = "none"
    /\ line[k] # "over" => fate[k] = "none"
    /\ stage[k] = "reply" =>
         line[k] \in {"dialling", "talking"} \/ fate[k] \in {"completed", "failed"}

\* Only a start that is loading replaces the session object.
Loading ==
  \A t \in Task : pc[t] \in {"load", "loaded"} =>
    \E k \in Start : t = <<k, "start">> /\ stage[k] = "loading"

\* The prepared session is in the map.
Known == heap # <<>> => \A t \in Task : Cur(t) # None

\* What makes RestIsNotCalling inductive: while the session is calling, someone owes its end.
Owed ==
  /\ CallTypeOK
  /\ Awaited
  /\ Loading
  /\ Known
  /\ Calling => \E k \in Start : Owes(k)

\* Before start k has dialled, it is the only one at work; what makes DialsOnceDurable
\* inductive for a single start.
Undialled ==
  \A k \in Start : LET t == <<k, "start">> IN
    stage[k] \in {"waiting", "loading", "mark", "place"} =>
      /\ line[k] = "none" /\ media[k] = "none" /\ fate[k] = "none"
      /\ \A u \in Task \ {t} : pc[u] = "idle"
      /\ IF stage[k] = "place"
         THEN \/ pc[t] = "persist" /\ snap[t] = "calling" /\ ret[t] = "log"
              \/ pc[t] \in {"log", "idle"} /\ disk = "calling"
         ELSE /\ pc[t] \in {"idle", "persist", "log", "load", "loaded"}
              /\ snap[t] \in {None, "prepared"} /\ disk \in {None, "prepared"}
              /\ ret[t] \in {"idle", "log"}
              /\ \A o \in DOMAIN heap : heap[o] = "prepared"

\* Every actor of a call is a client of the service: a step is a request, a step of one, or
\* does not touch the service.
LEMMA ActorStep ==
  ASSUME CallNext
  PROVE  (\E t \in Task : Request(t) \/ Step(t)) \/ UNCHANGED vars
<1> USE DebriefCallAssumption DEF Role
<1>1. ASSUME NEW k \in Start,
             Prepare(k) \/ Placing(k) \/ Talking(k) \/ Ending(k) \/ Reporting(k)
      PROVE  (\E t \in Task : Request(t)) \/ UNCHANGED vars
  <2>1. <<k, "start">> \in Task /\ <<k, "status">> \in Task /\ <<k, "bridge">> \in Task
    OBVIOUS
  <2> QED
    BY <1>1, <2>1
    DEF Prepare, Placing, Talking, Ending, Reporting, Begin, Hydrated, BeforeStart, CreateCall,
        ProviderReplies, Started, OnFailure, FailJob, OnProviderFailure, Answer, NoAnswer, HangUp,
        OnStop, OnCallCompleted, OnError, OnProviderStatus, GraceOver, Request
<1>2. ASSUME NEW k \in Start, AgentSaves(k) PROVE \E t \in Task : Request(t)
  <2>1. PICK f \in Facts : UpdateDebriefDraft(<<k, "tool">>, {f})
    BY <1>2 DEF AgentSaves
  <2>2. f \in Field \cup {"address"} /\ <<k, "tool">> \in Task
    OBVIOUS
  <2> QED
    BY <2>1, <2>2 DEF Request
<1> QED
  BY <1>1, <1>2 DEF CallNext, Working

\* A phone call asks nothing of the service that its clients may not: whatever is proved of
\* the service holds during calls too.
THEOREM CallsUseTheService == CallSpec => Spec
<1>1. CallInit => Init
  BY DEF CallInit
<1>2. [CallNext]_allVars => [Next]_vars
  BY ActorStep DEF Next, allVars
<1> QED
  BY <1>1, <1>2, PTL DEF CallSpec, Spec

\* With one host there is one current session.
LEMMA OneSession ==
  ASSUME OneHost, NEW t \in Task, Start # {}
  PROVE  /\ Session = heap[Cur(t)]
         /\ Session' = heap'[Cur(t)']
<1>1. <<CHOOSE k \in Start : TRUE, "start">> \in Task
  BY DebriefCallAssumption DEF Role
<1>2. HostOf[<<CHOOSE k \in Start : TRUE, "start">>] = HostOf[t]
  BY <1>1 DEF OneHost
<1> QED
  BY <1>2 DEF Session, Cur

\* The map points at an object of the heap.
LEMMA Current ==
  ASSUME Typed, Known, heap # <<>>, NEW t \in Task
  PROVE  Cur(t) \in 1..Len(heap)
BY DEF Typed, TypeOK, Known, Cur

\* Assigning a state other than calling starts no call, and ends the one it is assigned to.
LEMMA SetStateCalls ==
  ASSUME Typed, Known, OneHost, Start # {}, NEW t \in Task, NEW o \in 1..Len(heap), NEW s, NEW l,
         SetState(t, o, s, l)
  PROVE  /\ Known'
         /\ s # "calling" => (Calling' => Calling)
         /\ o = Cur(t) => (Calling' <=> s = "calling")
<1>1. heap \in Seq(State) /\ Len(heap) > 0 /\ heap # <<>>
  BY DEF Typed, TypeOK
<1>2. cur' = cur /\ heap' = [heap EXCEPT ![o] = s] /\ heap' # <<>>
  BY <1>1 DEF SetState
<1>3. Cur(t) \in 1..Len(heap) /\ Cur(t)' = Cur(t)
  BY <1>1, <1>2, Current DEF Cur
<1>4. Known'
  BY <1>1, <1>2 DEF Known, Cur
<1>5. Calling <=> heap[Cur(t)] = "calling"
  BY <1>1, OneSession DEF Calling
<1>6. Calling' <=> heap'[Cur(t)] = "calling"
  BY <1>2, <1>3, OneSession DEF Calling
<1>7. heap'[Cur(t)] = IF o = Cur(t) THEN s ELSE heap[Cur(t)]
  BY <1>1, <1>2, <1>3
<1> QED
  BY <1>4, <1>5, <1>6, <1>7

\* What leaves the session objects alone leaves the call as it is.
LEMMA SameMemory ==
  ASSUME Known, UNCHANGED memory
  PROVE  Known' /\ (Calling' <=> Calling)
BY DEF Known, Calling, Session, Cur, memory

\* transition() to any state but calling starts no call.
LEMMA MoveCalls ==
  ASSUME Typed, Known, OneHost, Start # {}, NEW t \in Task, heap # <<>>, NEW to, Move(t, to)
  PROVE  /\ Known'
         /\ to # "calling" => (Calling' => Calling)
         /\ to = "awaiting_confirmation" => ~Calling'
<1>1. Cur(t) \in 1..Len(heap)
  BY Current
<1>2. Calling <=> heap[Cur(t)] = "calling"
  BY OneSession DEF Calling
<1>3. CASE heap[Cur(t)] # to /\ Allowed(heap[Cur(t)], to)
  BY <1>1, <1>3, SetStateCalls DEF Move
<1>4. CASE ~(heap[Cur(t)] # to /\ Allowed(heap[Cur(t)], to))
  BY <1>2, <1>4, SameMemory DEF Move, Allowed
<1> QED
  BY <1>3, <1>4

\* A task's step reaches calling only by loading it, and leaves endCallAfterInterruption()
\* only with the call ended.
LEMMA StepCalls ==
  ASSUME Typed, Known, OneHost, Start # {}, NEW t \in Task, Step(t)
  PROVE  /\ Known'
         /\ Calling' => Calling \/ pc[t] = "loaded"
         /\ ~Calling' \/ \A u \in Task : pc[u] \in AtEnd => pc'[u] \in AtEnd
         /\ \A u \in Task : pc'[u] \in {"load", "loaded"} => pc[u] \in {"load", "loaded"}
<1>0. pc \in [Task -> Pc] /\ ret[t] \in Ret /\ (pc[t] = "persist" => ret[t] \in {"idle", "log", "event"})
  BY DEF Typed, TypeOK, HoldsSession
<1>1. CASE EndAnswered(t)
  <2>1. heap # <<>> /\ Cur(t) \in 1..Len(heap)
    BY <1>1 DEF EndAnswered, Typed, TypeOK, HoldsSession, Cur
  <2>2. Known' /\ ~Calling'
    <3>1. CASE SetState(t, Cur(t), "failed", "log")
      BY <2>1, <3>1, SetStateCalls
    <3>2. CASE Move(t, "awaiting_confirmation")
      BY <2>1, <3>2, MoveCalls
    <3> QED
      BY <1>1, <3>1, <3>2 DEF EndAnswered
  <2>3. \A u \in Task : pc'[u] \in {"load", "loaded"} => pc[u] \in {"load", "loaded"}
    BY <1>0, <1>1 DEF EndAnswered, Move, SetState, End
  <2> QED
    BY <2>2, <2>3
<1>2. CASE TeachWrite(t)
  <2>1. ref[t] \in 1..Len(heap)
    BY <1>2 DEF TeachWrite, Typed, TypeOK, HoldsSession
  <2>2. Known' /\ (Calling' => Calling)
    BY <1>2, <2>1, SetStateCalls DEF TeachWrite
  <2> QED
    BY <1>0, <1>2, <2>2 DEF TeachWrite, SetState, AtEnd
<1>3. CASE ConfirmState(t)
  <2>1. ref[t] \in 1..Len(heap)
    BY <1>3 DEF ConfirmState, Typed, TypeOK, HoldsSession
  <2>2. Known' /\ (Calling' => Calling)
    BY <1>3, <2>1, SetStateCalls, SameMemory DEF ConfirmState
  <2> QED
    BY <1>0, <1>3, <2>2 DEF ConfirmState, SetState, End, AtEnd
<1>4. CASE Loaded(t)
  <2>1. Known'
    <3>1. CASE snap[t] # None
      <4>1. \A u \in Task : Cur(u)' = Len(heap) + 1
        BY <1>4, <3>1 DEF Loaded, OneHost, Cur, Typed, TypeOK
      <4> QED
        BY <4>1 DEF Known, Typed, TypeOK
    <3>2. CASE snap[t] = None
      BY <1>4, <3>2, SameMemory DEF Loaded
    <3> QED
      BY <3>1, <3>2
  <2> QED
    BY <1>0, <1>4, <2>1 DEF Loaded, End, AtEnd
<1>5. CASE \/ Persist(t) \/ TransitionEvent(t) \/ Log(t) \/ EndRead(t) \/ DraftRead(t)
           \/ DraftMerge(t) \/ DraftWrite(t) \/ ConfirmList(t) \/ ConfirmAddress(t)
           \/ ConfirmEvent(t) \/ Load(t)
  <2> USE DEF Persist, TransitionEvent, Log, EndRead, DraftRead, DraftMerge, DraftWrite,
              ConfirmList, ConfirmAddress, ConfirmEvent, Load
  <2>1. UNCHANGED memory
    BY <1>5
  <2>2. Known' /\ (Calling' <=> Calling)
    BY <2>1, SameMemory
  <2>3. \A u \in Task : pc[u] \in AtEnd => pc'[u] \in AtEnd
    BY <1>0, <1>5 DEF AtEnd, Goto, GoOn, End, SaveDraft
  <2>4. \A u \in Task : pc'[u] \in {"load", "loaded"} => pc[u] \in {"load", "loaded"}
    BY <1>0, <1>5 DEF Ret, Goto, GoOn, End, SaveDraft
  <2> QED
    BY <2>2, <2>3, <2>4
<1> QED
  BY <1>1, <1>2, <1>3, <1>4, <1>5 DEF Step

\* A request finds or prepares a session, leaves no endCallAfterInterruption(), and only
\* hydrateSession() goes to load.
LEMMA RequestCalls ==
  ASSUME Typed, Known, OneHost, Start # {}, NEW t \in Task, Request(t)
  PROVE  /\ Known'
         /\ \A u \in Task : pc[u] \in AtEnd => pc'[u] \in AtEnd
         /\ \A u \in Task : pc'[u] \in {"load", "loaded"} =>
              pc[u] \in {"load", "loaded"} \/ (u = t /\ HydrateSession(t))
<1>0. pc \in [Task -> Pc] /\ heap \in Seq(State)
  BY DEF Typed, TypeOK
<1>1. CASE PrepareDebrief(t)
  <2>1. Known'
    BY <1>1 DEF PrepareDebrief, OneHost, Known, Cur, Typed, TypeOK
  <2> QED
    BY <1>0, <1>1, <2>1 DEF PrepareDebrief, AtEnd
<1>2. CASE HydrateSession(t)
  BY <1>0, <1>2, SameMemory DEF HydrateSession, Goto, AtEnd
<1>3. CASE ~PrepareDebrief(t) /\ ~HydrateSession(t)
  <2>1. Ready(t)
    BY <1>3 DEF Request, MarkCalling, AwaitConfirmation, MarkPartial, ConfirmDebrief, Transition,
      MarkFailed, EndCallAfterInterruption, SetCallId, RecordCallCompleted, UpdateDebriefDraft,
      GetDebriefForConfirmation, ConfirmDebriefDraft, TeachFromCorrection, ReadDraft
  <2>2. heap # <<>> /\ Cur(t) \in 1..Len(heap) /\ pc[t] = "idle"
    BY <1>0, <2>1 DEF Ready, Cur, Typed, TypeOK
  <2>3. ASSUME NEW to, Transition(t, to)
        PROVE  Known' /\ pc' = [pc EXCEPT ![t] = pc'[t]] /\ pc'[t] \in {"persist", "idle"}
    <3>1. Known'
      BY <2>2, <2>3, MoveCalls DEF Transition
    <3> QED
      BY <1>0, <2>3, <3>1 DEF Transition, Move, SetState, End
  <2>4. CASE MarkFailed(t) \/ SetCallId(t)
    <3>1. Known'
      BY <2>2, <2>4, SetStateCalls DEF MarkFailed, SetCallId
    <3> QED
      BY <1>0, <2>2, <2>4, <3>1 DEF MarkFailed, SetCallId, SetState, AtEnd
  <2>5. CASE \/ EndCallAfterInterruption(t) \/ RecordCallCompleted(t)
             \/ GetDebriefForConfirmation(t) \/ ConfirmDebriefDraft(t) \/ TeachFromCorrection(t)
             \/ \E f \in Field \cup {"address"} : UpdateDebriefDraft(t, {f})
    <3> USE DEF EndCallAfterInterruption, RecordCallCompleted, GetDebriefForConfirmation,
                ConfirmDebriefDraft, TeachFromCorrection, UpdateDebriefDraft, ReadDraft
    <3>1. Known'
      BY <2>5, SameMemory
    <3>2. \A u \in Task \ {t} : pc'[u] = pc[u]
      BY <1>0, <2>5 DEF Hold, End, SaveDraft
    <3>3. pc'[t] \notin {"load", "loaded"}
      BY <1>0, <2>5 DEF Hold, End, SaveDraft
    <3> QED
      BY <2>2, <3>1, <3>2, <3>3 DEF AtEnd
  <2>6. ASSUME NEW to, Transition(t, to)
        PROVE  /\ Known'
               /\ \A u \in Task : pc[u] \in AtEnd => pc'[u] \in AtEnd
               /\ \A u \in Task : pc'[u] \in {"load", "loaded"} => pc[u] \in {"load", "loaded"}
    BY <1>0, <2>2, <2>3, <2>6 DEF AtEnd
  <2> QED
    BY <1>3, <2>4, <2>5, <2>6 DEF Request, MarkCalling, AwaitConfirmation, MarkPartial,
      ConfirmDebrief
<1> QED
  BY <1>1, <1>2, <1>3

\* markFailed() ends the call at once.
LEMMA FailedEnds ==
  ASSUME Typed, Known, OneHost, Start # {}, NEW t \in Task, MarkFailed(t)
  PROVE  ~Calling'
<1>1. Cur(t) \in 1..Len(heap)
  BY DEF MarkFailed, Ready, Cur, Typed, TypeOK
<1> QED
  BY <1>1, SetStateCalls DEF MarkFailed

\* endCallAfterInterruption() finds the call ended, or is going to end it.
LEMMA EndBegins ==
  ASSUME Typed, Known, OneHost, Start # {}, NEW t \in Task, EndCallAfterInterruption(t)
  PROVE  Calling' => pc'[t] \in AtEnd
<1>1. Calling' <=> Calling
  BY SameMemory DEF EndCallAfterInterruption
<1>2. Calling => heap[Cur(t)] = "calling"
  BY OneSession DEF Calling
<1> QED
  BY <1>1, <1>2 DEF EndCallAfterInterruption, Hold, AtEnd, Typed, TypeOK

\* A step of start k, its call or its callback, which leaves the others as they are.
Others(k) ==
  \A j \in Start \ {k} :
    /\ stage'[j] = stage[j] /\ line'[j] = line[j] /\ fate'[j] = fate[j]
    /\ j \in noted' <=> j \in noted

\* Such a step keeps the obligation if k takes on what it starts and drops nothing.
LEMMA OwedKept ==
  ASSUME Owed, CallTypeOK', Awaited', Loading', Known', NEW k \in Start, Others(k),
         \A u \in Task : pc[u] \in AtEnd => pc'[u] \in AtEnd,
         Calling' => Calling \/ Owes(k)',
         Owes(k) /\ Calling' => Owes(k)'
  PROVE  Owed'
<1>1. ASSUME NEW j \in Start \ {k}, Owes(j) PROVE Owes(j)'
  <2>1. <<j, "status">> \in Task
    BY DebriefCallAssumption DEF Role
  <2> QED
    BY <1>1, <2>1 DEF Owes, Others
<1>2. ASSUME Calling' PROVE \E j \in Start : Owes(j)'
  <2>1. CASE Owes(k)'
    BY <2>1
  <2>2. CASE Calling
    <3>1. PICK j \in Start : Owes(j)
      BY <2>2 DEF Owed
    <3> QED
      BY <1>1, <1>2, <3>1
  <2> QED
    BY <1>2, <2>1, <2>2
<1> QED
  BY <1>2 DEF Owed

\* No step leaves the session calling with nobody to end it (Overtakes = FALSE: the final
\* status is handled after the provider's reply).
LEMMA OwedStep ==
  ASSUME OneHost, Start # {}, ~Overtakes, Typed, Owed, [CallNext]_allVars
  PROVE  Owed'
<1> USE DEF CallTypeOK, Stage
<1>0. CallTypeOK /\ Awaited /\ Loading /\ Known /\ pc \in [Task -> Pc]
  BY DEF Owed, Typed, TypeOK
<1>1. ASSUME NEW k \in Start
      PROVE  /\ <<k, "start">> \in Task /\ <<k, "status">> \in Task
             /\ <<k, "bridge">> \in Task /\ <<k, "tool">> \in Task
  BY DebriefCallAssumption DEF Role
<1>2. CASE UNCHANGED allVars
  <2>1. UNCHANGED vars /\ UNCHANGED call
    BY <1>2 DEF allVars
  <2> QED
    BY <1>0, <2>1 DEF vars, memory, task, call, Owed, Awaited, Loading, Known, Calling, Session,
      Cur, Owes
<1>3. ASSUME NEW t \in Task, Working(t) PROVE Owed'
  <2>1. CallTypeOK' /\ Awaited' /\ UNCHANGED call
    BY <1>0, <1>3 DEF Working, call, Awaited
  <2>2. /\ Known'
        /\ Calling' => Calling \/ pc[t] = "loaded"
        /\ ~Calling' \/ \A u \in Task : pc[u] \in AtEnd => pc'[u] \in AtEnd
        /\ \A u \in Task : pc'[u] \in {"load", "loaded"} => pc[u] \in {"load", "loaded"}
    BY <1>0, <1>3, StepCalls DEF Working
  <2>3. Loading'
    BY <1>0, <2>1, <2>2 DEF Loading, call
  <2>4. ASSUME Calling' PROVE \E k \in Start : Owes(k)'
    <3>1. CASE pc[t] = "loaded"
      <4>1. PICK k \in Start : stage[k] = "loading"
        BY <1>0, <3>1 DEF Loading
      <4> QED
        BY <2>1, <4>1 DEF Owes, call
    <3>2. CASE Calling
      <4>1. PICK k \in Start : Owes(k)
        BY <3>2 DEF Owed
      <4>2. <<k, "status">> \in Task
        BY <1>1
      <4>3. Owes(k)'
        BY <2>1, <2>2, <2>4, <4>1, <4>2 DEF Owes, call
      <4> QED
        BY <4>3
    <3> QED
      BY <2>2, <2>4, <3>1, <3>2
  <2> QED
    BY <2>1, <2>2, <2>3, <2>4 DEF Owed
<1>4. ASSUME NEW k \in Start, UNCHANGED vars, Others(k), CallTypeOK', Awaited',
             stage[k] = "loading" => stage'[k] = "loading" \/ pc[<<k, "start">>] = "idle",
             Owes(k) => Owes(k)'
      PROVE  Owed'
  <2>1. Known' /\ (Calling' <=> Calling) /\ pc' = pc
    BY <1>0, <1>4, SameMemory DEF vars, task
  <2>2. Loading'
    BY <1>0, <1>4, <2>1 DEF Loading, Others
  <2> QED
    BY <1>0, <1>4, <2>1, <2>2, OwedKept
<1>5. ASSUME NEW k \in Start, NEW t \in Task, Request(t),
             pc'[t] = "load" => t = <<k, "start">> /\ stage'[k] = "loading",
             Others(k), CallTypeOK', Awaited',
             stage[k] = "loading" => stage'[k] = "loading" \/ pc[<<k, "start">>] = "idle",
             Calling' => Calling \/ Owes(k)',
             (pc[<<k, "status">>] \in AtEnd => pc'[<<k, "status">>] \in AtEnd) =>
               (Owes(k) /\ Calling' => Owes(k)')
      PROVE  Owed'
  <2>1. /\ Known'
        /\ \A u \in Task : pc[u] \in AtEnd => pc'[u] \in AtEnd
        /\ \A u \in Task : pc'[u] \in {"load", "loaded"} =>
             pc[u] \in {"load", "loaded"} \/ (u = t /\ HydrateSession(t))
    BY <1>0, <1>5, RequestCalls
  <2>2. HydrateSession(t) => pc'[t] = "load"
    BY <1>0 DEF HydrateSession, Goto
  <2>3. Loading'
    BY <1>0, <1>5, <2>1, <2>2 DEF Loading, Others
  <2>4. <<k, "status">> \in Task
    BY <1>1
  <2>5. Owes(k) /\ Calling' => Owes(k)'
    BY <1>5, <2>1, <2>4
  <2> QED
    BY <1>0, <1>5, <2>1, <2>3, <2>5, OwedKept
<1>6. ASSUME NEW k \in Start, Prepare(k) PROVE Owed'
  <2> DEFINE t == <<k, "start">>
  <2>1. t \in Task /\ PrepareDebrief(t) /\ UNCHANGED call
    BY <1>1, <1>6 DEF Prepare
  <2>2. ~Calling'
    <3>1. heap' = <<"prepared">> /\ Cur(t)' = 1
      BY <2>1 DEF PrepareDebrief, Cur, Typed, TypeOK
    <3> QED
      BY <2>1, <3>1, OneSession DEF Calling
  <2>3. Request(t) /\ pc'[t] # "load"
    BY <1>0, <2>1 DEF Request, PrepareDebrief
  <2>4. Others(k) /\ CallTypeOK' /\ Awaited' /\ stage' = stage
    BY <1>0, <2>1 DEF call, Others, Awaited
  <2> QED
    BY <1>5, <2>1, <2>2, <2>3, <2>4
<1>7. ASSUME NEW k \in Start, Begin(k) PROVE Owed'
  <2> DEFINE t == <<k, "start">>
  <2>1. /\ Others(k) /\ CallTypeOK' /\ Awaited' /\ stage'[k] \in {"loading", "mark"}
        /\ stage[k] # "loading"
    BY <1>0, <1>7 DEF Begin, GoTo, Others, Awaited
  <2>2. Owes(k)'
    BY <2>1 DEF Owes
  <2>3. CASE HydrateSession(t) /\ GoTo(k, "loading")
    <3>1. t \in Task /\ Request(t) /\ stage'[k] = "loading"
      BY <1>0, <1>1, <2>3 DEF Request, GoTo
    <3> QED
      BY <1>5, <2>1, <2>2, <3>1
  <2>4. CASE UNCHANGED vars
    BY <1>4, <2>1, <2>2, <2>4
  <2> QED
    BY <1>7, <2>3, <2>4 DEF Begin
<1>8. ASSUME NEW k \in Start, Hydrated(k) \/ CreateCall(k) \/ Started(k) \/ FailJob(k)
      PROVE  Owed'
  <2>1. Others(k) /\ CallTypeOK' /\ UNCHANGED vars /\ noted' = noted /\ fate' = fate
    BY <1>0, <1>8 DEF Hydrated, CreateCall, Started, FailJob, GoTo, Others
  <2>2. Awaited'
    BY <1>0, <1>8 DEF Hydrated, CreateCall, Started, FailJob, GoTo, Awaited
  <2>3. stage[k] = "loading" => pc[<<k, "start">>] = "idle"
    BY <1>8 DEF Hydrated, CreateCall, Started, FailJob, Free
  <2>4. Owes(k) => Owes(k)'
    BY <1>0, <1>8, <2>1 DEF Hydrated, CreateCall, Started, FailJob, GoTo, Owes, vars, task
  <2> QED
    BY <1>4, <2>1, <2>2, <2>3, <2>4
<1>9. ASSUME NEW k \in Start, BeforeStart(k) PROVE Owed'
  <2> DEFINE t == <<k, "start">>
  <2>1. t \in Task /\ Request(t) /\ pc'[t] # "load"
    BY <1>0, <1>1, <1>9 DEF BeforeStart, Request, MarkCalling, Transition, Move, SetState, End
  <2>2. /\ Others(k) /\ CallTypeOK' /\ Awaited' /\ stage[k] = "mark"
        /\ stage'[k] \in {"place", "onFailure"}
    BY <1>0, <1>9 DEF BeforeStart, GoTo, Others, Awaited
  <2>3. Owes(k)'
    BY <2>2 DEF Owes
  <2> QED
    BY <1>5, <2>1, <2>2, <2>3
<1>10. ASSUME NEW k \in Start, ProviderReplies(k) PROVE Owed'
  <2> DEFINE t == <<k, "start">>
  <2>1. Others(k) /\ CallTypeOK' /\ Awaited' /\ stage[k] = "reply"
    BY <1>0, <1>10 DEF ProviderReplies, GoTo, Others, Awaited
  <2>2. Owes(k)'
    BY <1>0, <1>10 DEF ProviderReplies, GoTo, Owes, Awaited
  <2>3. CASE SetCallId(t)
    <3>1. t \in Task /\ Request(t) /\ pc'[t] # "load"
      BY <1>0, <1>1, <2>3 DEF Request, SetCallId, SetState
    <3> QED
      BY <1>5, <2>1, <2>2, <3>1
  <2>4. CASE UNCHANGED vars
    BY <1>4, <2>1, <2>2, <2>4
  <2> QED
    BY <1>10, <2>3, <2>4 DEF ProviderReplies
<1>11. ASSUME NEW k \in Start, OnFailure(k) \/ OnProviderFailure(k) PROVE Owed'
  <2> DEFINE t == <<k, "start">>
  <2>1. t \in Task /\ MarkFailed(t)
    BY <1>1, <1>11 DEF OnFailure, OnProviderFailure
  <2>2. Request(t) /\ pc'[t] # "load"
    BY <1>0, <2>1 DEF Request, MarkFailed, SetState
  <2>3. ~Calling'
    BY <1>0, <2>1, FailedEnds
  <2>4. Others(k) /\ CallTypeOK' /\ Awaited' /\ stage[k] # "loading"
    BY <1>0, <1>11 DEF OnFailure, OnProviderFailure, GoTo, Others, Awaited
  <2> QED
    BY <1>5, <2>1, <2>2, <2>3, <2>4
<1>12. ASSUME NEW k \in Start, Talking(k) PROVE Owed'
  <2>1. Others(k) /\ CallTypeOK' /\ UNCHANGED vars /\ stage' = stage /\ noted' = noted
    BY <1>0, <1>12 DEF Talking, Answer, NoAnswer, HangUp, Others
  <2>2. Awaited'
    BY <1>0, <1>12 DEF Talking, Answer, NoAnswer, HangUp, Awaited
  <2>3. Owes(k) => Owes(k)'
    BY <1>0, <1>12, <2>1 DEF Talking, Answer, NoAnswer, HangUp, Awaited, Owes, vars, task
  <2> QED
    BY <1>4, <2>1, <2>2, <2>3
<1>13. ASSUME NEW k \in Start, AgentSaves(k) PROVE Owed'
  <2> DEFINE t == <<k, "tool">>
  <2>1. PICK f \in Facts : UpdateDebriefDraft(t, {f})
    BY <1>13 DEF AgentSaves
  <2>2. t \in Task /\ Request(t)
    BY <1>1, <2>1, DebriefCallAssumption DEF Request
  <2>3. pc'[t] # "load" /\ (Calling' <=> Calling)
    BY <1>0, <2>1, <2>2, SameMemory DEF UpdateDebriefDraft, SaveDraft, End
  <2>4. Others(k) /\ CallTypeOK' /\ Awaited' /\ UNCHANGED call
    BY <1>0, <1>13 DEF AgentSaves, call, Others, Awaited
  <2>5. (pc[<<k, "status">>] \in AtEnd => pc'[<<k, "status">>] \in AtEnd) => (Owes(k) => Owes(k)')
    BY <2>4 DEF Owes, call
  <2> QED
    BY <1>5, <2>2, <2>3, <2>4, <2>5 DEF call
<1>14. ASSUME NEW k \in Start, Ending(k) PROVE Owed'
  <2> DEFINE t == <<k, "bridge">>
  <2>1. t \in Task /\ (AwaitConfirmation(t) \/ RecordCallCompleted(t) \/ EndCallAfterInterruption(t))
    BY <1>1, <1>14 DEF Ending, OnStop, OnCallCompleted, OnError
  <2>2. Request(t)
    BY <2>1 DEF Request
  <2>3. Calling' => Calling
    <3>1. CASE AwaitConfirmation(t)
      <4>1. heap # <<>>
        BY <2>1, <3>1 DEF AwaitConfirmation, Transition, Ready, Typed, TypeOK
      <4>2. Move(t, "awaiting_confirmation")
        BY <3>1 DEF AwaitConfirmation, Transition
      <4> QED
        BY <1>0, <2>1, <4>1, <4>2, MoveCalls
    <3>2. CASE RecordCallCompleted(t) \/ EndCallAfterInterruption(t)
      BY <1>0, <3>2, SameMemory DEF RecordCallCompleted, EndCallAfterInterruption
    <3> QED
      BY <2>1, <3>1, <3>2
  <2>4. pc'[t] # "load"
    BY <1>0, <2>1 DEF AwaitConfirmation, Transition, Move, SetState, RecordCallCompleted, SaveDraft,
      EndCallAfterInterruption, Hold, End
  <2>5. /\ Others(k) /\ CallTypeOK' /\ Awaited'
        /\ stage' = stage /\ line' = line /\ fate' = fate /\ noted' = noted
    BY <1>0, <1>14 DEF Ending, OnStop, OnCallCompleted, OnError, Bridge, Others, Awaited
  <2>6. (pc[<<k, "status">>] \in AtEnd => pc'[<<k, "status">>] \in AtEnd) => (Owes(k) => Owes(k)')
    BY <2>5 DEF Owes
  <2> QED
    BY <1>5, <2>1, <2>2, <2>3, <2>4, <2>5, <2>6
<1>15. ASSUME NEW k \in Start, Reporting(k) PROVE Owed'
  <2> DEFINE t == <<k, "status">>
  <2>1. Others(k) /\ CallTypeOK' /\ stage' = stage /\ line' = line
    BY <1>0, <1>15 DEF Reporting, OnProviderStatus, GraceOver, Status, Others
  <2>2. Awaited'
    BY <1>0, <1>15, <2>1 DEF Reporting, OnProviderStatus, GraceOver, Status, Awaited
  <2>3. CASE EndCallAfterInterruption(t)
    <3>1. t \in Task /\ Request(t)
      BY <1>1, <2>3 DEF Request
    <3>2. Calling' => pc'[t] \in AtEnd
      BY <1>0, <2>3, <3>1, EndBegins
    <3>3. pc'[t] # "load"
      BY <1>0, <2>3, <3>1 DEF EndCallAfterInterruption, Hold, End
    <3>4. Calling' => Owes(k)'
      BY <3>2 DEF Owes
    <3> QED
      BY <1>5, <2>1, <2>2, <3>1, <3>3, <3>4
  <2>4. CASE ~EndCallAfterInterruption(t)
    <3>1. /\ UNCHANGED vars /\ noted' = noted \ {k}
          /\ (k \notin noted /\ fate[k] # "grace") \/ fate'[k] = "grace"
      BY <1>0, <1>15, <2>4 DEF Reporting, OnProviderStatus, GraceOver, Status
    <3>2. Owes(k) => Owes(k)'
      BY <2>1, <3>1 DEF Owes, vars, task
    <3> QED
      BY <1>4, <2>1, <2>2, <3>1, <3>2
  <2> QED
    BY <2>3, <2>4
<1> QED
  BY <1>2, <1>3, <1>6, <1>7, <1>8, <1>9, <1>10, <1>11, <1>12, <1>13, <1>14, <1>15
  DEF CallNext, Placing

\* The promise of channel.ts that a session "can never stay in calling": for any number of
\* scheduled and manual starts whose replies are lost or late, media that opens, breaks or
\* not, and leases that end, when all is over the session is not calling.  It rests on the
\* status callback coming after the provider's reply, and on one host.
THEOREM NotLeftCalling ==
  ASSUME OneHost, Start # {}, ~Overtakes
  PROVE  CallSpec => []RestIsNotCalling
<1>1. CallInit => Owed
  BY DEF CallInit, Init, Owed, CallTypeOK, Stage, Awaited, Loading, Known, Calling
<1>2. Typed /\ Owed /\ [CallNext]_allVars => Owed'
  BY OwedStep
<1>3. Owed => RestIsNotCalling
  <2> SUFFICES ASSUME Owed, AtRest, Calling PROVE FALSE
    BY DEF RestIsNotCalling
  <2>1. PICK k \in Start : Owes(k)
    BY DEF Owed
  <2>2. <<k, "status">> \in Task
    BY DebriefCallAssumption DEF Role
  <2> QED
    BY <2>1, <2>2 DEF AtRest, Owes, AtEnd
<1>4. IInv => Typed
  BY DEF IInv, Typed
<1> QED
  BY <1>1, <1>2, <1>3, <1>4, CallsUseTheService, Inductive, PTL DEF CallSpec

\* Types of the call's own variables.
LEMMA CallTyped ==
  ASSUME CallTypeOK, [CallNext]_allVars
  PROVE  CallTypeOK'
<1> USE DEF CallTypeOK, Stage
<1>1. ASSUME NEW k \in Start, Prepare(k) \/ AgentSaves(k) PROVE CallTypeOK'
  BY <1>1 DEF Prepare, AgentSaves, call
<1>2. ASSUME NEW k \in Start, Placing(k) PROVE CallTypeOK'
  BY <1>2 DEF Placing, Begin, Hydrated, BeforeStart, CreateCall, ProviderReplies, Started,
    OnFailure, FailJob, OnProviderFailure, GoTo
<1>3. ASSUME NEW k \in Start, Talking(k) \/ Ending(k) \/ Reporting(k) PROVE CallTypeOK'
  BY <1>3 DEF Talking, Answer, NoAnswer, HangUp, Ending, OnStop, OnCallCompleted, OnError, Bridge,
    Reporting, OnProviderStatus, GraceOver, Status
<1>4. ASSUME NEW t \in Task, Working(t) PROVE CallTypeOK'
  BY <1>4 DEF Working, call
<1>5. CASE UNCHANGED allVars
  BY <1>5 DEF allVars, call
<1> QED
  BY <1>1, <1>2, <1>3, <1>4, <1>5 DEF CallNext

\* Until it has dialled, a single start works alone, and marks the session before it dials.
LEMMA UndialledStep ==
  ASSUME \A j, k \in Start : j = k, Typed, CallTypeOK, Undialled, [CallNext]_allVars
  PROVE  Undialled'
<1> DEFINE Early == {"waiting", "loading", "mark", "place"}
<1> SUFFICES ASSUME NEW k \in Start, stage'[k] \in Early
             PROVE  LET t == <<k, "start">> IN
               /\ line'[k] = "none" /\ media'[k] = "none" /\ fate'[k] = "none"
               /\ \A u \in Task \ {t} : pc'[u] = "idle"
               /\ IF stage'[k] = "place"
                  THEN \/ pc'[t] = "persist" /\ snap'[t] = "calling" /\ ret'[t] = "log"
                       \/ pc'[t] \in {"log", "idle"} /\ disk' = "calling"
                  ELSE /\ pc'[t] \in {"idle", "persist", "log", "load", "loaded"}
                       /\ snap'[t] \in {None, "prepared"} /\ disk' \in {None, "prepared"}
                       /\ ret'[t] \in {"idle", "log"}
                       /\ \A o \in DOMAIN heap' : heap'[o] = "prepared"
  BY DEF Undialled
<1> DEFINE t == <<k, "start">>
           Marked == IF stage'[k] = "place"
                     THEN \/ pc'[t] = "persist" /\ snap'[t] = "calling" /\ ret'[t] = "log"
                          \/ pc'[t] \in {"log", "idle"} /\ disk' = "calling"
                     ELSE /\ pc'[t] \in {"idle", "persist", "log", "load", "loaded"}
                          /\ snap'[t] \in {None, "prepared"} /\ disk' \in {None, "prepared"}
                          /\ ret'[t] \in {"idle", "log"}
                          /\ \A o \in DOMAIN heap' : heap'[o] = "prepared"
           Alone == \A u \in Task \ {t} : pc'[u] = "idle"
           Silent == line'[k] = "none" /\ media'[k] = "none" /\ fate'[k] = "none"
<1> SUFFICES Silent /\ Alone /\ Marked
  OBVIOUS
<1> USE DEF CallTypeOK, Stage
<1>0. /\ t \in Task /\ pc \in [Task -> Pc] /\ snap \in [Task -> State \cup {None}]
      /\ ret \in [Task -> Ret] /\ heap \in Seq(State) /\ None \notin State
  BY DebriefCallAssumption DEF Typed, TypeOK, Role
<1>1. stage[k] \in Early =>
        /\ line[k] = "none" /\ media[k] = "none" /\ fate[k] = "none"
        /\ \A u \in Task \ {t} : pc[u] = "idle"
        /\ IF stage[k] = "place"
           THEN \/ pc[t] = "persist" /\ snap[t] = "calling" /\ ret[t] = "log"
                \/ pc[t] \in {"log", "idle"} /\ disk = "calling"
           ELSE /\ pc[t] \in {"idle", "persist", "log", "load", "loaded"}
                /\ snap[t] \in {None, "prepared"} /\ disk \in {None, "prepared"}
                /\ ret[t] \in {"idle", "log"}
                /\ \A o \in DOMAIN heap : heap[o] = "prepared"
  BY DEF Undialled
<1> HIDE DEF t
<1>2. CASE UNCHANGED vars /\ UNCHANGED call
  BY <1>1, <1>2 DEF vars, memory, store, task, call
<1>3. CASE Prepare(k)
  <2>1. PrepareDebrief(t) /\ UNCHANGED call /\ stage[k] \in Early /\ stage[k] # "place"
    BY <1>0, <1>1, <1>3 DEF Prepare, PrepareDebrief, call, t, State
  <2>2. Silent /\ Alone
    BY <1>0, <1>1, <2>1 DEF PrepareDebrief, call
  <2>3. Marked
    BY <1>0, <1>1, <2>1 DEF PrepareDebrief, call, store
  <2> QED
    BY <2>2, <2>3
<1>4. CASE Begin(k) \/ Hydrated(k)
  <2>1. stage[k] \in {"waiting", "loading"} /\ pc[t] = "idle"
    BY <1>4 DEF Begin, Hydrated, Free, t
  <2>2. Silent /\ Alone /\ stage'[k] \in {"loading", "mark"}
    BY <1>0, <1>1, <1>4, <2>1 DEF Begin, Hydrated, GoTo, HydrateSession, Goto, vars, task, t
  <2>3. Marked
    BY <1>0, <1>1, <1>4, <2>1, <2>2
    DEF Begin, Hydrated, GoTo, HydrateSession, Goto, vars, memory, store, task, t
  <2> QED
    BY <2>2, <2>3
<1>5. CASE BeforeStart(k)
  <2>1. stage[k] = "mark" /\ stage'[k] = "place" /\ MarkCalling(t)
    BY <1>5 DEF BeforeStart, GoTo, t
  <2>2. Cur(t) \in DOMAIN heap
    BY <1>0, <2>1 DEF MarkCalling, Transition, Ready, Cur, Typed, TypeOK
  <2>3. SetState(t, Cur(t), "calling", "log")
    BY <1>1, <2>1, <2>2 DEF MarkCalling, Transition, Move, Allowed
  <2>4. Silent /\ Alone
    BY <1>0, <1>1, <1>5, <2>1, <2>3 DEF BeforeStart, GoTo, SetState
  <2> QED
    BY <1>0, <2>1, <2>3, <2>4 DEF SetState
<1>6. ASSUME Placing(k), ~Begin(k), ~Hydrated(k), ~BeforeStart(k) PROVE FALSE
  BY <1>6 DEF Placing, CreateCall, ProviderReplies, Started, OnFailure, FailJob,
    OnProviderFailure, GoTo
<1>7. ASSUME Talking(k) \/ Ending(k) \/ Reporting(k) \/ AgentSaves(k) PROVE FALSE
  <2>1. stage[k] \in Early
    BY <1>7 DEF Talking, Answer, NoAnswer, HangUp, Ending, OnStop, OnCallCompleted, OnError, Bridge,
      Reporting, OnProviderStatus, GraceOver, Status, AgentSaves, call
  <2> QED
    BY <1>1, <1>7, <2>1 DEF Talking, Answer, NoAnswer, HangUp, Ending, OnStop, OnCallCompleted,
      OnError, Reporting, OnProviderStatus, GraceOver, AgentSaves
<1>8. ASSUME NEW u \in Task, Working(u) PROVE Silent /\ Alone /\ Marked
  <2>1. stage'[k] = stage[k] /\ UNCHANGED call
    BY <1>8 DEF Working, call
  <2>2. pc[u] # "idle"
    BY <1>8 DEF Working, Step, Persist, TransitionEvent, Log, EndRead, EndAnswered, TeachWrite,
      DraftRead, DraftMerge, DraftWrite, ConfirmList, ConfirmAddress, ConfirmEvent, ConfirmState,
      Load, Loaded
  <2>3. u = t /\ pc[t] \in {"persist", "log", "load", "loaded"}
    BY <1>1, <2>1, <2>2
  <2>4. Persist(t) \/ Log(t) \/ Load(t) \/ Loaded(t)
    BY <1>8, <2>3 DEF Working, Step, TransitionEvent, EndRead, EndAnswered, TeachWrite,
      DraftRead, DraftMerge, DraftWrite, ConfirmList, ConfirmAddress, ConfirmEvent, ConfirmState
  <2>5. Silent /\ Alone
    BY <1>0, <1>1, <2>1, <2>4 DEF Persist, Log, Load, Loaded, End, call
  <2>6. CASE Persist(t) \/ Log(t) \/ Load(t)
    BY <1>0, <1>1, <2>1, <2>5, <2>6 DEF Persist, Log, Load, End, memory, store
  <2>7. CASE Loaded(t)
    <3>1. pc[t] = "loaded" /\ stage'[k] # "place" /\ disk' = disk
      BY <1>1, <2>1, <2>7 DEF Loaded, store
    <3>2. pc'[t] = "idle" /\ snap'[t] = None /\ ret'[t] = "idle"
      BY <1>0, <2>7 DEF Loaded, End
    <3>3. \A o \in DOMAIN heap' : heap'[o] = "prepared"
      <4>1. \A o \in DOMAIN heap : heap[o] = "prepared"
        BY <1>1, <2>1, <3>1
      <4>2. CASE snap[t] = None
        BY <2>7, <4>1, <4>2 DEF Loaded, memory
      <4>3. CASE snap[t] = "prepared"
        <5>1. heap' = Append(heap, "prepared") /\ "prepared" \in State
          BY <1>0, <2>7, <4>3 DEF Loaded, State
        <5>2. DOMAIN heap' = 1..(Len(heap) + 1) /\ DOMAIN heap = 1..Len(heap)
          BY <1>0, <5>1
        <5>3. \A o \in 1..(Len(heap) + 1) :
                heap'[o] = IF o = Len(heap) + 1 THEN "prepared" ELSE heap[o]
          BY <1>0, <5>1
        <5> QED
          BY <1>0, <4>1, <5>2, <5>3
      <4> QED
        BY <1>1, <2>1, <3>1, <4>2, <4>3
    <3> QED
      BY <1>1, <2>1, <2>5, <3>1, <3>2, <3>3
  <2> QED
    BY <2>4, <2>6, <2>7
<1> QED
  BY <1>2, <1>3, <1>4, <1>5, <1>6, <1>7, <1>8 DEF CallNext, allVars

\* With one start, the phone rings only when the calling state is durable, so that a restarted
\* host knows of the call (beforeStart awaits markCalling() before createCall()).
THEOREM DialsDurably ==
  ASSUME \A j, k \in Start : j = k
  PROVE  CallSpec => DialsOnceDurable
<1> DEFINE Durable == \A k \in Start : line'[k] # line[k] /\ line'[k] = "dialling" => disk = "calling"
<1>1. CallInit => CallTypeOK /\ Undialled
  <2> SUFFICES ASSUME CallInit PROVE CallTypeOK /\ Undialled
    OBVIOUS
  <2>1. CallTypeOK
    BY DEF CallInit, CallTypeOK, Stage
  <2>2. \A k \in Start : <<k, "start">> \in Task
    BY DebriefCallAssumption DEF Role
  <2>3. DOMAIN heap = {}
    BY DEF CallInit, Init
  <2>4. Undialled
    BY <2>2, <2>3 DEF CallInit, Init, Undialled
  <2> QED
    BY <2>1, <2>4
<1>2. Typed /\ CallTypeOK /\ Undialled /\ [CallNext]_allVars => (CallTypeOK /\ Undialled)'
  BY CallTyped, UndialledStep
<1>3. CallTypeOK /\ Undialled /\ [CallNext]_allVars => [Durable]_allVars
  <2> SUFFICES ASSUME CallTypeOK, Undialled, CallNext, NEW k \in Start, line'[k] # line[k],
                      line'[k] = "dialling"
               PROVE  disk = "calling"
    OBVIOUS
  <2>1. ASSUME NEW j \in Start, Prepare(j) \/ AgentSaves(j) \/ Ending(j) \/ Reporting(j)
        PROVE  line' = line
    BY <2>1 DEF Prepare, AgentSaves, Ending, OnStop, OnCallCompleted, OnError, Bridge, Reporting,
      OnProviderStatus, GraceOver, Status, call
  <2>2. ASSUME NEW j \in Start, Talking(j) PROVE line'[k] # "dialling" \/ line'[k] = line[k]
    BY <2>2 DEF Talking, Answer, NoAnswer, HangUp, CallTypeOK
  <2>3. ASSUME NEW j \in Start, Placing(j), ~CreateCall(j) PROVE line' = line
    BY <2>3 DEF Placing, Begin, Hydrated, BeforeStart, ProviderReplies, Started, OnFailure,
      FailJob, OnProviderFailure, GoTo
  <2>4. ASSUME NEW u \in Task, Working(u) PROVE line' = line
    BY <2>4 DEF Working, call
  <2>5. CreateCall(k)
    BY <2>1, <2>2, <2>3, <2>4 DEF CallNext
  <2> QED
    BY <2>5 DEF CreateCall, Free, Undialled
<1>4. IInv => Typed
  BY DEF IInv, Typed
<1> QED
  BY <1>1, <1>2, <1>3, <1>4, CallsUseTheService, Inductive, PTL DEF CallSpec, DialsOnceDurable
-----------------------------------------------------------------------------
(* The sync to the CRM that a confirmation calls for. *)

\* A run past the call has logged it, and only what a run may have stored is about to be
\* stored; with these SyncedIsWritten is inductive.
TaskAfterCall == \A s \in Sync : syncPc[s] = "task" => calls > 0 /\ result[s] = "none"

Undecided ==
  \A s \in Sync : syncPc[s] \in {"idle", "get", "draft", "find", "log"} => result[s] = "none"

PutsResult == \A s \in Sync : syncPc[s] = "put" => result[s] \in {"synced", "failed"}

\* A run that never looked at a draft wants nothing.
WantsRead == \A s \in Sync : syncPc[s] \in {"idle", "get", "draft"} => ~wants[s]

WInv ==
  SyncTypeOK /\ PutsResult /\ SyncedIsWritten /\ TaskAfterCall /\ Undecided /\ WantsRead

LEMMA WInvInit == SyncInit => WInv
<1> SUFFICES ASSUME SyncInit PROVE WInv
  OBVIOUS
<1>1. SyncTypeOK
  <2>1. customer \in BOOLEAN /\ wants \in [Sync -> BOOLEAN]
    BY DEF SyncInit
  <2> QED
    BY <2>1 DEF SyncInit, SyncTypeOK, SyncStatus
<1>2. PutsResult /\ SyncedIsWritten /\ TaskAfterCall /\ Undecided /\ WantsRead
  BY DEF SyncInit, PutsResult, SyncedIsWritten, TaskAfterCall, Undecided, WantsRead
<1> QED
  BY <1>1, <1>2 DEF WInv

\* Every step keeps the types.
LEMMA SyncTyped == WInv /\ [SyncNext]_syncVars => SyncTypeOK'
<1> SUFFICES ASSUME WInv, [SyncNext]_syncVars PROVE SyncTypeOK'
  OBVIOUS
<1> USE DEF WInv, SyncTypeOK, PutsResult, SyncStatus, Fault, inCrm, inRun, syncHist
<1>1. CASE Confirm \/ FailSession
  BY <1>1 DEF Confirm, FailSession
<1>2. ASSUME NEW s \in Sync, BeginSync(s) \/ GetMarker(s) \/ FindAccount(s) PROVE SyncTypeOK'
  BY <1>2 DEF BeginSync, GetMarker, FindAccount, SyncGoto, Decide
<1>3. ASSUME NEW s \in Sync, GetDraft(s) PROVE SyncTypeOK'
  <2>1. wants' \in [Sync -> BOOLEAN]
    BY <1>3 DEF GetDraft
  <2> QED
    BY <1>3, <2>1 DEF GetDraft, SyncGoto, Decide
<1>4. ASSUME NEW s \in Sync, LogCall(s) \/ CreateTask(s) \/ Refused(s) PROVE SyncTypeOK'
  BY <1>4 DEF LogCall, CreateTask, Refused, Logged, RequestFails, SyncGoto, Decide
<1>5. ASSUME NEW s \in Sync, PutMarker(s) \/ Abandon(s) PROVE SyncTypeOK'
  BY <1>5 DEF PutMarker, Abandon, SyncGoto, Decide
<1>6. CASE UNCHANGED syncVars
  BY <1>6 DEF syncVars
<1> QED
  BY <1>1, <1>2, <1>3, <1>4, <1>5, <1>6 DEF SyncNext

\* Every step keeps the inductive invariant, action by action.
LEMMA WInvStep == WInv /\ [SyncNext]_syncVars => WInv'
<1> DEFINE Rest == PutsResult /\ SyncedIsWritten /\ TaskAfterCall /\ Undecided /\ WantsRead
<1> SUFFICES ASSUME WInv, [SyncNext]_syncVars PROVE Rest'
  BY SyncTyped DEF WInv
<1> USE DEF WInv, SyncTypeOK, PutsResult, SyncedIsWritten, TaskAfterCall, Undecided, WantsRead,
            SyncStatus, inCrm, inRun, syncHist
<1>1. CASE Confirm \/ FailSession
  BY <1>1 DEF Confirm, FailSession
<1>2. ASSUME NEW s \in Sync, BeginSync(s) PROVE Rest'
  BY <1>2 DEF BeginSync, SyncGoto
<1>3. ASSUME NEW s \in Sync, GetMarker(s) PROVE Rest'
  BY <1>3 DEF GetMarker, SyncGoto, Decide
<1>4. ASSUME NEW s \in Sync, GetDraft(s) PROVE Rest'
  BY <1>4 DEF GetDraft, SyncGoto, Decide
<1>5. ASSUME NEW s \in Sync, FindAccount(s) PROVE Rest'
  BY <1>5 DEF FindAccount, SyncGoto, Decide
<1>6. ASSUME NEW s \in Sync, LogCall(s) PROVE Rest'
  BY <1>6 DEF LogCall, Logged, RequestFails, SyncGoto, Decide
<1>7. ASSUME NEW s \in Sync, CreateTask(s) PROVE Rest'
  BY <1>7 DEF CreateTask, RequestFails, SyncGoto, Decide
<1>8. ASSUME NEW s \in Sync, Refused(s) PROVE Rest'
  BY <1>8 DEF Refused, RequestFails, SyncGoto, Decide
<1>9. ASSUME NEW s \in Sync, PutMarker(s) PROVE Rest'
  BY <1>9 DEF PutMarker, SyncGoto
<1>10. ASSUME NEW s \in Sync, Abandon(s) PROVE Rest'
  BY <1>10 DEF Abandon, InFlight, SyncGoto, Decide
<1>11. CASE UNCHANGED syncVars
  BY <1>11 DEF syncVars
<1> QED
  BY <1>1, <1>2, <1>3, <1>4, <1>5, <1>6, <1>7, <1>8, <1>9, <1>10, <1>11 DEF SyncNext

\* Types: in particular a stored object is a success or a failure, never a skipped run.
THEOREM SyncTypeCorrect == SyncSpec => []SyncTypeOK
<1>1. WInv => SyncTypeOK
  BY DEF WInv
<1> QED
  BY <1>1, WInvInit, WInvStep, PTL DEF SyncSpec

\* Whatever is reported as synced is in the CRM in full (crm.ts, the try block and the
\* object stored after it), for any number of racing runs, failures and crashes.
THEOREM SyncedIsInCrm == SyncSpec => []SyncedIsWritten
<1>1. WInv => SyncedIsWritten
  BY DEF WInv
<1> QED
  BY <1>1, WInvInit, WInvStep, PTL DEF SyncSpec
-----------------------------------------------------------------------------
(* What overlapping runs cost. *)

\* The runs that stand at one of the awaits in L.
At(L) == {s \in Sync : syncPc[s] \in L}

MayLog == {"get", "draft", "find", "log"}
MayTask == MayLog \cup {"task"}
Flight == MayTask \cup {"put"}

\* The object says synced and every run still under way will find that out: for good.
Settled == marker = "synced" /\ \A s \in Sync : syncPc[s] \in {"idle", "get", "done"}

\* The stretch of overlapping runs is over, or will leave a failure behind.
Wasted == At(Flight) = {} \/ \E s \in Sync : syncPc[s] = "put" /\ result[s] = "failed"

\* n records written, and the runs at L may each write one more: until all is settled, the
\* runs that began first in a stretch without a success have been paid for.
Paid(n, L) ==
  IF Settled THEN n <= 1 + syncFaults + overlaps
  ELSE /\ n + Cardinality(At(L)) <= 1 + syncFaults + overlaps
       /\ Wasted => n + Cardinality(At(L)) <= syncFaults + overlaps

\* The same for lost successes, of which any run under way may cause one; but not one that
\* stored a success itself.
Kept ==
  IF Settled THEN losses <= overlaps
  ELSE /\ losses + Cardinality(At(Flight)) <= 1 + overlaps
       /\ At(Flight) = {} \/ marker = "synced" => losses + Cardinality(At(Flight)) <= overlaps

DInv == WInv /\ Paid(calls, MayLog) /\ Paid(tasks, MayTask) /\ Kept

LEMMA AtCounted ==
  \A L : /\ IsFiniteSet(At(L)) /\ Cardinality(At(L)) \in Nat
         /\ IsFiniteSet(At(L)') /\ Cardinality(At(L)') \in Nat
<1> SUFFICES ASSUME NEW A, A \subseteq Sync
             PROVE  IsFiniteSet(A) /\ Cardinality(A) \in Nat
  BY DEF At
<1>1. IsFiniteSet(A)
  BY FS_Subset, CrmSyncAssumption
<1> QED
  BY <1>1, FS_CardinalityType

\* Run s moves on to l: the runs at L are as many as before, or one more, or one less.
LEMMA AtMoves ==
  ASSUME SyncTypeOK, NEW s \in Sync, NEW l, SyncGoto(s, l), NEW L
  PROVE  /\ Cardinality(At(L)') = Cardinality(At(L))
              + (IF l \in L /\ syncPc[s] \notin L THEN 1
                 ELSE IF l \notin L /\ syncPc[s] \in L THEN 0 - 1 ELSE 0)
         /\ (At(L)' = {}) <=> (l \notin L /\ At(L) \subseteq {s})
<1>1. IsFiniteSet(At(L)) /\ Cardinality(At(L)) \in Nat
  BY AtCounted
<1>2. syncPc' = [syncPc EXCEPT ![s] = l] /\ DOMAIN syncPc = Sync
  BY DEF SyncGoto, SyncTypeOK
<1>3. At(L)' = IF l \in L THEN At(L) \cup {s} ELSE At(L) \ {s}
  BY <1>2 DEF At
<1>4. s \in At(L) <=> syncPc[s] \in L
  BY DEF At
<1>5. /\ Cardinality(At(L) \cup {s})
           = IF s \in At(L) THEN Cardinality(At(L)) ELSE Cardinality(At(L)) + 1
      /\ Cardinality(At(L) \ {s})
           = IF s \in At(L) THEN Cardinality(At(L)) - 1 ELSE Cardinality(At(L))
  BY <1>1, FS_AddElement, FS_RemoveElement
<1>6. (At(L)' = {}) <=> (l \notin L /\ At(L) \subseteq {s})
  BY <1>3
<1> QED
  BY <1>1, <1>3, <1>4, <1>5, <1>6

\* Every step keeps what was paid for, action by action.
LEMMA DInvStep == DInv /\ [SyncNext]_syncVars => DInv'
<1> SUFFICES ASSUME DInv, [SyncNext]_syncVars
             PROVE  Paid(calls, MayLog)' /\ Paid(tasks, MayTask)' /\ Kept'
  BY WInvStep DEF DInv
<1> DEFINE Goal == Paid(calls, MayLog)' /\ Paid(tasks, MayTask)' /\ Kept'
<1> USE DEF Fault, inCrm, inRun, syncHist
<1>1. /\ SyncTypeOK /\ PutsResult
      /\ Cardinality(At(MayLog)) \in Nat
      /\ Cardinality(At(MayTask)) \in Nat
      /\ Cardinality(At(Flight)) \in Nat
  BY AtCounted DEF DInv, WInv
<1>2. CASE Confirm \/ FailSession \/ UNCHANGED syncVars
  BY <1>2 DEF Confirm, FailSession, syncVars, DInv, Paid, Kept, Settled, Wasted, At
<1>3. ASSUME NEW s \in Sync, NEW l, SyncGoto(s, l), syncPc[s] # "done"
      PROVE  /\ Cardinality(At(MayLog)') = Cardinality(At(MayLog))
                  + (IF l \in MayLog /\ syncPc[s] \notin MayLog THEN 1
                     ELSE IF l \notin MayLog /\ syncPc[s] \in MayLog THEN 0 - 1 ELSE 0)
             /\ Cardinality(At(MayTask)') = Cardinality(At(MayTask))
                  + (IF l \in MayTask /\ syncPc[s] \notin MayTask THEN 1
                     ELSE IF l \notin MayTask /\ syncPc[s] \in MayTask THEN 0 - 1 ELSE 0)
             /\ Cardinality(At(Flight)') = Cardinality(At(Flight))
                  + (IF l \in Flight /\ syncPc[s] \notin Flight THEN 1
                     ELSE IF l \notin Flight /\ syncPc[s] \in Flight THEN 0 - 1 ELSE 0)
             /\ (At(Flight)' = {}) <=> (l \notin Flight /\ At(Flight) \subseteq {s})
             /\ At(Flight) \subseteq {s} =>
                  \A r \in Sync \ {s} : syncPc[r] \in {"idle", "done"}
             /\ Cardinality(At(MayLog)') \in Nat
             /\ Cardinality(At(MayTask)') \in Nat
             /\ Cardinality(At(Flight)') \in Nat
             /\ syncPc' = [syncPc EXCEPT ![s] = l]
             /\ (At(Flight) = {}) <=> \A r \in Sync : syncPc[r] \in {"idle", "done"}
  <2>1. At(Flight) \subseteq {s} => \A r \in Sync \ {s} : syncPc[r] \in {"idle", "done"}
    BY <1>1 DEF At, Flight, MayTask, MayLog, SyncTypeOK
  <2>2. (At(Flight) = {}) <=> \A r \in Sync : syncPc[r] \in {"idle", "done"}
    BY <1>1 DEF At, Flight, MayTask, MayLog, SyncTypeOK
  <2>3. /\ Cardinality(At(MayLog)') \in Nat
        /\ Cardinality(At(MayTask)') \in Nat
        /\ Cardinality(At(Flight)') \in Nat
    BY AtCounted
  <2> QED
    BY <1>1, <1>3, <2>1, <2>2, <2>3, AtMoves DEF SyncGoto
<1> USE DEF DInv, SyncTypeOK, PutsResult, SyncStatus, Paid, Kept, Settled, Wasted,
            MayLog, MayTask, Flight
<1>4. ASSUME NEW s \in Sync, BeginSync(s) PROVE Goal
  <2>1. PICK l : SyncGoto(s, l)
    BY <1>4 DEF BeginSync
  <2>2. syncPc[s] # "done"
    BY <1>4 DEF BeginSync, InFlight
  <2> QED
    BY <1>1, <1>3, <1>4, <2>1, <2>2 DEF BeginSync, InFlight
<1>5. ASSUME NEW s \in Sync, GetMarker(s) PROVE Goal
  <2>1. PICK l : SyncGoto(s, l)
    BY <1>5 DEF GetMarker, Decide
  <2>2. syncPc[s] # "done"
    BY <1>5 DEF GetMarker, Decide
  <2> QED
    BY <1>1, <1>3, <1>5, <2>1, <2>2 DEF GetMarker, Decide
<1>6. ASSUME NEW s \in Sync, GetDraft(s) PROVE Goal
  <2>1. PICK l : SyncGoto(s, l)
    BY <1>6 DEF GetDraft, Decide
  <2>2. syncPc[s] # "done"
    BY <1>6 DEF GetDraft, Decide
  <2> QED
    BY <1>1, <1>3, <1>6, <2>1, <2>2 DEF GetDraft, Decide
<1>7. ASSUME NEW s \in Sync, FindAccount(s) PROVE Goal
  <2>1. PICK l : SyncGoto(s, l)
    BY <1>7 DEF FindAccount, Decide
  <2>2. syncPc[s] # "done"
    BY <1>7 DEF FindAccount, Decide
  <2> QED
    BY <1>1, <1>3, <1>7, <2>1, <2>2 DEF FindAccount, Decide
<1>8. ASSUME NEW s \in Sync, LogCall(s) PROVE Goal
  <2>1. PICK l : SyncGoto(s, l)
    BY <1>8 DEF LogCall, Logged, RequestFails, Decide
  <2>2. syncPc[s] # "done"
    BY <1>8 DEF LogCall, Logged, RequestFails, Decide
  <2> QED
    BY <1>1, <1>3, <1>8, <2>1, <2>2 DEF LogCall, Logged, RequestFails, Decide
<1>9. ASSUME NEW s \in Sync, CreateTask(s) PROVE Goal
  <2>1. PICK l : SyncGoto(s, l)
    BY <1>9 DEF CreateTask, RequestFails, Decide
  <2>2. syncPc[s] # "done"
    BY <1>9 DEF CreateTask, RequestFails, Decide
  <2> QED
    BY <1>1, <1>3, <1>9, <2>1, <2>2 DEF CreateTask, RequestFails, Decide
<1>10. ASSUME NEW s \in Sync, Refused(s) PROVE Goal
  <2>1. PICK l : SyncGoto(s, l)
    BY <1>10 DEF Refused, RequestFails, Decide
  <2>2. syncPc[s] # "done"
    BY <1>10 DEF Refused, RequestFails, Decide
  <2> QED
    BY <1>1, <1>3, <1>10, <2>1, <2>2 DEF Refused, RequestFails, Decide
<1>11. ASSUME NEW s \in Sync, PutMarker(s) PROVE Goal
  <2>1. PICK l : SyncGoto(s, l)
    BY <1>11 DEF PutMarker
  <2>2. syncPc[s] # "done"
    BY <1>11 DEF PutMarker
  <2> QED
    BY <1>1, <1>3, <1>11, <2>1, <2>2 DEF PutMarker
<1>12. ASSUME NEW s \in Sync, Abandon(s) PROVE Goal
  <2>1. PICK l : SyncGoto(s, l)
    BY <1>12 DEF Abandon, Decide
  <2>2. syncPc[s] # "done"
    BY <1>12 DEF Abandon, InFlight, Decide
  <2> QED
    BY <1>1, <1>3, <1>12, <2>1, <2>2 DEF Abandon, InFlight, Decide
<1> QED
  BY <1>2, <1>4, <1>5, <1>6, <1>7, <1>8, <1>9, <1>10, <1>11, <1>12 DEF SyncNext

LEMMA DInvInit == SyncInit => DInv
<1> SUFFICES ASSUME SyncInit PROVE DInv
  OBVIOUS
<1>1. At(MayLog) = {} /\ At(MayTask) = {} /\ At(Flight) = {}
  BY DEF SyncInit, At, MayLog, MayTask, Flight
<1>2. Cardinality({}) = 0
  BY FS_EmptySet
<1> QED
  BY <1>1, <1>2, WInvInit DEF SyncInit, DInv, Paid, Kept, Settled

\* A record is written once more only for a failed request, a crash or an overlap (crm.ts,
\* the stored object looked at first), for any number of runs.
THEOREM DuplicatesCost == SyncSpec => []DuplicatesHaveCause
<1>1. DInv => DuplicatesHaveCause
  BY AtCounted DEF DInv, WInv, SyncTypeOK, Paid, DuplicatesHaveCause
<1> QED
  BY <1>1, DInvInit, DInvStep, PTL DEF SyncSpec

\* A stored success is lost only where runs overlapped, and no more often than they did.
THEOREM LossesCost == SyncSpec => []LossesNeedOverlap
<1>1. DInv => LossesNeedOverlap
  <2>1. CASE At(Flight) = {} \/ marker = "synced" \/ Settled
    BY <2>1, AtCounted DEF DInv, WInv, SyncTypeOK, Kept, LossesNeedOverlap
  <2>2. CASE At(Flight) # {}
    <3>1. Cardinality(At(Flight)) >= 1
      BY <2>2, AtCounted, FS_EmptySet
    <3> QED
      BY <3>1, AtCounted DEF DInv, WInv, SyncTypeOK, Kept, LossesNeedOverlap
  <2> QED
    BY <2>1, <2>2
<1> QED
  BY <1>1, DInvInit, DInvStep, PTL DEF SyncSpec
=============================================================================
