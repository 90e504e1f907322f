--------------------------- MODULE DebriefService ---------------------------
(***************************************************************************)
(* The debrief service (kits/debrief/src/functions/index.ts) for one       *)
(* customer session: the session objects each host process keeps in        *)
(* memory, and the session row, draft row and customer events all hosts    *)
(* share in libSQL (kits/debrief/src/functions/persistence.ts).            *)
(*                                                                         *)
(* A request is a task.  An operation runs without interruption up to its  *)
(* next await; an await on the database is one step of its own, so other   *)
(* tasks, other hosts and crashes come in between.  A session object read  *)
(* before an await is the one written after it, even when the map has been *)
(* pointed at a fresh copy meanwhile.                                      *)
(***************************************************************************)
EXTENDS Integers, FiniteSets, Sequences

CONSTANTS
  Task,      \* concurrent requests
  Host,      \* host processes
  HostOf,    \* the host that serves a task
  Field,     \* draft fields besides the two below
  MaxObj,    \* bound: session objects ever created in memory
  MaxFault,  \* bound: failing database calls and crashes
  None

State == {"prepared", "calling", "awaiting_confirmation", "partial", "confirmed", "failed"}

ASSUME DebriefServiceAssumption ==
  /\ HostOf \in [Task -> Host]
  /\ MaxObj \in Nat
  /\ MaxFault \in Nat
  /\ None \notin Nat \cup State

VARIABLES
  heap,         \* state of the session objects created so far
  cur,          \* cur[h]: the object the sessions map of host h points at
  disk,         \* debrief_sessions.state
  draftStatus,  \* debrief_drafts.status, "none" when there is no row
  draftFields,  \* the non-empty fields of the draft row
  events,       \* the customer_events whose ids are derived from the session id
  pc,           \* pc[t]: the await task t stands at
  ref,          \* ref[t]: the session object task t holds
  snap,         \* snap[t]: the clone of the session that task t is persisting
  got,          \* got[t]: the fields of the draft task t has read or will write
  want,         \* want[t]: the draft status task t will write
  ret,          \* ret[t]: where task t goes on after persist() or saveDraft()
  faults

memory == <<heap, cur>>
draft == <<draftStatus, draftFields>>
store == <<disk, draft, events>>
task == <<pc, ref, snap, got, want, ret>>
vars == <<memory, store, task, faults>>

Fields == Field \cup {"address", "call"}

\* The events with an id of their own per session.  Events with random ids (prebrief, note,
\* call_completed) and telemetry are only ever added and decide nothing here: "log" stands
\* for the awaits that write them at the end of an operation.
EventType == {"address_discovered", "debrief_confirmed"}
Event == [type: EventType, fields: SUBSET Fields]

\* Where an operation can go on after persist() or saveDraft().
Ret == {"idle", "log", "event", "confirmList", "confirmState"}

Pc == Ret \cup {"persist", "endRead", "endFail", "endAwait", "teachWrite", "draftRead",
                "draftMerge", "draftWrite", "confirmAddress", "confirmEvent", "load", "loaded"}

TypeOK ==
  /\ heap \in Seq(State)
  /\ cur \in [Host -> 1..Len(heap) \cup {None}]
  /\ disk \in State \cup {None}
  /\ draftStatus \in {"none", "draft", "partial", "confirmed"}
  /\ draftFields \in SUBSET Fields
  /\ events \in SUBSET Event
  /\ pc \in [Task -> Pc]
  /\ ref \in [Task -> 1..Len(heap) \cup {None}]
  /\ snap \in [Task -> State \cup {None}]
  /\ got \in [Task -> SUBSET Fields]
  /\ want \in [Task -> {"draft", "partial", "confirmed"}]
  /\ ret \in [Task -> Ret]
  /\ faults \in Nat

Init ==
  /\ heap = <<>>
  /\ cur = [h \in Host |-> None]
  /\ disk = None
  /\ draftStatus = "none"
  /\ draftFields = {}
  /\ events = {}
  /\ pc = [t \in Task |-> "idle"]
  /\ ref = [t \in Task |-> None]
  /\ snap = [t \in Task |-> None]
  /\ got = [t \in Task |-> {}]
  /\ want = [t \in Task |-> "draft"]
  /\ ret = [t \in Task |-> "idle"]
  /\ faults = 0
-----------------------------------------------------------------------------
(* Building blocks: the sections of an operation between two awaits. *)

\* The operation of task t returns or throws; its locals are gone.
End(t) ==
  /\ pc' = [pc EXCEPT ![t] = "idle"]
  /\ ref' = [ref EXCEPT ![t] = None]
  /\ snap' = [snap EXCEPT ![t] = None]
  /\ got' = [got EXCEPT ![t] = {}]
  /\ want' = [want EXCEPT ![t] = "draft"]
  /\ ret' = [ret EXCEPT ![t] = "idle"]

Goto(t, l) == pc' = [pc EXCEPT ![t] = l] /\ UNCHANGED <<ref, snap, got, want, ret>>

\* Continue at l, or return when nothing is left to do.
GoOn(t, l) == IF l = "idle" THEN End(t) ELSE Goto(t, l)

\* Continue at l holding the session object o.
Hold(t, o, l) ==
  /\ pc' = [pc EXCEPT ![t] = l]
  /\ ref' = [ref EXCEPT ![t] = o]
  /\ UNCHANGED <<snap, got, want, ret>>

\* A handler may be called when its task is free and, by require(), the host knows the
\* session.
Ready(t) == pc[t] = "idle" /\ cur[HostOf[t]] # None

Cur(t) == cur[HostOf[t]]

\* session.state = s on object o, then persist(): the row written is a clone made now.
SetState(t, o, s, l) ==
  /\ heap' = [heap EXCEPT ![o] = s]
  /\ ref' = [ref EXCEPT ![t] = None]
  /\ snap' = [snap EXCEPT ![t] = s]
  /\ got' = [got EXCEPT ![t] = {}]
  /\ want' = [want EXCEPT ![t] = "draft"]
  /\ pc' = [pc EXCEPT ![t] = "persist"]
  /\ ret' = [ret EXCEPT ![t] = l]
  /\ UNCHANGED cur

\* saveDraft(fields, status) is entered: its first await reads the existing draft.
SaveDraft(t, o, f, s, l) ==
  /\ pc' = [pc EXCEPT ![t] = "draftMerge"]
  /\ ref' = [ref EXCEPT ![t] = o]
  /\ got' = [got EXCEPT ![t] = f]
  /\ want' = [want EXCEPT ![t] = s]
  /\ ret' = [ret EXCEPT ![t] = l]
  /\ UNCHANGED snap

Allowed(from, to) ==
  \/ from = "prepared" /\ to = "calling"
  \/ from = "calling" /\ to = "awaiting_confirmation"
  \/ from = "awaiting_confirmation" /\ to = "partial"
  \/ from \in {"awaiting_confirmation", "partial"} /\ to = "confirmed"

\* Mutant of Move: confirmed is a state like any other.
MoveEventless(t, to) ==
  IF heap[Cur(t)] # to /\ Allowed(heap[Cur(t)], to)
  THEN SetState(t, Cur(t), to, "log")
  ELSE End(t) /\ UNCHANGED memory

\* transition(): set and persist when allowed; otherwise nothing to do, or an error.
Move(t, to) ==
  IF heap[Cur(t)] # to /\ Allowed(heap[Cur(t)], to)
  THEN SetState(t, Cur(t), to, IF to = "confirmed" THEN "event" ELSE "log")
  ELSE End(t) /\ UNCHANGED memory

\* Mutant of AppendEvent: the event id is random.
AppendEventRandomId(type, f) ==
  events' = events \cup {[type |-> type, fields |-> f]}

\* appendCustomerEvent(): INSERT ... ON CONFLICT(event_id) DO NOTHING.
AppendEvent(type, f) ==
  events' = IF \E e \in events : e.type = type
            THEN events
            ELSE events \cup {[type |-> type, fields |-> f]}

Recorded(type) == \E e \in events : e.type = type
-----------------------------------------------------------------------------
(* The operations, up to their first await. *)

\* prepareDebrief(): a new session object, persisted, then its prebrief event.
PrepareDebrief(t) ==
  /\ pc[t] = "idle"
  /\ disk = None /\ heap = <<>>
  /\ MaxObj > 0
  /\ heap' = <<"prepared">>
  /\ cur' = [cur EXCEPT ![HostOf[t]] = 1]
  /\ ref' = [ref EXCEPT ![t] = 1]
  /\ snap' = [snap EXCEPT ![t] = "prepared"]
  /\ pc' = [pc EXCEPT ![t] = "persist"]
  /\ ret' = [ret EXCEPT ![t] = "log"]
  /\ UNCHANGED <<got, want, store, faults>>

Transition(t, to) == Ready(t) /\ Move(t, to) /\ UNCHANGED <<store, faults>>

MarkCalling(t) == Transition(t, "calling")
AwaitConfirmation(t) == Transition(t, "awaiting_confirmation")
MarkPartial(t) == Transition(t, "partial")
ConfirmDebrief(t) == Transition(t, "confirmed")

\* markFailed(): from any state.
MarkFailed(t) ==
  /\ Ready(t)
  /\ SetState(t, Cur(t), "failed", "log")
  /\ UNCHANGED <<store, faults>>

EndCallAfterInterruption(t) ==
  /\ Ready(t)
  /\ IF heap[Cur(t)] = "calling"
     THEN Hold(t, Cur(t), "endRead")
     ELSE End(t)
  /\ UNCHANGED <<memory, store, faults>>

TeachFromCorrection(t) ==
  /\ Ready(t)
  /\ IF heap[Cur(t)] \in {"awaiting_confirmation", "partial"}
     THEN Hold(t, Cur(t), "teachWrite")
     ELSE End(t)
  /\ UNCHANGED <<memory, store, faults>>

UpdateDebriefDraft(t, f) ==
  /\ Ready(t)
  /\ IF heap[Cur(t)] \in {"calling", "awaiting_confirmation", "partial"}
     THEN SaveDraft(t, Cur(t), f, IF heap[Cur(t)] = "partial" THEN "partial" ELSE "draft", "idle")
     ELSE End(t)
  /\ UNCHANGED <<memory, store, faults>>

Reviewable == {"awaiting_confirmation", "partial", "confirmed"}

\* getDebriefForConfirmation() and confirmDebriefDraft() both read the draft first and
\* create an empty one when there is none; l is where they continue.
ReadDraft(t, l) ==
  /\ Ready(t)
  /\ IF heap[Cur(t)] \in Reviewable
     THEN /\ pc' = [pc EXCEPT ![t] = "draftRead"]
          /\ ref' = [ref EXCEPT ![t] = Cur(t)]
          /\ ret' = [ret EXCEPT ![t] = l]
          /\ UNCHANGED <<snap, got, want>>
     ELSE End(t)
  /\ UNCHANGED <<memory, store, faults>>

GetDebriefForConfirmation(t) == ReadDraft(t, "idle")
ConfirmDebriefDraft(t) == ReadDraft(t, "confirmList")

\* recordCallCompleted(): completion metadata into the draft, then the event.
RecordCallCompleted(t) ==
  /\ Ready(t)
  /\ SaveDraft(t, Cur(t), {"call"}, "draft", "log")
  /\ UNCHANGED <<memory, store, faults>>

\* setCallId(): the whole session row is written again, with the state it has now.
SetCallId(t) ==
  /\ Ready(t)
  /\ SetState(t, Cur(t), heap[Cur(t)], "idle")
  /\ UNCHANGED <<store, faults>>

\* Room in the heap for the objects that the loads under way will create.
Room == Len(heap) + Cardinality({t \in Task : pc[t] \in {"load", "loaded"}}) < MaxObj

\* hydrateSession(): first await, loadSessions().  The session id exists once prepared.
HydrateSession(t) ==
  /\ pc[t] = "idle"
  /\ heap # <<>> /\ Room
  /\ Goto(t, "load")
  /\ UNCHANGED <<memory, store, faults>>
-----------------------------------------------------------------------------
(* The database steps of the operations, and what follows them. *)

\* saveSession(): upsert of the clone.
Persist(t) ==
  /\ pc[t] = "persist"
  /\ disk' = snap[t]
  /\ pc' = [pc EXCEPT ![t] = ret[t]]
  /\ snap' = [snap EXCEPT ![t] = None]
  /\ ret' = [ret EXCEPT ![t] = "idle"]
  /\ UNCHANGED <<ref, got, want>>
  /\ UNCHANGED <<memory, draft, events, faults>>

\* transition() to confirmed appends its event after the state is durable.
TransitionEvent(t) ==
  /\ pc[t] = "event"
  /\ AppendEvent("debrief_confirmed", {})
  /\ Goto(t, "log")
  /\ UNCHANGED <<memory, disk, draft, faults>>

\* The last writes of an operation: random-id events and emit().
Log(t) ==
  /\ pc[t] = "log"
  /\ End(t)
  /\ UNCHANGED <<memory, store, faults>>

\* endCallAfterInterruption(): getDraft() decides ...
EndRead(t) ==
  /\ pc[t] = "endRead"
  /\ Goto(t, IF draftFields = {} THEN "endFail" ELSE "endAwait")
  /\ UNCHANGED <<memory, store, faults>>

\* ... and when its answer arrives, the map is consulted anew: markFailed() does not look
\* at the state again, transition() does.
EndAnswered(t) ==
  /\ \/ pc[t] = "endFail" /\ SetState(t, Cur(t), "failed", "log")
     \/ pc[t] = "endAwait" /\ Move(t, "awaiting_confirmation")
  /\ UNCHANGED <<store, faults>>

\* teachFromCorrection() after writeCandidate(): the held object becomes partial.
TeachWrite(t) ==
  /\ pc[t] = "teachWrite"
  /\ SetState(t, ref[t], "partial", "log")
  /\ UNCHANGED <<store, faults>>

\* getDraft() of the confirmation: go on with the draft, or save an empty one first.
DraftRead(t) ==
  /\ pc[t] = "draftRead"
  /\ IF draftStatus = "none"
     THEN SaveDraft(t, ref[t], {}, "draft", ret[t])
     ELSE IF ret[t] = "idle"
     THEN End(t)
     ELSE /\ pc' = [pc EXCEPT ![t] = ret[t]]
          /\ got' = [got EXCEPT ![t] = draftFields]
          /\ UNCHANGED <<ref, snap, want, ret>>
  /\ UNCHANGED <<memory, store, faults>>

\* saveDraft(): read the existing row and merge the new fields over it ...
DraftMerge(t) ==
  /\ pc[t] = "draftMerge"
  /\ got' = [got EXCEPT ![t] = @ \cup draftFields]
  /\ pc' = [pc EXCEPT ![t] = "draftWrite"]
  /\ UNCHANGED <<ref, snap, want, ret, memory, store, faults>>

\* ... and write the merged row back.
DraftWrite(t) ==
  /\ pc[t] = "draftWrite"
  /\ draftStatus' = want[t]
  /\ draftFields' = got[t]
  /\ GoOn(t, ret[t])
  /\ UNCHANGED <<memory, disk, events, faults>>

\* Mutant of ConfirmList: the address event is left to be written after the confirmation.
ConfirmListAddressLast(t) ==
  /\ pc[t] = "confirmList"
  /\ IF Recorded("debrief_confirmed") THEN End(t) ELSE Goto(t, "confirmEvent")
  /\ UNCHANGED <<memory, store, faults>>

\* confirmDebriefDraft() lists the events: an existing confirmation ends it here.
ConfirmList(t) ==
  /\ pc[t] = "confirmList"
  /\ IF Recorded("debrief_confirmed")
     THEN End(t)
     ELSE Goto(t, IF "address" \in got[t] THEN "confirmAddress" ELSE "confirmEvent")
  /\ UNCHANGED <<memory, store, faults>>

ConfirmAddress(t) ==
  /\ pc[t] = "confirmAddress"
  /\ AppendEvent("address_discovered", {"address"})
  /\ Goto(t, "confirmEvent")
  /\ UNCHANGED <<memory, disk, draft, faults>>

\* Mutant of ConfirmEvent: the draft is saved as confirmed before the event is appended.
ConfirmEventDraftFirst(t) ==
  /\ pc[t] = "confirmEvent"
  /\ SaveDraft(t, ref[t], got[t], "confirmed", "event")
  /\ UNCHANGED <<memory, store, faults>>

ConfirmEvent(t) ==
  /\ pc[t] = "confirmEvent"
  /\ AppendEvent("debrief_confirmed", got[t])
  /\ SaveDraft(t, ref[t], got[t], "confirmed", "confirmState")
  /\ UNCHANGED <<memory, disk, draft, faults>>

\* The state is set on the object held since the first line.
ConfirmState(t) ==
  /\ pc[t] = "confirmState"
  /\ IF heap[ref[t]] # "confirmed"
     THEN SetState(t, ref[t], "confirmed", "log")
     ELSE End(t) /\ UNCHANGED memory
  /\ UNCHANGED <<store, faults>>

\* hydrateSession(): loadSessions() reads the row ...
Load(t) ==
  /\ pc[t] = "load"
  /\ snap' = [snap EXCEPT ![t] = disk]
  /\ pc' = [pc EXCEPT ![t] = "loaded"]
  /\ UNCHANGED <<ref, got, want, ret, memory, store, faults>>

\* ... and a row that was found replaces the object in the map.
Loaded(t) ==
  /\ pc[t] = "loaded"
  /\ IF snap[t] # None
     THEN /\ heap' = Append(heap, snap[t])
          /\ cur' = [cur EXCEPT ![HostOf[t]] = Len(heap) + 1]
     ELSE UNCHANGED memory
  /\ End(t)
  /\ UNCHANGED <<store, faults>>
-----------------------------------------------------------------------------
(* Faults. *)

\* The call a task waits for rejects: the operation throws where it stands.
Throw(t) ==
  /\ pc[t] # "idle"
  /\ faults < MaxFault
  /\ faults' = faults + 1
  /\ End(t)
  /\ UNCHANGED <<memory, store>>

\* A host dies and is started again: it loads the persisted sessions into its map.
Restart(h) ==
  /\ faults < MaxFault
  /\ faults' = faults + 1
  /\ Room
  /\ IF disk # None
     THEN /\ heap' = Append(heap, disk)
          /\ cur' = [cur EXCEPT ![h] = Len(heap) + 1]
     ELSE heap' = heap /\ cur' = [cur EXCEPT ![h] = None]
  /\ LET lose(f, d) == [t \in Task |-> IF HostOf[t] = h THEN d ELSE f[t]] IN
     /\ pc' = lose(pc, "idle")
     /\ ref' = lose(ref, None)
     /\ snap' = lose(snap, None)
     /\ got' = lose(got, {})
     /\ want' = lose(want, "draft")
     /\ ret' = lose(ret, "idle")
  /\ UNCHANGED store
-----------------------------------------------------------------------------
\* Any operation may be requested at any time: chat tools, the voice hooks, the scheduler.
Request(t) ==
  \/ PrepareDebrief(t) \/ HydrateSession(t)
  \/ MarkCalling(t) \/ AwaitConfirmation(t) \/ MarkPartial(t) \/ ConfirmDebrief(t)
  \/ MarkFailed(t) \/ EndCallAfterInterruption(t) \/ SetCallId(t) \/ RecordCallCompleted(t)
  \/ \E f \in Field \cup {"address"} : UpdateDebriefDraft(t, {f})
  \/ GetDebriefForConfirmation(t) \/ ConfirmDebriefDraft(t) \/ TeachFromCorrection(t)

Step(t) ==
  \/ Persist(t) \/ TransitionEvent(t) \/ Log(t)
  \/ EndRead(t) \/ EndAnswered(t) \/ TeachWrite(t)
  \/ DraftRead(t) \/ DraftMerge(t) \/ DraftWrite(t)
  \/ ConfirmList(t) \/ ConfirmAddress(t) \/ ConfirmEvent(t) \/ ConfirmState(t)
  \/ Load(t) \/ Loaded(t)

Next ==
  \/ \E t \in Task : Request(t) \/ Step(t) \/ Throw(t)
  \/ \E h \in Host : Restart(h)

Spec == Init /\ [][Next]_vars
-----------------------------------------------------------------------------
(* Properties. *)

\* "confirm_debrief_draft writes immutable customer events": however many confirm calls
\* race, are retried or cut off by a crash, a session has one confirmation event and one
\* address event.
ConfirmedOnce ==
  \A e, f \in events : e.type = f.type /\ e.type \in EventType => e = f

\* A confirmed debrief that reports an address has its address event: the two appends are
\* not one transaction, so their order must make up for it.
ConfirmedAddressRecorded ==
  \A e \in events :
    e.type = "debrief_confirmed" /\ "address" \in e.fields => Recorded("address_discovered")

\* The draft says confirmed only when the confirmation event is durable.
DraftConfirmedAfterEvent == draftStatus = "confirmed" => Recorded("debrief_confirmed")

\* The object an operation in flight works on exists: no require() can fail half way.
HoldsSession ==
  \A t \in Task :
    /\ pc[t] \in {"endRead", "endFail", "endAwait"} => Cur(t) # None
    /\ pc[t] \in {"teachWrite", "draftRead", "draftMerge", "draftWrite", "confirmList",
                  "confirmAddress", "confirmEvent", "confirmState"} => ref[t] # None
    /\ pc[t] = "persist" => snap[t] # None /\ ret[t] \in {"idle", "log", "event"}

\* What a confirmation in flight knows; with it the three invariants are inductive.
ConfirmInFlight ==
  \A t \in Task :
    /\ pc[t] = "confirmEvent" /\ "address" \in got[t] => Recorded("address_discovered")
    /\ pc[t] = "confirmState" \/ ret[t] = "confirmState" \/ want[t] = "confirmed"
         => Recorded("debrief_confirmed")

IInv ==
  /\ TypeOK
  /\ HoldsSession
  /\ ConfirmedOnce
  /\ ConfirmedAddressRecorded
  /\ DraftConfirmedAfterEvent
  /\ ConfirmInFlight

\* A session confirmed in any copy of it, in memory or in the row, has its confirmation event:
\* recorded already, or about to be by an operation under way, since the two ways to confirm
\* write the state and the event in opposite orders; only a failure in between leaves it out.
ConfirmedHasEvent ==
  disk = "confirmed" \/ (\E o \in DOMAIN heap : heap[o] = "confirmed")
    => \/ Recorded("debrief_confirmed")
       \/ \E t \in Task : "event" \in {pc[t], ret[t]}
       \/ faults > 0
=============================================================================
