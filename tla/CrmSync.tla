------------------------------ MODULE CrmSync ------------------------------
(***************************************************************************)
(* syncDebriefToCrm (kits/debrief/src/composition/crm.ts) for one session: *)
(* the confirm and retry tools (composition/kit.ts) each run it to write   *)
(* the confirmed debrief to the CRM as a logged call and, when a next step *)
(* was agreed, a follow-up task.  The object crm-sync/<session> remembers  *)
(* how the last run ended.                                                 *)
(*                                                                         *)
(* Every await is a step.  A CRM request may be refused, or take effect    *)
(* and lose its answer; the process may die between any two steps.         *)
(***************************************************************************)
EXTENDS Naturals, FiniteSets

CONSTANTS
  Sync,         \* calls of syncDebriefToCrm
  MaxSyncFault  \* bound: failed requests and crashes

ASSUME CrmSyncAssumption ==
  /\ IsFiniteSet(Sync)
  /\ MaxSyncFault \in Nat

VARIABLES
  session,   \* session.state, as far as it matters here
  customer,  \* whether the session has a customer that can be looked up
  marker,    \* the status in the object crm-sync/<session>
  calls,     \* calls logged in the CRM for this session
  tasks,     \* follow-up tasks created in the CRM for this session
  syncPc,    \* syncPc[s]: the await sync s stands at
  wants,     \* wants[s]: the draft sync s read has a next step or a follow-up date
  result,    \* result[s]: the status sync s will store, then has returned
  overlaps,  \* runs begun while another one was under way (history)
  losses,    \* times a stored success was replaced by a failure (history)
  syncFaults

inCrm == <<calls, tasks>>
inRun == <<wants, result>>
syncHist == <<overlaps, losses>>
syncVars == <<session, customer, marker, inCrm, syncPc, inRun, syncHist, syncFaults>>

SyncStatus == {"none", "synced", "failed", "skipped"}

SyncTypeOK ==
  /\ session \in {"awaiting_confirmation", "confirmed", "failed"}
  /\ customer \in BOOLEAN
  /\ marker \in {"none", "synced", "failed"}
  /\ calls \in Nat
  /\ tasks \in Nat
  /\ syncPc \in [Sync -> {"idle", "get", "draft", "find", "log", "task", "put", "done"}]
  /\ wants \in [Sync -> BOOLEAN]
  /\ result \in [Sync -> SyncStatus]
  /\ overlaps \in Nat
  /\ losses \in Nat
  /\ syncFaults \in Nat

SyncInit ==
  /\ session = "awaiting_confirmation"
  /\ customer \in BOOLEAN
  /\ marker = "none"
  /\ calls = 0
  /\ tasks = 0
  /\ syncPc = [s \in Sync |-> "idle"]
  /\ wants = [s \in Sync |-> FALSE]
  /\ result = [s \in Sync |-> "none"]
  /\ overlaps = 0
  /\ losses = 0
  /\ syncFaults = 0

SyncGoto(s, l) == syncPc' = [syncPc EXCEPT ![s] = l]

\* Sync s goes on at l with its result decided.
Decide(s, r, l) == SyncGoto(s, l) /\ result' = [result EXCEPT ![s] = r]

Fault == syncFaults < MaxSyncFault /\ syncFaults' = syncFaults + 1
-----------------------------------------------------------------------------
(* The session, as DebriefService changes it. *)

Confirm ==
  /\ session = "awaiting_confirmation"
  /\ session' = "confirmed"
  /\ UNCHANGED <<customer, marker, inCrm, syncPc, inRun, syncHist, syncFaults>>

\* markFailed() is not held back by a confirmation.
FailSession ==
  /\ session # "failed"
  /\ session' = "failed"
  /\ UNCHANGED <<customer, marker, inCrm, syncPc, inRun, syncHist, syncFaults>>
-----------------------------------------------------------------------------
(* syncDebriefToCrm. *)

InFlight(s) == syncPc[s] \notin {"idle", "done"}

BeginSync(s) ==
  /\ syncPc[s] = "idle"
  /\ overlaps' = overlaps + IF \E r \in Sync : InFlight(r) THEN 1 ELSE 0
  /\ SyncGoto(s, "get")
  /\ UNCHANGED <<session, customer, marker, inCrm, inRun, losses, syncFaults>>

\* Mutant of GetMarker: the stored object is not looked at.
GetMarkerIgnored(s) ==
  /\ syncPc[s] = "get"
  /\ \/ session # "confirmed" /\ Decide(s, "skipped", "done")
     \/ session = "confirmed" /\ SyncGoto(s, "draft") /\ UNCHANGED result
  /\ UNCHANGED <<session, customer, marker, inCrm, wants, syncHist, syncFaults>>

\* objects.get(key), then the checks that need no await.
GetMarker(s) ==
  /\ syncPc[s] = "get"
  /\ \/ marker = "synced" /\ Decide(s, "synced", "done")
     \/ marker # "synced" /\ session # "confirmed" /\ Decide(s, "skipped", "done")
     \/ marker # "synced" /\ session = "confirmed" /\ SyncGoto(s, "draft") /\ UNCHANGED result
  /\ UNCHANGED <<session, customer, marker, inCrm, wants, syncHist, syncFaults>>

\* getCustomer(), then getDraft(): each run reads the draft anew, and what was agreed in it
\* may have been filled in or written over since another run read it.
GetDraft(s) ==
  /\ syncPc[s] = "draft"
  /\ \/ ~customer /\ Decide(s, "skipped", "done") /\ UNCHANGED wants
     \/ /\ customer
        /\ \E w \in BOOLEAN : wants' = [wants EXCEPT ![s] = w]
        /\ SyncGoto(s, "find") /\ UNCHANGED result
  /\ UNCHANGED <<session, customer, marker, inCrm, syncHist, syncFaults>>

\* crm.findAccount(): the company is found, or it is not.
FindAccount(s) ==
  /\ syncPc[s] = "find"
  /\ \/ SyncGoto(s, "log") /\ UNCHANGED result
     \/ Decide(s, "failed", "put")
  /\ UNCHANGED <<session, customer, marker, inCrm, wants, syncHist, syncFaults>>

\* The try block throws: the result is a failure.
RequestFails(s) == syncPc[s] \in {"find", "log", "task"} /\ Decide(s, "failed", "put") /\ Fault

\* Mutant of Logged: the call alone counts as a synced debrief.
LoggedIsSynced(s) == Decide(s, "synced", "put")

\* What follows a logged call: the follow-up task, when one was agreed.
Logged(s) ==
  \/ wants[s] /\ SyncGoto(s, "task") /\ UNCHANGED result
  \/ ~wants[s] /\ Decide(s, "synced", "put")

LogCall(s) ==
  /\ syncPc[s] = "log"
  /\ calls' = calls + 1
  /\ \/ Logged(s) /\ UNCHANGED syncFaults
     \/ RequestFails(s)                          \* the answer is lost
  /\ UNCHANGED <<session, customer, marker, tasks, wants, syncHist>>

CreateTask(s) ==
  /\ syncPc[s] = "task"
  /\ tasks' = tasks + 1
  /\ \/ Decide(s, "synced", "put") /\ UNCHANGED syncFaults
     \/ RequestFails(s)
  /\ UNCHANGED <<session, customer, marker, calls, wants, syncHist>>

\* The request has no effect and fails.
Refused(s) ==
  /\ RequestFails(s)
  /\ UNCHANGED <<session, customer, marker, inCrm, wants, syncHist>>

\* Mutant of PutMarker: only failures are remembered, for the operator to retry.
PutMarkerFailures(s) ==
  /\ syncPc[s] = "put"
  /\ marker' = IF result[s] = "failed" THEN "failed" ELSE marker
  /\ SyncGoto(s, "done")
  /\ UNCHANGED <<session, customer, inCrm, inRun, syncHist, syncFaults>>

\* objects.put(): whatever is stored is replaced, a success included.
PutMarker(s) ==
  /\ syncPc[s] = "put"
  /\ marker' = result[s]
  /\ losses' = losses + IF marker = "synced" /\ result[s] # "synced" THEN 1 ELSE 0
  /\ SyncGoto(s, "done")
  /\ UNCHANGED <<session, customer, inCrm, inRun, overlaps, syncFaults>>

\* The process dies, or an await outside the try block rejects.
Abandon(s) ==
  /\ InFlight(s)
  /\ Decide(s, "none", "done")
  /\ Fault
  /\ UNCHANGED <<session, customer, marker, inCrm, wants, syncHist>>
-----------------------------------------------------------------------------
SyncNext ==
  \/ Confirm \/ FailSession
  \/ \E s \in Sync :
       \/ BeginSync(s) \/ GetMarker(s) \/ GetDraft(s) \/ FindAccount(s) \/ LogCall(s)
       \/ CreateTask(s) \/ Refused(s) \/ PutMarker(s) \/ Abandon(s)

SyncSpec == SyncInit /\ [][SyncNext]_syncVars
-----------------------------------------------------------------------------
(* Properties. *)

\* A debrief reported as synced is in the CRM in full.  A run that answers so after a look at
\* the draft has logged the call and, when that draft had a next step, created the follow-up
\* task; and a stored success, which later runs repeat without looking, is one run's answer.
SyncedIsWritten ==
  /\ \A s \in Sync : result[s] = "synced" => calls > 0 /\ (wants[s] => tasks > 0)
  /\ marker = "synced" => \E s \in Sync : result[s] = "synced" /\ syncPc[s] = "done"

\* "Idempotent per session" (crm.ts:74) is a matter of price: each record beyond the first was
\* paid for by a request that failed, a process that died, or a run begun while another one
\* was under way.
DuplicatesHaveCause ==
  calls <= 1 + syncFaults + overlaps /\ tasks <= 1 + syncFaults + overlaps

\* A stored success is replaced by the failure of a slower run, and the next retry writes all
\* of it again, no more often than runs overlapped; runs that follow one another never do it.
LossesNeedOverlap == losses <= overlaps
=============================================================================
