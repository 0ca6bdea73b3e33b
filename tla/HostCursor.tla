----------------------------- MODULE HostCursor -----------------------------
(***************************************************************************)
(* The cursor service of a host window (src/src/host.cpp).                 *)
(*                                                                         *)
(* set_cursor records the desired cursor and schedule_cursor_sync posts at *)
(* most one platform task that applies it.  The task calls the backend     *)
(* with the mutex released and looks again afterwards.  set_cursor takes   *)
(* only the state mutex, and takes it twice; set_cursor_backend holds      *)
(* dispatch_mutex, may come from inside the backend's own set_cursor, and  *)
(* posts a task of its own.                                                *)
(***************************************************************************)
EXTENDS Integers, Sequences, FiniteSets

CONSTANTS
  Cursors,       \* the cursors used, DefaultCursor among them
  DefaultCursor, \* SystemCursor::system_default
  MaxService,    \* limit of cursor_service_generation
  MaxRevision,   \* limit of cursor_revision
  PostsMayFail,  \* TRUE: TaskRunner::post may throw
  ApplyMayFail   \* TRUE: CursorBackend::set_cursor may throw

VARIABLES
  running, cursor_backend,   \* TRUE unless null
  desired_cursor,
  applied_cursor,            \* a set of at most one cursor
  cursor_service_generation, cursor_revision, cursor_pending_service, cursor_sync_pending,
  uiStep, driverStep, taskStep,  \* where set_cursor, set_cursor_backend and the task are
  syncQ,                     \* services of the queued tasks
  applying,                  \* the call of the backend in progress, a set of at most one
  shown,                     \* cursor the current backend last accepted, or {}
  failed                     \* revision the current backend last refused, or {}

service == <<cursor_backend, applied_cursor, cursor_service_generation>>
pending == <<cursor_pending_service, cursor_sync_pending>>
steps == <<uiStep, driverStep, taskStep>>
native == <<applying, shown, failed>>
vars == <<running, service, pending, desired_cursor, cursor_revision, steps, syncQ, native>>

Services == 0 .. MaxService
Revisions == 0 .. MaxRevision
Call == [service : Services, cursor : Cursors, revision : Revisions]

(* A thread in schedule_cursor_sync is about to enter its locked section   *)
(* ("schedule"), about to post ("post"), or about to shut the host down.   *)
Step(pc, s) == [pc |-> pc, service |-> s]
Idle == Step("idle", 0)
Steps == [pc : {"idle", "schedule", "post", "stop"}, service : Services]

TypeOK ==
  /\ running \in BOOLEAN /\ cursor_backend \in BOOLEAN
  /\ desired_cursor \in Cursors /\ applied_cursor \in SUBSET Cursors
  /\ cursor_service_generation \in Services /\ cursor_revision \in Revisions
  /\ cursor_pending_service \in Services /\ cursor_sync_pending \in BOOLEAN
  /\ uiStep \in Steps /\ driverStep \in Steps /\ taskStep \in Steps
  /\ syncQ \in Seq(Services)
  /\ applying \in SUBSET Call
  /\ shown \in SUBSET Cursors /\ failed \in SUBSET Revisions

Init ==
  /\ running = TRUE /\ cursor_backend = FALSE
  /\ desired_cursor = DefaultCursor /\ applied_cursor = {}
  /\ cursor_service_generation = 0 /\ cursor_revision = 0
  /\ cursor_pending_service = 0 /\ cursor_sync_pending = FALSE
  /\ uiStep = Idle /\ driverStep = Idle /\ taskStep = Idle
  /\ syncQ = <<>> /\ applying = {} /\ shown = {} /\ failed = {}
-----------------------------------------------------------------------------
(* schedule_cursor_sync: its first locked section, then the post.  `step`  *)
(* is the calling thread's.                                                *)
UnwantedIfApplied == ~running \/ ~cursor_backend \/ applied_cursor = {desired_cursor}
Unwanted ==
  ~running \/ ~cursor_backend \/ cursor_sync_pending \/ applied_cursor = {desired_cursor}

Schedule(step) ==
  /\ step.pc = "schedule"
  /\ \/ Unwanted /\ step' = Idle /\ UNCHANGED pending
     \/ /\ ~Unwanted
        /\ cursor_sync_pending' = TRUE
        /\ cursor_pending_service' = cursor_service_generation
        /\ step' = Step("post", cursor_service_generation)
  /\ UNCHANGED <<running, service, desired_cursor, cursor_revision, syncQ, native>>

(* A failed post withdraws its own mark and stops the host. *)
Withdraws(s) == cursor_service_generation = s /\ cursor_pending_service = s
ClearPending == cursor_sync_pending' = FALSE /\ cursor_pending_service' = 0

Post(step) ==
  /\ step.pc = "post"
  /\ \/ /\ syncQ' = Append(syncQ, step.service)
        /\ step' = Idle
        /\ UNCHANGED pending
     \/ /\ PostsMayFail
        /\ IF Withdraws(step.service) THEN ClearPending ELSE UNCHANGED pending
        /\ step' = Step("stop", 0)
        /\ UNCHANGED syncQ
  /\ UNCHANGED <<running, service, desired_cursor, cursor_revision, native>>

(* shutdown(), for a thread that could not go on or called from outside:   *)
(* dispatch_mutex must be free or the thread's own.                        *)
StopHost ==
  /\ running' = FALSE
  /\ IF running THEN ClearPending ELSE UNCHANGED pending
  /\ UNCHANGED <<service, desired_cursor, cursor_revision, syncQ, native>>

Stop(step) == step.pc = "stop" /\ step' = Idle /\ StopHost

UiThread ==
  /\ Schedule(uiStep) \/ Post(uiStep) \/ (driverStep = Idle /\ Stop(uiStep))
  /\ UNCHANGED <<driverStep, taskStep>>
DriverThread ==
  /\ Schedule(driverStep) \/ Post(driverStep) \/ Stop(driverStep)
  /\ UNCHANGED <<uiStep, taskStep>>
TaskThread ==
  /\ Schedule(taskStep) \/ Post(taskStep) \/ (driverStep = Idle /\ Stop(taskStep))
  /\ UNCHANGED <<uiStep, driverStep>>

shutdown == running /\ driverStep = Idle /\ StopHost /\ UNCHANGED steps
-----------------------------------------------------------------------------
(* HostWindow::set_cursor, first locked section. *)
RevisionExhausted == cursor_revision = MaxRevision
set_cursor(c) ==
  /\ running /\ uiStep = Idle
  /\ \/ /\ RevisionExhausted
        /\ uiStep' = Step("stop", 0)
        /\ UNCHANGED <<desired_cursor, cursor_revision>>
     \/ /\ ~RevisionExhausted
        /\ desired_cursor' = c
        /\ cursor_revision' = cursor_revision + 1
        /\ uiStep' = Step("schedule", 0)
  /\ UNCHANGED <<running, service, pending, driverStep, taskStep, syncQ, native>>

(* HostWindowDriver::set_cursor_backend, first locked section. *)
set_cursor_backend(b) ==
  /\ running /\ driverStep = Idle
  /\ \/ /\ cursor_service_generation = MaxService
        /\ driverStep' = Step("stop", 0)
        /\ UNCHANGED <<service, pending, shown, failed>>
     \/ /\ cursor_service_generation # MaxService
        /\ cursor_service_generation' = cursor_service_generation + 1
        /\ cursor_backend' = b
        /\ applied_cursor' = {}
        /\ ClearPending
        /\ shown' = {} /\ failed' = {}
        /\ driverStep' = Step("schedule", 0)
  /\ UNCHANGED <<running, desired_cursor, cursor_revision, uiStep, taskStep, syncQ, applying>>

(* complete_platform_shutdown releases the backend. *)
ReleaseBackend ==
  /\ ~running /\ cursor_backend /\ applying = {}
  /\ cursor_backend' = FALSE
  /\ UNCHANGED <<running, applied_cursor, cursor_service_generation, pending,
                 desired_cursor, cursor_revision, steps, syncQ, native>>
-----------------------------------------------------------------------------
(* The platform task: a stale one returns at once and leaves the mark to   *)
(* the task that replaced it.                                              *)
TaskCurrent(s) == running /\ cursor_backend /\ cursor_service_generation = s

BeginSync ==
  /\ syncQ # <<>> /\ applying = {} /\ taskStep = Idle
  /\ syncQ' = Tail(syncQ)
  /\ applying' = {[service |-> s, cursor |-> desired_cursor, revision |-> cursor_revision]
                    : s \in {x \in {Head(syncQ)} : TaskCurrent(x)}}
  /\ UNCHANGED <<running, service, pending, desired_cursor, cursor_revision, steps,
                 shown, failed>>

(* The locked section after the call: nothing is recorded for a backend    *)
(* that was replaced meanwhile, and a cursor that changed during the call  *)
(* is scheduled again.                                                     *)
StillOwner(s) ==
  cursor_backend /\ cursor_service_generation = s /\ cursor_pending_service = s

NewerAfterFailure(call, ok) == running /\ ~ok /\ cursor_revision # call.revision
NewerAfterSuccess(call, ok) == running /\ ok /\ desired_cursor # call.cursor
NewerAfter(call, ok) ==
  running /\ IF ok THEN desired_cursor # call.cursor ELSE cursor_revision # call.revision

EndSync(ok) ==
  \E call \in applying :
    /\ applying' = {}
    /\ LET here == cursor_service_generation = call.service
       IN  /\ shown' = (IF here /\ ok THEN {call.cursor} ELSE shown)
           /\ failed' = (IF here /\ ~ok THEN {call.revision} ELSE failed)
    /\ \/ ~StillOwner(call.service) /\ UNCHANGED <<pending, applied_cursor, taskStep>>
       \/ /\ StillOwner(call.service)
          /\ ClearPending
          /\ applied_cursor' = (IF ok THEN {call.cursor} ELSE applied_cursor)
          /\ taskStep' = (IF NewerAfter(call, ok) THEN Step("schedule", 0) ELSE Idle)
    /\ UNCHANGED <<running, cursor_backend, cursor_service_generation, desired_cursor,
                   cursor_revision, uiStep, driverStep, syncQ>>

Next ==
  \/ UiThread \/ DriverThread \/ TaskThread \/ shutdown \/ ReleaseBackend \/ BeginSync \/ EndSync(TRUE)
  \/ ApplyMayFail /\ EndSync(FALSE)
  \/ \E c \in Cursors : set_cursor(c)
  \/ \E b \in BOOLEAN : set_cursor_backend(b)

Spec == Init /\ [][Next]_vars

(* The runner runs its tasks, a thread goes on after a locked section, and *)
(* the backend returns.                                                    *)
Fairness ==
  /\ WF_vars(UiThread) /\ WF_vars(DriverThread) /\ WF_vars(TaskThread)
  /\ WF_vars(BeginSync) /\ WF_vars(EndSync(TRUE) \/ EndSync(FALSE))
FairSpec == Spec /\ Fairness
-----------------------------------------------------------------------------
Threads == [ui |-> uiStep, driver |-> driverStep, task |-> taskStep]

(* The tasks of service s: about to be posted, queued, or calling. *)
Tasks(s) ==
  Cardinality({t \in DOMAIN Threads : Threads[t] = Step("post", s)})
    + Cardinality({i \in 1 .. Len(syncQ) : syncQ[i] = s})
    + Cardinality({call \in applying : call.service = s})

(* cursor_sync_pending is exact: while the host runs it is set exactly     *)
(* when one task for the current backend is on its way or being run, never *)
(* two, whatever was posted for replaced backends.                         *)
OneApplyPending ==
  running =>
    /\ Tasks(cursor_service_generation) = (IF cursor_sync_pending THEN 1 ELSE 0)
    /\ cursor_pending_service =
         (IF cursor_sync_pending THEN cursor_service_generation ELSE 0)

(* The newest cursor is not forgotten: with a backend, no task on its way  *)
(* and no thread about to schedule one, the desired cursor has been        *)
(* applied and the current backend shows it (nothing is recorded for a     *)
(* replaced one), or the backend refused this very revision.               *)
NewestCursorApplied ==
  /\ running /\ cursor_backend /\ ~cursor_sync_pending
  /\ \A t \in DOMAIN Threads : Threads[t].pc \notin {"schedule", "stop"}
  => \/ applied_cursor = {desired_cursor} /\ shown = applied_cursor
     \/ failed = {cursor_revision}

(* The desired cursor is applied in the end, unless the backend refuses it *)
(* or goes away or the host stops.                                         *)
CursorConverges ==
  (running /\ cursor_backend /\ applied_cursor # {desired_cursor})
    ~> (~running \/ ~cursor_backend \/ applied_cursor = {desired_cursor}
          \/ failed = {cursor_revision})
=============================================================================
