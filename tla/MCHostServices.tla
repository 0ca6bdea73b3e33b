--------------------------- MODULE MCHostServices ---------------------------
(* Bounds for HostClipboard and HostCursor.  The two services share no     *)
(* state but `running`, and neither makes the other do anything: each is   *)
(* explored while the other rests in its initial state.  The limits are    *)
(* those of the code's counters; two cursors, so that a change can be      *)
(* undone before it is applied.                                            *)
EXTENDS HostClipboard
CONSTANTS arrow, hand, MaxCursorService, MaxRevision, ApplyMayFail
CursorsUsed == {arrow, hand}

ASSUME CursorConstants ==
  MaxCursorService \in Nat /\ MaxRevision \in Nat /\ ApplyMayFail \in BOOLEAN

VARIABLES
  explored,    \* the service explored, never changed
  cursor_backend, desired_cursor, applied_cursor, cursor_service_generation, cursor_revision,
  cursor_pending_service, cursor_sync_pending, uiStep, driverStep, taskStep, syncQ, applying,
  shown, failed

Cursor == INSTANCE HostCursor
            WITH Cursors <- CursorsUsed, DefaultCursor <- arrow, MaxService <- MaxCursorService

cursorVars ==
  <<cursor_backend, desired_cursor, applied_cursor, cursor_service_generation, cursor_revision,
    cursor_pending_service, cursor_sync_pending, uiStep, driverStep, taskStep, syncQ, applying,
    shown, failed>>
clipboardVars ==
  <<deliver_queued_events, delegate_generation, bound, clipboard_backend,
    clipboard_service_generation, clipboard_next_sequence, clipboard_requests, holder, tasks,
    ghosts>>

ServicesInit == explored \in {"clipboard", "cursor"} /\ Init /\ Cursor!Init

ServicesNext ==
  /\ \/ explored = "clipboard" /\ Next /\ UNCHANGED cursorVars
     \/ explored = "cursor" /\ Cursor!Next /\ UNCHANGED clipboardVars
  /\ UNCHANGED explored

ServicesSpec ==
  /\ ServicesInit /\ [][ServicesNext]_<<vars, cursorVars, explored>>
  /\ Fairness /\ Cursor!Fairness

(* Both services keep to their types, and their counters to their limits;  *)
(* schedule_cursor_sync has at most one task for the current backend.      *)
ServicesTypeOK == TypeOK /\ Cursor!TypeOK /\ Cursor!OneApplyPending

(* Nothing the services accepted is forgotten: every clipboard request is  *)
(* answered once, whatever answers, replaces or stops first (CompletedOnce, *)
(* NoRequestLost, DeliveredBeforeShutdown of HostClipboard), and the newest *)
(* cursor is applied, refused or still to be applied by a task that has    *)
(* been scheduled (NewestCursorApplied of HostCursor).                     *)
ServicesAccounted ==
  /\ CompletedOnce /\ NoRequestLost /\ DeliveredBeforeShutdown
  /\ Cursor!NewestCursorApplied

(* Both services come to rest: a request is completed in the end, and the  *)
(* desired cursor is applied in the end.                                   *)
ServicesSettle == RequestsComplete /\ Cursor!CursorConverges
=============================================================================
