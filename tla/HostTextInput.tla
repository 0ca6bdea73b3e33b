--------------------------- MODULE HostTextInput ---------------------------
(***************************************************************************)
(* The text input service of a host window (src/src/host.cpp).             *)
(*                                                                         *)
(* The framework holds a public session through HostTextInputProxy; the    *)
(* platform task synchronize_text_input makes a session of the native      *)
(* backend follow it.  The task calls the backend with the mutex released, *)
(* while the UI executor starts, updates and stops sessions, the driver    *)
(* replaces the backend and native edits travel through the UI queue.      *)
(***************************************************************************)
EXTENDS HostLife, Integers, Sequences

CONSTANTS
  Values,            \* the editing values used
  MaxSession,        \* limit of text_next_session
  MaxService,        \* limit of text_service_generation
  MaxCallback,       \* limit of text_next_callback_generation
  MaxRevision,       \* limit of value_revision and rect_revision
  MaxCallbacks,      \* bound on native callbacks waiting for the UI executor
  MaxCommands,       \* bound on framework commands and backend replacements
  CoLocated,         \* TRUE: both executors are one thread
  BackendMayFail     \* TRUE: the backend's calls may throw

ASSUME TextConstants ==
  /\ MaxSession \in Nat \ {0} /\ MaxService \in Nat \ {0} /\ MaxCallback \in Nat \ {0}
  /\ MaxRevision \in Nat \ {0} /\ MaxCallbacks \in Nat /\ MaxCommands \in Nat
  /\ {CoLocated, BackendMayFail} \subseteq BOOLEAN

VARIABLES
  text_input_backend,            \* TRUE unless null
  text_service_generation, text_next_session, text_next_callback_generation,
  text_session,                  \* HostTextSession, a set of at most one
  text_sync_pending,
  native_text,                   \* the fields native_text_*
  uiStep, holder, task,          \* where a UI call, set_text_input_backend and the sync task are
  platQ,                         \* number of sync tasks in the platform runner
  uiQ,                           \* native callbacks in the UI runner
  live,                          \* sessions alive in the native backends
  commands,                      \* framework commands and replacements so far
  refused                        \* of these, how many a refused call had seen, or -1

service == <<text_input_backend, text_service_generation, text_next_callback_generation>>
session == <<text_next_session, text_session>>
host == <<running, service, session, text_sync_pending, native_text>>
ghosts == <<commands, refused>>
vars == <<host, uiStep, holder, task, platQ, uiQ, live, ghosts>>

Sessions == 0 .. MaxSession
Services == 0 .. MaxService
Callbacks == 0 .. MaxCallback
Revisions == 0 .. MaxRevision
Session == [id : Sessions, value : Values, value_revision : Revisions,
            rect_revision : Revisions, alive : BOOLEAN]
NativeText == [session : BOOLEAN, public : Sessions, service : Services,
               callback : Callbacks, value_revision : Revisions, rect_revision : Revisions]
Live == [service : Services, callback : Callbacks, public : Sessions, value : Values,
         rect : Revisions, edited : BOOLEAN]
UiTask == [kind : {"value", "action"}, public : Sessions, service : Services,
           callback : Callbacks, value : Values]
Steps == {"idle", "schedule", "post", "stop"}
Task == [pc : Steps \cup {"decide", "start", "value", "rect"}, session : SUBSET Session,
         service : Services, callback : Callbacks, seen : Int, then : {"idle", "rect"},
         rect : BOOLEAN]

NoNative == [session |-> FALSE, public |-> 0, service |-> 0, callback |-> 0,
             value_revision |-> 0, rect_revision |-> 0]
IdleTask == [pc |-> "idle", session |-> {}, service |-> 0, callback |-> 0, seen |-> -1,
             then |-> "idle", rect |-> FALSE]
Continue(t, pc) == IF pc = "idle" THEN IdleTask ELSE [t EXCEPT !.pc = pc]

TypeOK ==
  /\ running \in BOOLEAN /\ text_input_backend \in BOOLEAN /\ text_sync_pending \in BOOLEAN
  /\ text_service_generation \in Services
  /\ text_next_session \in 1 .. MaxSession
  /\ text_next_callback_generation \in 1 .. MaxCallback
  /\ text_session \in SUBSET Session
  /\ native_text \in NativeText
  /\ uiStep \in Steps /\ holder \in Steps /\ task \in Task
  /\ platQ \in Nat /\ uiQ \in Seq(UiTask)
  /\ live \in SUBSET Live
  /\ commands \in 0 .. MaxCommands /\ refused \in -1 .. MaxCommands

Init ==
  /\ running = TRUE /\ text_input_backend = FALSE /\ text_sync_pending = FALSE
  /\ text_service_generation = 0 /\ text_next_session = 1 /\ text_next_callback_generation = 1
  /\ text_session = {} /\ native_text = NoNative
  /\ uiStep = "idle" /\ holder = "idle" /\ task = IdleTask
  /\ platQ = 0 /\ uiQ = <<>> /\ live = {}
  /\ commands = 0 /\ refused = -1

(* With one thread, the UI executor and the platform executor take turns;  *)
(* the driver may still be entered from inside the backend's calls.        *)
UiTurn == CoLocated => task.pc = "idle" /\ holder = "idle"
DriverTurn == CoLocated => uiStep = "idle"
PlatformTurn == CoLocated => uiStep = "idle" /\ holder = "idle"
-----------------------------------------------------------------------------
(* schedule_text_sync: its locked section, then the post; a failed post    *)
(* clears the mark and stops the host.  `next` is what the calling thread  *)
(* does afterwards.                                                        *)
Unwanted == ~running \/ text_sync_pending

Schedule(pc, next, done) ==
  \/ /\ pc = "schedule"
     /\ \/ Unwanted /\ next = done /\ UNCHANGED text_sync_pending
        \/ ~Unwanted /\ next = "post" /\ text_sync_pending' = TRUE
     /\ UNCHANGED <<running, text_session, platQ>>
  \/ /\ pc = "post"
     /\ \/ platQ' = platQ + 1 /\ next = done /\ UNCHANGED text_sync_pending
        \/ /\ PostsMayFail
           /\ text_sync_pending' = FALSE /\ next = "stop"
           /\ UNCHANGED platQ
     /\ UNCHANGED <<running, text_session>>

(* shutdown(), its part for this service. *)
StopHost ==
  /\ running' = FALSE
  /\ text_session' = {}
  /\ text_sync_pending' = (IF running THEN FALSE ELSE text_sync_pending)
  /\ UNCHANGED platQ

Unscheduled ==
  UNCHANGED <<service, text_next_session, native_text, uiQ, live, ghosts>>

UiThread ==
  /\ UiTurn
  /\ \/ \E next \in Steps : Schedule(uiStep, next, "idle") /\ uiStep' = next
     \/ uiStep = "stop" /\ holder = "idle" /\ StopHost /\ uiStep' = "idle"
  /\ Unscheduled /\ UNCHANGED <<holder, task>>
HolderThread ==
  /\ DriverTurn
  /\ \/ \E next \in Steps : Schedule(holder, next, "idle") /\ holder' = next
     \/ holder = "stop" /\ StopHost /\ holder' = "idle"
  /\ Unscheduled /\ UNCHANGED <<uiStep, task>>
TaskThread ==
  /\ \/ \E next \in Steps \cup {"rect"} :
          Schedule(task.pc, next, task.then) /\ task' = Continue(task, next)
     \/ /\ task.pc = "stop" /\ holder = "idle" /\ StopHost
        /\ task' = Continue(task, task.then)
  /\ Unscheduled /\ UNCHANGED <<uiStep, holder>>

shutdown ==
  /\ running /\ holder = "idle" /\ StopHost
  /\ Unscheduled /\ UNCHANGED <<uiStep, holder, task>>
-----------------------------------------------------------------------------
(* HostTextInputProxy, on the UI executor: the locked section of each call *)
(* on the current session (a stale session is ignored, a counter at its    *)
(* limit throws before anything changes); the thread then schedules.       *)
Command ==
  /\ running /\ UiTurn /\ uiStep = "idle"
  /\ commands < MaxCommands
  /\ commands' = commands + 1
  /\ uiStep' = "schedule"
  /\ UNCHANGED <<running, service, text_sync_pending, native_text, holder, task, platQ, uiQ,
                 live, refused>>

start_text_input(v) ==
  /\ text_next_session # MaxSession
  /\ text_next_session' = text_next_session + 1
  /\ text_session' = {[id |-> text_next_session, value |-> v, value_revision |-> 1,
                       rect_revision |-> 0, alive |-> TRUE]}
  /\ Command

NeverExhausted(s) == FALSE
ValueExhausted(s) == s.value_revision = MaxRevision
update_editing_state(v) ==
  /\ \E s \in text_session :
       /\ ~ValueExhausted(s)
       /\ text_session' = {[s EXCEPT !.value = v, !.value_revision = @ + 1]}
  /\ UNCHANGED text_next_session
  /\ Command

stop_text_input ==
  /\ text_session # {}
  /\ text_session' = {}
  /\ UNCHANGED text_next_session
  /\ Command

set_editable_rect ==
  /\ \E s \in text_session :
       /\ s.rect_revision # MaxRevision
       /\ text_session' = {[s EXCEPT !.rect_revision = @ + 1]}
  /\ UNCHANGED text_next_session
  /\ Command

(* The framework drops the client it lent to the session. *)
ClientExpires ==
  /\ \E s \in text_session : s.alive /\ text_session' = {[s EXCEPT !.alive = FALSE]}
  /\ UNCHANGED <<running, service, text_next_session, text_sync_pending, native_text, uiStep,
                 holder, task, platQ, uiQ, live, ghosts>>

(* HostWindowDriver::set_text_input_backend, its locked section. *)
set_text_input_backend(b) ==
  /\ running /\ DriverTurn /\ holder = "idle"
  /\ commands < MaxCommands /\ commands' = commands + 1
  /\ \/ /\ text_service_generation = MaxService
        /\ holder' = "stop"
        /\ UNCHANGED service
     \/ /\ text_service_generation # MaxService
        /\ text_service_generation' = text_service_generation + 1
        /\ text_input_backend' = b
        /\ holder' = "schedule"
        /\ UNCHANGED text_next_callback_generation
  /\ UNCHANGED <<running, session, text_sync_pending, native_text, uiStep, task, platQ, uiQ,
                 live, refused>>
-----------------------------------------------------------------------------
(* synchronize_text_input, first locked section: forget a session whose    *)
(* client is gone, and take a native session that is not the current one   *)
(* in order to stop it.                                                    *)
LiveClients(sessions) == {s \in sessions : s.alive}
NativeIsCurrent(sessions) ==
  /\ native_text.session
  /\ native_text.service = text_service_generation
  /\ \E s \in sessions : native_text.public = s.id

BeginSync ==
  /\ PlatformTurn
  /\ platQ > 0 /\ task = IdleTask
  /\ platQ' = platQ - 1
  /\ text_sync_pending' = FALSE
  /\ text_session' = LiveClients(text_session)
  /\ LET stops == native_text.session /\ ~NativeIsCurrent(text_session')
     IN  /\ task' = [IdleTask EXCEPT !.pc = "decide",
                                     !.service = IF stops THEN native_text.service ELSE 0]
         /\ native_text' = (IF stops THEN NoNative ELSE native_text)
  /\ UNCHANGED <<running, service, text_next_session, uiStep, holder, uiQ, live, ghosts>>

(* What remains of the live sessions once service s was told to stop. *)
Without(s) == {l \in live : l.service # s}

(* The taken session is stopped, then the second locked section decides    *)
(* what to do from a copy of the session.                                  *)
UpdatesValue(s) == native_text.value_revision < s.value_revision
UpdatesRect(s) == native_text.rect_revision < s.rect_revision
NothingToSync == ~running \/ text_session = {} \/ ~text_input_backend

Decide ==
  /\ task.pc = "decide"
  /\ live' = Without(task.service)
  /\ LET copy == [IdleTask EXCEPT !.session = text_session, !.seen = commands,
                                  !.service = text_service_generation]
     IN  \/ /\ NothingToSync
            /\ task' = IdleTask
            /\ UNCHANGED <<text_next_callback_generation, refused>>
         \/ /\ ~NothingToSync /\ ~native_text.session
            /\ text_next_callback_generation # MaxCallback
            /\ text_next_callback_generation' = text_next_callback_generation + 1
            /\ task' = [copy EXCEPT !.pc = "start", !.callback = text_next_callback_generation]
            /\ UNCHANGED refused
         \/ /\ ~NothingToSync /\ ~native_text.session
            /\ text_next_callback_generation = MaxCallback
            /\ task' = IdleTask /\ refused' = commands
            /\ UNCHANGED text_next_callback_generation
         \/ /\ ~NothingToSync /\ native_text.session
            /\ \E s \in text_session :
                 LET value == UpdatesValue(s)
                     rect == UpdatesRect(s)
                 IN  task' = IF value \/ rect
                             THEN [copy EXCEPT !.pc = IF value THEN "value" ELSE "rect",
                                               !.rect = rect]
                             ELSE IdleTask
            /\ UNCHANGED <<text_next_callback_generation, refused>>
  /\ UNCHANGED <<running, text_input_backend, text_service_generation, session,
                 text_sync_pending, native_text, uiStep, holder, platQ, uiQ, commands>>

(* start_text_input of the backend: the native session is accepted if the  *)
(* public session and the backend are still the ones it was started for,   *)
(* and otherwise stopped at once.                                          *)
Accepts(id) ==
  /\ running /\ text_input_backend
  /\ \E s \in text_session : s.id = id
  /\ text_service_generation = task.service
  /\ ~native_text.session
KeptRunning(l) == {}
StoppedAtOnce(l) == {l}

StartSucceeds ==
  /\ task.pc = "start"
  /\ \E s \in task.session :
       LET started == [service |-> task.service, callback |-> task.callback, public |-> s.id,
                       value |-> s.value, rect |-> 0, edited |-> FALSE]
       IN  \/ /\ Accepts(s.id)
              /\ live' = live \cup {started}
              /\ native_text' = [session |-> TRUE, public |-> s.id, service |-> task.service,
                                 callback |-> task.callback,
                                 value_revision |-> s.value_revision, rect_revision |-> 0]
              /\ task' = [IdleTask EXCEPT !.pc = "schedule"]
           \/ /\ ~Accepts(s.id)
              /\ live' = (live \cup {started}) \ StoppedAtOnce(started)
              /\ task' = IdleTask
              /\ UNCHANGED native_text
  /\ UNCHANGED <<running, service, session, text_sync_pending, uiStep, holder, platQ, uiQ,
                 ghosts>>

StartFails ==
  /\ task.pc = "start" /\ BackendMayFail
  /\ task' = IdleTask
  /\ refused' = task.seen
  /\ UNCHANGED <<host, uiStep, holder, platQ, uiQ, live, commands>>
-----------------------------------------------------------------------------
(* update_editing_state and set_editable_rect of the backend; their result *)
(* concerns the native session only if it is still the recorded one.       *)
Recorded == native_text.session /\ native_text.service = task.service

(* A native edit is on its way, or the session changed since the copy. *)
Racing(l) ==
  \/ \E i \in 1 .. Len(uiQ) : uiQ[i].callback = l.callback
  \/ text_session # task.session
HandOver(l, s) == [l EXCEPT !.value = s.value, !.edited = @ /\ Racing(l)]

ValueSucceeds ==
  /\ task.pc = "value"
  /\ \E s \in task.session :
       /\ live' = {IF l.service = task.service THEN HandOver(l, s) ELSE l : l \in live}
       /\ native_text' = IF Recorded THEN [native_text EXCEPT !.value_revision = s.value_revision]
                         ELSE native_text
  /\ task' = Continue(task, IF task.rect THEN "rect" ELSE "idle")
  /\ UNCHANGED <<running, service, session, text_sync_pending, uiStep, holder, platQ, uiQ,
                 ghosts>>

RectSucceeds ==
  /\ task.pc = "rect"
  /\ \E s \in task.session :
       /\ live' = {IF l.service = task.service THEN [l EXCEPT !.rect = s.rect_revision] ELSE l
                     : l \in live}
       /\ native_text' = IF Recorded THEN [native_text EXCEPT !.rect_revision = s.rect_revision]
                         ELSE native_text
  /\ task' = IdleTask
  /\ UNCHANGED <<running, service, session, text_sync_pending, uiStep, holder, platQ, uiQ,
                 ghosts>>

(* A backend that throws may have dropped its session: the native session  *)
(* is no longer taken for current and its callbacks are refused.           *)
CallbackInvalidated == [native_text EXCEPT !.callback = 0]
Invalidated == [native_text EXCEPT !.public = 0, !.callback = 0]
UpdateFails ==
  /\ BackendMayFail
  /\ live' \in {live, Without(task.service)}
  /\ native_text' = IF Recorded THEN Invalidated ELSE native_text
  /\ UNCHANGED <<running, service, session, text_sync_pending, uiStep, holder, platQ, uiQ,
                 commands>>

(* The task schedules itself again after a refused value, and goes on to   *)
(* the rectangle; after a refused rectangle it waits for a command.        *)
ValueFails ==
  /\ task.pc = "value"
  /\ task' = [task EXCEPT !.pc = "schedule", !.then = IF task.rect THEN "rect" ELSE "idle"]
  /\ UpdateFails /\ UNCHANGED refused

RectFails ==
  /\ task.pc = "rect"
  /\ task' = IdleTask
  /\ refused' = task.seen
  /\ UpdateFails

(* complete_platform_shutdown: the recorded session is stopped and the     *)
(* backend released.                                                       *)
complete_platform_shutdown ==
  /\ ~running /\ text_input_backend
  /\ text_input_backend' = FALSE
  /\ native_text' = [native_text EXCEPT !.session = FALSE]
  /\ live' = IF native_text.session THEN Without(native_text.service) ELSE live
  /\ UNCHANGED <<running, text_service_generation, text_next_callback_generation, session,
                 text_sync_pending, uiStep, holder, task, platQ, uiQ, ghosts>>
-----------------------------------------------------------------------------
(* The user edits, or asks for an action, in a live native session: its    *)
(* ForwardingTextInputClient posts to the UI executor, or stops the host.  *)
NativeCallback(l, kind, v) ==
  /\ PlatformTurn /\ task = IdleTask
  /\ live' = IF kind = "value" THEN (live \ {l}) \cup {[l EXCEPT !.value = v, !.edited = TRUE]}
             ELSE live
  /\ \/ /\ Len(uiQ) < MaxCallbacks
        /\ uiQ' = Append(uiQ, [kind |-> kind, public |-> l.public, service |-> l.service,
                               callback |-> l.callback, value |-> v])
        /\ UNCHANGED <<running, text_session, text_sync_pending, platQ>>
     \/ PostsMayFail /\ holder = "idle" /\ StopHost /\ UNCHANGED uiQ
  /\ UNCHANGED <<service, text_next_session, native_text, uiStep, holder, task, ghosts>>

(* The UI task of such a callback: discarded unless it comes from the      *)
(* recorded native session of the current public session and backend.  An  *)
(* edit becomes the session's value, which the native side already has.    *)
FromCurrent(t) ==
  /\ running
  /\ \E s \in text_session : s.id = t.public
  /\ text_service_generation = t.service
  /\ native_text.callback = t.callback

DeliverCallback ==
  /\ UiTurn /\ uiStep = "idle" /\ uiQ # <<>>
  /\ uiQ' = Tail(uiQ)
  /\ LET t == Head(uiQ)
     IN  \/ ~FromCurrent(t) /\ UNCHANGED <<text_session, native_text, uiStep>>
         \/ /\ FromCurrent(t)
            /\ \E s \in text_session :
                 \/ /\ ~s.alive
                    /\ text_session' = {} /\ uiStep' = "schedule"
                    /\ UNCHANGED native_text
                 \/ /\ s.alive /\ t.kind = "value" /\ ValueExhausted(s)
                    /\ uiStep' = "stop"
                    /\ UNCHANGED <<text_session, native_text>>
                 \/ /\ s.alive /\ t.kind = "value" /\ ~ValueExhausted(s)
                    /\ text_session' = {[s EXCEPT !.value = t.value, !.value_revision = @ + 1]}
                    /\ native_text' = [native_text EXCEPT !.value_revision = s.value_revision + 1]
                    /\ UNCHANGED uiStep
                 \/ /\ s.alive /\ t.kind = "action"
                    /\ UNCHANGED <<text_session, native_text, uiStep>>
  /\ UNCHANGED <<running, service, text_next_session, text_sync_pending, holder, task, platQ,
                 live, ghosts>>

Next ==
  \/ UiThread \/ HolderThread \/ TaskThread \/ shutdown
  \/ \E v \in Values : start_text_input(v) \/ update_editing_state(v)
  \/ stop_text_input \/ set_editable_rect \/ ClientExpires
  \/ \E b \in BOOLEAN : set_text_input_backend(b)
  \/ BeginSync \/ Decide \/ StartSucceeds \/ StartFails
  \/ ValueSucceeds \/ ValueFails \/ RectSucceeds \/ RectFails
  \/ complete_platform_shutdown \/ DeliverCallback
  \/ \E l \in live, v \in Values, kind \in {"value", "action"} : NativeCallback(l, kind, v)

Spec == Init /\ [][Next]_vars
-----------------------------------------------------------------------------
(* No native session is leaked: each one alive is the recorded one or the  *)
(* one the task has taken to stop it, and a backend never has two, however *)
(* start, replacement and shutdown cross.                                  *)
NoSessionLeaked ==
  /\ \A l \in live :
       \/ native_text.session /\ native_text.service = l.service
       \/ task.pc = "decide" /\ task.service = l.service
  /\ \A l, m \in live : l.service = m.service => l = m

(* Nothing is scheduled, queued or in progress. *)
AtRest ==
  /\ running /\ ~text_sync_pending
  /\ uiStep = "idle" /\ holder = "idle" /\ task = IdleTask /\ uiQ = <<>>

(* The native session that stands for public session s in the backend. *)
Stands(l, s) ==
  /\ l.public = s.id /\ l.service = text_service_generation
  /\ native_text.callback = l.callback
  /\ l.rect = s.rect_revision

(* At rest the native side follows the framework: no session is alive but  *)
(* for the current one, and the current one is alive with the newest       *)
(* rectangle and value (an edit that crossed an update aside), unless the  *)
(* backend refused a call that had seen the newest command.                *)
NativeFollows ==
  AtRest =>
    /\ \A l \in live : l.service = text_service_generation
                         /\ \E s \in text_session : l.public = s.id
    /\ text_input_backend =>
         \A s \in LiveClients(text_session) :
           \/ refused = commands
           \/ \E l \in live : Stands(l, s) /\ (l.value = s.value \/ l.edited)

(* The native text input session follows the framework's and is never      *)
(* leaked.                                                                 *)
NativeSessionFits == NoSessionLeaked /\ NativeFollows

(* "Start, latest full editing value, latest editable rectangle,           *)
(* replacement, and stop synchronize on the platform executor" (RFC 0002): *)
(* at rest the backend has the latest editing value of the session.        *)
LatestValueSynchronized ==
  AtRest /\ text_input_backend =>
    \A s \in LiveClients(text_session) :
      refused = commands \/ \E l \in live : Stands(l, s) /\ l.value = s.value
=============================================================================
