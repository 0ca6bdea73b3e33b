------------------------- MODULE WaylandConnection -------------------------
(***************************************************************************)
(* WaylandConnection of src/src/platform/wayland_native.cpp: the registry  *)
(* of global objects the compositor advertises and withdraws, the outputs, *)
(* the seat whose pointer and keyboard the one window owns, and the task   *)
(* runner whose eventfd wakes the thread blocked in dispatch().  Protocol  *)
(* versions are left out; a global name is advertised at most once.        *)
(***************************************************************************)
EXTENDS Integers, Sequences, FiniteSets, SequencesExt

CONSTANTS
  Kinds,     \* GlobalKind, "seat" among them
  Names,     \* names of the globals the compositor may advertise
  Kind,      \* [Names -> Kinds]
  NoName,
  Outputs,   \* names of the outputs
  MaxScaleFactor, \* the largest scale factor an output may announce
  ScaleKinds, \* viewporter and fractional_scale: a window has the use of both or neither
  Tasks,     \* tasks other threads post
  BindMayFail

ASSUME ConnectionConstants ==
  /\ "seat" \in Kinds /\ Kind \in [Names -> Kinds] /\ NoName \notin Names
  /\ ScaleKinds \subseteq Kinds \ {"seat"} /\ ScaleKinds # {}
  /\ MaxScaleFactor \in Nat \ {0} /\ Names \cap Outputs = {}
  /\ BindMayFail \in BOOLEAN

VARIABLES
  offers,       \* globals known of each kind, in the order advertised
  bound,        \* the global bound for each kind
  deferred,     \* deferred_removals
  capabilities, \* globals.seat_capabilities
  outputs,      \* the factor of each output bound, 0 of the others
  entered,      \* entered_outputs of the window
  factor,       \* its preferred scale, in whole factors
  fractional,   \* the last scale its fractional_scale object was sent, 0 without one
  window,       \* "none", "live", or "stopped": native_running is false
  children,     \* the window's pointer and keyboard objects
  transport,    \* "ok", or "failing" (callback_failed), then "failed"
  live,         \* compositor: names advertised and not withdrawn
  runner,       \* the task runner: tasks, wake, closed
  owner,        \* the owner thread: "out" of dispatch, "run", "poll", "gone"
  done          \* tasks run, in order

registry == <<offers, bound, deferred, capabilities, outputs, entered, factor, fractional,
              window, children, transport, live>>
runnerVars == <<runner, owner, done>>
connectionVars == <<registry, runnerVars>>

Capability == {"pointer", "keyboard"}
Factors == 1 .. MaxScaleFactor

(* Type invariant. *)
ConnectionTypeOK ==
  /\ offers \in [Kinds -> Seq(Names)] /\ \A k \in Kinds : IsInjective(offers[k])
  /\ bound \in [Kinds -> Names \cup {NoName}] /\ deferred \in [Kinds -> Names \cup {NoName}]
  /\ capabilities \subseteq Capability /\ children \subseteq Capability
  /\ outputs \in [Outputs -> {0} \cup Factors] /\ entered \subseteq Outputs
  /\ factor \in Factors /\ fractional \in {0} \cup Factors
  /\ window \in {"none", "live", "stopped"}
  /\ transport \in {"ok", "failing", "failed"}
  /\ live \subseteq Names \cup Outputs
  /\ runner \in [tasks : Seq(Tasks), wake : BOOLEAN, closed : BOOLEAN]
  /\ owner \in {"out", "run", "poll", "gone"} /\ done \in Seq(Tasks)

ConnectionInit ==
  /\ offers = [k \in Kinds |-> <<>>]
  /\ bound = [k \in Kinds |-> NoName] /\ deferred = [k \in Kinds |-> NoName]
  /\ capabilities = {} /\ outputs = [o \in Outputs |-> 0] /\ entered = {} /\ factor = 1
  /\ fractional = 0 /\ window = "none" /\ children = {} /\ transport = "ok" /\ live = {}
  /\ runner = [tasks |-> <<>>, wake |-> FALSE, closed |-> FALSE]
  /\ owner = "out" /\ done = <<>>
-----------------------------------------------------------------------------
(* The registry.  Events are handled while the transport works. *)
Works == transport = "ok" /\ owner \in {"out", "run"}

(* bind: the first offer of a kind that has none; a failure sets           *)
(* callback_failed.                                                        *)
Binds(b, n) == IF b[Kind[n]] = NoName THEN [b EXCEPT ![Kind[n]] = n] ELSE b
BindFails(b, n) == BindMayFail /\ b[Kind[n]] = NoName

advertise(n) ==
  /\ Works /\ n \notin live /\ ~Contains(offers[Kind[n]], n)
  /\ live' = live \cup {n}
  /\ offers' = [offers EXCEPT ![Kind[n]] = Append(@, n)]
  /\ \/ bound' = Binds(bound, n) /\ UNCHANGED transport
     \/ BindFails(bound, n) /\ transport' = "failing" /\ UNCHANGED bound
  /\ UNCHANGED <<deferred, capabilities, outputs, entered, factor, fractional, window,
                 children, runnerVars>>

(* apply_output_scale: the largest factor of the outputs entered, unless   *)
(* the window has a fractional_scale object.                               *)
OutputScale(o, known) == IF known[o] = 0 THEN 1 ELSE known[o]
ScaleOf(seen, known) == Max({1} \cup {OutputScale(o, known) : o \in seen})
Rescaled(seen, known) ==
  IF window = "none" \/ fractional # 0 THEN factor ELSE ScaleOf(seen, known)

bind_output(o) ==
  /\ Works /\ o \notin live
  /\ live' = live \cup {o}
  /\ \/ outputs' = [outputs EXCEPT ![o] = 1] /\ UNCHANGED transport
     \/ BindMayFail /\ transport' = "failing" /\ UNCHANGED outputs
  /\ UNCHANGED <<offers, bound, deferred, capabilities, entered, factor, fractional, window,
                 children, runnerVars>>

(* Output::handle_scale: a factor beyond the limits is a failure. *)
handle_scale(o, f) ==
  /\ Works /\ outputs[o] # 0
  /\ IF f \in Factors
       THEN /\ outputs' = [outputs EXCEPT ![o] = f]
            /\ factor' = Rescaled(entered, outputs')
            /\ UNCHANGED transport
       ELSE transport' = "failing" /\ UNCHANGED <<outputs, factor>>
  /\ UNCHANGED <<offers, bound, deferred, capabilities, entered, fractional, window, children,
                 live, runnerVars>>

(* handle_surface_enter and handle_surface_leave. *)
surface_enters(o) ==
  /\ Works /\ window = "live" /\ outputs[o] # 0
  /\ entered' = entered \cup {o} /\ factor' = Rescaled(entered', outputs)
  /\ UNCHANGED <<offers, bound, deferred, capabilities, outputs, fractional, window, children,
                 transport, live, runnerVars>>

surface_leaves(o) ==
  /\ Works /\ window = "live" /\ o \in entered
  /\ entered' = entered \ {o} /\ factor' = Rescaled(entered', outputs)
  /\ UNCHANGED <<offers, bound, deferred, capabilities, outputs, fractional, window, children,
                 transport, live, runnerVars>>

handle_fractional_scale(f) ==
  /\ Works /\ fractional # 0
  /\ fractional' = f /\ factor' = f
  /\ UNCHANGED <<offers, bound, deferred, capabilities, outputs, entered, window, children,
                 transport, live, runnerVars>>

(* remove of an output: the window forgets it and rescales. *)
RemovedOutputStaysEntered(o) == entered
WithoutOutput(o) == entered \ {o}

remove_output(o) ==
  /\ Works /\ o \in live
  /\ live' = live \ {o}
  /\ IF outputs[o] # 0
       THEN /\ entered' = IF window = "none" THEN entered ELSE WithoutOutput(o)
            /\ factor' = Rescaled(WithoutOutput(o), outputs)
       ELSE UNCHANGED <<entered, factor>>
  /\ outputs' = [outputs EXCEPT ![o] = 0]
  /\ UNCHANGED <<offers, bound, deferred, capabilities, fractional, window, children, transport,
                 runnerVars>>

(* remove of a global n: its offer is erased and, when its proxy was the   *)
(* selected one, the next offer of the kind is bound, if that works.       *)
Selected(n) == bound[Kind[n]] = n
Replacement(k, n, rest, ok) ==
  IF bound[k] # n THEN bound[k] ELSE IF ok /\ rest # <<>> THEN Head(rest) ELSE NoName
RebindFails(k, n, rest) == BindMayFail /\ bound[k] = n /\ rest # <<>>

HasActiveChildrenNever(k) == FALSE
HasActiveChildren(k) == k = "seat" => children # {}

remove(n, ok) ==
  /\ Works /\ n \in live
  /\ live' = live \ {n}
  /\ IF Selected(n) /\ window # "none" /\ HasActiveChildren(Kind[n])
       THEN /\ ok
            /\ deferred' = [deferred EXCEPT ![Kind[n]] = n]
            /\ UNCHANGED <<offers, bound, capabilities, children, transport>>
       ELSE LET k == Kind[n]
                rest == RemoveFirst(offers[k], n)
            IN  /\ ok \/ RebindFails(k, n, rest)
                /\ transport' = IF ok THEN transport ELSE "failing"
                /\ offers' = [offers EXCEPT ![k] = rest]
                /\ bound' = [bound EXCEPT ![k] = Replacement(k, n, rest, ok)]
                /\ capabilities' = IF Selected(n) /\ Kind[n] = "seat" THEN {} ELSE capabilities
                /\ UNCHANGED <<deferred, children>>
  /\ UNCHANGED <<outputs, entered, factor, fractional, window, runnerVars>>

(* notify_seat: the window's objects follow the capabilities while it      *)
(* runs natively.                                                          *)
SeatChildren(c) == IF window = "live" THEN c ELSE children \cap c

handle_seat_capabilities(c) ==
  /\ Works /\ bound["seat"] # NoName
  /\ capabilities' = c /\ children' = SeatChildren(c)
  /\ UNCHANGED <<offers, bound, deferred, outputs, entered, factor, fractional, window, transport,
                 live, runnerVars>>
-----------------------------------------------------------------------------
(* WaylandWindow::create, for a caller that checked window_ready: with     *)
(* both scale globals the window has a fractional_scale object, whose      *)
(* scale is 1 until the compositor sends another.                          *)
WindowReady == \A k \in Kinds \ (ScaleKinds \cup {"seat"}) : bound[k] # NoName
FractionalAtFirst == IF \A k \in ScaleKinds : bound[k] # NoName THEN 1 ELSE 0

create ==
  /\ Works /\ window = "none" /\ WindowReady
  /\ window' = "live" /\ children' = capabilities
  /\ entered' = {} /\ factor' = 1 /\ fractional' = FractionalAtFirst
  /\ UNCHANGED <<offers, bound, deferred, capabilities, outputs, transport, live, runnerVars>>

(* shutdown_native, from the host's shutdown command: the pointer, the     *)
(* keyboard and the fractional_scale object are destroyed.                 *)
shutdown_window ==
  /\ owner \in {"out", "run"} /\ window = "live"
  /\ window' = "stopped" /\ children' = {} /\ fractional' = 0
  /\ UNCHANGED <<offers, bound, deferred, capabilities, outputs, entered, factor, transport,
                 live, runnerVars>>

(* ~WaylandWindow: a batch of the queued tasks runs, and the removals      *)
(* deferred for the window are carried out unless the transport failed;    *)
(* binding the next offer fails for the kinds `failing'.                   *)
DestroyForgetsRemovals(failing) ==
  failing = {} /\ UNCHANGED <<offers, bound, deferred, capabilities, transport>>
CarryOutRemovals(failing) ==
  LET gone == {k \in Kinds : deferred[k] # NoName}
      rest == [k \in Kinds |-> IF k \in gone THEN RemoveFirst(offers[k], deferred[k])
                                             ELSE offers[k]]
  IN  IF transport = "failed"
        THEN failing = {} /\ UNCHANGED <<offers, bound, deferred, capabilities, transport>>
        ELSE /\ \A k \in failing : k \in gone /\ RebindFails(k, deferred[k], rest[k])
             /\ transport' = IF failing = {} THEN transport ELSE "failing"
             /\ offers' = rest
             /\ bound' = [k \in Kinds |->
                            IF k \in gone THEN Replacement(k, deferred[k], rest[k], k \notin failing)
                                          ELSE bound[k]]
             /\ deferred' = [k \in Kinds |-> NoName]
             /\ capabilities' = IF "seat" \in gone THEN {} ELSE capabilities

destroy(failing) ==
  /\ owner = "out" /\ window # "none"
  /\ window' = "none" /\ children' = {} /\ fractional' = 0
  /\ CarryOutRemovals(failing)
  /\ runner' = [runner EXCEPT !.tasks = <<>>] /\ done' = done \o runner.tasks
  /\ UNCHANGED <<outputs, entered, factor, live, owner>>
-----------------------------------------------------------------------------
(* WaylandTaskRunner: a post signals and enqueues under the mutex. *)
PostWithoutSignal(t) ==
  /\ ~Contains(runner.tasks, t) /\ ~Contains(done, t)
  /\ ~runner.closed
  /\ runner' = [runner EXCEPT !.tasks = Append(@, t)]
  /\ UNCHANGED <<registry, owner, done>>
post(t) ==
  /\ ~Contains(runner.tasks, t) /\ ~Contains(done, t)
  /\ ~runner.closed
  /\ runner' = [runner EXCEPT !.wake = TRUE, !.tasks = Append(@, t)]
  /\ UNCHANGED <<registry, owner, done>>

(* One turn of run_pending's loop: the wake is consumed and a task taken   *)
(* under the mutex; an empty queue ends it, before the poll or at the end  *)
(* of dispatch.                                                            *)
run_pending ==
  /\ owner = "run"
  /\ \/ /\ runner.tasks # <<>>
        /\ runner' = [runner EXCEPT !.wake = FALSE, !.tasks = Tail(@)]
        /\ done' = Append(done, Head(runner.tasks))
        /\ UNCHANGED owner
     \/ /\ runner.tasks = <<>>
        /\ runner' = [runner EXCEPT !.wake = FALSE]
        /\ owner' \in {"out", "poll"}
        /\ UNCHANGED done
  /\ UNCHANGED registry

(* A task throws out of run_pending and dispatch. *)
task_throws ==
  /\ owner = "run" /\ runner.tasks # <<>>
  /\ runner' = [runner EXCEPT !.wake = FALSE, !.tasks = Tail(@)]
  /\ done' = Append(done, Head(runner.tasks))
  /\ owner' = "out"
  /\ UNCHANGED registry

dispatch ==
  /\ owner = "out" /\ transport # "failed"
  /\ owner' = "run"
  /\ UNCHANGED <<registry, runner, done>>

(* poll returns for the wake descriptor, or for display or timer events. *)
wakes ==
  /\ owner = "poll" /\ runner.wake
  /\ owner' = "run"
  /\ UNCHANGED <<registry, runner, done>>
display_ready ==
  /\ owner = "poll" /\ transport = "ok"
  /\ owner' = "run"
  /\ UNCHANGED <<registry, runner, done>>

(* A display error, or callback_failed seen after the events: dispatch     *)
(* throws and the window fails.                                            *)
fail_transport ==
  /\ owner \in {"run", "poll"} /\ (transport = "failing" \/ BindMayFail)
  /\ transport # "failed"
  /\ transport' = "failed" /\ owner' = "out"
  /\ UNCHANGED <<offers, bound, deferred, capabilities, outputs, entered, factor, fractional,
                 window, children, live, runner, done>>

(* ~WaylandConnection, once its window is gone: close_runner, then one     *)
(* batch of the tasks still queued.                                        *)
close_connection ==
  /\ owner = "out" /\ window = "none"
  /\ runner' = [runner EXCEPT !.closed = TRUE, !.tasks = <<>>]
  /\ done' = done \o runner.tasks
  /\ owner' = "gone"
  /\ UNCHANGED registry

ConnectionNext ==
  \/ create \/ shutdown_window
  \/ \E failing \in SUBSET Kinds : destroy(failing)
  \/ \E n \in Names, ok \in BOOLEAN : remove(n, ok)
  \/ run_pending \/ task_throws \/ dispatch \/ wakes \/ display_ready \/ fail_transport
  \/ close_connection
  \/ \E n \in Names : advertise(n)
  \/ \E o \in Outputs : bind_output(o) \/ remove_output(o) \/ surface_enters(o) \/ surface_leaves(o)
                        \/ \E f \in 0 .. MaxScaleFactor + 1 : handle_scale(o, f)
  \/ \E c \in SUBSET Capability : handle_seat_capabilities(c)
  \/ \E f \in Factors : handle_fractional_scale(f)
  \/ \E t \in Tasks : post(t)

ConnectionSpec == ConnectionInit /\ [][ConnectionNext]_connectionVars
-----------------------------------------------------------------------------
(* The proxies follow the compositor's globals: what is bound is still     *)
(* advertised, or its removal is on record until the window that uses it   *)
(* is destroyed; a kind without a proxy has no global left; and the seat's *)
(* objects exist only under a bound seat and as its capabilities say.      *)
GlobalsFollow ==
  transport = "ok" =>
    /\ \A k \in Kinds :
         /\ bound[k] # NoName /\ bound[k] \notin live =>
              window # "none" /\ deferred[k] = bound[k]
         /\ bound[k] = NoName => \A n \in live \cap Names : Kind[n] # k
         /\ deferred[k] # NoName => deferred[k] = bound[k] /\ window # "none"
    /\ capabilities # {} => bound["seat"] # NoName
    /\ window = "live" => children = capabilities
    /\ window # "live" => children = {}

(* A running window's scale is the one its fractional_scale object was     *)
(* last sent, or without such an object the largest factor of the live     *)
(* outputs it is on, whichever outputs come, go and are left.              *)
ScaleFollowsOutputs ==
  /\ window # "none" => \A o \in entered : outputs[o] # 0
  /\ window = "live" =>
       factor = IF fractional # 0 THEN fractional ELSE ScaleOf(entered, outputs)

(* Whatever the registry announces and withdraws while a window lives, the *)
(* connection follows: GlobalsFollow and ScaleFollowsOutputs.              *)
RegistryFollowed == GlobalsFollow /\ ScaleFollowsOutputs

(* No task is lost or left asleep: while the owner blocks in poll a queued *)
(* task has its wake pending, and a closed runner holds no task.           *)
WakePending ==
  /\ owner = "poll" /\ runner.tasks # <<>> => runner.wake
  /\ runner.closed => runner.tasks = <<>>
=============================================================================
