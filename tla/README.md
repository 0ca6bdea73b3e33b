# TLA+ models of dui: host, raster, Wayland and UI runtime

dui is a declarative C++ UI framework. Its core is split over three kinds of
thread: a *platform executor* that owns native objects, a *UI executor* that owns
the element tree, and a *raster worker*. This directory holds TLA+ models of the
code where those threads meet and of the UI runtime between them (builds, lazy
lists, gestures, focus, restoration, retained layers), the TLC runs that check them
and TLAPS proofs of what matters most.

## Inventory

| Part | Code | State | Operations | What is hard | Correct means |
|---|---|---|---|---|---|
| Frame scheduling | `src/src/host.cpp` | demand, armed, delivering, generations, last timestamp | `request_frame`, `frame_pulse`, the frame task, `set_metrics`, `set_visible`, `set_surface_state`, `shutdown` | every entry unlocks before it posts; two executors; failing posts | demand is never lost, one frame at a time, frames match the metrics told |
| Clipboard service | `src/src/host.cpp` | backend, service generation, pending requests | `read_clipboard_text`, `write_clipboard_text`, `complete_clipboard`, `set_clipboard_backend`, cancellation in `shutdown` | answers race replacement, rebinding and shutdown; backends that answer and then throw | every accepted request completes once |
| Cursor service | `src/src/host.cpp` | desired and applied cursor, revision, pending synchronisation | `set_cursor`, the synchronisation task, `set_cursor_backend` | coalescing, a cursor set while the backend is being called, replacement meanwhile | the newest cursor is applied in the end |
| Pointer, focus, delegate | `src/src/host.cpp` | active pointers, delegate generation, focus | `send_pointer`, `send_key`, `set_focused`, `bind_delegate`, `DelegateBinding::reset` | delegate replaced with events queued; rollback of a failed post | a delegate sees down before move, up or cancel |
| Text input proxy | `src/src/host.cpp` | desired session, native session, revisions | `start/update/stop_text_input`, `set_editable_rect`, `synchronize_text_input`, forwarding client | backend called unlocked while sessions change | the native session converges to the public one |
| Accessibility | `src/src/host.cpp`, `src/src/rendering.cpp` | desired tree, publication in flight, acknowledged entries | `publish_semantics`, `retry_semantics`, adapter replacement, bridge transactions | stale acknowledgments, failures, retries | the adapter's tree equals the acknowledged one |
| Raster thread | `src/src/backend.cpp` | submission queue, tickets, stop flag, failure | `submit`, `wait_idle`, `request_stop`, destructor, worker loop | condition variables, stop racing the worker, failures of surface and renderer | every ticket gets one outcome; nobody sleeps for ever |
| Wayland commit engine | `src/src/platform/wayland.cpp` | desired, prepared and applied surface state | configure, scale, prepare, submit, discard, frame done | stale plans, several configures before a commit, 32-bit limits | nothing asked for is forgotten; acknowledgments in order |
| Wayland native window | `src/src/platform/wayland_native.cpp` | engine, frame callback, buffers, host generation | `present`, event handlers, `Control` | failure half way through `present`, cancelled callbacks | the armed frame is pulsed; busy buffers are kept |
| Wayland connection | `src/src/platform/wayland_native.cpp` | registry, deferred removals, outputs, seat, task queue, wake descriptor | global added and removed, output events, window created and destroyed, `post`, `dispatch` | globals withdrawn while in use; a post between the last look at the queue and the poll | the registry and the scale follow the compositor; no task sleeps |
| Wayland input | `src/src/platform/wayland.cpp`, `wayland_native.cpp` | pointer, keyboard, repeat candidate, timer | enter, leave, button, key, repeat timing, capability changes, timer | timers that fire late, handlers that fail half way | presses end; only a held key repeats |
| Frame clock | `src/src/platform/wayland_native.cpp` | last time, epoch | frame callback | a 32-bit clock that wraps | pulses carry the compositor's time |
| Element tree | `src/src/ui.cpp`, `src/include/dui/runtime.hpp`, `views.hpp` | elements, dirty set, dependencies | `render`, `flush`, reconcile, unmount, signals, state | rebuilding while rebuilding, builds that throw | everything mounted was built from current inputs |
| Lazy list | `views.hpp`, `src/src/rendering.cpp`, `ui.cpp` | model, active and dormant children, requested range | model update, scroll, layout, realize | the keep-alive limit, failure half way | exactly the items needed are mounted |
| Restoration | `ui.cpp`, `runtime.hpp` | records waiting, restorable slots | restore, declare, assign, save, unmount | restarts with records nobody claimed yet | no value is lost or saved twice |
| Retained layers | `src/src/rendering.cpp` | marks, chunks and layers of repaint boundaries | layout and paint marks, attach, destroy, layout, record, compose | boxes changed while detached; frames that throw half way | a completed frame shows what is there |
| Gestures and focus | `src/src/input.cpp`, `ui.cpp` | arenas, tap routes, focus tree | add, close, sweep, accept, reject; focus, detach, key dispatch | reentrant and throwing callbacks | one winner, one verdict each; the focus is on an attached node that can have it |
| Timeline | `src/src/ui.cpp` | ring buffer, cursors | record, read, clear | overwriting unread events | the missed count is exact |

The parts not listed here (layout geometry, animation, tasks, inspector output, Win32
adapters) are in `PROJECT.json` with the reason they are left out.

Interaction: a native event enters a `HostWindowDriver` entry on the platform
executor, which changes `HostWindowState` under its mutex and posts a task to the
UI executor that calls the delegate. The framework calls `HostWindow` on the UI
executor, which posts commands to the platform executor; these call the native
control and the service backends. Posts happen after the mutex is released. A
second, recursive mutex (`dispatch_mutex`) keeps driver entries, clipboard calls and
`shutdown` from overlapping; `request_frame`, `set_cursor`, `DelegateBinding::reset`
and the queued tasks do not take it.

## Plan

1. `HostFrame`: the frame protocol between the executors. Done, proved.
2. `RasterThread` and the promise to its callers, `FrameTickets`. Done, proved.
3. `WaylandState`, `WaylandSurface`: the commit engine. Done.
4. `WaylandWindow`: the native window composed with the engine and the host's frame
   protocol. Done.
5. The other host services, each with the part of shutdown that concerns it:
   `HostClipboard`, `HostCursor`, `HostInput` (delegate binding, focus, input). Done.
6. `HostTextInput`, `HostAccessibility` with the bridge. Done.
7. `WaylandInput`, `WaylandConnection`, `FrameClock`. Done.
8. The UI runtime: `Timeline`, `GestureArena`, `FocusManager`, `UiBuild`, `LazyList`,
   `Restoration`, `RenderLayers`. Done.
9. Proofs: frame scheduling, the raster thread, the clipboard and the cursor, everything about
   Wayland, the timeline, restoration and the gesture arenas. Done.
10. Proofs: what a delegate is told, the native text input session, the publication of
   semantics, the focus manager, the element tree and the lazy list. Done.

Left for later: `RenderLayers` stays with TLC as long as it is written with recursive operators.

## Modules and the code they model

Modules keep the names of the code: an action is named after the entry point it
models, a variable after the field. A field `std::optional<T>` is a set with at
most one element, or 0 / -1 where the value never is. Every counter the code checks
against `numeric_limits::max()` has a constant for that limit, small in the runs and
arbitrary in the proofs; these limits are what bounds the runs.

**HostFrame** (`host.cpp`). `state` is the frame part of `HostWindowState`; `uiQ` and
`platQ` are the two task runners; `platStep` and `uiStep` say what an entry that has
released the mutex still has to post. Driver entries: `set_metrics`, `hide` and
`show` (`set_visible`), `set_surface_state`, `frame_pulse`. UI side: `request_frame`
(also from inside the frame callback), `FrameTaskBegin`, `FrameTaskEnd`, `Notify`.
`CoLocated` chooses one thread or two; `PostsMayFail` and `ControlMayFail` let the
external calls throw. The native control is external: it holds the last generation
asked of it (`ctl`) and may still deliver a pulse it had superseded (`late`). The limits of
all three counters are in the guards. `ExhaustionNoticed` is about the frame generation, and
`FrameProgress` would miss a frame if a pulse without a sequence number left were ignored.
Metrics are identified by their generation here, so no property tells a reused metrics
generation from the first; `set_metrics` refuses it and a surface change stops the host.

**RasterThread** (`backend.cpp`). The worker's loop is cut where it releases the
mutex: `Lock` (wait and pop), `Acquire`, `Render`, `Present`, `Finish`, with `Failed`
for the catch blocks; a client thread submits, waits, stops and destroys.
`readyNotified` and the client states model the condition variables, spurious
wakeups included. `FrameTickets` says what a ticket holder is promised: ids in order, one
outcome, none open after a stop that cancels; `TicketsKept` is the refinement.

**WaylandState** holds the commit engine (`WaylandSurfaceState`) as operators on a
record, so that **WaylandSurface** (any serial use of the engine, stale plans kept and
replayed) and **WaylandWindow** use the same text. Scale is a fraction over
`ScaleDenominator` (120 in the code), `MaxInt32` and `MaxUInt32` are the widths.

**WaylandWindow** (`wayland_native.cpp`). `present` is called at the end of each handler
as in the code and is one nondeterministic step over its exits: nothing to present,
failure before the engine accepts the plan, failure after, success. The host is
reduced to what the native side sees (running, armed, generation, metrics) with its
queue; the compositor is external.

**HostClipboard** (`host.cpp`). `holder` is the phase of whoever owns `dispatch_mutex`
(a request calling the backend, a replacement or a shutdown cancelling request after
request, a completion); completions reach the delegate through the UI queue.
The backend is external: it may answer at once, later, twice, from an older
generation, or throw after it has answered; a malformed answer changes nothing
and is left out, as are failing allocations. `given`, `accepted`, `completed` and
`dropped` are history: who was promised an answer and who got one.

**HostCursor** (`host.cpp`). Three threads meet in `schedule_cursor_sync`: the UI
executor in `set_cursor` (`uiStep`), the owner of `dispatch_mutex` in
`set_cursor_backend` or `shutdown` (`driverStep`) and the platform task (`taskStep`), which
releases the mutex for the backend call. The backend may be replaced from inside its
own call, because the driver may be reentered there.

**HostInput** (`host.cpp`). Pointer, key and focus entries, `bind_delegate` and
`DelegateBinding::reset` against the UI queue. `view` is what the bound delegate has
been told, so the properties compare its story with the window's state. Two
consequences of the code that are kept in the model: a delegate whose `window_created`
could not be posted is still told `window_shutting_down`, and a delegate that is bound
while the window is focused is not told `focus_changed(true)`.

**HostTextInput** (`host.cpp`). `text_session` is the framework's session, `native_text`
what the host believes of the native one, `live` the sessions really alive in the
backends with their value and rectangle (external). `task` is the synchronisation task,
cut at each backend call it makes with the mutex released: `BeginSync` and `Decide` are
its locked sections, `Start…`, `Value…` and `Rect…` the calls with what follows them.
A native session is identified by its service, because different backends may hand
out the same id. A callback from a session that was stopped is the same as
one queued before the stop. The rectangle is represented by its revision; `edited`
marks a native session whose user typed and whose edit may have crossed an update, until
an update reaches it with no edit under way; `commands` and `refused` say whether
the backend refused a call that had seen the newest command (after a refused start or
rectangle the code waits for the next one). With two executors a task may work
between its two locked sections on a session that was replaced in between, and then
hands the new session's rectangle to the old native session; the replacement has
scheduled another task, which stops it (`NativeFollows` holds).

**HostAccessibility** (`host.cpp`, `rendering.cpp`). A tree is a function from node ids to
entries; the bridge is the record of its acknowledged tree, its transaction and its
counter, and a batch of changes is the added, updated and removed nodes of
`SemanticsDiffer`. `uiStep` says where the UI executor is between two locked sections of
a publication (dispatch, prepare, post) or of a result (settle, retry), `holder` where the
driver is in `set_accessibility_adapter`, `applying` the batch the adapter is being called
with. The adapter is external: it applies a batch as a whole or throws, may reenter the
driver, and retains `model`; `misled` records a batch that did not fit it, or a `prepare`
over a pending transaction. `CoLocated` chooses one thread or two. Error handlers may
retry, which is a call of `retry_semantics` like any other.

**HostLife** holds what `HostInput` and `HostTextInput` share: `running`, and whether posts may
fail.

**WaylandInput** (`wayland.cpp`, `wayland_native.cpp`). `input` is the window's input state, and a
handler a function from window to window with a flag `ok` for the system calls it makes;
`poll` is the owner thread in `dispatch`, which reads the repeat generation before the poll
and handles the timer after the display's events. `told` is what the host was told, `held` what
the compositor holds down.

**WaylandConnection** (`wayland_native.cpp`). The registry (`offers`, `bound`, `deferred`), outputs and
the scale derived from them, or taken from the window's fractional-scale object (`fractional`)
when it has one, the seat's capabilities and the window's children; `runner` is
the task runner and `owner` the thread in `dispatch`, cut where it releases the runner's
mutex. `offers` is kept per kind in the order announced, because a withdrawn global is
replaced by the first one left of its kind (`Replacement`); `RebindFails` is a replacement that
cannot be bound, which fails the transport. Of `viewporter` and `fractional_scale` a window has
the use of both or neither (`ScaleKinds`). Scales are whole factors. Other threads post at any time. The compositor (`live`)
is external.

**FrameClock** (`wayland_native.cpp`) unwraps the compositor's 32-bit milliseconds as
`Frame::handle_done` does. It is exact for gaps of at most half the range (24.8 days); beyond that the
code loses an epoch by design.

**Timeline** (`ui.cpp`). The completion ring with its retention floor; `cursors` are readers with
what they were given and told they missed. An event is its completion position.

**GestureArena** (`input.cpp`, `dispatch_pointer` of `ui.cpp`). `calls` is the stack of operations under
way: each operation yields the verdicts it still has to deliver, and any of them may
call operations again or throw. `RoutesTaken`, a part of `VerdictsFit`, says that a press the arena
refused leaves no route behind.

**FocusManager** (`input.cpp`, the focus views of `views.hpp`). Nodes by id with their views; `route` is
the stack of key dispatches, each keeping its nodes alive while handlers change the tree.

**UiBuild** (`ui.cpp`, `views.hpp`, `runtime.hpp`). `element` holds each component's element with the prop, the
signals and the kids of its last build, `builds` the stack of builds under way. User code
between the steps of a build sets signals and state. A build that throws leaves the
components it did not finish in `spoiled` until they are built again: the code does not roll
builds back, and RFC 0001 says so. `spoiled` also takes the rest of the batch, which `flush`
drops: those components are no longer queued, so a later flush visits them only when they are
marked again or updated from above. `BuildsFresh` says that they keep their mark, which is what
makes that update build them; it does not say that anything else will.

**LazyList** (`views.hpp`, `rendering.cpp`, `layer_frame` of `ui.cpp`). `list` is the element with its model and
children, `sliver` the render object with the range it asks for, `frame` the rounds of
`layer_frame`. The model and the scroll offset change between frames and in the flush that begins
one. Extents are natural numbers.

**Restoration** (`ui.cpp`, `runtime.hpp`). `waiting` are the records no slot has claimed, `slots` the state
slots; `expected` is history: what each id must be saved as. A restart saves and
restores into a new owner. Values are opaque; a foreign one cannot be decoded.

**RenderLayers** (`rendering.cpp`, `synchronize_render_tree` of `ui.cpp`). `tree` is `RenderOwner` with its boxes:
marks, constraints, offset, chunks and retained layer of each. The operations of the code are
operators from tree to tree (recursive, as in the code), so that an exception is a tree with
`threw` set, and what was done before it stays done. `dormant` are boxes whose element a lazy
list keeps alive: they stay attached until the next synchronization, and can be changed while detached.

## Runs

Every run but the violated ones also checks the `TypeOK` of its module
(`frame_liveness` leaves it to `frame_safety`).

| Run | Question | Properties | Bounds and why they are enough |
|---|---|---|---|
| `frame_safety` | Two executors, everything may fail | `NoLostDemand`, `SingleDelivery`, `DeliveryPending`, `FrameMatchesToldMetrics`, `ExhaustionNoticed` | five generations: two requests, two invalidations and exhaustion overlap; two metrics; two times, so that pulses are equal, later and earlier |
| `frame_liveness` | One thread, nothing fails: does demand lead to a frame? | `FrameProgress` | as above |
| `frame_separate_executors` | The same with two threads | `FrameProgress` (violated, see Findings) | as above |
| `raster` | Two clients against the worker; does everybody return? | `OpenTicketsOwned`, `NoLostWakeup`, `FramesKept` (the refinement of `FrameTickets`, and a surface frame ends once), `EverybodyReturns` (tickets complete, clients return) | three submissions: one rendering, one queued, one arriving around a stop |
| `window` | Native window with failures; does an armed frame hang on the native side? | `ArmedWillBePulsed`, `WindowConsistent` (the host knows the surface, busy buffers are kept), `ArmedFramePulsed` | four host generations: request, cancel, resize that re-arms, second request; three revisions and two configures, two scales |
| `wayland` | Any serial use of the commit engine; the seat's events against the repeat timer; the registry and the task runner; the clock | `SurfaceConsistent`; `HostFollowsSeat`, `RepeatFits`; `RegistryFollowed`, `WakePending`; `ClockUnwraps` | engine: two configures, four revisions and four plans, a plan made stale by each kind of change; scales that are exact, rounded and overflowing. Input: two repeating keys (symmetric) and another; four repeat generations, so that timing, a press and a release or a second press follow each other, and the limit is met. Connection: two seats and another global, so that one is offered while the other's removal is deferred; one global for fractional scales, with and without which a window is created; two outputs and two factors. Clock: a range of 8, gaps up to half of it, time up to 30: three wraps |
| `services` | Clipboard: answers against replacement, rebinding, failing posts and shutdown. Cursor: coalescing with replacement, refusals and failing posts | `ServicesAccounted` (every request is answered once, the newest cursor is not forgotten), `ServicesSettle` | two clipboard backends and two requests of each: a request pending or answered late around a replacement; three delegates, so that one is unbound and one rebound with completions queued; two cursors, three cursor backends, four revisions: a change before, during and after a backend call |
| `delegate` | What one delegate is told, over rebinding and detaching; text input with three threads and native edits, failing calls and posts | `DelegateInformed`, `NativeSessionFits` | two pointers, four driver events (down, move, up, and one more in between), three delegate generations; four text commands or replacements, two public sessions, two backends, three native sessions, three revisions, one callback queued: each kind of change before, during and after each backend call; two interchangeable values (symmetry) |
| `ui` | The UI runtime with user code that reenters it or throws | `ReadsExact`, `VerdictsFit`, `FocusFits`, `BuildsFresh`, `LazyFits`, `RestorationKept`, `LayersFresh` | timeline: a ring of 3 and 7 positions, so that it wraps twice and is exhausted; two pointers, three members and four nested calls; a chain of three focus views, five nodes, two nested dispatches; two trees of three components, a list of two and a list item with an optional child of its own that is given two props, the root and one child comparable, one signal; three list models that reorder, drop and limit keys, three model revisions, one realization round; two elements with two slots, two ids, two values and a foreign one; a repaint boundary two boxes inside another, one viewport change, each box changed once in its life, and five box ids: the four boxes and a second inner boundary in place of one that was unmounted |
| `accessibility` | One thread, with refused batches, retries, replacement and failing posts | `ChangesFit`, `AdapterFollows` | two adapters, three publications, three trees (nothing, a node, that node changed and another), two queued calls: each kind of change meets a batch prepared, queued, refused and retried |
| `accessibility_separate_executors` | The same with two threads and no failing posts | `ChangesFit` (violated, see Findings) | as above |
| `text_input_crossing_edit` | Does the latest value reach the native side on one thread without failures? | `LatestValueSynchronized` (violated, see Findings) | as in `delegate` |

`services`, `delegate`, `wayland` and `ui` each explore several components one at a time
(`explored` is chosen initially and never changes): in the code these components share at
most `running`, and none makes another do anything, so their interleavings would show
nothing that each alone does not. Where components do interact they are composed:
`WaylandWindow` uses the engine of `WaylandState` and the host's frame protocol, `LazyList` the list's
element, its render object and `layer_frame`, `GestureArena` the arena and the routes of
`dispatch_pointer`.

The largest runs explore 6.6 million (`delegate`), 1.4 million (`wayland`) and 1.2 million
states (`ui`).

All runs set `CHECK_DEADLOCK FALSE`: a host that was shut down, a joined raster
thread and counters at their limits are legitimate ends.

## Fairness

`HostFrame`: a queued task is run, a thread that left a locked section performs its
posts, and the native side eventually pulses the generation it holds. The code's
runners are FIFO loops (`WaylandTaskRunner`, the tests' manual runners), and a
compositor answers frame callbacks of a visible surface. No fairness is given to
events (`set_metrics`, `show`, `request_frame`).
`RasterThread`: the worker thread runs, and a client finishes the call it is in; no
spurious wakeup is assumed. `WaylandWindow`: queued commands run, outstanding callbacks
are answered, and the first configure comes. `HostClipboard`: runners run, the owner
of `dispatch_mutex` goes on, and the backend answers what it accepted (strong fairness,
because an answer waits for a mutex that others keep taking). `HostCursor`: each of the
three threads goes on and the backend returns.

## Findings

`frame_separate_executors`: `request_frame` arms a generation under the mutex but
posts it after unlocking, and the frame task re-arms the same way. With two
executors, a request for generation *g* can be queued behind the request for *g+2*
that the platform executor posts after an invalidation. The control keeps the last
request it runs, pulses *g*, `frame_pulse` rejects it as stale, and the armed frame is
never pulsed. RFC 0002 promises progress and says that the contract does not require
the executors to be one thread. The hosts in the repository that use one thread are
not affected (`frame_liveness`).

`text_input_crossing_edit`: the framework updates the value, and before the
synchronisation task runs the user types; the task hands the framework's value to the
backend, and the queued edit then becomes the session's value and is marked as known to
the native side, which has just been given something else. The two keep different
texts until the next command or edit. RFC 0002 says that the latest full editing value is
synchronized.

`accessibility_separate_executors`: replacing the adapter clears the flags of the
publication in flight under the mutex, but the bridge is reset by a UI task posted after
unlocking. With two executors, a UI task that is about to dispatch in between sees the new
adapter with nothing in flight while the bridge still holds the transaction for the old
one: `prepare` throws and the host shuts down; or, without a transaction, the new adapter
gets changes relative to the tree of the old one. `implementation-status.md` says that
the replacement is atomic and gets a complete snapshot. On one thread the reset is
queued before any later publication, and the property holds (`accessibility`). With
two executors the same window has a second consequence, which no property isolates: a
tree published just before the replacement whose task runs after the reset is recorded
but not dispatched, so the new adapter stays empty until the next publication.

## Proofs

TLAPS proves the following for every value of the constants that satisfies the named
assumptions of the modules. These say that limits are positive naturals and that the sets of
clients, keys or times are what they should be; some say more. `FrameClock` takes the
largest millisecond to be odd (it is 2^32 - 1); `Timeline` takes the capacity, a `size_t` for a
vector of events, to be at most the 64-bit position limit; `WaylandState` relates the widths
as the code's types do (`MaxInt32` and the denominator are at most `MaxUInt32`, which is at
most their product). `HostInput` takes the pointers to be a finite set of natural numbers (ids),
`HostAccessibility` trees to be functions on nodes, `LazyList` the keys of a model to be distinct
(the code that makes a `LazyForEach` refuses others), and `UiBuild` that the components of a view form a
tree: no kid of two components, and no cycle.

* `FrameProofs` on `HostFrame`: `TypeCorrect`, `DemandNeverLost`, `OneFrameAtATime`,
  `DeliveryNeverSticks`. The inductive invariant is `FrameInv`, that is `TypeOK`,
  `SingleDelivery`, `DeliveryPending` and `NoLostDemand` together: `NoLostDemand` needs
  `SingleDelivery` to know that a pulse turns an armed frame into a delivery, and
  `SingleDelivery` needs the type of the queues. Frames in a queue are counted as the
  set of their positions, with one lemma for each way a queue changes.
  `ExhaustionAlwaysNoticed` is inductive with the type invariant alone.
  `FrameMetricsTold` (a frame carries the metrics the delegate was told last) needs
  `ToldInv`: of the tasks queued or about to be posted, the news of metrics are in order and
  newer than what was told, the last of them is the current metrics, and no frame is older
  than the news before it or newer than the news behind it.
* `FrameProofs` on `RasterThread`: `RasterTypeCorrect`, `WakeupsNeverLost`, `TicketsAlwaysOwned`, `PromiseKept`. The
  inductive invariant is `QueueInv`: the queue is strictly ordered and below
  `next_frame`, the worker holds a ticket exactly between popping and finishing,
  unused tickets are unused, and open tickets are the queued ones and the held one.
  The order is needed to know that the popped ticket is not also queued. `PromiseKept` is the
  refinement: with the tickets below `next_frame` as the tickets of `FrameTickets` and `stopping` as its
  `closed`, every step is a step of `FrameTickets` or changes neither; a stop keeps the oldest open
  ticket because the held one is below the queue. Its second half, that each surface frame
  ends once, needs `FramesEnd`: a frame is active only while it is rendered or presented.
* `WaylandStateProofs` holds the lemmas about the commit engine that both its users need:
  what each operator of `WaylandState` yields, field by field.
* `WaylandProofs` on `WaylandSurface`: `TypeCorrect`, `SurfaceStaysConsistent`. `SurfaceInv` adds to
  `SurfaceConsistent` that something is prepared only once a configure was received and
  that nothing is acknowledged that was not received: without the first, a submitted plan
  could acknowledge nothing.
* `WaylandWindowProofs`: `WindowTypeCorrect`, `ArmedAlwaysPulsed`,
  `WindowStaysConsistent`. Every handler ends in `present`, so the argument has two halves:
  `Ready` is what a handler leaves behind for `present`, and each exit of `present` turns
  `Ready` into `WindowInv`. While the host runs, `WindowInv` says that the callback outstanding is
  the one the surface waits for (`Linked`), that what is not shown is marked as pending or
  dirty (`Tracked`), and that the request for the armed frame is the last command queued, was
  made and waits, or has its callback (`Requested`); that an armed frame is pulsed
  follows from the three together and from none of them alone.
* `WaylandProofs` on `WaylandInput`: `InputTypeCorrect`, `HostAlwaysFollowsSeat`, `RepeatAlwaysFits`. Handlers are functions
  from window to window; one lemma per handler says what it leaves of the repeat state
  and the seat, and `InputInv` adds to the two properties that the native side outlives the
  host and that a window without the focus holds no key.
* `WaylandProofs` on the rest: `ConnectionTypeCorrect`, `RegistryAlwaysFollowed`, `WakeAlwaysPending`, and
  `ClockAlwaysUnwraps` of `FrameClock`. `ConnectionInv` says, while the transport works, that the
  offers of a kind are the live globals and the one whose removal is deferred, that the
  bound one is among them and a kind without one has no offer, and that the children are what the seat can do;
  in any state, that a running window's scale is that of its fractional-scale object or the largest
  factor among the live outputs entered, which exists because the naturals are well founded (`LeastExists`). `ClockInv` says that a pulse is epoch plus
  last milliseconds. `WaylandTypeCorrect` is about the four parts as the run `wayland` puts them side by
  side: each behaves as it does on its own.
* `HostServicesProofs`: `RequestsAnsweredOnce`, `NewestCursorKept`, and `ServicesTyped` and `ServicesKeepAccount` for
  the two services with one `running`. `ClipboardInv` says where a request can be:
  pending, taken by the owner of `dispatch_mutex`, carried by one UI task, or done, and which of
  these exclude each other (`OneRequest`); a request being answered is pending and carried at once
  between the post and the erase, which is why `CompletedOnce` alone is not inductive. The UI task
  of `shutdown` is the last of its queue. `CursorInv` says, while the host runs, that the current
  backend has exactly one task (in a thread about to post, queued or calling) when the mark
  is set and none otherwise, that no task is for a later service than the current one, and that
  the newest cursor is applied, refused or about to be scheduled.
* `UiProofs`: `TimelineTypeCorrect`, `ReadsAlwaysExact`, `RestorationAlwaysKept`, `OneVerdictEach`. `TimelineInv`: the ring
  holds position floor + i at its i-th place, each reader was given everything retained below its
  cursor, and given and missed add up to the cursor; the last alone is not inductive,
  because a read counts as missed what lies below the floor. `RestorationInv`: ids are
  unique among the mounted slots, what a slot claimed is no longer waiting, and every
  expected value is in a slot or waiting; an element that is not mounted has no state.
  `ArenaInv` says where a waiting member is: in one arena, or due once in one resolution of the
  stack; and that the winner of an arena, told or still due, leaves no arena of that name
  behind. `FitEffect` is what all operations have in common (they move members from the arena to the verdicts),
  and every step of the specification is made of four: the effect of an operation is moved to the stack, the
  next verdict is given, a resolution ends, a member joins. `Perform` is the first
  followed by the second, or by the third when nobody is due, so each is proved of a state given by
  parameters instead of the variables. `RoutesTaken` is inductive beside it: a step keeps or drops a route, or
  gives one a new member, which `ArenaInv` places in no arena.
* `UiProofs`, lazy list: `LazyTypeCorrect`, `LazyAlwaysFits`. `LazyInv`: active and dormant children are disjoint, are the
  live ones and respect the keep-alive limit (`Family`); children of the current revision in the number the render
  object believes are its range of the model (`Mounting`); a clean render object asks for exactly
  what it lacks (`Asking`), so that a frame that settled with nothing asked has what it needs. The property says nothing
  of the request, which is why it is not inductive.
* `UiProofs`, element tree: `BuildTypeCorrect`, `BuildsAlwaysFresh`. `BuildInv` is `TreeOK`: dependencies and subscriptions are each
  other's inverse, whatever is out of date is dirty, in the batch or on the stack of builds, the builds on the stack lie
  inside one another, and the kids of a component built and not spoiled have the props of its view. The steps of a build recurse over the
  tree; what they do is proved from what they leave of each component.
* `UiProofs`, focus: `FocusTypeCorrect`, `FocusAlwaysFits`. `FocusInv`: every node is younger than its parent, which is alive, and the
  focused node is alive and can have the focus (`ManagerOK`); the nodes of mounted views form the tree of the views
  (`Hung`); the nodes alive are those of views and of dispatches under way (`Referenced`). The first is what makes the
  search for a fallback end, and the last what keeps a node of a running dispatch.
* `HostDelegateProofs` on `HostInput`: `DelegateTypeCorrect`, `DelegateAlwaysInformed`. `DelegateInv` says that the callbacks queued for the bound
  delegate lead from its view to a view that agrees with the window as the owner of `dispatch_mutex` found it
  (`Through`), and that what this owner is about to post leads on to one that agrees with the window as it is (`Placed`);
  if the post fails, the pointers put back are those the delegate knows. `Orderly` says that no task is for a later
  delegate than the bound one and that the task of shutdown is the last. `DelegateInformed` compares view and window
  only when nothing is queued, so it says nothing about the steps in between.
* `HostDelegateProofs` on `HostTextInput`: `TextInputTypeCorrect`, `NativeSessionAlwaysFits`, on one thread or two, and `HostTypeCorrect` for both
  components with one `running`. In any state at most one native session is alive, and it is recorded or being
  stopped (`Kept`). While the host runs (`Sound`): one token stands for a synchronisation wanted, in a thread about to post it
  or in the queue (`Posted`); callbacks carry generations handed out before (`Called`); the task's copy and the native
  session are never newer than the framework's session (`Copied`, `Taken`, `Versions`), so that equal ids mean the same session; and
  when no command is on its way (`Quiet`), each phase of the task knows what it needs to leave the native session
  right (`Follows`). `Quiet` ends with every command and comes back only when a task begins, which is
  why a command may leave `Follows` broken.
* `HostAccessibilityProofs`: `AccessibilityTypeCorrect`, and for one thread (`CoLocated`, with two it is false, see Findings)
  `ChangesAlwaysFit` and `AdapterAlwaysFollows`. At most one batch is under way, and the
  adapter's tree is the acknowledged one or that with the unanswered batch applied. While the service is alive, the
  tasks of the queues are ordered by adapter, and either a reset is awaited and nothing older can still be applied (`AwaitClean`), or the
  batch in flight is in exactly one place (being posted, queued, with the adapter, in a result)
  and every difference between the desired and the acknowledged tree is accounted for by it or by a retry (`Current`).

The library's induction theorems have an operator as a parameter, which the installed provers cannot instantiate.
Where a proof needs induction (the order of cancelled pointers, what a sequence of callbacks leads to, a fallback
along parents), it goes through sets of natural numbers instead: a set with 0 and every successor is `Nat`
(`SetInduction`, from the well-foundedness of the naturals), and a recursive function is shown to exist as a function on an
initial segment.

Only model-checked:

* the liveness properties (fairness and ENABLED are outside what TLAPS proves here);
* `RenderLayers` with `LayersFresh`, whose operators are mutually recursive over the tree of boxes: `tlapm` does not support
  recursive operators;
* `UiTypeOK` as a conjunction over the components, because it includes `RenderLayers`; the type invariant of each of the
  other components is proved (as part of `RestorationInv` for restoration).

## What is not modelled

* Layout geometry, hit testing, painting and animation values are floating-point, out of TLC's
  reach. `LazyList` and `RenderLayers` keep the protocol around them over small numbers; clips, paint
  ranges and the layout of slivers are left out of `RenderLayers`.
* Pointer positions and motion, key names, modifiers, keymaps, the title and decorations of a
  native window, and protocol versions are data that no modelled decision depends on.
* The environment and the order of a list's children are left out of `UiBuild`; the frame that
  `dispatch_pointer` produces before it looks for a target is left out of `GestureArena`.
* The task and executor templates move a coroutine handle and one cancellation flag on one
  thread; the inspector and the tooling output are formatting; the Win32 adapters are COM
  glue over host services.

`PROJECT.json` lists each part with its status. Control commands queued
before shutdown are refused by a single guard (`ControlLive`), which no property restates.
