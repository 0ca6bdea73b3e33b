--------------------------- MODULE WaylandWindow ---------------------------
(***************************************************************************)
(* The native Wayland window (WaylandWindow::Impl in src/src/platform/     *)
(* wayland_native.cpp) between two neighbours: the compositor, whose       *)
(* events are its handlers, and the host window, whose control commands    *)
(* reach it in order through the one thread's task runner and whose driver *)
(* it calls.  Every handler runs to its end before the next.  The surface  *)
(* engine is WaylandState; the host is reduced to what HostFrame shows of  *)
(* it on co-located executors: the armed generation and the commands it    *)
(* posts.                                                                  *)
(***************************************************************************)
EXTENDS WaylandState, Sequences

CONSTANTS
  InitialExtent,
  Staged,            \* sizes a toplevel configure may carry
  Scales,            \* preferred scales, over ScaleDenominator
  MaxSerial,         \* bound on the configures received
  MaxHostGeneration, \* limit of the host's frame_generation
  NativeMayFail      \* TRUE: buffers and frame callbacks may fail to be created

ASSUME WindowConstants ==
  /\ InitialExtent \in Extent
  /\ Staged \subseteq StagedExtent
  /\ Scales \subseteq Scale
  /\ MaxSerial \in Serial
  /\ MaxHostGeneration \in Nat
  /\ NativeMayFail \in BOOLEAN

VARIABLES
  surface,               \* surface_state
  frame,                 \* the Frame whose callback is outstanding
  host_frame_generation, \* generation of the last request_frame
  native_running,
  buffers,               \* generations of the Buffers kept
  released,              \* those of them the compositor has released
  serial, acked,         \* compositor: configure serials sent and acknowledged
  busy,                  \* compositor: buffers it may still read
  host,                  \* host window: running, armed, generation, metrics
  hostQ                  \* host commands queued on the task runner

native == <<surface, frame, host_frame_generation, native_running, buffers, released>>
compositor == <<serial, acked, busy>>
vars == <<native, compositor, host, hostQ>>

HostGeneration == 0 .. MaxHostGeneration
Generation == 1 .. MaxGeneration
Frame == [state_generation : Generation, host_generation : HostGeneration]
Metrics == [extent : Extent, scale : Scale]
Host == [running : BOOLEAN, armed : BOOLEAN, generation : HostGeneration, metrics : Metrics]
Command == [kind : {"control", "shutdown"}, cancel : BOOLEAN, gen : HostGeneration]
Control(cancel, gen) == [kind |-> "control", cancel |-> cancel, gen |-> gen]
ShutdownCommand == [kind |-> "shutdown", cancel |-> TRUE, gen |-> 0]

(* Type invariant. *)
TypeOK ==
  /\ surface \in SurfaceState /\ AtMostOne(surface.pending_configure)
  /\ surface.prepared = {}
  /\ frame \subseteq Frame /\ AtMostOne(frame)
  /\ host_frame_generation \in HostGeneration
  /\ native_running \in BOOLEAN
  /\ buffers \subseteq Generation /\ released \subseteq buffers
  /\ serial \in 0 .. MaxSerial /\ acked \in 0 .. serial
  /\ busy \subseteq Generation
  /\ host \in Host /\ hostQ \in Seq(Command)

(* WaylandWindow::create, up to the initial bufferless commit. *)
Init ==
  /\ \E fractional \in BOOLEAN :
       surface = BeginInitialCommit(NewSurface(InitialExtent, fractional))
  /\ frame = {} /\ host_frame_generation = 0 /\ native_running = TRUE
  /\ buffers = {} /\ released = {}
  /\ serial = 0 /\ acked = 0 /\ busy = {}
  /\ host = [running |-> TRUE, armed |-> FALSE, generation |-> 0,
             metrics |-> [extent |-> InitialExtent, scale |-> ScaleDenominator]]
  /\ hostQ = <<>>
-----------------------------------------------------------------------------
(* The host window.  Stopped(h) is its shutdown and WithMetrics(h, m) an   *)
(* invalidation that keeps an armed frame's demand and arms it again under *)
(* a new generation; StopPosts and MetricsPosts give the commands.         *)
Stopped(h) == [h EXCEPT !.running = FALSE, !.armed = FALSE]
StopPosts(h, q) == IF h.running THEN Append(q, ShutdownCommand) ELSE q

Pulsed(h, g) == IF h.running /\ h.armed /\ h.generation = g
                  THEN [h EXCEPT !.armed = FALSE] ELSE h

(* HostWindowDriver::set_metrics: nothing for unchanged metrics, and the   *)
(* end of the host when its generations run out.                           *)
MetricsChange(h, m) == h.running /\ h.metrics # m
NextGeneration(h) == IF h.armed THEN h.generation + 2 ELSE h.generation + 1
Exhausted(h) == NextGeneration(h) > MaxHostGeneration
WithMetrics(h, m) ==
  IF ~MetricsChange(h, m) THEN h
  ELSE IF Exhausted(h) THEN Stopped([h EXCEPT !.metrics = m])
  ELSE [h EXCEPT !.metrics = m, !.generation = NextGeneration(h)]
MetricsPosts(h, m, q) ==
  IF ~MetricsChange(h, m) THEN q
  ELSE IF Exhausted(h) THEN StopPosts(h, q)
  ELSE IF h.armed THEN Append(q, Control(TRUE, NextGeneration(h))) ELSE q
-----------------------------------------------------------------------------
(* present(), from the surface state s, callback f, host h and queue q its *)
(* caller leaves:                                                          *)
(* released buffers go, and the plan there is to commit is prepared,       *)
(* allocated and submitted; a failure on the way stops the host, after     *)
(* submission with the plan consumed, before it with the plan discarded.   *)
PurgeAll == {}
PurgeReleased == buffers \ released

NothingToPresent(s, f, h, q) ==
  /\ ~ToPrepare(s)
  /\ surface' = s /\ frame' = f /\ host' = h
  /\ hostQ' = q
  /\ buffers' = PurgeReleased /\ released' = {}
  /\ UNCHANGED <<acked, busy>>

PresentFailsUnsubmitted(s, f, h, q) ==
  /\ ToPrepare(s)
  /\ \/ PrepareOverflows(s) /\ surface' = s
     \/ /\ ~PrepareOverflows(s) /\ NativeMayFail
        /\ surface' = Discard(Prepare(s), Plan(s))
  /\ frame' = f /\ host' = Stopped(h) /\ hostQ' = StopPosts(h, q)
  /\ buffers' = PurgeReleased /\ released' = {}
  /\ UNCHANGED <<acked, busy>>

Acknowledged(c) == IF c.configure_serial = {} THEN acked ELSE CHOOSE n \in c.configure_serial : TRUE

PresentFailsSubmitted(s, f, h, q) ==
  /\ ToPrepare(s) /\ ~PrepareOverflows(s) /\ NativeMayFail
  /\ Plan(s).request_frame_callback
  /\ surface' = Submit(Prepare(s), Plan(s))
  /\ acked' = Acknowledged(Plan(s))
  /\ frame' = f /\ host' = Stopped(h) /\ hostQ' = StopPosts(h, q)
  /\ buffers' = PurgeReleased /\ released' = {}
  /\ UNCHANGED busy

CommittedFrameOfLastRequest(c, f) ==
  IF c.request_frame_callback
    THEN {[state_generation |-> c.generation, host_generation |-> host_frame_generation]} ELSE f
CommittedFrame(c, f) ==
  IF c.request_frame_callback
    THEN {[state_generation |-> c.generation, host_generation |-> host_frame_generation']} ELSE f
CommittedMetrics(c) == [extent |-> c.logical_extent, scale |-> c.scale_numerator]

Presents(s, f, h, q) ==
  /\ ToPrepare(s) /\ ~PrepareOverflows(s)
  /\ LET c == Plan(s)
         m == CommittedMetrics(c)
     IN  /\ surface' = Submit(Prepare(s), c)
         /\ acked' = Acknowledged(c)
         /\ frame' = CommittedFrame(c, f)
         /\ buffers' = PurgeReleased \cup {c.generation} /\ released' = {}
         /\ busy' = busy \cup {c.generation}
         /\ host' = WithMetrics(h, m) /\ hostQ' = MetricsPosts(h, m, q)

present(s, f, h, q) ==
  \/ NothingToPresent(s, f, h, q) \/ Presents(s, f, h, q)
  \/ PresentFailsUnsubmitted(s, f, h, q) \/ PresentFailsSubmitted(s, f, h, q)

fail_native ==
  /\ host' = Stopped(host) /\ hostQ' = StopPosts(host, hostQ)
  /\ UNCHANGED <<surface, frame, buffers, released, acked, busy>>
-----------------------------------------------------------------------------
(* Compositor events. *)
handle_toplevel_configure(w, h) ==
  /\ native_running
  /\ surface' = StageExtent(surface, w, h)
  /\ UNCHANGED <<frame, host_frame_generation, native_running, buffers, released,
                 compositor, host, hostQ>>

handle_surface_configure ==
  /\ native_running /\ serial < MaxSerial
  /\ UNCHANGED <<host_frame_generation, native_running>>
  /\ serial' = serial + 1
  /\ IF CanAdvance(surface)
       THEN present(Configure(surface, serial + 1), frame, host, hostQ) ELSE fail_native

(* handle_fractional_scale, or the output scale of a window without        *)
(* fractional scaling (apply_output_scale), a multiple of the denominator. *)
scale_changed(n) ==
  /\ native_running
  /\ UNCHANGED <<host_frame_generation, native_running, serial>>
  /\ surface.fractional_scale_supported \/ n % ScaleDenominator = 0
  /\ IF n = surface.desired_scale THEN present(surface, frame, host, hostQ)
     ELSE IF CanAdvance(surface) THEN present(Rescale(surface, n), frame, host, hostQ)
     ELSE fail_native

handle_release(b) ==
  /\ native_running /\ b \in busy
  /\ busy' = busy \ {b}
  /\ released' = released \cup {b}
  /\ UNCHANGED <<surface, frame, host_frame_generation, native_running, buffers, serial,
                 acked, host, hostQ>>

(* Frame::handle_done: pulse the host, then present what waited for the    *)
(* callback.                                                               *)
handle_done ==
  /\ native_running
  /\ UNCHANGED <<host_frame_generation, native_running, serial>>
  /\ \E f \in frame :
       IF surface.frame_callback_generation = f.state_generation
         THEN present(FrameDone(surface, f.state_generation), {},
                      Pulsed(host, f.host_generation), hostQ)
         ELSE /\ frame' = {}
              /\ UNCHANGED <<surface, buffers, released, acked, busy, host, hostQ>>

(* handle_preferred_buffer_scale of a nonpositive factor and a configure   *)
(* with a negative size are failures of the compositor.                    *)
CompositorError ==
  /\ NativeMayFail /\ native_running /\ host.running
  /\ fail_native
  /\ UNCHANGED <<host_frame_generation, native_running, serial>>
-----------------------------------------------------------------------------
(* Control commands, run by the task runner: inert once the host stopped,  *)
(* else cancel_frame, then request_frame.                                  *)
CancelKeepsCallback(s, f) == s
cancel_frame(s, f) ==
  IF f = {} THEN s ELSE FrameDone(s, (CHOOSE x \in f : TRUE).state_generation)

RunControl ==
  /\ hostQ # <<>> /\ Head(hostQ).kind = "control"
  /\ LET task == Head(hostQ)
         s == IF task.cancel THEN cancel_frame(surface, frame) ELSE surface
         f == IF task.cancel THEN {} ELSE frame
     IN  \/ /\ ~host.running
            /\ hostQ' = Tail(hostQ)
            /\ UNCHANGED <<native, acked, busy, host>>
         \/ /\ host.running /\ task.gen = 0
            /\ surface' = s /\ frame' = f /\ hostQ' = Tail(hostQ)
            /\ UNCHANGED <<host_frame_generation, buffers, released, acked, busy, host>>
         \/ /\ host.running /\ task.gen # 0
            /\ host_frame_generation' = task.gen
            /\ present(DemandFrame(s), f, host, Tail(hostQ))
  /\ UNCHANGED <<native_running, serial>>

(* cancel_frame and Control::shutdown, from complete_platform_shutdown;    *)
(* destroying the window ends the same way, with the queue drained.        *)
shutdown_native ==
  /\ native_running /\ ~host.running
  /\ native_running' = FALSE
  /\ surface' = cancel_frame(surface, frame)
  /\ frame' = {} /\ buffers' = {} /\ released' = {} /\ busy' = {}
  /\ UNCHANGED <<host_frame_generation, serial, acked, host>>

RunShutdown ==
  /\ hostQ # <<>> /\ Head(hostQ).kind = "shutdown"
  /\ hostQ' = Tail(hostQ)
  /\ shutdown_native
-----------------------------------------------------------------------------
(* Steps of the host that HostFrame details: demand arms a frame, hiding   *)
(* the window cancels it, and the host stops.                              *)
HostArms ==
  /\ host.running /\ ~host.armed /\ host.generation < MaxHostGeneration
  /\ host' = [host EXCEPT !.armed = TRUE, !.generation = @ + 1]
  /\ hostQ' = Append(hostQ, Control(FALSE, host.generation + 1))
  /\ UNCHANGED <<native, compositor>>

HostHides ==
  /\ host.running /\ host.armed /\ host.generation < MaxHostGeneration
  /\ host' = [host EXCEPT !.armed = FALSE, !.generation = @ + 1]
  /\ hostQ' = Append(hostQ, Control(TRUE, 0))
  /\ UNCHANGED <<native, compositor>>

HostStops ==
  /\ host.running
  /\ host' = Stopped(host) /\ hostQ' = StopPosts(host, hostQ)
  /\ UNCHANGED <<native, compositor>>

Compositor ==
  \/ handle_surface_configure \/ handle_done \/ CompositorError
  \/ \E e \in Staged : handle_toplevel_configure(e.width, e.height)
  \/ \E n \in Scales : scale_changed(n)
  \/ \E b \in busy : handle_release(b)
Runner == RunControl \/ RunShutdown
Next == Compositor \/ Runner \/ HostArms \/ HostHides \/ HostStops

(* The thread runs queued tasks and dispatches events; the compositor      *)
(* configures a window that awaits its first configure and answers every   *)
(* frame callback.                                                         *)
Fairness ==
  /\ WF_vars(Runner) /\ WF_vars(handle_done)
  /\ WF_vars(~HasConfigure(surface) /\ handle_surface_configure)

Spec == Init /\ [][Next]_vars
FairSpec == Spec /\ Fairness
-----------------------------------------------------------------------------
(* Once the commands posted so far have run, an armed frame will be        *)
(* pulsed: its own callback is outstanding, or the generation is the next  *)
(* to ask for one and, on a configured surface, waits for a callback that  *)
(* is outstanding.                                                         *)
ArmedWillBePulsed ==
  host.running /\ host.armed /\ hostQ = <<>> =>
    \/ \E f \in frame : f.host_generation = host.generation
    \/ /\ surface.frame_demand /\ host_frame_generation = host.generation
       /\ HasConfigure(surface) => frame # {}

(* Between handlers the host knows the size and scale of the content on    *)
(* screen and no configure waits for its acknowledgment.                   *)
HostKnowsSurface ==
  native_running /\ host.running /\ HasConfigure(surface) =>
    /\ surface.configured /\ acked = serial /\ ~surface.dirty
    /\ host.metrics = [extent |-> surface.applied_extent, scale |-> surface.applied_scale]
    /\ surface.applied_extent = surface.desired_extent
    /\ surface.applied_scale = EffectiveScale(surface)

(* A buffer the compositor may still read is kept until it is released or  *)
(* the window is torn down.                                                *)
BusyBuffersKept == busy \subseteq buffers \ released

(* Between handlers nothing of the window is forgotten: HostKnowsSurface   *)
(* and BusyBuffersKept, whichever step of present failed.                  *)
WindowConsistent == HostKnowsSurface /\ BusyBuffersKept

(* An armed frame is pulsed, cancelled or overtaken by a newer generation; *)
(* demand does not hang on the native side.                                *)
ArmedFramePulsed ==
  \A g \in HostGeneration :
    (host.running /\ host.armed /\ host.generation = g)
      ~> ~(host.running /\ host.armed /\ host.generation = g)
=============================================================================
