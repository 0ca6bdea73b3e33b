------------------------- MODULE WaylandWindowProofs -------------------------
(***************************************************************************)
(* The native window between compositor and host: proofs about             *)
(* WaylandWindow, for any sizes, scales and limits, whether or not native  *)
(* objects fail to be created.                                             *)
(***************************************************************************)
EXTENDS WaylandWindow, WaylandStateProofs

(* What holds of a surface s with callback f and a running host h with     *)
(* queue q, when n serials were received, a acknowledged and k is the      *)
(* generation of the last request_frame.                                   *)
(*                                                                         *)
(* The callback outstanding is the one the surface waits for. *)
Linked(s, f) ==
  /\ s.frame_callback_generation = 0 <=> f = {}
  /\ \A x \in f : x.state_generation = s.frame_callback_generation

(* What is not yet shown is marked: as pending configure or as dirty. *)
Tracked(s, m, a, n) ==
  /\ s.pending_configure # {} => s.pending_configure = {n}
  /\ s.pending_configure = {} /\ s.configured =>
       /\ a = n
       /\ ~s.dirty => /\ m = [extent |-> s.applied_extent, scale |-> s.applied_scale]
                      /\ s.applied_extent = s.desired_extent
                      /\ s.applied_scale = EffectiveScale(s)
  /\ s.pending_configure = {} /\ s.dirty => s.configured

(* The request for the armed frame is the last command queued, was made    *)
(* and waits, or has its callback.                                         *)
Requested(s, f, h, q, k) ==
  h.armed =>
    /\ h.generation # 0
    /\ q # <<>> => q[Len(q)].gen = h.generation
    /\ q = <<>> => \/ \E x \in f : x.host_generation = h.generation
                   \/ s.frame_demand /\ k = h.generation

RunningInv ==
  /\ native_running
  /\ Linked(surface, frame) /\ Tracked(surface, host.metrics, acked, serial)
  /\ Requested(surface, frame, host, hostQ, host_frame_generation)
  /\ ArmedWillBePulsed
  /\ surface.pending_configure = {} /\ ~surface.dirty

WindowInv ==
  /\ TypeOK /\ BusyBuffersKept
  /\ surface.initial_commit_started
  /\ surface.pending_configure \subseteq 0 .. serial
  /\ host.running => RunningInv

(* What a handler hands to present(). *)
Ready(s, f, h, q, a, n, k) ==
  /\ s \in SurfaceState /\ AtMostOne(s.pending_configure) /\ s.prepared = {}
  /\ s.initial_commit_started /\ s.pending_configure \subseteq 0 .. n
  /\ f \subseteq Frame /\ AtMostOne(f)
  /\ h \in Host /\ q \in Seq(Command) /\ k \in HostGeneration
  /\ n \in 0 .. MaxSerial /\ a \in 0 .. n
  /\ h.running =>
       /\ Linked(s, f) /\ Tracked(s, h.metrics, a, n) /\ Requested(s, f, h, q, k)

(* What is acknowledged with a plan is a serial received, and the pending  *)
(* one where there is one.                                                 *)
LEMMA AcknowledgedTyped ==
  ASSUME NEW s, NEW f, NEW h, NEW q,
         Ready(s, f, h, q, acked, serial', host_frame_generation')
  PROVE  /\ Acknowledged(Plan(s)) \in 0 .. serial'
         /\ s.pending_configure = {} => Acknowledged(Plan(s)) = acked
         /\ s.pending_configure = {serial'} => Acknowledged(Plan(s)) = serial'
<1>1. Plan(s).configure_serial = s.pending_configure
  BY DEF Plan
<1>2. CASE s.pending_configure = {}
  BY <1>1, <1>2 DEF Acknowledged, Ready
<1>3. CASE s.pending_configure # {}
  <2>1. Acknowledged(Plan(s)) = CHOOSE n \in s.pending_configure : TRUE
    BY <1>1, <1>3 DEF Acknowledged
  <2>2. PICK n \in s.pending_configure : TRUE
    BY <1>3
  <2>3. Acknowledged(Plan(s)) \in s.pending_configure
    BY <2>1, <2>2
  <2> QED
    BY <1>3, <2>3 DEF Ready
<1> QED
  BY <1>2, <1>3

(* What every branch of present() does to the buffers, but to commit one. *)
LEMMA PurgeSound ==
  ASSUME TypeOK, BusyBuffersKept,
         buffers' = PurgeReleased, released' = {}, busy' = busy
  PROVE  /\ buffers' \subseteq Generation /\ released' \subseteq buffers'
         /\ busy' \subseteq Generation /\ BusyBuffersKept'
BY DEF TypeOK, BusyBuffersKept, PurgeReleased

LEMMA StoppedTyped ==
  ASSUME NEW h \in Host, NEW q \in Seq(Command)
  PROVE  /\ Stopped(h) \in Host /\ Stopped(h).running = FALSE
         /\ StopPosts(h, q) \in Seq(Command)
<1>1. ShutdownCommand \in Command
  BY WindowConstants DEF ShutdownCommand, Command, HostGeneration
<1>2. Append(q, ShutdownCommand) \in Seq(Command)
  BY <1>1
<1>3. Stopped(h) \in Host /\ Stopped(h).running = FALSE
  BY DEF Stopped, Host
<1> QED
  BY <1>2, <1>3 DEF StopPosts

(* The first branch: nothing to present, so nothing waits but a demand     *)
(* whose callback is outstanding or whose surface is not configured.       *)
LEMMA NothingPresented ==
  ASSUME TypeOK, BusyBuffersKept,
         NEW s, NEW f, NEW h, NEW q,
         Ready(s, f, h, q, acked, serial', host_frame_generation'),
         native_running' \in BOOLEAN, h.running => native_running',
         NothingToPresent(s, f, h, q)
  PROVE  WindowInv'
<1>1. /\ surface' = s /\ frame' = f /\ host' = h /\ hostQ' = q /\ acked' = acked
      /\ ~ToPrepare(s)
  BY DEF NothingToPresent
<1>2. /\ buffers' \subseteq Generation /\ released' \subseteq buffers'
      /\ busy' \subseteq Generation /\ BusyBuffersKept'
  BY PurgeSound DEF NothingToPresent
<1>3. TypeOK'
  BY <1>1, <1>2 DEF TypeOK, Ready
<1>4. ASSUME h.running PROVE RunningInv'
  <2>1. Linked(s, f) /\ Tracked(s, h.metrics, acked, serial')
        /\ Requested(s, f, h, q, host_frame_generation')
    BY <1>4 DEF Ready
  <2>2. \/ ~HasConfigure(s)
        \/ ~s.dirty /\ s.pending_configure = {} /\ ~CanRequestFrame(s)
    BY <1>1 DEF ToPrepare, Ready
  <2>3. s.pending_configure = {} /\ ~s.dirty
    BY <2>1, <2>2 DEF HasConfigure, Tracked
  <2>4. ArmedWillBePulsed'
    BY <1>1, <2>1, <2>2 DEF ArmedWillBePulsed, Requested, Linked, CanRequestFrame
  <2> QED
    BY <1>1, <1>4, <2>1, <2>3, <2>4 DEF RunningInv
<1> QED
  BY <1>1, <1>2, <1>3, <1>4 DEF WindowInv, Ready

(* The failing branches stop the host. *)
LEMMA PresentFailed ==
  ASSUME TypeOK, BusyBuffersKept,
         NEW s, NEW f, NEW h, NEW q,
         Ready(s, f, h, q, acked, serial', host_frame_generation'),
         native_running' \in BOOLEAN,
         PresentFailsUnsubmitted(s, f, h, q) \/ PresentFailsSubmitted(s, f, h, q)
  PROVE  WindowInv'
<1>1. /\ frame' = f /\ host' = Stopped(h) /\ hostQ' = StopPosts(h, q)
      /\ buffers' = PurgeReleased /\ released' = {} /\ busy' = busy
  BY DEF PresentFailsUnsubmitted, PresentFailsSubmitted
<1>2. /\ buffers' \subseteq Generation /\ released' \subseteq buffers'
      /\ busy' \subseteq Generation /\ BusyBuffersKept'
  BY <1>1, PurgeSound
<1>3. host' \in Host /\ host'.running = FALSE /\ hostQ' \in Seq(Command)
  BY <1>1, StoppedTyped DEF Ready
<1>4. /\ surface' \in SurfaceState /\ surface'.prepared = {}
      /\ surface'.initial_commit_started
      /\ surface'.pending_configure = s.pending_configure \/ surface'.pending_configure = {}
      /\ acked' = acked \/ acked' = Acknowledged(Plan(s))
  <2>1. CASE PresentFailsUnsubmitted(s, f, h, q) /\ PrepareOverflows(s)
    BY <2>1 DEF PresentFailsUnsubmitted, Ready
  <2>2. CASE PresentFailsUnsubmitted(s, f, h, q) /\ ~PrepareOverflows(s)
    BY <2>2, DiscardLeaves DEF PresentFailsUnsubmitted, Ready
  <2>3. CASE PresentFailsSubmitted(s, f, h, q)
    BY <2>3, CommitLeaves DEF PresentFailsSubmitted, Ready
  <2> QED
    BY <2>1, <2>2, <2>3
<1>5. acked' \in 0 .. serial'
  BY <1>4, AcknowledgedTyped DEF Ready
<1>6. TypeOK'
  BY <1>1, <1>2, <1>3, <1>4, <1>5 DEF TypeOK, Ready, AtMostOne
<1> QED
  BY <1>2, <1>3, <1>4, <1>6 DEF WindowInv, Ready

(* A command put last on the queue. *)
LEMMA QueuedLast ==
  ASSUME NEW q \in Seq(Command), NEW c \in Command
  PROVE  /\ Append(q, c) \in Seq(Command) /\ Append(q, c) # <<>>
         /\ Append(q, c)[Len(Append(q, c))] = c
OBVIOUS

(* set_metrics: a host that still runs knows the metrics, and either keeps *)
(* its generation and posts nothing or queues the request for the new one. *)
LEMMA MetricsTold ==
  ASSUME NEW h \in Host, NEW m \in Metrics, NEW q \in Seq(Command)
  PROVE  LET r == WithMetrics(h, m)
             p == MetricsPosts(h, m, q)
         IN  /\ r \in Host /\ p \in Seq(Command)
             /\ r.running => /\ h.running /\ r.metrics = m /\ r.armed = h.armed
                             /\ \/ r.generation = h.generation /\ p = q
                                \/ /\ r.generation # 0
                                   /\ r.armed => /\ p # <<>>
                                                 /\ p[Len(p)].gen = r.generation
<1> DEFINE r == WithMetrics(h, m)
           p == MetricsPosts(h, m, q)
           g == NextGeneration(h)
<1>1. CASE ~MetricsChange(h, m)
  BY <1>1 DEF WithMetrics, MetricsPosts, MetricsChange
<1>2. CASE MetricsChange(h, m) /\ Exhausted(h)
  <2>1. [h EXCEPT !.metrics = m] \in Host
    BY DEF Host
  <2>2. r = Stopped([h EXCEPT !.metrics = m]) /\ p = StopPosts(h, q)
    BY <1>2 DEF WithMetrics, MetricsPosts
  <2> QED
    BY <2>1, <2>2, StoppedTyped
<1>3. CASE MetricsChange(h, m) /\ ~Exhausted(h)
  <2>1. g \in HostGeneration /\ g # 0
    BY <1>3, WindowConstants DEF Exhausted, NextGeneration, HostGeneration, Host
  <2>2. r = [h EXCEPT !.metrics = m, !.generation = g]
    BY <1>3 DEF WithMetrics
  <2>3. p = IF h.armed THEN Append(q, Control(TRUE, g)) ELSE q
    BY <1>3 DEF MetricsPosts
  <2>4. Control(TRUE, g) \in Command /\ Control(TRUE, g).gen = g
    BY <2>1 DEF Control, Command
  <2>5. /\ Append(q, Control(TRUE, g)) \in Seq(Command) /\ Append(q, Control(TRUE, g)) # <<>>
        /\ Append(q, Control(TRUE, g))[Len(Append(q, Control(TRUE, g)))] = Control(TRUE, g)
    BY <2>4, QueuedLast
  <2>6. p \in Seq(Command) /\ (h.armed => p # <<>> /\ p[Len(p)].gen = g)
    BY <2>3, <2>4, <2>5
  <2> HIDE DEF g, p, r
  <2>7. /\ r \in Host /\ r.metrics = m /\ r.generation = g /\ r.armed = h.armed
        /\ r.running = h.running
    BY <2>1, <2>2 DEF Host
  <2>8. h.running
    BY <1>3 DEF MetricsChange
  <2> QED
    BY <2>1, <2>6, <2>7, <2>8 DEF r, p
<1> QED
  BY <1>1, <1>2, <1>3

(* The branch that commits: what is shown is what was asked for, the host  *)
(* learns it, and a demand that could be met is on its way.                *)
LEMMA Presented ==
  ASSUME TypeOK, BusyBuffersKept,
         NEW s, NEW f, NEW h, NEW q,
         Ready(s, f, h, q, acked, serial', host_frame_generation'),
         native_running' \in BOOLEAN, h.running => native_running',
         Presents(s, f, h, q)
  PROVE  WindowInv'
<1> DEFINE c == Plan(s)
           m == CommittedMetrics(c)
<1>0. s \in SurfaceState /\ ToPrepare(s) /\ ~PrepareOverflows(s)
  BY DEF Presents, Ready
<1>1. /\ c.generation = s.next_commit_generation /\ c.logical_extent = s.desired_extent
      /\ c.scale_numerator = EffectiveScale(s)
      /\ c.request_frame_callback = CanRequestFrame(s)
  BY DEF Plan
<1>2. /\ c.generation \in Generation /\ c.logical_extent \in Extent
      /\ c.scale_numerator \in Scale
  BY <1>0, PlanTyped DEF WaylandCommit, Generation
<1>3. /\ surface' = Submit(Prepare(s), c) /\ acked' = Acknowledged(c)
      /\ frame' = CommittedFrame(c, f)
      /\ buffers' = PurgeReleased \cup {c.generation} /\ released' = {}
      /\ busy' = busy \cup {c.generation}
      /\ host' = WithMetrics(h, m) /\ hostQ' = MetricsPosts(h, m, q)
  BY DEF Presents
<1>4. /\ surface' \in SurfaceState /\ surface'.prepared = {} /\ surface'.pending_configure = {}
      /\ surface'.configured = TRUE /\ surface'.dirty = FALSE
      /\ surface'.initial_commit_started
      /\ surface'.desired_extent = s.desired_extent /\ surface'.applied_extent = s.desired_extent
      /\ surface'.applied_scale = EffectiveScale(s)
      /\ EffectiveScale(surface') = EffectiveScale(s)
      /\ surface'.frame_demand = (s.frame_demand /\ ~CanRequestFrame(s))
      /\ surface'.frame_callback_generation =
           IF CanRequestFrame(s) THEN c.generation ELSE s.frame_callback_generation
  BY <1>0, <1>1, <1>3, CommitLeaves DEF Ready
<1>5. m \in Metrics /\ m = [extent |-> s.desired_extent, scale |-> EffectiveScale(s)]
  BY <1>1, <1>2 DEF CommittedMetrics, Metrics
<1>6. /\ acked' \in 0 .. serial'
      /\ s.pending_configure = {} => acked' = acked
      /\ s.pending_configure = {serial'} => acked' = serial'
  BY <1>3, AcknowledgedTyped
<1>7. /\ frame' = IF CanRequestFrame(s)
                    THEN {[state_generation |-> c.generation,
                           host_generation |-> host_frame_generation']}
                    ELSE f
      /\ frame' \subseteq Frame /\ AtMostOne(frame')
  <2>1. frame' = IF CanRequestFrame(s)
                    THEN {[state_generation |-> c.generation,
                           host_generation |-> host_frame_generation']}
                    ELSE f
    BY <1>1, <1>3 DEF CommittedFrame
  <2>2. [state_generation |-> c.generation, host_generation |-> host_frame_generation'] \in Frame
    BY <1>2 DEF Frame, Ready
  <2> HIDE DEF c
  <2> QED
    BY <2>1, <2>2 DEF AtMostOne, Ready
<1>8. /\ host' \in Host /\ hostQ' \in Seq(Command)
      /\ host'.running =>
           /\ h.running /\ host'.metrics = m /\ host'.armed = h.armed
           /\ \/ host'.generation = h.generation /\ hostQ' = q
              \/ /\ host'.generation # 0
                 /\ host'.armed => hostQ' # <<>> /\ hostQ'[Len(hostQ')].gen = host'.generation
  BY <1>3, <1>5, MetricsTold DEF Ready
<1> HIDE DEF c, m
<1>9. /\ buffers' \subseteq Generation /\ released' \subseteq buffers'
      /\ busy' \subseteq Generation /\ BusyBuffersKept'
  BY <1>2, <1>3 DEF TypeOK, BusyBuffersKept, PurgeReleased
<1>10. TypeOK'
  BY <1>4, <1>6, <1>7, <1>8, <1>9 DEF TypeOK, Ready, AtMostOne
<1>11. ASSUME host'.running PROVE RunningInv'
  <2>1. /\ h.running /\ native_running'
        /\ Linked(s, f) /\ Tracked(s, h.metrics, acked, serial')
        /\ Requested(s, f, h, q, host_frame_generation')
    BY <1>8, <1>11 DEF Ready
  <2>2. Linked(surface', frame')
    <3>1. c.generation # 0
      BY <1>2 DEF Generation
    <3>2. CASE CanRequestFrame(s)
      <4> DEFINE x == [state_generation |-> c.generation,
                       host_generation |-> host_frame_generation']
      <4>1. frame' = {x} /\ x.state_generation = c.generation
        BY <1>7, <3>2
      <4>2. surface'.frame_callback_generation = c.generation
        BY <1>4, <3>2
      <4> HIDE DEF x
      <4> QED
        BY <3>1, <4>1, <4>2 DEF Linked
    <3>3. CASE ~CanRequestFrame(s)
      <4>1. frame' = f /\ surface'.frame_callback_generation = s.frame_callback_generation
        BY <1>4, <1>7, <3>3
      <4> QED
        BY <2>1, <4>1 DEF Linked
    <3> QED
      BY <3>2, <3>3
  <2>3. acked' = serial'
    BY <1>0, <1>6, <2>1 DEF Tracked, ToPrepare, HasConfigure
  <2>4. Tracked(surface', host'.metrics, acked', serial')
    BY <1>4, <1>5, <1>8, <1>11, <2>3 DEF Tracked
  <2>5. ASSUME host'.armed, hostQ' = <<>>
        PROVE  /\ host'.generation = h.generation
               /\ \/ \E x \in frame' : x.host_generation = h.generation
                  \/ /\ surface'.frame_demand /\ host_frame_generation' = h.generation
                     /\ frame' # {}
    <3>1. host'.generation = h.generation /\ q = <<>> /\ h.armed
      BY <1>8, <1>11, <2>5
    <3>2. \/ \E x \in f : x.host_generation = h.generation
          \/ s.frame_demand /\ host_frame_generation' = h.generation
      BY <2>1, <3>1 DEF Requested
    <3>3. CASE CanRequestFrame(s)
      <4>1. f = {}
        BY <2>1, <3>3 DEF Linked, CanRequestFrame
      <4>2. host_frame_generation' = h.generation
        BY <3>2, <4>1
      <4> QED
        BY <1>7, <3>1, <3>3, <4>2
    <3>4. CASE ~CanRequestFrame(s)
      <4>1. frame' = f /\ surface'.frame_demand = s.frame_demand
        BY <1>0, <1>4, <1>7, <3>4 DEF SurfaceState
      <4>2. s.frame_demand => f # {}
        BY <2>1, <3>4 DEF Linked, CanRequestFrame
      <4> QED
        BY <3>1, <3>2, <4>1, <4>2
    <3> QED
      BY <3>3, <3>4
  <2>6. ArmedWillBePulsed'
    BY <2>5 DEF ArmedWillBePulsed
  <2>7. Requested(surface', frame', host', hostQ', host_frame_generation')
    <3>1. host'.armed => host'.generation # 0
      BY <1>8, <1>11, <2>1 DEF Requested
    <3>2. host'.armed /\ hostQ' # <<>> => hostQ'[Len(hostQ')].gen = host'.generation
      BY <1>8, <1>11, <2>1 DEF Requested
    <3> QED
      BY <2>5, <3>1, <3>2 DEF Requested
  <2> QED
    BY <1>4, <2>1, <2>2, <2>4, <2>6, <2>7 DEF RunningInv
<1> QED
  BY <1>4, <1>9, <1>10, <1>11 DEF WindowInv

LEMMA PresentSound ==
  ASSUME TypeOK, BusyBuffersKept,
         NEW s, NEW f, NEW h, NEW q,
         Ready(s, f, h, q, acked, serial', host_frame_generation'),
         native_running' \in BOOLEAN, h.running => native_running',
         present(s, f, h, q)
  PROVE  WindowInv'
BY NothingPresented, Presented, PresentFailed DEF present
-----------------------------------------------------------------------------
LEMMA InitWindow == Init => WindowInv
<1> SUFFICES ASSUME Init PROVE WindowInv
  OBVIOUS
<1>1. PICK r \in BOOLEAN : surface = BeginInitialCommit(NewSurface(InitialExtent, r))
  BY DEF Init
<1>2. Unstaged \in StagedExtent /\ ScaleDenominator \in Scale
  BY WaylandConstants DEF Unstaged, StagedExtent, Scale
<1> DEFINE n == NewSurface(InitialExtent, r)
<1>3. /\ n \in SurfaceState /\ n.pending_configure = {} /\ n.prepared = {}
      /\ n.configured = FALSE /\ n.dirty = FALSE /\ n.frame_callback_generation = 0
  BY <1>2, WaylandConstants, WindowConstants DEF NewSurface, SurfaceState
<1>4. surface = [n EXCEPT !.initial_commit_started = TRUE]
  BY <1>1 DEF BeginInitialCommit
<1> HIDE DEF n
<1>5. /\ surface \in SurfaceState /\ surface.pending_configure = {} /\ surface.prepared = {}
      /\ surface.configured = FALSE /\ surface.dirty = FALSE
      /\ surface.frame_callback_generation = 0 /\ surface.initial_commit_started = TRUE
  BY <1>3, <1>4 DEF SurfaceState
<1>6. host \in Host /\ host.armed = FALSE
  <2>1. [extent |-> InitialExtent, scale |-> ScaleDenominator] \in Metrics
    BY <1>2, WindowConstants DEF Metrics
  <2> QED
    BY <2>1, WindowConstants DEF Init, Host, HostGeneration
<1>7. TypeOK
  BY <1>5, <1>6, WindowConstants, WaylandConstants DEF Init, TypeOK, AtMostOne, HostGeneration,
     Serial
<1>8. RunningInv
  BY <1>5, <1>6 DEF Init, RunningInv, Linked, Tracked, Requested, ArmedWillBePulsed
<1> QED
  BY <1>5, <1>7, <1>8 DEF WindowInv, BusyBuffersKept, Init

(* fail_native stops the host. *)
LEMMA FailSound ==
  ASSUME WindowInv, fail_native, native_running' = native_running,
         host_frame_generation' = host_frame_generation,
         serial' \in 0 .. MaxSerial, serial <= serial'
  PROVE  WindowInv'
<1>1. host' \in Host /\ host'.running = FALSE /\ hostQ' \in Seq(Command)
  BY StoppedTyped DEF fail_native, WindowInv, TypeOK
<1>2. acked' \in 0 .. serial' /\ surface'.pending_configure \subseteq 0 .. serial'
  BY WindowConstants, WaylandConstants DEF fail_native, WindowInv, TypeOK, Serial
<1>3. TypeOK'
  BY <1>1, <1>2 DEF fail_native, WindowInv, TypeOK
<1> QED
  BY <1>1, <1>2, <1>3 DEF fail_native, WindowInv, BusyBuffersKept

(* A surface with the same content and the same callback is as ready.      *)
LEMMA ReadyAgain ==
  ASSUME WindowInv, NEW s \in SurfaceState, SameContent(s, surface),
         s.frame_callback_generation = surface.frame_callback_generation,
         surface.frame_demand => s.frame_demand
  PROVE  Ready(s, frame, host, hostQ, acked, serial, host_frame_generation)
<1>1. EffectiveScale(s) = EffectiveScale(surface)
  BY SameScale
<1>2. /\ AtMostOne(s.pending_configure) /\ s.prepared = {} /\ s.initial_commit_started
      /\ s.pending_configure \subseteq 0 .. serial
  BY DEF WindowInv, TypeOK, SameContent
<1>3. ASSUME host.running
      PROVE  /\ Linked(s, frame) /\ Tracked(s, host.metrics, acked, serial)
             /\ Requested(s, frame, host, hostQ, host_frame_generation)
  <2>1. Linked(s, frame)
    BY <1>3 DEF WindowInv, RunningInv, Linked
  <2>2. Tracked(s, host.metrics, acked, serial)
    BY <1>1, <1>3 DEF WindowInv, RunningInv, Tracked, SameContent
  <2>3. Requested(s, frame, host, hostQ, host_frame_generation)
    BY <1>3 DEF WindowInv, RunningInv, Requested
  <2> QED
    BY <2>1, <2>2, <2>3
<1> QED
  BY <1>2, <1>3 DEF Ready, WindowInv, TypeOK

LEMMA ConfigureNext ==
  ASSUME WindowInv, handle_surface_configure
  PROVE  WindowInv'
<1>0. /\ TypeOK /\ BusyBuffersKept /\ surface \in SurfaceState /\ serial \in 0 .. MaxSerial
      /\ acked \in 0 .. serial /\ MaxSerial \in 0 .. MaxUInt32 /\ MaxUInt32 \in Nat
  BY WindowConstants, WaylandConstants DEF WindowInv, TypeOK, Serial
<1>1. /\ serial' = serial + 1 /\ serial' \in 0 .. MaxSerial /\ serial' \in Serial
      /\ acked \in 0 .. serial' /\ serial <= serial'
      /\ UNCHANGED <<host_frame_generation, native_running>>
      /\ native_running' \in BOOLEAN
  BY <1>0 DEF handle_surface_configure, Serial, TypeOK
<1>2. CASE ~CanAdvance(surface)
  BY <1>1, <1>2, FailSound DEF handle_surface_configure
<1>3. CASE CanAdvance(surface)
  <2> DEFINE s == Configure(surface, serial + 1)
  <2>1. /\ s \in SurfaceState /\ s.pending_configure = {serial'} /\ s.prepared = {}
        /\ s.initial_commit_started = surface.initial_commit_started
        /\ s.frame_demand = surface.frame_demand
        /\ s.frame_callback_generation = surface.frame_callback_generation
    BY <1>0, <1>1, <1>3, ConfigureLeaves
  <2>2. present(s, frame, host, hostQ)
    BY <1>3 DEF handle_surface_configure
  <2> HIDE DEF s
  <2>3. ASSUME host.running
        PROVE  /\ native_running'
               /\ Linked(s, frame) /\ Tracked(s, host.metrics, acked, serial')
               /\ Requested(s, frame, host, hostQ, host_frame_generation')
    <3>1. Linked(s, frame) /\ native_running'
      BY <1>1, <2>1, <2>3 DEF WindowInv, RunningInv, Linked
    <3>2. Tracked(s, host.metrics, acked, serial')
      BY <2>1 DEF Tracked
    <3>3. Requested(s, frame, host, hostQ, host_frame_generation')
      BY <1>1, <2>1, <2>3 DEF WindowInv, RunningInv, Requested
    <3> QED
      BY <3>1, <3>2, <3>3
  <2>4. s.pending_configure \subseteq 0 .. serial' /\ AtMostOne(s.pending_configure)
    BY <1>0, <1>1, <2>1 DEF AtMostOne
  <2>5. Ready(s, frame, host, hostQ, acked, serial', host_frame_generation')
    BY <1>1, <2>1, <2>3, <2>4 DEF Ready, WindowInv, TypeOK
  <2> QED
    BY <1>0, <1>1, <2>2, <2>3, <2>5, PresentSound
<1> QED
  BY <1>2, <1>3

LEMMA ScaleNext ==
  ASSUME WindowInv, NEW n \in Scales, scale_changed(n)
  PROVE  WindowInv'
<1>0. TypeOK /\ BusyBuffersKept /\ surface \in SurfaceState /\ n \in Scale /\ serial \in 0 .. MaxSerial
  BY WindowConstants DEF WindowInv, TypeOK
<1>1. /\ UNCHANGED <<host_frame_generation, native_running, serial>>
      /\ native_running' \in BOOLEAN /\ (host.running => native_running')
      /\ serial <= serial'
  BY <1>0, WindowConstants DEF scale_changed, TypeOK, WindowInv, RunningInv, Serial
<1>2. CASE n = surface.desired_scale
  <2>1. present(surface, frame, host, hostQ)
    BY <1>2 DEF scale_changed
  <2>2. SameContent(surface, surface)
    BY DEF SameContent
  <2>3. Ready(surface, frame, host, hostQ, acked, serial', host_frame_generation')
    BY <1>0, <1>1, <2>2, ReadyAgain
  <2> QED
    BY <1>0, <1>1, <2>1, <2>3, PresentSound
<1>3. CASE n # surface.desired_scale /\ ~CanAdvance(surface)
  BY <1>0, <1>1, <1>3, FailSound DEF scale_changed
<1>4. CASE n # surface.desired_scale /\ CanAdvance(surface)
  <2> DEFINE s == Rescale(surface, n)
  <2>1. /\ s \in SurfaceState /\ s.prepared = {}
        /\ s.pending_configure = surface.pending_configure /\ s.configured = surface.configured
        /\ s.dirty = (surface.dirty \/ HasConfigure(surface))
        /\ s.initial_commit_started = surface.initial_commit_started
        /\ s.frame_demand = surface.frame_demand
        /\ s.frame_callback_generation = surface.frame_callback_generation
    BY <1>0, <1>4, RescaleLeaves
  <2>2. present(s, frame, host, hostQ)
    BY <1>4 DEF scale_changed
  <2> HIDE DEF s
  <2>3. ASSUME host.running
        PROVE  /\ Linked(s, frame) /\ Tracked(s, host.metrics, acked, serial')
               /\ Requested(s, frame, host, hostQ, host_frame_generation')
    <3>1. Linked(s, frame)
      BY <2>1, <2>3 DEF WindowInv, RunningInv, Linked
    <3>2. /\ surface.pending_configure = {} /\ ~surface.dirty
          /\ Tracked(surface, host.metrics, acked, serial)
      BY <2>3 DEF WindowInv, RunningInv
    <3>3. Tracked(s, host.metrics, acked, serial')
      <4>1. s.pending_configure = {} /\ (s.dirty <=> s.configured)
        BY <2>1, <3>2 DEF HasConfigure
      <4>2. s.configured => acked = serial
        BY <2>1, <3>2 DEF Tracked
      <4> QED
        BY <1>1, <4>1, <4>2 DEF Tracked
    <3>4. Requested(s, frame, host, hostQ, host_frame_generation')
      BY <1>1, <2>1, <2>3 DEF WindowInv, RunningInv, Requested
    <3> QED
      BY <3>1, <3>3, <3>4
  <2>4. Ready(s, frame, host, hostQ, acked, serial', host_frame_generation')
    BY <1>1, <2>1, <2>3 DEF Ready, WindowInv, TypeOK
  <2> QED
    BY <1>0, <1>1, <2>2, <2>4, PresentSound
<1> QED
  BY <1>2, <1>3, <1>4

(* The done event of the outstanding callback: a frame armed with another  *)
(* generation still waits to be requested.                                 *)
LEMMA DoneNext ==
  ASSUME WindowInv, handle_done
  PROVE  WindowInv'
<1>0. /\ TypeOK /\ BusyBuffersKept /\ surface \in SurfaceState /\ host \in Host
      /\ frame \subseteq Frame /\ AtMostOne(frame)
  BY DEF WindowInv, TypeOK
<1>1. /\ UNCHANGED <<host_frame_generation, native_running, serial>>
      /\ native_running /\ native_running' \in BOOLEAN
  BY <1>0 DEF handle_done, TypeOK
<1>2. PICK f \in frame :
        IF surface.frame_callback_generation = f.state_generation
          THEN present(FrameDone(surface, f.state_generation), {},
                       Pulsed(host, f.host_generation), hostQ)
          ELSE /\ frame' = {}
               /\ UNCHANGED <<surface, buffers, released, acked, busy, host, hostQ>>
  BY DEF handle_done
<1>3. f.state_generation \in Nat \ {0} /\ frame = {f}
  BY <1>0 DEF Frame, Generation, AtMostOne
<1>4. CASE surface.frame_callback_generation # f.state_generation
  <2>1. ~host.running
    BY <1>2, <1>4 DEF WindowInv, RunningInv, Linked
  <2>2. TypeOK'
    BY <1>1, <1>2, <1>4 DEF WindowInv, TypeOK, AtMostOne
  <2> QED
    BY <1>1, <1>2, <1>4, <2>1, <2>2 DEF WindowInv, BusyBuffersKept
<1>5. CASE surface.frame_callback_generation = f.state_generation
  <2> DEFINE s == FrameDone(surface, f.state_generation)
             h == Pulsed(host, f.host_generation)
  <2>1. /\ s \in SurfaceState /\ SameContent(s, surface)
        /\ s.frame_demand = surface.frame_demand /\ s.frame_callback_generation = 0
    BY <1>0, <1>3, <1>5, FrameDoneLeaves
  <2>2. /\ h \in Host /\ h.running = host.running /\ h.metrics = host.metrics
        /\ h.generation = host.generation
        /\ h.armed => /\ host.armed
                      /\ host.running => host.generation # f.host_generation
    BY <1>0 DEF Pulsed, Host
  <2>3. present(s, {}, h, hostQ)
    BY <1>2, <1>5
  <2> HIDE DEF s, h
  <2>4. EffectiveScale(s) = EffectiveScale(surface)
    BY <2>1, SameScale
  <2>5. ASSUME h.running
        PROVE  /\ Linked(s, {}) /\ Tracked(s, h.metrics, acked, serial')
               /\ Requested(s, {}, h, hostQ, host_frame_generation')
    <3>1. /\ Tracked(surface, host.metrics, acked, serial)
          /\ Requested(surface, frame, host, hostQ, host_frame_generation)
      BY <2>2, <2>5 DEF WindowInv, RunningInv
    <3>2. Tracked(s, h.metrics, acked, serial')
      BY <1>1, <2>1, <2>2, <2>4, <3>1 DEF Tracked, SameContent
    <3>3. Requested(s, {}, h, hostQ, host_frame_generation')
      BY <1>1, <1>3, <2>1, <2>2, <2>5, <3>1 DEF Requested
    <3> QED
      BY <2>1, <3>2, <3>3 DEF Linked
  <2>6. Ready(s, {}, h, hostQ, acked, serial', host_frame_generation')
    <3>1. /\ AtMostOne(s.pending_configure) /\ s.prepared = {} /\ s.initial_commit_started
          /\ s.pending_configure \subseteq 0 .. serial'
      BY <1>1, <2>1 DEF WindowInv, TypeOK, SameContent
    <3>2. {} \subseteq Frame /\ AtMostOne({})
      BY DEF AtMostOne
    <3> QED
      BY <1>1, <2>1, <2>2, <2>5, <3>1, <3>2 DEF Ready, WindowInv, TypeOK
  <2> QED
    BY <1>0, <1>1, <2>3, <2>6, PresentSound
<1> QED
  BY <1>4, <1>5

(* Events that touch neither the callback nor the content. *)
LEMMA EventNext ==
  ASSUME WindowInv,
         \/ \E e \in Staged : handle_toplevel_configure(e.width, e.height)
         \/ \E b \in busy : handle_release(b)
         \/ CompositorError
  PROVE  WindowInv'
<1>0. TypeOK /\ BusyBuffersKept /\ surface \in SurfaceState
  BY DEF WindowInv, TypeOK
<1>1. ASSUME NEW e \in Staged, handle_toplevel_configure(e.width, e.height)
      PROVE  WindowInv'
  <2>1. e.width \in 0 .. MaxInt32 /\ e.height \in 0 .. MaxInt32
    BY WindowConstants DEF StagedExtent
  <2>2. surface' = StageExtent(surface, e.width, e.height)
        /\ UNCHANGED <<frame, host_frame_generation, native_running, buffers, released,
                       compositor, host, hostQ>>
    BY <1>1 DEF handle_toplevel_configure
  <2>3. /\ surface' \in SurfaceState /\ SameContent(surface', surface)
        /\ surface'.frame_demand = surface.frame_demand
        /\ surface'.frame_callback_generation = surface.frame_callback_generation
    BY <1>0, <2>1, <2>2, StageLeaves
  <2>4. Ready(surface', frame, host, hostQ, acked, serial, host_frame_generation)
    BY <2>3, ReadyAgain
  <2>5. TypeOK'
    BY <2>2, <2>3 DEF WindowInv, TypeOK, compositor, SameContent
  <2>6. ASSUME host.running PROVE RunningInv'
    <3>1. ArmedWillBePulsed'
      BY <2>2, <2>3, <2>6
      DEF WindowInv, RunningInv, ArmedWillBePulsed, HasConfigure, SameContent
    <3> QED
      BY <2>2, <2>3, <2>4, <2>6, <3>1
      DEF WindowInv, RunningInv, Ready, SameContent, compositor
  <2> QED
    BY <2>2, <2>3, <2>5, <2>6 DEF WindowInv, compositor, SameContent, BusyBuffersKept
<1>2. ASSUME NEW b \in busy, handle_release(b) PROVE WindowInv'
  <2>1. BusyBuffersKept' /\ released' \subseteq buffers'
    BY <1>0, <1>2 DEF handle_release, BusyBuffersKept, TypeOK
  <2>2. TypeOK'
    BY <1>2, <2>1 DEF handle_release, WindowInv, TypeOK
  <2>3. host.running => RunningInv'
    BY <1>2 DEF handle_release, WindowInv, RunningInv, ArmedWillBePulsed
  <2> QED
    BY <1>2, <2>1, <2>2, <2>3 DEF handle_release, WindowInv
<1>3. CASE CompositorError
  BY <1>0, <1>3, FailSound, WindowConstants DEF CompositorError, TypeOK, Serial
<1> QED
  BY <1>1, <1>2, <1>3

(* Removing the first of the commands. *)
LEMMA Dequeued ==
  ASSUME NEW q \in Seq(Command), q # <<>>
  PROVE  /\ Tail(q) \in Seq(Command) /\ Head(q) \in Command
         /\ Tail(q) = <<>> => q[Len(q)] = Head(q)
         /\ Tail(q) # <<>> => Tail(q)[Len(Tail(q))] = q[Len(q)]
<1>1. Len(q) \in Nat \ {0} /\ Head(q) = q[1]
  OBVIOUS
<1>2. /\ Tail(q) \in Seq(Command) /\ Len(Tail(q)) = Len(q) - 1
      /\ \A i \in 1 .. Len(q) - 1 : Tail(q)[i] = q[i + 1]
  BY <1>1
<1>3. Head(q) \in Command
  BY <1>1
<1>4. Tail(q) = <<>> => Len(q) = 1
  <2> DEFINE t == Tail(q)
  <2>1. Len(q) \in Nat /\ Len(t) = Len(q) - 1
    BY <1>1, <1>2
  <2> HIDE DEF t
  <2>2. t = <<>> => Len(q) = 1
    BY <2>1
  <2> QED
    BY <2>2 DEF t
<1>5. Tail(q) # <<>> => Len(q) - 1 \in 1 .. Len(q) - 1
  BY <1>1, <1>2
<1>6. Tail(q) # <<>> => Tail(q)[Len(q) - 1] = q[(Len(q) - 1) + 1]
  BY <1>2, <1>5
<1>7. (Len(q) - 1) + 1 = Len(q)
  BY <1>1
<1> QED
  BY <1>1, <1>2, <1>3, <1>4, <1>6, <1>7

(* cancel_frame leaves no callback outstanding. *)
LEMMA CancelSound ==
  ASSUME WindowInv
  PROVE  LET s == cancel_frame(surface, frame)
         IN  /\ s \in SurfaceState /\ SameContent(s, surface)
             /\ s.frame_demand = surface.frame_demand
             /\ Linked(surface, frame) => s.frame_callback_generation = 0
<1>0. surface \in SurfaceState /\ frame \subseteq Frame
  BY DEF WindowInv, TypeOK
<1>1. CASE frame = {}
  BY <1>0, <1>1 DEF cancel_frame, SameContent, Linked
<1>2. CASE frame # {}
  <2> DEFINE g == (CHOOSE x \in frame : TRUE).state_generation
  <2>1. (CHOOSE x \in frame : TRUE) \in frame
    BY <1>2
  <2>2. g \in Nat \ {0}
    BY <1>0, <2>1 DEF Frame, Generation
  <2>3. Linked(surface, frame) => surface.frame_callback_generation = g
    BY <2>1 DEF Linked
  <2>4. cancel_frame(surface, frame) = FrameDone(surface, g)
    BY <1>2 DEF cancel_frame
  <2> HIDE DEF g
  <2> QED
    BY <1>0, <2>2, <2>3, <2>4, FrameDoneLeaves
<1> QED
  BY <1>1, <1>2

LEMMA ControlNext ==
  ASSUME WindowInv, RunControl
  PROVE  WindowInv'
<1> DEFINE task == Head(hostQ)
           s == IF task.cancel THEN cancel_frame(surface, frame) ELSE surface
           f == IF task.cancel THEN {} ELSE frame
           t == Tail(hostQ)
<1>0. /\ TypeOK /\ BusyBuffersKept /\ surface \in SurfaceState /\ host \in Host
      /\ frame \subseteq Frame /\ AtMostOne(frame) /\ hostQ \in Seq(Command) /\ hostQ # <<>>
      /\ native_running \in BOOLEAN /\ (host.running => native_running)
  BY DEF WindowInv, TypeOK, RunControl, RunningInv
<1>1. UNCHANGED <<native_running, serial>>
  BY DEF RunControl
<1>2. /\ t \in Seq(Command) /\ task \in Command
      /\ t = <<>> => hostQ[Len(hostQ)] = task
      /\ t # <<>> => t[Len(t)] = hostQ[Len(hostQ)]
  BY <1>0, Dequeued
<1>3. \/ /\ ~host.running
         /\ hostQ' = t
         /\ UNCHANGED <<native, acked, busy, host>>
      \/ /\ host.running /\ task.gen = 0
         /\ surface' = s /\ frame' = f /\ hostQ' = t
         /\ UNCHANGED <<host_frame_generation, buffers, released, acked, busy, host>>
      \/ /\ host.running /\ task.gen # 0
         /\ host_frame_generation' = task.gen
         /\ present(DemandFrame(s), f, host, t)
  BY DEF RunControl
<1>4. /\ s \in SurfaceState /\ SameContent(s, surface)
      /\ s.frame_demand = surface.frame_demand
      /\ Linked(surface, frame) => Linked(s, f)
      /\ f \subseteq Frame /\ AtMostOne(f)
  <2>1. CASE task.cancel
    <3>1. f = {} /\ s = cancel_frame(surface, frame)
      BY <2>1
    <3> HIDE DEF f, s, task
    <3> QED
      BY <3>1, CancelSound DEF Linked, AtMostOne
  <2>2. CASE ~task.cancel
    <3>1. f = frame /\ s = surface
      BY <2>2
    <3> HIDE DEF f, s, task
    <3> QED
      BY <1>0, <3>1 DEF SameContent
  <2> QED
    BY <2>1, <2>2
<1> HIDE DEF task, s, f, t
<1>5. EffectiveScale(s) = EffectiveScale(surface)
  BY <1>4, SameScale
<1>6. /\ AtMostOne(s.pending_configure) /\ s.prepared = {} /\ s.initial_commit_started
      /\ s.pending_configure \subseteq 0 .. serial'
      /\ serial' \in 0 .. MaxSerial /\ acked \in 0 .. serial'
  BY <1>1, <1>4 DEF WindowInv, TypeOK, SameContent
<1>7. host.running => Linked(s, f) /\ Tracked(s, host.metrics, acked, serial')
  <2>1. host.running => Linked(surface, frame) /\ Tracked(surface, host.metrics, acked, serial)
    BY DEF WindowInv, RunningInv
  <2> QED
    BY <1>1, <1>4, <1>5, <2>1 DEF Tracked, SameContent
<1>8. host.running /\ host.armed =>
        /\ host.generation # 0
        /\ t # <<>> => t[Len(t)].gen = host.generation
        /\ t = <<>> => task.gen = host.generation
  BY <1>0, <1>2 DEF WindowInv, RunningInv, Requested
<1>9. CASE ~host.running
  <2>1. hostQ' = t /\ UNCHANGED <<native, acked, busy, host>>
    BY <1>3, <1>9
  <2>2. TypeOK'
    BY <1>1, <1>2, <2>1 DEF TypeOK, native, WindowInv
  <2> QED
    BY <1>1, <1>9, <2>1, <2>2 DEF WindowInv, native, BusyBuffersKept
<1>10. CASE host.running /\ task.gen = 0
  <2>1. /\ surface' = s /\ frame' = f /\ hostQ' = t
        /\ UNCHANGED <<host_frame_generation, buffers, released, acked, busy, host>>
    BY <1>3, <1>10
  <2>2. TypeOK'
    BY <1>1, <1>2, <1>4, <1>6, <2>1 DEF TypeOK, WindowInv
  <2>3. host.armed => t # <<>>
    BY <1>8, <1>10
  <2>4. ArmedWillBePulsed' /\ Requested(surface, frame, host, hostQ, host_frame_generation)'
    BY <1>8, <1>10, <2>1, <2>3 DEF ArmedWillBePulsed, Requested
  <2>5. s.pending_configure = {} /\ ~s.dirty
    BY <1>4, <1>10 DEF WindowInv, RunningInv, SameContent
  <2>6. RunningInv'
    BY <1>0, <1>1, <1>7, <1>10, <2>1, <2>4, <2>5 DEF RunningInv
  <2> QED
    BY <1>0, <1>6, <2>1, <2>2, <2>6 DEF WindowInv, BusyBuffersKept
<1>11. CASE host.running /\ task.gen # 0
  <2> DEFINE d == DemandFrame(s)
  <2>1. host_frame_generation' = task.gen /\ present(d, f, host, t)
    BY <1>3, <1>11
  <2>2. /\ d \in SurfaceState /\ SameContent(d, s) /\ d.frame_demand = TRUE
        /\ d.frame_callback_generation = s.frame_callback_generation
    BY <1>4, DemandLeaves
  <2>3. task.gen \in HostGeneration
    BY <1>2 DEF Command
  <2> HIDE DEF d
  <2>4. EffectiveScale(d) = EffectiveScale(s)
    BY <2>2, SameScale
  <2>5. /\ Linked(d, f) /\ Tracked(d, host.metrics, acked, serial')
        /\ Requested(d, f, host, t, host_frame_generation')
    <3>1. Linked(d, f)
      BY <1>7, <1>11, <2>2 DEF Linked
    <3>2. Tracked(d, host.metrics, acked, serial')
      BY <1>7, <1>11, <2>2, <2>4 DEF Tracked, SameContent
    <3>3. Requested(d, f, host, t, host_frame_generation')
      BY <1>8, <1>11, <2>1, <2>2 DEF Requested
    <3> QED
      BY <3>1, <3>2, <3>3
  <2>6. /\ AtMostOne(d.pending_configure) /\ d.prepared = {} /\ d.initial_commit_started
        /\ d.pending_configure \subseteq 0 .. serial'
    BY <1>6, <2>2 DEF SameContent
  <2>7. Ready(d, f, host, t, acked, serial', host_frame_generation')
    BY <1>0, <1>2, <1>4, <1>6, <2>1, <2>2, <2>3, <2>5, <2>6 DEF Ready
  <2> QED
    BY <1>0, <1>1, <2>1, <2>7, PresentSound
<1> QED
  BY <1>9, <1>10, <1>11

LEMMA ShutdownWindowNext ==
  ASSUME WindowInv, RunShutdown
  PROVE  WindowInv'
<1>1. /\ surface' \in SurfaceState /\ SameContent(surface', surface)
  BY CancelSound DEF RunShutdown, shutdown_native
<1>2. hostQ' \in Seq(Command)
  BY Dequeued DEF WindowInv, TypeOK, RunShutdown
<1>3. TypeOK'
  BY <1>1, <1>2 DEF RunShutdown, shutdown_native, WindowInv, TypeOK, AtMostOne, SameContent
<1> QED
  BY <1>1, <1>3 DEF RunShutdown, shutdown_native, WindowInv, BusyBuffersKept, SameContent

LEMMA HostNext ==
  ASSUME WindowInv, HostArms \/ HostHides \/ HostStops
  PROVE  WindowInv'
<1>0. /\ TypeOK /\ host \in Host /\ hostQ \in Seq(Command) /\ UNCHANGED <<native, compositor>>
  BY DEF WindowInv, TypeOK, HostArms, HostHides, HostStops
<1>1. CASE HostArms
  <2>1. /\ host.running /\ host.generation + 1 \in HostGeneration /\ host.generation + 1 # 0
        /\ host' = [host EXCEPT !.armed = TRUE, !.generation = host.generation + 1]
        /\ hostQ' = Append(hostQ, Control(FALSE, host.generation + 1))
    BY <1>0, <1>1, WindowConstants DEF HostArms, Host, HostGeneration
  <2>2. /\ Control(FALSE, host.generation + 1) \in Command
        /\ Control(FALSE, host.generation + 1).gen = host.generation + 1
    BY <2>1 DEF Control, Command
  <2>3. /\ hostQ' \in Seq(Command) /\ hostQ' # <<>>
        /\ hostQ'[Len(hostQ')] = Control(FALSE, host.generation + 1)
    BY <1>0, <2>1, <2>2, QueuedLast
  <2>4. /\ host' \in Host /\ host'.running = host.running /\ host'.armed = TRUE
        /\ host'.generation = host.generation + 1 /\ host'.metrics = host.metrics
    BY <1>0, <2>1 DEF Host
  <2>5. TypeOK'
    BY <1>0, <2>3, <2>4 DEF TypeOK, native, compositor
  <2>6. ArmedWillBePulsed' /\ Requested(surface, frame, host, hostQ, host_frame_generation)'
    BY <2>1, <2>2, <2>3, <2>4 DEF ArmedWillBePulsed, Requested
  <2>7. RunningInv'
    BY <1>0, <2>1, <2>4, <2>6 DEF WindowInv, RunningInv, native, compositor
  <2> QED
    BY <1>0, <2>5, <2>7 DEF WindowInv, native, compositor, BusyBuffersKept
<1>2. CASE HostHides
  <2>1. /\ host.running /\ host.generation + 1 \in HostGeneration
        /\ host' = [host EXCEPT !.armed = FALSE, !.generation = host.generation + 1]
        /\ hostQ' = Append(hostQ, Control(TRUE, 0))
    BY <1>0, <1>2, WindowConstants DEF HostHides, Host, HostGeneration
  <2>2. Control(TRUE, 0) \in Command
    BY WindowConstants DEF Control, Command, HostGeneration
  <2>3. hostQ' \in Seq(Command)
    BY <1>0, <2>1, <2>2, QueuedLast
  <2>4. /\ host' \in Host /\ host'.running = host.running /\ host'.armed = FALSE
        /\ host'.metrics = host.metrics
    BY <1>0, <2>1 DEF Host
  <2>5. TypeOK'
    BY <1>0, <2>3, <2>4 DEF TypeOK, native, compositor
  <2>6. ArmedWillBePulsed' /\ Requested(surface, frame, host, hostQ, host_frame_generation)'
    BY <2>4 DEF ArmedWillBePulsed, Requested
  <2>7. RunningInv'
    BY <1>0, <2>1, <2>4, <2>6 DEF WindowInv, RunningInv, native, compositor
  <2> QED
    BY <1>0, <2>5, <2>7 DEF WindowInv, native, compositor, BusyBuffersKept
<1>3. CASE HostStops
  <2>1. host' \in Host /\ host'.running = FALSE /\ hostQ' \in Seq(Command)
    BY <1>0, <1>3, StoppedTyped DEF HostStops
  <2>2. TypeOK'
    BY <1>0, <2>1 DEF TypeOK, native, compositor
  <2> QED
    BY <1>0, <2>1, <2>2 DEF WindowInv, native, compositor, BusyBuffersKept
<1> QED
  BY <1>1, <1>2, <1>3

LEMMA NextWindow == WindowInv /\ [Next]_vars => WindowInv'
<1> SUFFICES ASSUME WindowInv, [Next]_vars PROVE WindowInv'
  OBVIOUS
<1>1. CASE Compositor
  BY <1>1, ConfigureNext, DoneNext, ScaleNext, EventNext DEF Compositor
<1>2. CASE Runner
  BY <1>2, ControlNext, ShutdownWindowNext DEF Runner
<1>3. CASE HostArms \/ HostHides \/ HostStops
  BY <1>3, HostNext
<1>4. CASE UNCHANGED vars
  BY <1>4 DEF vars, native, compositor, WindowInv, TypeOK, BusyBuffersKept, RunningInv,
     ArmedWillBePulsed
<1> QED
  BY <1>1, <1>2, <1>3, <1>4 DEF Next

LEMMA WindowInvariant == Spec => []WindowInv
BY InitWindow, NextWindow, PTL DEF Spec

(* The window's state stays well typed: generations, serials, scales and   *)
(* sizes within their limits, one callback and one configure at most, and  *)
(* no plan left prepared between handlers.                                 *)
THEOREM WindowTypeCorrect == Spec => []TypeOK
BY WindowInvariant, PTL DEF WindowInv

(* A frame the host armed is never forgotten on the native side, whatever  *)
(* order requests, cancellations, resizes and callbacks come in.           *)
THEOREM ArmedAlwaysPulsed == Spec => []ArmedWillBePulsed
<1>1. WindowInv => ArmedWillBePulsed
  BY DEF WindowInv, RunningInv, ArmedWillBePulsed
<1> QED
  BY <1>1, WindowInvariant, PTL

(* The host knows the content on screen, every configure is acknowledged   *)
(* and no buffer the compositor may read is given up.                      *)
THEOREM WindowStaysConsistent == Spec => []WindowConsistent
<1>1. WindowInv => WindowConsistent
  <2> SUFFICES ASSUME WindowInv PROVE WindowConsistent
    OBVIOUS
  <2>1. HostKnowsSurface
    BY DEF WindowInv, RunningInv, Tracked, HostKnowsSurface, HasConfigure
  <2> QED
    BY <2>1 DEF WindowConsistent, WindowInv
<1> QED
  BY <1>1, WindowInvariant, PTL
=============================================================================
