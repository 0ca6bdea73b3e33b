--------------------------- MODULE WaylandProofs ---------------------------
(***************************************************************************)
(* Proofs about the parts of the Wayland platform that MCWayland puts side *)
(* by side: the commit engine (WaylandSurface), the seat (WaylandInput),   *)
(* the connection with its task runner (WaylandConnection) and the clock   *)
(* of the frame pulses (FrameClock).  They hold for every scale            *)
(* denominator, every limit of the integers and counters, any keys,        *)
(* globals, outputs, tasks and repeat timing, and any width of the clock.  *)
(***************************************************************************)
EXTENDS MCWayland, WaylandStateProofs, WellFoundedInduction, SequenceTheorems, TLAPS

(***************************************************************************)
(* The commit engine.  A plan is only ever valid because prepare_commit    *)
(* refused what overflows: that is where the limits enter.                 *)
(***************************************************************************)
LEMMA InitTyped == Init => TypeOK
<1> SUFFICES ASSUME Init PROVE TypeOK
  OBVIOUS
<1>1. PICK f \in BOOLEAN : surface = NewSurface(InitialExtent, f)
  BY DEF Init
<1>2. Unstaged \in StagedExtent /\ ScaleDenominator \in Scale
  BY WaylandConstants DEF Unstaged, StagedExtent, Scale
<1>3. surface \in SurfaceState
  BY <1>1, <1>2, WaylandConstants, SurfaceConstants DEF NewSurface, SurfaceState
<1>4. surface.prepared = {} /\ surface.pending_configure = {}
  BY <1>1 DEF NewSurface
<1>5. 0 \in 0 .. MaxSerial
  BY WaylandConstants, SurfaceConstants DEF Serial
<1> QED
  BY <1>3, <1>4, <1>5 DEF Init, TypeOK, AtMostOne

(* The inductive invariant.  What submit_commit acknowledges is within     *)
(* bounds only because a prepared plan carries the newest configure, and   *)
(* it acknowledges a first configure only because nothing is prepared      *)
(* before one was received.                                                *)
PreparedConfigured == surface.prepared # {} => HasConfigure(surface)
SurfaceInv == TypeOK /\ SurfaceConsistent /\ PreparedConfigured /\ acked <= serial

(* What submit_commit acknowledges. *)
LEMMA Acknowledged ==
  ASSUME SurfaceInv, NEW c, submit_commit(c)
  PROVE  acked' = serial /\ serial # 0 /\ serial' = serial
<1>1. c \in surface.prepared
  BY DEF submit_commit, Submits
<1>2. c.configure_serial = surface.pending_configure
  BY <1>1 DEF SurfaceInv, SurfaceConsistent, PreparedCurrent
<1>3. surface.pending_configure = IF acked = serial THEN {} ELSE {serial}
  BY DEF SurfaceInv, SurfaceConsistent, NewestConfigure
<1>4. serial \in Nat /\ acked \in Nat /\ acked <= serial
  BY DEF SurfaceInv, TypeOK
<1>5. CASE acked = serial
  <2>1. surface.configured
    BY <1>1, <1>3, <1>5 DEF SurfaceInv, PreparedConfigured, HasConfigure
  <2>2. acked # 0
    BY <2>1 DEF SurfaceInv, SurfaceConsistent, NewestConfigure
  <2> QED
    BY <1>2, <1>3, <1>5, <2>2 DEF submit_commit
<1>6. CASE acked # serial
  <2>1. c.configure_serial = {serial}
    BY <1>2, <1>3, <1>6
  <2>2. acked' = CHOOSE n \in {serial} : TRUE
    BY <2>1 DEF submit_commit
  <2> QED
    BY <1>4, <1>6, <2>2 DEF submit_commit
<1> QED
  BY <1>5, <1>6

LEMMA NextTyped == SurfaceInv /\ [Next]_vars => TypeOK'
<1> SUFFICES ASSUME SurfaceInv, [Next]_vars PROVE TypeOK'
  OBVIOUS
<1> TypeOK
  BY DEF SurfaceInv
<1>0. surface \in SurfaceState
  BY DEF TypeOK
<1>1. CASE begin_initial_commit
  <2>1. surface' \in SurfaceState /\ UNCHANGED <<surface.prepared, surface.pending_configure>>
    BY <1>0, <1>1 DEF begin_initial_commit, BeginInitialCommit, SurfaceState
  <2> QED
    BY <1>1, <2>1 DEF begin_initial_commit, TypeOK, AtMostOne
<1>2. CASE receive_surface_configure
  <2>1. serial + 1 \in Serial /\ serial' \in 0 .. MaxSerial
    BY <1>2, WaylandConstants, SurfaceConstants DEF receive_surface_configure, Serial, TypeOK
  <2>2. surface' \in SurfaceState
    BY <1>0, <1>2, <2>1, ConfigureTyped DEF receive_surface_configure
  <2>3. surface'.prepared = {} /\ surface'.pending_configure = {serial + 1}
    BY <1>0, <1>2 DEF receive_surface_configure, Configure, AdvanceRevision, SurfaceState
  <2> QED
    BY <1>2, <2>1, <2>2, <2>3 DEF receive_surface_configure, TypeOK, AtMostOne
<1>3. CASE request_frame
  <2>1. surface' \in SurfaceState /\ UNCHANGED <<surface.prepared, surface.pending_configure>>
    BY <1>0, <1>3 DEF request_frame, DemandFrame, SurfaceState
  <2> QED
    BY <1>3, <2>1 DEF request_frame, TypeOK, AtMostOne
<1>4. CASE buffer_lost
  <2>1. AdvanceRevision(surface) \in SurfaceState
    BY <1>0, <1>4, AdvanceTyped DEF buffer_lost
  <2>2. surface' \in SurfaceState
    BY <1>4, <2>1 DEF buffer_lost, LoseBuffer, SurfaceState
  <2>3. surface'.prepared = {} /\ UNCHANGED surface.pending_configure
    BY <1>0, <1>4 DEF buffer_lost, LoseBuffer, AdvanceRevision, SurfaceState
  <2> QED
    BY <1>4, <2>2, <2>3 DEF buffer_lost, TypeOK, AtMostOne
<1>5. CASE prepare_commit
  <2>1. Plan(surface) \in WaylandCommit
    BY <1>0, <1>5, PlanTyped DEF prepare_commit
  <2>2. surface.next_commit_generation + 1 \in 1 .. MaxGeneration
    BY <1>0, <1>5, WaylandConstants DEF prepare_commit, PrepareOverflows, SurfaceState
  <2>3. /\ surface' \in SurfaceState
        /\ surface'.prepared = {Plan(surface)} /\ UNCHANGED surface.pending_configure
    BY <1>0, <1>5, <2>1, <2>2 DEF prepare_commit, Prepare, SurfaceState
  <2> QED
    BY <1>5, <2>1, <2>3 DEF prepare_commit, TypeOK, AtMostOne
<1>6. ASSUME NEW w \in Staged, NEW h \in Staged, receive_toplevel_configure(w, h)
      PROVE  TypeOK'
  <2>1. [width |-> w, height |-> h] \in StagedExtent
    BY SurfaceConstants DEF StagedExtent
  <2>2. surface' \in SurfaceState /\ UNCHANGED <<surface.prepared, surface.pending_configure>>
    BY <1>0, <1>6, <2>1 DEF receive_toplevel_configure, StageExtent, SurfaceState
  <2> QED
    BY <1>6, <2>2 DEF receive_toplevel_configure, TypeOK, AtMostOne
<1>7. ASSUME NEW n \in Scales, set_preferred_scale(n) PROVE TypeOK'
  <2>1. surface' \in SurfaceState
    BY <1>0, <1>7, RescaleTyped, SurfaceConstants DEF set_preferred_scale
  <2>2. surface'.prepared = {} /\ UNCHANGED surface.pending_configure
    BY <1>0, <1>7 DEF set_preferred_scale, Rescale, AdvanceRevision, SurfaceState
  <2> QED
    BY <1>7, <2>1, <2>2 DEF set_preferred_scale, TypeOK, AtMostOne
<1>8. ASSUME NEW c \in plans, submit_commit(c) PROVE TypeOK'
  <2>1. c \in WaylandCommit
    BY DEF TypeOK
  <2>2. surface' \in SurfaceState /\ surface'.prepared = {} /\ surface'.pending_configure = {}
    <3>1. /\ c.generation \in 0 .. MaxGeneration /\ c.scale_numerator \in Scale
          /\ c.request_frame_callback \in BOOLEAN
      BY <2>1, WaylandConstants DEF WaylandCommit
    <3> DEFINE r == SubmitForgettingConfigure(surface, c)
    <3>2. r \in SurfaceState /\ r.prepared = {}
      BY <1>0, <3>1 DEF SubmitForgettingConfigure, SurfaceState
    <3>3. surface' = [r EXCEPT !.pending_configure = {}]
      BY <1>8 DEF submit_commit, Submit
    <3> HIDE DEF r
    <3> QED
      BY <3>2, <3>3 DEF SurfaceState
  <2>3. acked' \in 0 .. MaxSerial
    BY <1>8, Acknowledged DEF TypeOK
  <2> QED
    BY <1>8, <2>1, <2>2, <2>3 DEF submit_commit, TypeOK, AtMostOne
<1>9. ASSUME NEW c \in plans, discard_commit(c) PROVE TypeOK'
  <2>1. /\ surface' \in SurfaceState /\ surface'.prepared = {}
        /\ UNCHANGED surface.pending_configure
    BY <1>0, <1>9 DEF discard_commit, Discard, SurfaceState
  <2> QED
    BY <1>9, <2>1 DEF discard_commit, TypeOK, AtMostOne
<1>10. ASSUME NEW c \in plans, frame_done(c.generation) PROVE TypeOK'
  <2>1. surface' \in SurfaceState /\ UNCHANGED <<surface.prepared, surface.pending_configure>>
    BY <1>0, <1>10, WaylandConstants DEF frame_done, FrameDone, SurfaceState
  <2> QED
    BY <1>10, <2>1 DEF frame_done, TypeOK, AtMostOne
<1>11. CASE UNCHANGED vars
  BY <1>11 DEF vars, TypeOK, AtMostOne
<1> QED
  BY <1>1, <1>2, <1>3, <1>4, <1>5, <1>6, <1>7, <1>8, <1>9, <1>10, <1>11 DEF Next

-----------------------------------------------------------------------------
(* What the invariant looks at in a state and in what shows it, so that a  *)
(* step that leaves all this alone keeps it.                               *)
LEMMA ConsistencyUntouched ==
  ASSUME SurfaceInv, surface \in SurfaceState,
         UNCHANGED <<shown, serial, acked>>,
         /\ surface'.desired_extent = surface.desired_extent
         /\ surface'.desired_scale = surface.desired_scale
         /\ surface'.fractional_scale_supported = surface.fractional_scale_supported
         /\ surface'.applied_extent = surface.applied_extent
         /\ surface'.applied_scale = surface.applied_scale
         /\ surface'.pending_configure = surface.pending_configure
         /\ surface'.state_revision = surface.state_revision
         /\ surface'.next_commit_generation = surface.next_commit_generation
         /\ surface'.configured = surface.configured
         /\ surface'.dirty = surface.dirty
         /\ surface'.prepared = surface.prepared
         /\ CanRequestFrame(surface) => CanRequestFrame(surface)'
  PROVE  SurfaceConsistent' /\ PreparedConfigured' /\ (acked <= serial)'
<1>1. EffectiveScale(surface)' = EffectiveScale(surface)
  BY DEF EffectiveScale
<1>2. PreparedCurrent'
  BY <1>1 DEF SurfaceInv, SurfaceConsistent, PreparedCurrent
<1>3. CleanMeansShown'
  BY <1>1 DEF SurfaceInv, SurfaceConsistent, CleanMeansShown
<1>4. NewestConfigure' /\ PreparedConfigured' /\ (acked <= serial)'
  BY DEF SurfaceInv, SurfaceConsistent, NewestConfigure, PreparedConfigured, HasConfigure
<1> QED
  BY <1>2, <1>3, <1>4 DEF SurfaceConsistent

LEMMA NextConsistent ==
  SurfaceInv /\ [Next]_vars => SurfaceConsistent' /\ PreparedConfigured' /\ (acked <= serial)'
<1> SUFFICES ASSUME SurfaceInv, [Next]_vars
             PROVE  SurfaceConsistent' /\ PreparedConfigured' /\ (acked <= serial)'
  OBVIOUS
<1>0. surface \in SurfaceState /\ serial \in Nat /\ acked \in Nat
  BY DEF SurfaceInv, TypeOK
<1>a. /\ PreparedCurrent /\ CleanMeansShown /\ NewestConfigure /\ PreparedConfigured
      /\ acked <= serial
  BY DEF SurfaceInv, SurfaceConsistent
<1> USE DEF SurfaceConsistent
<1>1. CASE begin_initial_commit
  BY <1>0, <1>1, ConsistencyUntouched
     DEF begin_initial_commit, BeginInitialCommit, SurfaceState, CanRequestFrame
<1>2. CASE receive_surface_configure
  <2>1. /\ surface'.prepared = {} /\ surface'.pending_configure = {serial + 1}
        /\ surface'.configured = surface.configured
    BY <1>0, <1>2 DEF receive_surface_configure, Configure, AdvanceRevision, SurfaceState
  <2>2. serial' = serial + 1 /\ acked' = acked
    BY <1>2 DEF receive_surface_configure
  <2> QED
    BY <1>0, <1>a, <2>1, <2>2
       DEF PreparedCurrent, CleanMeansShown, NewestConfigure, PreparedConfigured
<1>3. CASE request_frame
  BY <1>0, <1>3, ConsistencyUntouched DEF request_frame, DemandFrame, SurfaceState, CanRequestFrame
<1>4. CASE buffer_lost
  <2>1. /\ surface'.prepared = {} /\ surface'.dirty
        /\ UNCHANGED <<surface.pending_configure, surface.configured>>
    BY <1>0, <1>4 DEF buffer_lost, LoseBuffer, AdvanceRevision, SurfaceState
  <2> QED
    BY <1>4, <1>a, <2>1 DEF buffer_lost, PreparedCurrent, CleanMeansShown, NewestConfigure,
       PreparedConfigured
<1>5. CASE prepare_commit
  <2>1. /\ surface' = [surface EXCEPT !.prepared = {Plan(surface)},
                          !.next_commit_generation = surface.next_commit_generation + 1]
        /\ UNCHANGED <<shown, serial, acked>>
    BY <1>5 DEF prepare_commit, Prepare
  <2>2. /\ surface'.prepared = {Plan(surface)}
        /\ surface'.next_commit_generation = surface.next_commit_generation + 1
        /\ surface'.desired_extent = surface.desired_extent
        /\ surface'.desired_scale = surface.desired_scale
        /\ surface'.fractional_scale_supported = surface.fractional_scale_supported
        /\ surface'.applied_extent = surface.applied_extent
        /\ surface'.applied_scale = surface.applied_scale
        /\ surface'.pending_configure = surface.pending_configure
        /\ surface'.state_revision = surface.state_revision
        /\ surface'.configured = surface.configured
        /\ surface'.dirty = surface.dirty
        /\ surface'.frame_demand = surface.frame_demand
        /\ surface'.frame_callback_generation = surface.frame_callback_generation
    BY <1>0, <2>1 DEF SurfaceState
  <2>3. EffectiveScale(surface)' = EffectiveScale(surface)
    BY <2>2 DEF EffectiveScale
  <2>4. ValidCommit(Plan(surface))
    BY <1>0, <1>5, PlanTyped DEF prepare_commit
  <2>5. PreparedCurrent'
    <3> SUFFICES ASSUME NEW c, c = Plan(surface)
                 PROVE  /\ ValidCommit(c)
                        /\ c.state_revision = surface'.state_revision
                        /\ c.configure_serial = surface'.pending_configure
                        /\ c.logical_extent = surface'.desired_extent
                        /\ c.scale_numerator = EffectiveScale(surface)'
                        /\ c.request_frame_callback => CanRequestFrame(surface)'
                        /\ c.generation < surface'.next_commit_generation
      BY <2>2 DEF PreparedCurrent
    <3>1. /\ c.state_revision = surface.state_revision
          /\ c.configure_serial = surface.pending_configure
          /\ c.logical_extent = surface.desired_extent
          /\ c.scale_numerator = EffectiveScale(surface)
          /\ c.request_frame_callback => CanRequestFrame(surface)
          /\ c.generation = surface.next_commit_generation
      BY DEF Plan
    <3>2. surface.next_commit_generation \in Nat
      BY <1>0, WaylandConstants DEF SurfaceState
    <3>3. CanRequestFrame(surface)' = CanRequestFrame(surface)
      BY <2>2 DEF CanRequestFrame
    <3> QED
      BY <2>2, <2>3, <2>4, <3>1, <3>2, <3>3
  <2>6. CleanMeansShown'
    BY <1>a, <2>1, <2>2, <2>3 DEF CleanMeansShown
  <2>7. NewestConfigure' /\ PreparedConfigured' /\ (acked <= serial)'
    BY <1>5, <1>a, <2>1, <2>2 DEF NewestConfigure, PreparedConfigured, prepare_commit, ToPrepare,
       HasConfigure
  <2> QED
    BY <2>5, <2>6, <2>7
<1>6. ASSUME NEW w \in Staged, NEW h \in Staged, receive_toplevel_configure(w, h)
      PROVE  SurfaceConsistent' /\ PreparedConfigured' /\ (acked <= serial)'
  BY <1>0, <1>6, ConsistencyUntouched
     DEF receive_toplevel_configure, StageExtent, SurfaceState, CanRequestFrame
<1>7. ASSUME NEW n \in Scales, set_preferred_scale(n)
      PROVE  SurfaceConsistent' /\ PreparedConfigured' /\ (acked <= serial)'
  <2>1. /\ surface'.prepared = {} /\ surface'.dirty = (surface.dirty \/ HasConfigure(surface))
        /\ UNCHANGED <<surface.pending_configure, surface.configured>>
    BY <1>0, <1>7 DEF set_preferred_scale, Rescale, AdvanceRevision, SurfaceState
  <2> QED
    BY <1>7, <1>a, <2>1 DEF set_preferred_scale, PreparedCurrent, CleanMeansShown,
       NewestConfigure, PreparedConfigured, HasConfigure
<1>8. ASSUME NEW c \in plans, submit_commit(c)
      PROVE  SurfaceConsistent' /\ PreparedConfigured' /\ (acked <= serial)'
  <2>1. /\ surface'.prepared = {} /\ surface'.pending_configure = {}
        /\ surface'.desired_extent = surface.desired_extent
        /\ surface'.desired_scale = surface.desired_scale
        /\ surface'.fractional_scale_supported = surface.fractional_scale_supported
        /\ surface'.applied_extent = surface.desired_extent
        /\ surface'.applied_scale = c.scale_numerator
    BY <1>0, <1>8 DEF submit_commit, Submit, SubmitForgettingConfigure, SurfaceState
  <2>2. acked' = serial /\ serial # 0 /\ serial' = serial /\ shown' = {c}
    BY <1>8, Acknowledged DEF submit_commit
  <2>3. c.logical_extent = surface.desired_extent /\ c.scale_numerator = EffectiveScale(surface)
    BY <1>8, <1>a DEF submit_commit, Submits, PreparedCurrent
  <2>4. EffectiveScale(surface)' = EffectiveScale(surface)
    BY <2>1 DEF EffectiveScale
  <2> QED
    BY <1>0, <2>1, <2>2, <2>3, <2>4 DEF PreparedCurrent, CleanMeansShown, NewestConfigure,
       PreparedConfigured
<1>9. ASSUME NEW c \in plans, discard_commit(c)
      PROVE  SurfaceConsistent' /\ PreparedConfigured' /\ (acked <= serial)'
  <2>1. /\ surface'.prepared = {} /\ surface'.dirty
        /\ UNCHANGED <<surface.pending_configure, surface.configured>>
    BY <1>0, <1>9 DEF discard_commit, Discard, SurfaceState
  <2> QED
    BY <1>9, <1>a, <2>1 DEF discard_commit, PreparedCurrent, CleanMeansShown,
       NewestConfigure, PreparedConfigured
<1>10. ASSUME NEW c \in plans, frame_done(c.generation)
       PROVE  SurfaceConsistent' /\ PreparedConfigured' /\ (acked <= serial)'
  BY <1>0, <1>10, ConsistencyUntouched
     DEF frame_done, FrameDone, SurfaceState, CanRequestFrame
<1>11. CASE UNCHANGED vars
  BY <1>0, <1>11, ConsistencyUntouched DEF vars, CanRequestFrame
<1> QED
  BY <1>1, <1>2, <1>3, <1>4, <1>5, <1>6, <1>7, <1>8, <1>9, <1>10, <1>11 DEF Next

LEMMA SurfaceInvariant == Spec => []SurfaceInv
<1>1. Init => SurfaceInv
  <2> SUFFICES ASSUME Init PROVE SurfaceInv
    OBVIOUS
  <2>1. /\ surface.prepared = {} /\ surface.pending_configure = {} /\ surface.configured = FALSE
        /\ serial = 0 /\ acked = 0
    BY DEF Init, NewSurface
  <2> QED
    BY <2>1, InitTyped DEF SurfaceInv, SurfaceConsistent, PreparedCurrent, CleanMeansShown,
       NewestConfigure, PreparedConfigured
<1>2. SurfaceInv /\ [Next]_vars => SurfaceInv'
  BY NextTyped, NextConsistent DEF SurfaceInv
<1> QED
  BY <1>1, <1>2, PTL DEF Spec

(* The surface state stays well typed: revisions and generations never     *)
(* pass their limit, and every plan handed out has dimensions and scales   *)
(* within the protocol's.                                                  *)
THEOREM TypeCorrect == Spec => []TypeOK
BY SurfaceInvariant, PTL DEF SurfaceInv

(* No stale plan is committed, no change is forgotten before it is shown,  *)
(* and the newest configure is the one acknowledged, for any caller.       *)
THEOREM SurfaceStaysConsistent == Spec => []SurfaceConsistent
BY SurfaceInvariant, PTL DEF SurfaceInv
-----------------------------------------------------------------------------
(***************************************************************************)
(* The seat: the host and the key repeat follow it.                        *)
(***************************************************************************)

(* What RepeatFits says of a window w, whatever handler produced it. *)
RepeatSound(w) ==
  /\ w.candidate # NoKey => w.focused /\ w.candidate \in w.pressed
  /\ w.timer.generation = IF Scheduled(w) THEN w.generation ELSE 0

(* v is w up to the repeat state and the timer. *)
SameSeat(v, w) ==
  /\ v.pointer = w.pointer /\ v.entered = w.entered /\ v.active = w.active
  /\ v.keyboard = w.keyboard /\ v.keymap = w.keymap /\ v.focused = w.focused
  /\ v.pressed = w.pressed /\ v.native_running = w.native_running
  /\ v.host_running = w.host_running

(* sync_repeat_timer makes the timer fit the schedule. *)
LEMMA ScheduledTimer ==
  ASSUME NEW w \in Input
  PROVE  LET s == sync_repeat_timer(w)
         IN  /\ s \in Input /\ SameSeat(s, w)
             /\ s.candidate = w.candidate
             /\ s.timer.generation = IF Scheduled(s) THEN s.generation ELSE 0
BY InputConstants DEF sync_repeat_timer, Input, NoTimer, Scheduled, RepeatGeneration, SameSeat

(* A new candidate changes the repeat state alone. *)
LEMMA CandidateTyped ==
  ASSUME NEW w \in Input, CanAdvanceRepeat(w), NEW k \in Keys \cup {NoKey}
  PROVE  LET v == WithCandidate(w, k)
         IN  v \in Input /\ SameSeat(v, w) /\ v.candidate = k
<1>1. w.generation + 1 \in RepeatGeneration
  BY InputConstants DEF CanAdvanceRepeat, Input, RepeatGeneration
<1> QED
  BY <1>1 DEF WithCandidate, Input, SameSeat

(* cancel_repeat, unless it throws, leaves no candidate and no timer. *)
LEMMA CancelLeaves ==
  ASSUME NEW w \in Input, NEW ok \in BOOLEAN
  PROVE  LET c == cancel_repeat(w, ok)
         IN  /\ c \in Input /\ SameSeat(c, w)
             /\ ~CancelThrows(w, ok) => c.candidate = NoKey /\ c.timer.generation = 0
<1> DEFINE d == Cancelled(w)
           s == sync_repeat_timer(d)
<1>1. CASE w.candidate # NoKey /\ ~CanAdvanceRepeat(w)
  BY <1>1 DEF cancel_repeat, CancelThrows, SameSeat
<1>2. CASE ~(w.candidate # NoKey /\ ~CanAdvanceRepeat(w))
  <2>1. d \in Input /\ SameSeat(d, w) /\ d.candidate = NoKey
    BY <1>2, CandidateTyped DEF Cancelled, SameSeat
  <2>2. s \in Input /\ SameSeat(s, d) /\ s.candidate = NoKey /\ s.timer.generation = 0
    BY <2>1, ScheduledTimer DEF Scheduled
  <2>3. cancel_repeat(w, ok) = IF ok THEN s ELSE d
    BY <1>2 DEF cancel_repeat
  <2>4. CancelThrows(w, ok) <=> ~ok
    BY <1>2 DEF CancelThrows
  <2> HIDE DEF d, s
  <2> QED
    BY <2>1, <2>2, <2>3, <2>4 DEF SameSeat
<1> QED
  BY <1>1, <1>2

(* destroy_xkb leaves no key held, and of a window that still runs no      *)
(* candidate and no timer.                                                 *)
LEMMA XkbGone ==
  ASSUME NEW w \in Input, NEW ok \in BOOLEAN
  PROVE  LET d == destroy_xkb(w, ok)
         IN  /\ d \in Input /\ d.pressed = {}
             /\ d.pointer = w.pointer /\ d.entered = w.entered /\ d.active = w.active
             /\ d.keyboard = w.keyboard /\ d.focused = w.focused
             /\ d.native_running = w.native_running
             /\ d.host_running => w.host_running
             /\ d.host_running /\ w.native_running =>
                  d.candidate = NoKey /\ d.timer.generation = 0
<1> DEFINE c == cancel_repeat(w, ok)
           n == cancel_repeat_noexcept(w, ok)
           d == destroy_xkb(w, ok)
<1>1. /\ c \in Input /\ SameSeat(c, w)
      /\ ~CancelThrows(w, ok) => c.candidate = NoKey /\ c.timer.generation = 0
  BY CancelLeaves
<1>2. n = IF CancelThrows(w, ok) /\ w.native_running THEN [c EXCEPT !.host_running = FALSE] ELSE c
  BY DEF cancel_repeat_noexcept, fail_native
<1>3. d = [n EXCEPT !.keymap = FALSE, !.pressed = {}]
  BY DEF destroy_xkb
<1> HIDE DEF c, n, d
<1>4. /\ n \in Input
      /\ n.pointer = c.pointer /\ n.entered = c.entered /\ n.active = c.active
      /\ n.keyboard = c.keyboard /\ n.focused = c.focused
      /\ n.native_running = c.native_running
      /\ n.candidate = c.candidate /\ n.timer = c.timer
      /\ n.host_running => c.host_running
      /\ n.host_running => ~(CancelThrows(w, ok) /\ w.native_running)
  <2>1. CASE CancelThrows(w, ok) /\ w.native_running
    BY <1>1, <1>2, <2>1 DEF Input
  <2>2. CASE ~(CancelThrows(w, ok) /\ w.native_running)
    BY <1>1, <1>2, <2>2
  <2> QED
    BY <2>1, <2>2
<1>5. /\ d \in Input /\ d.pressed = {}
      /\ d.pointer = n.pointer /\ d.entered = n.entered /\ d.active = n.active
      /\ d.keyboard = n.keyboard /\ d.focused = n.focused
      /\ d.native_running = n.native_running /\ d.host_running = n.host_running
      /\ d.candidate = n.candidate /\ d.timer = n.timer
  BY <1>3, <1>4 DEF Input
<1> QED
  BY <1>1, <1>4, <1>5 DEF SameSeat, d

-----------------------------------------------------------------------------
(* Neither invariant says it, and both need it: the native side outlives   *)
(* the host, and a window that lost the focus holds no key.                *)
RunningWindow(w) == w.native_running /\ (w.pressed # {} => w.focused)

(* The inductive invariant. *)
InputInv ==
  /\ InputTypeOK
  /\ HostFollowsSeat /\ RepeatFits
  /\ input.host_running => RunningWindow(input)

(* It holds of a new window. *)
LEMMA InitInput == InputInit => InputInv
BY InputConstants DEF InputInit, InputInv, InputTypeOK, Input, HostFollowsSeat, RepeatFits, NoTimer,
   RepeatGeneration, Scheduled, RunningWindow

(* The pointer's handlers preserve it. *)
LEMMA PointerNext ==
  ASSUME InputInv,
         \/ handle_pointer_enter \/ handle_pointer_leave
         \/ \E b \in BOOLEAN : handle_pointer_button(b)
  PROVE  InputInv'
<1> USE DEF InputInv, InputTypeOK, Input, HostFollowsSeat, RepeatFits, Scheduled, RunningWindow
<1>1. CASE handle_pointer_enter
  BY <1>1 DEF handle_pointer_enter
<1>2. CASE handle_pointer_leave
  BY <1>2 DEF handle_pointer_leave, LeavePointer, PointerGone, Tells
<1>3. CASE \E b \in BOOLEAN : handle_pointer_button(b)
  <2>1. CASE /\ input' = fail_native(input) /\ UNCHANGED <<told, poll, held>>
    BY <2>1 DEF fail_native
  <2>2. CASE /\ input.entered /\ input.pointer
             /\ input' = [input EXCEPT !.active = TRUE]
             /\ told' = Tells(input, [told EXCEPT !.down = TRUE])
             /\ UNCHANGED <<poll, held>>
    BY <2>2 DEF Tells
  <2>3. CASE /\ input' = [input EXCEPT !.active = FALSE]
             /\ told' = Tells(input, [told EXCEPT !.down = FALSE])
             /\ UNCHANGED <<poll, held>>
    BY <2>3 DEF Tells
  <2> QED
    BY <1>3, <2>1, <2>2, <2>3 DEF handle_pointer_button
<1> QED
  BY <1>1, <1>2, <1>3

(* So do the poll, the timer and its end of dispatch: a repeat is sent     *)
(* only for a candidate the host saw go down.                              *)
LEMMA DispatchNext ==
  ASSUME InputInv,
         \/ StartPoll \/ PollReturns \/ TimerExpires \/ HostStopsInput
         \/ \E ok \in BOOLEAN : EndDispatch(ok)
  PROVE  InputInv'
<1> USE DEF InputInv, InputTypeOK, Input, HostFollowsSeat, RepeatFits, Scheduled, RunningWindow
<1> USE InputConstants
<1>1. CASE StartPoll
  BY <1>1 DEF StartPoll, RepeatGeneration
<1>2. CASE PollReturns
  <2>1. (input.timer.expired > 0) \in BOOLEAN
    OBVIOUS
  <2>2. poll' \in [phase : {"idle", "polling", "events"},
               generation : 0 .. MaxRepeatGeneration, ready : BOOLEAN]
    BY <1>2, <2>1 DEF PollReturns
  <2> QED
    BY <1>2, <2>2 DEF PollReturns
<1>3. CASE TimerExpires
  BY <1>3 DEF TimerExpires
<1>4. CASE HostStopsInput
  BY <1>4 DEF HostStopsInput, fail_native
<1>5. ASSUME NEW ok \in BOOLEAN, EndDispatch(ok)
      PROVE  InputInv'
  <2>1. poll' \in [phase : {"idle", "polling", "events"},
               generation : 0 .. MaxRepeatGeneration, ready : BOOLEAN]
    BY <1>5 DEF EndDispatch
  <2>2. CASE input' = fail_native(input) /\ UNCHANGED <<told, held>>
    BY <2>1, <2>2 DEF fail_native
  <2>3. CASE UNCHANGED <<input, told, held>>
    BY <2>1, <2>3
  <2>4. CASE /\ input' = [input EXCEPT !.timer.expired = 0]
             /\ told' = IF Repeats(input) /\ input.candidate \notin told.keys \cap held
                           THEN Tells(input, [told EXCEPT !.stray = TRUE]) ELSE told
             /\ UNCHANGED held
    <3>1. told' = told
      BY <2>4 DEF Repeats, Tells
    <3>2. input' = [input EXCEPT !.timer.expired = 0] /\ held' = held
      BY <2>4
    <3>3. 0 \in 0 .. MaxExpirations
      OBVIOUS
    <3> QED
      BY <2>1, <3>1, <3>2, <3>3
  <2> QED
    BY <1>5, <2>2, <2>3, <2>4 DEF EndDispatch
<1> QED
  BY <1>1, <1>2, <1>3, <1>4, <1>5

(* The keyboard's handlers other than a key's. *)
LEMMA KeyboardNext ==
  ASSUME InputInv, NEW ok \in BOOLEAN,
         \/ handle_keyboard_enter \/ handle_keyboard_keymap(ok) \/ handle_keyboard_leave(ok)
         \/ \E s \in Settings : handle_keyboard_repeat_info(s, ok)
  PROVE  InputInv'
<1>1. CASE handle_keyboard_enter
  BY <1>1 DEF handle_keyboard_enter, InputInv, InputTypeOK, Input, HostFollowsSeat, RepeatFits, Scheduled,
     RunningWindow, Tells
<1>2. CASE handle_keyboard_keymap(ok)
  <2>1. CASE ok
    <3> DEFINE d == destroy_xkb(input, ok)
    <3>1. /\ d \in Input /\ d.pressed = {}
          /\ d.pointer = input.pointer /\ d.entered = input.entered /\ d.active = input.active
          /\ d.keyboard = input.keyboard /\ d.focused = input.focused
          /\ d.native_running = input.native_running
          /\ d.host_running => input.host_running
          /\ d.host_running /\ input.native_running =>
                  d.candidate = NoKey /\ d.timer.generation = 0
      BY XkbGone, ZenonT(40) DEF InputInv, InputTypeOK
    <3>2. input' = [d EXCEPT !.keymap = TRUE] /\ UNCHANGED <<poll, told, held>>
      BY <1>2, <2>1 DEF handle_keyboard_keymap
    <3> HIDE DEF d
    <3> QED
      BY <3>1, <3>2 DEF InputInv, InputTypeOK, Input, HostFollowsSeat, RepeatFits, RunningWindow, Scheduled
  <2>2. CASE ~ok
    BY <1>2, <2>2 DEF handle_keyboard_keymap, fail_native, InputInv, InputTypeOK, Input, HostFollowsSeat,
                      RepeatFits, RunningWindow, Scheduled
  <2> QED
    BY <2>1, <2>2
<1>3. CASE handle_keyboard_leave(ok)
  <2> DEFINE c == cancel_repeat(input, ok)
  <2>1. /\ c \in Input /\ SameSeat(c, input)
        /\ ~CancelThrows(input, ok) => c.candidate = NoKey /\ c.timer.generation = 0
    BY CancelLeaves DEF InputInv, InputTypeOK
  <2>2. poll' = poll /\ held' = {}
    BY <1>3 DEF handle_keyboard_leave
  <2>3. CASE CancelThrows(input, ok)
    <3>1. input' = [c EXCEPT !.host_running = FALSE] /\ told' = told
      BY <1>3, <2>3 DEF handle_keyboard_leave, fail_native
    <3> HIDE DEF c
    <3> QED
      BY <2>1, <2>2, <3>1 DEF InputInv, InputTypeOK, Input, HostFollowsSeat, RepeatFits, RunningWindow
  <2>4. CASE ~CancelThrows(input, ok)
    <3>1. /\ input' = [c EXCEPT !.focused = FALSE, !.pressed = {}]
          /\ told' = Tells(input, [told EXCEPT !.focused = FALSE, !.keys = {}])
      BY <1>3, <2>4 DEF handle_keyboard_leave
    <3> HIDE DEF c
    <3> QED
      BY <2>1, <2>2, <2>4, <3>1
      DEF InputInv, InputTypeOK, Input, HostFollowsSeat, RepeatFits, RunningWindow, Scheduled, SameSeat, Tells
  <2> QED
    BY <2>3, <2>4
<1>4. ASSUME NEW s \in Settings, handle_keyboard_repeat_info(s, ok)
      PROVE  InputInv'
  <2> DEFINE w == IF s = input.setting THEN input
                  ELSE [input EXCEPT !.setting = s, !.generation = @ + 1]
             v == sync_repeat_timer(w)
  <2>1. UNCHANGED <<poll, told, held>>
    BY <1>4 DEF handle_keyboard_repeat_info
  <2>2. CASE s # input.setting /\ ~CanAdvanceRepeat(input)
    BY <1>4, <2>1, <2>2 DEF handle_keyboard_repeat_info, fail_native, InputInv, InputTypeOK, Input,
       HostFollowsSeat, RepeatFits, RunningWindow
  <2>3. CASE s = input.setting \/ CanAdvanceRepeat(input)
    <3>1. input.generation + 1 \in RepeatGeneration \/ s = input.setting
      BY <2>3, InputConstants DEF CanAdvanceRepeat, RepeatGeneration, InputInv, InputTypeOK, Input
    <3>2. /\ w \in Input /\ SameSeat(w, input)
          /\ w.candidate = input.candidate
      <4>1. CASE s = input.setting
        BY <4>1 DEF SameSeat, InputInv, InputTypeOK
      <4>2. CASE s # input.setting
        <5>1. w = [input EXCEPT !.setting = s, !.generation = input.generation + 1]
          BY <4>2
        <5>2. input \in Input /\ input.generation + 1 \in RepeatGeneration
          BY <3>1, <4>2 DEF InputInv, InputTypeOK
        <5> HIDE DEF w
        <5> QED
          BY <5>1, <5>2 DEF SameSeat, Input
      <4> QED
        BY <4>1, <4>2
    <3>3. input' = IF ok THEN v ELSE [w EXCEPT !.host_running = FALSE]
      BY <1>4, <2>3 DEF handle_keyboard_repeat_info, fail_native
    <3>4. /\ v \in Input /\ SameSeat(v, w)
          /\ v.candidate = w.candidate
          /\ v.timer.generation = IF Scheduled(v) THEN v.generation ELSE 0
      BY <3>2, ScheduledTimer
    <3> HIDE DEF v, w
    <3>5. CASE ok
      BY <2>1, <3>2, <3>3, <3>4, <3>5 DEF SameSeat, InputInv, InputTypeOK, HostFollowsSeat, RepeatFits, RunningWindow
    <3>6. CASE ~ok
      <4>1. /\ input' \in Input /\ input'.host_running = FALSE
            /\ input'.native_running = w.native_running /\ input'.pressed = w.pressed
            /\ input'.focused = w.focused
        BY <3>2, <3>3, <3>6 DEF Input
      <4> QED
        BY <2>1, <3>2, <4>1 DEF SameSeat, InputInv, InputTypeOK, HostFollowsSeat, RepeatFits, RunningWindow
    <3> QED
      BY <3>5, <3>6
  <2> QED
    BY <2>2, <2>3
<1> QED
  BY <1>1, <1>2, <1>3, <1>4

(* A key: a press makes it the candidate only while the window is focused, *)
(* a release cancels the candidate before the key is let go.               *)
LEMMA KeyNext ==
  ASSUME InputInv, NEW ok \in BOOLEAN, NEW k \in Keys, NEW b \in BOOLEAN,
         handle_keyboard_key(k, b, ok)
  PROVE  InputInv'
<1>0. /\ input \in Input /\ poll' = poll /\ input.keyboard /\ held' \subseteq Keys
      /\ k \in RepeatingKeys \/ k \notin RepeatingKeys
  BY DEF handle_keyboard_key, InputInv, InputTypeOK
<1>1. CASE b
  <2> DEFINE w == [input EXCEPT !.pressed = @ \cup {k}]
  <2>1. KeyDown(k, ok) /\ held' = held \cup {k}
    BY <1>1 DEF handle_keyboard_key
  <2>2. CASE input' = fail_native(input) /\ UNCHANGED told
    BY <1>0, <2>2 DEF fail_native, InputInv, InputTypeOK, Input, HostFollowsSeat, RepeatFits
  <2>3. CASE UNCHANGED <<input, told>>
    BY <1>0, <2>1, <2>3 DEF InputInv, InputTypeOK, HostFollowsSeat, RepeatFits, Scheduled
  <2>w. w \in Input
    BY <1>0 DEF Input
  <2>4. CASE /\ input' = fail_native(IF CanAdvanceRepeat(w) THEN WithCandidate(w, k) ELSE w)
             /\ UNCHANGED told
    <3> DEFINE v == IF CanAdvanceRepeat(w) THEN WithCandidate(w, k) ELSE w
    <3>1. v \in Input
      BY <2>w, CandidateTyped
    <3>2. input' = [v EXCEPT !.host_running = FALSE] /\ told' = told
      BY <2>4 DEF fail_native
    <3> HIDE DEF v
    <3> QED
      BY <1>0, <3>1, <3>2 DEF InputInv, InputTypeOK, Input, HostFollowsSeat, RepeatFits
  <2>5. CASE /\ input.focused
             /\ k \in RepeatingKeys => CanAdvanceRepeat(w)
             /\ input' = IF k \in RepeatingKeys THEN sync_repeat_timer(WithCandidate(w, k)) ELSE w
             /\ told' = Tells(input, [told EXCEPT !.keys = @ \cup {k}])
    <3>1. /\ told' \in [down : BOOLEAN, focused : BOOLEAN, keys : SUBSET Keys, stray : BOOLEAN]
          /\ ~told'.stray
          /\ input.host_running => /\ told'.down = input.active
                                   /\ told'.focused = input.focused
                                   /\ input.pressed \cup {k} \subseteq told'.keys \cap held'
      BY <2>1, <2>5 DEF InputInv, InputTypeOK, RepeatFits, HostFollowsSeat, Tells
    <3>2. CASE k \in RepeatingKeys
      <4> DEFINE c == WithCandidate(w, k)
                 s == sync_repeat_timer(c)
      <4>1. c \in Input /\ SameSeat(c, w) /\ c.candidate = k
        BY <2>w, <2>5, <3>2, CandidateTyped
      <4>2. /\ s \in Input /\ SameSeat(s, c) /\ s.candidate = k
            /\ s.timer.generation = IF Scheduled(s) THEN s.generation ELSE 0
        BY <4>1, ScheduledTimer
      <4>3. w.focused /\ k \in w.pressed
        BY <1>0, <2>5 DEF Input
      <4>4. input' = s
        BY <2>5, <3>2
      <4> HIDE DEF c, s, w
      <4>5. SameSeat(s, w) /\ s.focused /\ k \in s.pressed
        BY <4>1, <4>2, <4>3 DEF SameSeat
      <4>6. InputTypeOK'
        BY <1>0, <3>1, <4>2, <4>4 DEF InputInv, InputTypeOK
      <4>7. HostFollowsSeat' /\ (input.host_running => RunningWindow(input))'
        BY <1>0, <3>1, <4>5, <4>4 DEF InputInv, HostFollowsSeat, RunningWindow, SameSeat, Input, w
      <4>8. RepeatFits'
        BY <3>1, <4>2, <4>5, <4>4 DEF RepeatFits
      <4> QED
        BY <4>6, <4>7, <4>8 DEF InputInv
    <3>3. CASE k \notin RepeatingKeys
      <4>1. input' = w
        BY <2>5, <3>3
      <4>2. InputTypeOK'
        BY <1>0, <2>w, <3>1, <4>1 DEF InputInv, InputTypeOK
      <4>3. HostFollowsSeat' /\ (input.host_running => RunningWindow(input))'
        BY <1>0, <2>5, <3>1, <4>1 DEF InputInv, HostFollowsSeat, RunningWindow, Input
      <4>4. RepeatFits'
        BY <1>0, <3>1, <4>1 DEF InputInv, RepeatFits, Scheduled, Input
      <4> QED
        BY <4>2, <4>3, <4>4 DEF InputInv
    <3> QED
      BY <1>0, <3>2, <3>3
  <2> QED
    BY <2>1, <2>2, <2>3, <2>4, <2>5 DEF KeyDown
<1>2. CASE ~b
  <2> DEFINE c == cancel_repeat(input, ok)
             w == ReleaseCandidate(k, ok)
             throws == input.candidate = k /\ CancelThrows(input, ok)
  <2>1. KeyUp(k, ok) /\ held' = held \ {k}
    BY <1>2 DEF handle_keyboard_key
  <2>2. /\ c \in Input /\ SameSeat(c, input)
        /\ ~CancelThrows(input, ok) => c.candidate = NoKey /\ c.timer.generation = 0
    BY <1>0, CancelLeaves
  <2>3. w = IF input.candidate = k THEN c ELSE input
    BY DEF ReleaseCandidate
  <2> HIDE DEF c
  <2>4. CASE input' = fail_native(input) /\ UNCHANGED told
    BY <1>0, <2>4 DEF fail_native, InputInv, InputTypeOK, Input, HostFollowsSeat, RepeatFits
  <2>5. w \in Input /\ SameSeat(w, input)
    BY <1>0, <2>2, <2>3 DEF SameSeat
  <2> HIDE DEF w
  <2>6. CASE input' = fail_native(w) /\ UNCHANGED told
    BY <1>0, <2>5, <2>6 DEF fail_native, InputInv, InputTypeOK, Input, HostFollowsSeat, RepeatFits
  <2>7. CASE /\ ~throws
             /\ IF w.focused /\ k \in w.pressed
                  THEN /\ input' = [w EXCEPT !.pressed = @ \ {k}]
                       /\ told' = Tells(input, [told EXCEPT !.keys = @ \ {k}])
                  ELSE input' = w /\ UNCHANGED told
    <3>1. /\ input.host_running => w.candidate # k /\ RepeatSound(w)
          /\ w.host_running = input.host_running
      BY <2>2, <2>3, <2>5, <2>7, InputConstants
      DEF InputInv, RepeatFits, RepeatSound, SameSeat, Scheduled
    <3>2. CASE w.focused /\ k \in w.pressed
      <4>1. /\ input' = [w EXCEPT !.pressed = @ \ {k}]
            /\ told' = Tells(input, [told EXCEPT !.keys = @ \ {k}])
        BY <2>7, <3>2
      <4>2. InputTypeOK'
        BY <1>0, <2>5, <4>1 DEF InputInv, InputTypeOK, Input, Tells
      <4>3. HostFollowsSeat' /\ (input.host_running => RunningWindow(input))'
        BY <1>0, <2>1, <2>5, <4>1, ZenonT(40) DEF InputInv, InputTypeOK, HostFollowsSeat, RunningWindow, SameSeat, Input, Tells
      <4>4. RepeatFits'
        BY <2>5, <3>1, <4>1 DEF InputInv, InputTypeOK, RepeatFits, RepeatSound, Scheduled, Input, Tells
      <4> QED
        BY <4>2, <4>3, <4>4 DEF InputInv
    <3>3. CASE ~(w.focused /\ k \in w.pressed)
      <4>1. input' = w /\ told' = told
        BY <2>7, <3>3
      <4>2. InputTypeOK'
        BY <1>0, <2>5, <4>1 DEF InputInv, InputTypeOK
      <4>3. HostFollowsSeat' /\ (input.host_running => RunningWindow(input))'
        BY <1>0, <2>1, <2>5, <3>3, <4>1, ZenonT(40) DEF InputInv, InputTypeOK, HostFollowsSeat, RunningWindow, SameSeat, Input
      <4>4. RepeatFits'
        BY <3>1, <4>1 DEF InputInv, RepeatFits, RepeatSound, Scheduled
      <4> QED
        BY <4>2, <4>3, <4>4 DEF InputInv
    <3> QED
      BY <3>2, <3>3
  <2> QED
    BY <2>1, <2>4, <2>6, <2>7 DEF KeyUp, w
<1> QED
  BY <1>1, <1>2

(* What the teardown of the pointer, and of the keyboard, leaves. *)
LEMMA PointerGoneSound ==
  ASSUME NEW w \in Input
  PROVE  LET p == destroy_pointer(w)
         IN  /\ p \in Input /\ ~p.active
             /\ p.keyboard = w.keyboard /\ p.keymap = w.keymap /\ p.focused = w.focused
             /\ p.pressed = w.pressed /\ p.native_running = w.native_running
             /\ p.host_running = w.host_running /\ p.candidate = w.candidate
             /\ p.setting = w.setting /\ p.generation = w.generation /\ p.timer = w.timer
BY DEF destroy_pointer, Input

LEMMA KeyboardGoneSound ==
  ASSUME NEW w \in Input, NEW ok \in BOOLEAN
  PROVE  LET d == destroy_keyboard(w, ok)
         IN  /\ d \in Input /\ d.pressed = {} /\ ~d.focused
             /\ d.pointer = w.pointer /\ d.entered = w.entered /\ d.active = w.active
             /\ d.native_running = w.native_running
             /\ d.host_running => w.host_running
             /\ d.host_running /\ w.native_running =>
                  d.candidate = NoKey /\ d.timer.generation = 0
<1> DEFINE x == destroy_xkb(w, ok)
           d == destroy_keyboard(w, ok)
<1>1. /\ x \in Input /\ x.pressed = {}
      /\ x.pointer = w.pointer /\ x.entered = w.entered /\ x.active = w.active
      /\ x.native_running = w.native_running
      /\ x.host_running => w.host_running
      /\ x.host_running /\ w.native_running => x.candidate = NoKey /\ x.timer.generation = 0
  BY XkbGone
<1>2. d = [x EXCEPT !.focused = FALSE, !.keyboard = FALSE]
  BY DEF destroy_keyboard
<1> HIDE DEF x, d
<1>3. d \in Input
  BY <1>1, <1>2 DEF Input
<1>4. /\ d.pressed = x.pressed /\ d.focused = FALSE
      /\ d.pointer = x.pointer /\ d.entered = x.entered /\ d.active = x.active
      /\ d.native_running = x.native_running /\ d.host_running = x.host_running
      /\ d.candidate = x.candidate /\ d.timer = x.timer
  BY <1>1, <1>2 DEF Input
<1>5. /\ d \in Input /\ d.pressed = {} /\ ~d.focused
      /\ d.pointer = w.pointer /\ d.entered = w.entered /\ d.active = w.active
      /\ d.native_running = w.native_running
      /\ d.host_running => w.host_running
      /\ d.host_running /\ w.native_running => d.candidate = NoKey /\ d.timer.generation = 0
  BY <1>1, <1>3, <1>4
<1> QED
  BY <1>5 DEF d

(* shutdown_native: the host has stopped, so only the types matter. *)
LEMMA ShutdownNext ==
  ASSUME InputInv, NEW ok \in BOOLEAN, ShutdownInput(ok)
  PROVE  InputInv'
<1> DEFINE n == [input EXCEPT !.native_running = FALSE]
           p == destroy_pointer(n)
           d == destroy_keyboard(p, ok)
<1>1. n \in Input /\ ~n.host_running
  BY DEF ShutdownInput, InputInv, InputTypeOK, Input
<1>2. p \in Input /\ ~p.host_running
  BY <1>1, PointerGoneSound
<1>3. d \in Input /\ ~d.host_running
  BY <1>2, KeyboardGoneSound
<1>4. input' = d /\ held' = {} /\ poll' = poll /\ told' = told
  BY DEF ShutdownInput
<1> HIDE DEF n, p, d
<1> QED
  BY <1>3, <1>4 DEF InputInv, InputTypeOK, HostFollowsSeat, RepeatFits

(* What a running host sees of a pointer that comes or goes: the press and *)
(* the window agree, and the keyboard is as it was.                        *)
LEMMA PointerChanged ==
  ASSUME InputInv, NEW on \in BOOLEAN, NEW ok \in BOOLEAN
  PROVE  LET p == seat_pointer_capabilities_changed(input, on, ok)
             t == IF on THEN told ELSE Tells(input, PointerGone(input, told))
         IN  /\ p \in Input
             /\ t \in [down : BOOLEAN, focused : BOOLEAN, keys : SUBSET Keys, stray : BOOLEAN]
             /\ ~t.stray /\ t.keys = told.keys /\ t.focused = told.focused
             /\ p.host_running =>
                  /\ input.host_running
                  /\ t.down = p.active
                  /\ p.active => p.pointer /\ p.entered
                  /\ p.keyboard = input.keyboard /\ p.focused = input.focused
                  /\ p.pressed = input.pressed /\ p.native_running
                  /\ RepeatSound(p)
<1> DEFINE p == seat_pointer_capabilities_changed(input, on, ok)
           t == IF on THEN told ELSE Tells(input, PointerGone(input, told))
           d == destroy_pointer(input)
<1>1. input \in Input /\ told \in [down : BOOLEAN, focused : BOOLEAN, keys : SUBSET Keys, stray : BOOLEAN]
  BY DEF InputInv, InputTypeOK
<1>2. /\ t \in [down : BOOLEAN, focused : BOOLEAN, keys : SUBSET Keys, stray : BOOLEAN]
      /\ ~t.stray /\ t.keys = told.keys /\ t.focused = told.focused
      /\ on => t.down = told.down
      /\ ~on /\ input.host_running => ~t.down
  BY <1>1 DEF InputInv, RepeatFits, HostFollowsSeat, Tells, PointerGone
<1>3. /\ d \in Input /\ ~d.active
      /\ d.keyboard = input.keyboard /\ d.focused = input.focused
      /\ d.pressed = input.pressed /\ d.native_running = input.native_running
      /\ d.host_running = input.host_running /\ d.candidate = input.candidate
      /\ d.setting = input.setting /\ d.generation = input.generation /\ d.timer = input.timer
  BY <1>1, PointerGoneSound
<1>4. input.host_running => input.native_running /\ RepeatSound(input)
  BY DEF InputInv, RunningWindow, RepeatFits, RepeatSound
<1> HIDE DEF t
<1>5. CASE ~on
  <2>1. p = d
    BY <1>5 DEF seat_pointer_capabilities_changed
  <2> HIDE DEF p, d
  <2> QED
    BY <1>2, <1>3, <1>4, <1>5, <2>1 DEF RepeatSound, Scheduled, p, t, Input
<1>6. CASE on /\ p = input
  <2> HIDE DEF p, d
  <2> QED
    BY <1>1, <1>2, <1>4, <1>6 DEF InputInv, HostFollowsSeat, p, t
<1>7. CASE on /\ p = [input EXCEPT !.pointer = TRUE]
  <2> HIDE DEF p, d
  <2>1. p \in Input
    BY <1>1, <1>7 DEF Input
  <2> QED
    BY <1>1, <1>2, <1>4, <1>7, <2>1, ZenonT(40) DEF InputInv, HostFollowsSeat, p, t, Input, RepeatSound, Scheduled
<1>8. CASE on /\ p = fail_native(d)
  <2> HIDE DEF p, d
  <2>1. p \in Input /\ ~p.host_running
    BY <1>3, <1>8 DEF Input, fail_native
  <2> QED
    BY <1>2, <2>1 DEF p, t
<1> QED
  BY <1>5, <1>6, <1>7, <1>8 DEF seat_pointer_capabilities_changed

(* active_seat_changed: the keyboard's part, after the pointer's. *)
LEMMA SeatNext ==
  ASSUME InputInv, NEW ok \in BOOLEAN, NEW pointerOn \in BOOLEAN, NEW keyboardOn \in BOOLEAN,
         seat_capabilities_changed(pointerOn, keyboardOn, ok)
  PROVE  InputInv'
<1> DEFINE p == seat_pointer_capabilities_changed(input, pointerOn, ok)
           t == IF pointerOn THEN told ELSE Tells(input, PointerGone(input, told))
           d == destroy_keyboard(p, ok)
           Told == [down : BOOLEAN, focused : BOOLEAN, keys : SUBSET Keys, stray : BOOLEAN]
<1>1. /\ p \in Input /\ t \in Told
      /\ ~t.stray /\ t.keys = told.keys /\ t.focused = told.focused
      /\ p.host_running =>
           /\ input.host_running
           /\ t.down = p.active
           /\ p.active => p.pointer /\ p.entered
           /\ p.keyboard = input.keyboard /\ p.focused = input.focused
           /\ p.pressed = input.pressed /\ p.native_running
           /\ RepeatSound(p)
  BY PointerChanged
<1>2. /\ d \in Input /\ d.pressed = {} /\ ~d.focused
      /\ d.pointer = p.pointer /\ d.entered = p.entered /\ d.active = p.active
      /\ d.native_running = p.native_running
      /\ d.host_running => p.host_running
      /\ d.host_running /\ p.native_running => d.candidate = NoKey /\ d.timer.generation = 0
  BY <1>1, KeyboardGoneSound
<1>3. /\ input' = seat_keyboard_capabilities_changed(p, keyboardOn, ok)
      /\ told' = IF keyboardOn THEN t ELSE Tells(p, KeyboardGone(p, t))
      /\ held' = IF keyboardOn THEN held ELSE {}
      /\ poll' = poll
  BY DEF seat_capabilities_changed
<1>4. told \in Told /\ ~told.stray /\ held \subseteq Keys
  BY DEF InputInv, InputTypeOK, RepeatFits
<1>5. \/ ~keyboardOn /\ input' = d
      \/ keyboardOn /\ input' = p
      \/ keyboardOn /\ input' = [p EXCEPT !.keyboard = TRUE]
      \/ keyboardOn /\ input' = [d EXCEPT !.host_running = FALSE]
  BY <1>3 DEF seat_keyboard_capabilities_changed, fail_native
<1> HIDE DEF p, t, d
<1>6. CASE ~keyboardOn /\ input' = d
  <2>1. told' = Tells(p, KeyboardGone(p, t)) /\ held' = {}
    BY <1>3, <1>6
  <2>2. /\ told' \in Told /\ ~told'.stray
        /\ p.host_running => told'.down = t.down /\ ~told'.focused
    BY <1>1, <1>4, <2>1 DEF Tells, KeyboardGone, InputInv, HostFollowsSeat
  <2>3. InputTypeOK' /\ RepeatFits'
    BY <1>1, <1>2, <1>3, <1>6, <2>1, <2>2 DEF InputInv, InputTypeOK, RepeatFits, Scheduled
  <2>4. (input.host_running => RunningWindow(input))'
    BY <1>1, <1>2, <1>6 DEF RunningWindow
  <2>5. /\ input'.host_running => p.host_running
        /\ input'.focused = FALSE
        /\ p.host_running => told'.focused = FALSE
    BY <1>2, <1>6, <2>2 DEF Input
  <2>6. HostFollowsSeat'
    BY <1>1, <1>2, <1>6, <2>1, <2>2, <2>5 DEF HostFollowsSeat
  <2> QED
    BY <2>3, <2>4, <2>6 DEF InputInv
<1>7. CASE keyboardOn /\ input' = p
  <2>1. told' = t /\ held' = held
    BY <1>3, <1>7
  <2> QED
    BY <1>1, <1>3, <1>4, <1>7, <2>1, ZenonT(40)
    DEF InputInv, InputTypeOK, HostFollowsSeat, RepeatFits, RunningWindow, Scheduled, RepeatSound
<1>8. CASE keyboardOn /\ input' = [p EXCEPT !.keyboard = TRUE]
  <2>1. told' = t /\ held' = held
    BY <1>3, <1>8
  <2>2. input' \in Input
    BY <1>1, <1>8 DEF Input
  <2>3. /\ input'.pointer = p.pointer /\ input'.entered = p.entered
        /\ input'.active = p.active /\ input'.focused = p.focused
        /\ input'.pressed = p.pressed /\ input'.native_running = p.native_running
        /\ input'.host_running = p.host_running /\ input'.candidate = p.candidate
        /\ input'.setting = p.setting /\ input'.generation = p.generation
        /\ input'.timer = p.timer /\ input'.keyboard
    BY <1>1, <1>8 DEF Input
  <2>4. InputTypeOK'
    BY <1>1, <1>3, <1>4, <2>1, <2>2 DEF InputInv, InputTypeOK
  <2>5. RepeatFits'
    BY <1>1, <2>1, <2>3 DEF RepeatFits, RepeatSound, Scheduled
  <2>6. HostFollowsSeat' /\ (input.host_running => RunningWindow(input))'
    BY <1>1, <2>1, <2>3 DEF InputInv, HostFollowsSeat, RunningWindow
  <2> QED
    BY <2>4, <2>5, <2>6 DEF InputInv
<1>9. CASE keyboardOn /\ input' = [d EXCEPT !.host_running = FALSE]
  <2>1. told' = t /\ held' = held
    BY <1>3, <1>9
  <2>2. input' \in Input /\ ~input'.host_running
    BY <1>2, <1>9 DEF Input
  <2> QED
    BY <1>1, <1>3, <1>4, <2>1, <2>2 DEF InputInv, InputTypeOK, HostFollowsSeat, RepeatFits
<1> QED
  BY <1>5, <1>6, <1>7, <1>8, <1>9

(* Every step of the window and of dispatch preserves the invariant. *)
LEMMA NextInput == InputInv /\ [InputNext]_inputVars => InputInv'
<1> SUFFICES ASSUME InputInv, [InputNext]_inputVars
             PROVE  InputInv'
  OBVIOUS
<1>1. CASE UNCHANGED inputVars
  BY <1>1 DEF inputVars, InputInv, InputTypeOK, HostFollowsSeat, RepeatFits, Scheduled, RunningWindow
<1> QED
  BY <1>1, PointerNext, DispatchNext, KeyboardNext, KeyNext, ShutdownNext, SeatNext DEF InputNext

(* The inductive invariant holds throughout. *)
LEMMA InputInvariant == InputSpec => []InputInv
<1>1. InputInit => InputInv
  BY InitInput
<1>2. InputInv /\ [InputNext]_inputVars => InputInv'
  BY NextInput
<1> QED
  BY <1>1, <1>2, PTL DEF InputSpec

(* Type correctness of the pointer, keyboard and repeat state: the repeat  *)
(* generation in particular never passes its limit.                        *)
THEOREM InputTypeCorrect == InputSpec => []InputTypeOK
BY InputInvariant, PTL DEF InputInv

(* However the compositor orders its seat events and whichever call fails, *)
(* a running host was told exactly the press and the focus the window has, *)
(* and of every key the window holds.                                      *)
THEOREM HostAlwaysFollowsSeat == InputSpec => []HostFollowsSeat
BY InputInvariant, PTL DEF InputInv

(* No key repeats that the compositor does not hold: the generation read   *)
(* before the poll and the order of repeat_ready after the display's       *)
(* events rule out the stale expiration, for any timing and any limits.    *)
THEOREM RepeatAlwaysFits == InputSpec => []RepeatFits
BY InputInvariant, PTL DEF InputInv
-----------------------------------------------------------------------------
(***************************************************************************)
(* The connection: registry, outputs, seat and task runner.                *)
(***************************************************************************)

(* A set of naturals has a least element. *)
LEMMA LeastExists ==
  ASSUME NEW S, S \subseteq Nat, S # {}
  PROVE  \E m \in S : \A n \in S : m <= n
<1> DEFINE R == OpToRel(<, Nat)
<1>1. IsWellFoundedOn(R, Nat)
  BY NatLessThanWellFounded
<1>2. \A x, y \in Nat : x < y => <<x, y>> \in R
  BY DEF OpToRel
<1> HIDE DEF R
<1>3. PICK m \in S : \A n \in S : ~(<<n, m>> \in R)
  BY <1>1, WFMin
<1>4. ASSUME NEW n \in S
      PROVE  m <= n
  <2>1. ~(n < m)
    BY <1>2, <1>3
  <2> QED
    BY <2>1
<1> QED
  BY <1>4

(* A bounded one has a largest, the Max of the community modules. *)
LEMMA LargestExists ==
  ASSUME NEW b \in Nat, NEW S, S \subseteq 1 .. b, S # {}
  PROVE  Max(S) \in S /\ \A n \in S : Max(S) >= n
<1> DEFINE T == {b - n : n \in S}
<1>1. T \subseteq Nat /\ T # {}
  <2>1. \A n \in S : b - n \in Nat
    OBVIOUS
  <2> QED
    BY <2>1
<1> HIDE DEF T
<1>2. PICK m \in T : \A n \in T : m <= n
  BY <1>1, LeastExists
<1>3. PICK x \in S : m = b - x
  BY DEF T
<1>4. \A n \in S : x >= n
  <2> TAKE n \in S
  <2>1. b - x <= b - n
    BY <1>2, <1>3 DEF T
  <2> QED
    BY <2>1
<1> QED
  BY <1>4 DEF Max

(* The offer of a name known once is erased, and nothing else. *)
LEMMA RemoveFirstOnce ==
  ASSUME NEW A, NEW s \in Seq(A), IsInjective(s), NEW e \in A, Contains(s, e)
  PROVE  LET rest == RemoveFirst(s, e)
         IN  /\ rest \in Seq(A) /\ IsInjective(rest)
             /\ \A x \in A : Contains(rest, x) <=> Contains(s, x) /\ x # e
<1> DEFINE I == {i \in 1 .. Len(s) : s[i] = e}
<1>1. PICK j \in 1 .. Len(s) : s[j] = e
  BY DEF Contains
<1>2. I = {j}
  BY <1>1 DEF IsInjective
<1>3. Min(I) = j
  BY <1>2 DEF Min
<1>4. RemoveFirst(s, e) = RemoveAt(s, j)
  BY <1>1, <1>2, <1>3 DEF RemoveFirst, SelectInSeq
<1> DEFINE rest == SubSeq(s, 1, j - 1) \o SubSeq(s, j + 1, Len(s))
<1>5. RemoveFirst(s, e) = rest
  BY <1>4 DEF RemoveAt
<1>6. /\ rest \in Seq(A) /\ Len(rest) = Len(s) - 1
      /\ \A i \in 1 .. Len(s) - 1 : rest[i] = IF i < j THEN s[i] ELSE s[i + 1]
  <2> DEFINE before == SubSeq(s, 1, j - 1)
             after == SubSeq(s, j + 1, Len(s))
  <2>1. before \in Seq(A) /\ Len(before) = j - 1 /\ \A i \in 1 .. j - 1 : before[i] = s[i]
    OBVIOUS
  <2>2. /\ after \in Seq(A) /\ Len(after) = Len(s) - j
        /\ \A i \in 1 .. Len(s) - j : after[i] = s[j + i]
    OBVIOUS
  <2>0. rest = before \o after
    OBVIOUS
  <2> HIDE DEF before, after, rest
  <2>3. /\ rest \in Seq(A) /\ Len(rest) = Len(s) - 1
        /\ \A i \in 1 .. Len(s) - 1 :
             rest[i] = IF i <= j - 1 THEN before[i] ELSE after[i - (j - 1)]
    <3>1. before \in Seq(A) /\ after \in Seq(A)
      BY <2>1, <2>2
    <3>2. /\ before \o after \in Seq(A) /\ Len(before \o after) = Len(before) + Len(after)
          /\ \A i \in 1 .. Len(before) + Len(after) :
               (before \o after)[i] = IF i <= Len(before) THEN before[i] ELSE after[i - Len(before)]
      BY <3>1, ConcatProperties
    <3>3. Len(before) + Len(after) = Len(s) - 1
      BY <2>1, <2>2
    <3> QED
      BY <2>0, <2>1, <3>2, <3>3
  <2>4. ASSUME NEW i \in 1 .. Len(s) - 1
        PROVE  rest[i] = IF i < j THEN s[i] ELSE s[i + 1]
    <3>1. CASE i < j
      BY <2>1, <2>3, <3>1
    <3>2. CASE ~(i < j)
      <4>1. i - (j - 1) \in 1 .. Len(s) - j /\ j + (i - (j - 1)) = i + 1
        BY <3>2
      <4>2. rest[i] = after[i - (j - 1)]
        BY <2>3, <3>2
      <4> QED
        BY <2>2, <3>2, <4>1, <4>2
    <3> QED
      BY <3>1, <3>2
  <2> QED
    BY <2>3, <2>4
<1> HIDE DEF rest
<1>7. IsInjective(rest)
  <2>1. \A a, b \in 1 .. Len(s) : s[a] = s[b] => a = b
    BY DEF IsInjective
  <2>2. ASSUME NEW a \in 1 .. Len(s) - 1, NEW b \in 1 .. Len(s) - 1, rest[a] = rest[b]
        PROVE  a = b
    <3>1. a \in 1 .. Len(s) /\ a + 1 \in 1 .. Len(s) /\ b \in 1 .. Len(s) /\ b + 1 \in 1 .. Len(s)
      OBVIOUS
    <3>2. /\ rest[a] = IF a < j THEN s[a] ELSE s[a + 1]
          /\ rest[b] = IF b < j THEN s[b] ELSE s[b + 1]
      BY <1>6
    <3>3. CASE a < j /\ b < j
      BY <2>1, <2>2, <3>1, <3>2, <3>3
    <3>4. CASE a < j /\ ~(b < j)
      <4>1. s[a] = s[b + 1]
        BY <2>2, <3>2, <3>4
      <4> QED
        BY <2>1, <3>1, <3>4, <4>1
    <3>5. CASE ~(a < j) /\ b < j
      <4>1. s[a + 1] = s[b]
        BY <2>2, <3>2, <3>5
      <4> QED
        BY <2>1, <3>1, <3>5, <4>1
    <3>6. CASE ~(a < j) /\ ~(b < j)
      <4>1. s[a + 1] = s[b + 1]
        BY <2>2, <3>2, <3>6
      <4> QED
        BY <2>1, <3>1, <4>1
    <3> QED
      BY <3>3, <3>4, <3>5, <3>6
  <2> QED
    BY <1>6, <2>2 DEF IsInjective
<1>8. ASSUME NEW x \in A
      PROVE  Contains(rest, x) <=> Contains(s, x) /\ x # e
  <2>1. ASSUME Contains(rest, x)
        PROVE  Contains(s, x) /\ x # e
    <3>1. PICK i \in 1 .. Len(s) - 1 : rest[i] = x
      BY <1>6, <2>1 DEF Contains
    <3>2. \A a, b \in 1 .. Len(s) : s[a] = s[b] => a = b
      BY DEF IsInjective
    <3>3. i \in 1 .. Len(s) /\ i + 1 \in 1 .. Len(s)
      OBVIOUS
    <3>4. x = IF i < j THEN s[i] ELSE s[i + 1]
      BY <1>6, <3>1
    <3>5. Contains(s, x)
      BY <3>3, <3>4 DEF Contains
    <3>6. CASE i < j
      <4>1. i # j /\ x = s[i]
        BY <3>4, <3>6
      <4> QED
        BY <1>1, <3>2, <3>3, <3>5, <4>1
    <3>7. CASE ~(i < j)
      <4>1. i + 1 # j /\ x = s[i + 1]
        BY <3>4, <3>7
      <4> QED
        BY <1>1, <3>2, <3>3, <3>5, <4>1
    <3> QED
      BY <3>5, <3>6, <3>7
  <2>2. ASSUME Contains(s, x), x # e
        PROVE  Contains(rest, x)
    <3>1. PICK i \in 1 .. Len(s) : s[i] = x
      BY <2>2 DEF Contains
    <3>2. i # j
      BY <1>1, <2>2, <3>1
    <3>3. CASE i < j
      BY <1>6, <3>1, <3>3 DEF Contains
    <3>4. CASE i > j
      <4>1. i - 1 \in 1 .. Len(s) - 1 /\ ~(i - 1 < j) /\ (i - 1) + 1 = i
        BY <3>4
      <4>2. rest[i - 1] = x
        BY <1>6, <3>1, <4>1
      <4> QED
        BY <1>6, <4>1, <4>2 DEF Contains
    <3> QED
      BY <3>2, <3>3, <3>4
  <2> QED
    BY <2>1, <2>2
<1> QED
  BY <1>5, <1>6, <1>7, <1>8
-----------------------------------------------------------------------------
(* The offers known are the globals advertised, with the one whose removal *)
(* waits for the window; the one bound is among them, and a kind without   *)
(* one has no offer.                                                       *)
OffersKnown(k) ==
  /\ \A n \in Names :
       Contains(offers[k], n) <=> Kind[n] = k /\ (n \in live \/ n = deferred[k])
  /\ bound[k] # NoName => Contains(offers[k], bound[k])
  /\ bound[k] = NoName => offers[k] = <<>>
  /\ deferred[k] # NoName =>
       deferred[k] = bound[k] /\ deferred[k] \notin live /\ window # "none"

(* The seat's capabilities and the window's objects. *)
SeatFollows ==
  /\ capabilities # {} => bound["seat"] # NoName
  /\ window = "live" => children = capabilities
  /\ window # "live" => children = {}

(* The outputs bound are live, and the scale is theirs. *)
OutputsFollow ==
  /\ \A o \in Outputs : outputs[o] # 0 => o \in live
  /\ ScaleFollowsOutputs

(* The inductive invariant. *)
ConnectionInv ==
  /\ ConnectionTypeOK
  /\ transport = "ok" => (\A k \in Kinds : OffersKnown(k)) /\ SeatFollows
  /\ OutputsFollow
  /\ WakePending

(* An appended name is the only one that is new. *)
LEMMA ContainsAppended ==
  ASSUME NEW S, NEW q \in Seq(S), NEW n \in S, NEW m
  PROVE  Contains(Append(q, n), m) <=> Contains(q, m) \/ m = n
<1>1. /\ Len(Append(q, n)) = Len(q) + 1 /\ Len(q) \in Nat
      /\ Append(q, n)[Len(q) + 1] = n
      /\ \A i \in 1 .. Len(q) : Append(q, n)[i] = q[i]
  OBVIOUS
<1>2. ASSUME Contains(Append(q, n), m), m # n PROVE Contains(q, m)
  BY <1>1, <1>2 DEF Contains
<1>3. ASSUME Contains(q, m) PROVE Contains(Append(q, n), m)
  BY <1>1, <1>3 DEF Contains
<1>4. ASSUME m = n PROVE Contains(Append(q, n), m)
  BY <1>1, <1>4 DEF Contains
<1> QED
  BY <1>2, <1>3, <1>4

(* The scale derived from any outputs is a factor. *)
LEMMA ScaleTyped ==
  ASSUME NEW seen \in SUBSET Outputs, NEW known \in [Outputs -> {0} \cup Factors]
  PROVE  ScaleOf(seen, known) \in Factors
<1> DEFINE S == {1} \cup {OutputScale(o, known) : o \in seen}
<1>1. S \subseteq 1 .. MaxScaleFactor /\ S # {}
  BY ConnectionConstants DEF OutputScale, Factors
<1> HIDE DEF S
<1>2. Max(S) \in S
  BY <1>1, LargestExists, ConnectionConstants
<1> QED
  BY <1>1, <1>2 DEF ScaleOf, Factors, S

(* On no output the scale is 1. *)
LEMMA ScaleOfNone == ASSUME NEW known PROVE ScaleOf({}, known) = 1
<1>1. {1} \cup {OutputScale(o, known) : o \in {}} = {1}
  OBVIOUS
<1>2. Max({1}) = 1
  BY DEF Max
<1> QED
  BY <1>1, <1>2 DEF ScaleOf

(* It depends on the outputs seen alone. *)
LEMMA ScaleSame ==
  ASSUME NEW seen \in SUBSET Outputs, NEW known, NEW other,
         \A o \in seen : known[o] = other[o]
  PROVE  ScaleOf(seen, known) = ScaleOf(seen, other)
<1>1. {OutputScale(o, known) : o \in seen} = {OutputScale(o, other) : o \in seen}
  BY DEF OutputScale
<1> QED
  BY <1>1 DEF ScaleOf

(* Erasing an offer, known or not, leaves a list of offers. *)
LEMMA ErasedTyped ==
  ASSUME NEW s \in Seq(Names), IsInjective(s), NEW n \in Names \cup {NoName}
  PROVE  RemoveFirst(s, n) \in Seq(Names) /\ IsInjective(RemoveFirst(s, n))
<1>1. CASE Contains(s, n)
  <2>1. n \in Names
    BY <1>1 DEF Contains
  <2> QED
    BY <1>1, <2>1, RemoveFirstOnce
<1>2. CASE ~Contains(s, n)
  BY <1>2 DEF Contains, RemoveFirst
<1> QED
  BY <1>1, <1>2

(* What is bound next is an offer, or none. *)
LEMMA ReplacementTyped ==
  ASSUME ConnectionTypeOK, NEW k \in Kinds, NEW n, NEW rest \in Seq(Names), NEW ok
  PROVE  Replacement(k, n, rest, ok) \in Names \cup {NoName}
BY DEF Replacement, ConnectionTypeOK

(* The invariant holds of a new connection. *)
LEMMA InitConnection == ConnectionInit => ConnectionInv
<1> SUFFICES ASSUME ConnectionInit
             PROVE  ConnectionInv
  OBVIOUS
<1> USE ConnectionConstants DEF ConnectionInit
<1>1. ConnectionTypeOK
  BY DEF ConnectionTypeOK, IsInjective, Factors
<1>2. \A k \in Kinds : OffersKnown(k)
  BY DEF OffersKnown, Contains
<1> QED
  BY <1>1, <1>2 DEF ConnectionInv, SeatFollows, OutputsFollow, ScaleFollowsOutputs, WakePending

(* The runner's record, whatever becomes of its tasks. *)
Runner == [tasks : Seq(Tasks), wake : BOOLEAN, closed : BOOLEAN]

LEMMA RunnerTyped ==
  ASSUME NEW r \in Runner, NEW q \in Seq(Tasks), NEW w \in BOOLEAN, NEW c \in BOOLEAN
  PROVE  /\ [r EXCEPT !.tasks = q] \in Runner
         /\ [r EXCEPT !.wake = w, !.tasks = q] \in Runner
         /\ [r EXCEPT !.closed = c, !.tasks = q] \in Runner
BY DEF Runner

(* The types are preserved. *)
LEMMA NextConnectionType ==
  ASSUME ConnectionTypeOK, [ConnectionNext]_connectionVars
  PROVE  ConnectionTypeOK'
<1> USE ConnectionConstants
<1>0. /\ runner \in Runner /\ runner.tasks \in Seq(Tasks) /\ done \in Seq(Tasks)
      /\ <<>> \in Seq(Tasks)
      /\ \A t \in SUBSET Outputs : ScaleOf(t, outputs) \in Factors
  <2>1. runner \in Runner /\ runner.tasks \in Seq(Tasks) /\ done \in Seq(Tasks)
    BY DEF ConnectionTypeOK, Runner
  <2>2. \A t \in SUBSET Outputs : ScaleOf(t, outputs) \in Factors
    BY ScaleTyped DEF ConnectionTypeOK
  <2> QED
    BY <2>1, <2>2
<1>1. CASE create \/ shutdown_window
  BY <1>1 DEF ConnectionTypeOK, create, shutdown_window, FractionalAtFirst, Factors, runnerVars
<1>2. ASSUME NEW failing \in SUBSET Kinds, destroy(failing)
      PROVE  ConnectionTypeOK'
  <2> DEFINE gone == {k \in Kinds : deferred[k] # NoName}
             rest == [k \in Kinds |-> IF k \in gone THEN RemoveFirst(offers[k], deferred[k])
                                                    ELSE offers[k]]
  <2>1. /\ UNCHANGED <<outputs, entered, factor, live, owner>>
        /\ window' = "none" /\ children' = {} /\ fractional' = 0 /\ done' \in Seq(Tasks)
        /\ runner' \in Runner
    <3>1. runner' = [runner EXCEPT !.tasks = <<>>] /\ done' = done \o runner.tasks
      BY <1>2 DEF destroy
    <3>2. runner.tasks \in Seq(Tasks)
      BY <1>0
    <3>3. done' \in Seq(Tasks)
      BY <1>0, <3>1, <3>2
    <3>4. runner' \in Runner
      BY <1>0, <3>1, RunnerTyped
    <3> QED
      BY <1>2, <3>3, <3>4 DEF destroy
  <2>4. transport' \in {"ok", "failing", "failed"} /\ capabilities' \subseteq Capability
    <3>1. CASE transport = "failed"
      BY <1>2, <3>1 DEF destroy, CarryOutRemovals, ConnectionTypeOK
    <3>2. CASE transport # "failed"
      <4>1. /\ transport' = IF failing = {} THEN transport ELSE "failing"
            /\ capabilities' = IF "seat" \in gone THEN {} ELSE capabilities
        BY <1>2, <3>2 DEF destroy, CarryOutRemovals
      <4> QED
        BY <4>1 DEF ConnectionTypeOK
    <3> QED
      BY <3>1, <3>2
  <2>2. CASE transport = "failed"
    BY <1>2, <2>1, <2>2, <2>4 DEF destroy, CarryOutRemovals, ConnectionTypeOK, Runner
  <2>3. CASE transport # "failed"
    <3>1. /\ rest \in [Kinds -> Seq(Names)] /\ \A k \in Kinds : IsInjective(rest[k])
      BY ErasedTyped DEF ConnectionTypeOK
    <3>2. /\ offers' = rest
          /\ bound' = [k \in Kinds |->
                        IF k \in gone THEN Replacement(k, deferred[k], rest[k], k \notin failing)
                                      ELSE bound[k]]
          /\ deferred' = [k \in Kinds |-> NoName]
      BY <1>2, <2>3 DEF destroy, CarryOutRemovals
    <3> HIDE DEF rest
    <3>3. bound' \in [Kinds -> Names \cup {NoName}]
      BY <3>1, <3>2, ReplacementTyped DEF ConnectionTypeOK
    <3> QED
      BY <2>1, <2>4, <3>1, <3>2, <3>3 DEF ConnectionTypeOK, Runner
  <2> QED
    BY <2>2, <2>3
<1>3. ASSUME NEW n \in Names, NEW ok \in BOOLEAN, remove(n, ok)
      PROVE  ConnectionTypeOK'
  <2> DEFINE k == Kind[n]
             rest == RemoveFirst(offers[k], n)
  <2>1. /\ UNCHANGED <<outputs, entered, factor, fractional, window, runner, owner, done>>
        /\ live' \subseteq Names \cup Outputs /\ k \in Kinds
    BY <1>3 DEF remove, ConnectionTypeOK, runnerVars
  <2>2. CASE Selected(n) /\ window # "none" /\ HasActiveChildren(Kind[n])
    BY <1>3, <2>1, <2>2 DEF remove, ConnectionTypeOK
  <2>3. CASE ~(Selected(n) /\ window # "none" /\ HasActiveChildren(Kind[n]))
    <3>1. rest \in Seq(Names) /\ IsInjective(rest)
      BY <2>1, ErasedTyped DEF ConnectionTypeOK
    <3>2. /\ offers' = [offers EXCEPT ![k] = rest]
          /\ bound' = [bound EXCEPT ![k] = Replacement(k, n, rest, ok)]
          /\ transport' \in {"ok", "failing", "failed"} /\ capabilities' \subseteq Capability
          /\ UNCHANGED <<deferred, children>>
      BY <1>3, <2>3 DEF remove, ConnectionTypeOK
    <3> HIDE DEF rest
    <3>3. Replacement(k, n, rest, ok) \in Names \cup {NoName}
      BY <2>1, <3>1, ReplacementTyped
    <3> QED
      BY <2>1, <3>1, <3>2, <3>3 DEF ConnectionTypeOK
  <2> QED
    BY <2>2, <2>3
<1>4. CASE run_pending \/ task_throws \/ dispatch \/ wakes \/ display_ready
  <2>1. ASSUME runner.tasks # <<>>,
               runner' = [runner EXCEPT !.wake = FALSE, !.tasks = Tail(@)],
               done' = Append(done, Head(runner.tasks))
        PROVE  runner' \in Runner /\ done' \in Seq(Tasks)
    <3>1. Tail(runner.tasks) \in Seq(Tasks) /\ Head(runner.tasks) \in Tasks
      BY <1>0, <2>1
    <3>2. done' \in Seq(Tasks)
      BY <1>0, <2>1, <3>1
    <3>3. runner' \in Runner
      BY <1>0, <2>1, <3>1, RunnerTyped
    <3> QED
      BY <3>2, <3>3
  <2>2. ASSUME runner' = [runner EXCEPT !.wake = FALSE] \/ runner' = runner, done' = done
        PROVE  runner' \in Runner /\ done' \in Seq(Tasks)
    BY <1>0, <2>2 DEF Runner
  <2>3. owner' \in {"out", "run", "poll", "gone"} /\ UNCHANGED registry
    BY <1>4 DEF run_pending, task_throws, dispatch, wakes, display_ready, ConnectionTypeOK
  <2>4. runner' \in Runner /\ done' \in Seq(Tasks)
    BY <1>4, <2>1, <2>2 DEF run_pending, task_throws, dispatch, wakes, display_ready
  <2> QED
    BY <2>3, <2>4 DEF registry, ConnectionTypeOK, Runner
<1>5. CASE fail_transport
  BY <1>5 DEF fail_transport, ConnectionTypeOK
<1>6. CASE close_connection
  <2>1. runner' \in Runner
    BY <1>0, <1>6, RunnerTyped DEF close_connection
  <2>2. runner.tasks \in Seq(Tasks)
    BY <1>0
  <2>3. done' \in Seq(Tasks)
    BY <1>0, <1>6, <2>2 DEF close_connection
  <2> QED
    BY <1>6, <2>1, <2>3 DEF close_connection, registry, ConnectionTypeOK, Runner
<1>7. ASSUME NEW n \in Names, advertise(n)
      PROVE  ConnectionTypeOK'
  <2> DEFINE k == Kind[n]
             more == Append(offers[k], n)
  <2>1. /\ offers' = [offers EXCEPT ![k] = more] /\ ~Contains(offers[k], n)
        /\ bound' \in [Kinds -> Names \cup {NoName}]
        /\ k \in Kinds
        /\ transport' \in {"ok", "failing", "failed"}
        /\ live' \subseteq Names \cup Outputs
        /\ UNCHANGED <<deferred, capabilities, outputs, entered, factor, fractional, window,
                       children, runner, owner, done>>
    BY <1>7 DEF advertise, Binds, ConnectionTypeOK, runnerVars
  <2>2. more \in Seq(Names) /\ IsInjective(more)
    BY <2>1 DEF ConnectionTypeOK, IsInjective, Contains
  <2> HIDE DEF more
  <2> QED
    BY <2>1, <2>2 DEF ConnectionTypeOK
<1>8. ASSUME NEW o \in Outputs, bind_output(o)
      PROVE  ConnectionTypeOK'
  BY <1>8 DEF bind_output, ConnectionTypeOK, Factors, runnerVars
<1>9. ASSUME NEW o \in Outputs, remove_output(o)
      PROVE  ConnectionTypeOK'
  <2>1. factor' \in Factors /\ entered' \subseteq Outputs
    BY <1>0, <1>9 DEF remove_output, WithoutOutput, Rescaled, ConnectionTypeOK
  <2> QED
    BY <1>9, <2>1 DEF remove_output, ConnectionTypeOK, runnerVars
<1>10. ASSUME NEW o \in Outputs, surface_enters(o) \/ surface_leaves(o)
       PROVE  ConnectionTypeOK'
  <2>1. entered' \subseteq Outputs
    BY <1>10 DEF surface_enters, surface_leaves, ConnectionTypeOK
  <2>2. factor' \in Factors
    BY <1>0, <1>10, <2>1 DEF surface_enters, surface_leaves, Rescaled, ConnectionTypeOK
  <2> QED
    BY <1>10, <2>1, <2>2 DEF surface_enters, surface_leaves, ConnectionTypeOK, runnerVars
<1>11. ASSUME NEW o \in Outputs, NEW f \in 0 .. MaxScaleFactor + 1, handle_scale(o, f)
       PROVE  ConnectionTypeOK'
  <2>1. outputs' \in [Outputs -> {0} \cup Factors]
    BY <1>11 DEF handle_scale, ConnectionTypeOK
  <2>2. ScaleOf(entered, outputs') \in Factors
    BY <2>1, ScaleTyped DEF ConnectionTypeOK
  <2>3. factor' \in Factors
    BY <1>11, <2>2 DEF handle_scale, Rescaled, ConnectionTypeOK
  <2> QED
    BY <1>11, <2>1, <2>3 DEF handle_scale, ConnectionTypeOK, runnerVars
<1>12. ASSUME NEW c \in SUBSET Capability, handle_seat_capabilities(c)
       PROVE  ConnectionTypeOK'
  BY <1>12 DEF handle_seat_capabilities, SeatChildren, ConnectionTypeOK, runnerVars
<1>13. ASSUME NEW t \in Tasks, post(t)
       PROVE  ConnectionTypeOK'
  <2>1. Append(runner.tasks, t) \in Seq(Tasks)
    BY <1>0
  <2>2. runner' \in Runner
    BY <1>0, <1>13, <2>1, RunnerTyped DEF post
  <2> QED
    BY <1>13, <2>2 DEF post, ConnectionTypeOK, registry, Runner
<1>14. CASE UNCHANGED connectionVars
  BY <1>14 DEF connectionVars, registry, runnerVars, ConnectionTypeOK
<1>15. ASSUME NEW f \in Factors, handle_fractional_scale(f)
       PROVE  ConnectionTypeOK'
  BY <1>15 DEF handle_fractional_scale, ConnectionTypeOK, runnerVars
<1> QED
  BY <1>1, <1>2, <1>3, <1>4, <1>5, <1>6, <1>7, <1>8, <1>9, <1>10, <1>11, <1>12, <1>13, <1>14,
     <1>15
  DEF ConnectionNext

(* The registry: each kind, through every event and the window's end. *)
LEMMA NextRegistry ==
  ASSUME ConnectionInv, [ConnectionNext]_connectionVars, transport' = "ok"
  PROVE  \A k \in Kinds : OffersKnown(k)'
<1> USE ConnectionConstants
<1>0. transport = "ok" => \A k \in Kinds : OffersKnown(k)
  BY DEF ConnectionInv
<1>t. ConnectionTypeOK
  BY DEF ConnectionInv
<1> SUFFICES ASSUME NEW k \in Kinds
             PROVE  OffersKnown(k)'
  OBVIOUS
<1>1. CASE /\ UNCHANGED <<offers, bound, deferred, transport>>
           /\ live' = live \/ \E o \in Outputs : live' = live \cup {o} \/ live' = live \ {o}
           /\ window' = "none" => window = "none"
  BY <1>0, <1>1, <1>t DEF OffersKnown, ConnectionTypeOK
<1>2. ASSUME NEW failing \in SUBSET Kinds, destroy(failing)
      PROVE  OffersKnown(k)'
  <2> DEFINE gone == {j \in Kinds : deferred[j] # NoName}
             rest == [j \in Kinds |-> IF j \in gone THEN RemoveFirst(offers[j], deferred[j])
                                                    ELSE offers[j]]
  <2>1. /\ transport = "ok" /\ failing = {} /\ live' = live
        /\ offers' = rest
        /\ bound' = [j \in Kinds |->
                      IF j \in gone THEN Replacement(j, deferred[j], rest[j], j \notin failing)
                                    ELSE bound[j]]
        /\ deferred' = [j \in Kinds |-> NoName]
    BY <1>2 DEF destroy, CarryOutRemovals
  <2>2. OffersKnown(k) /\ deferred'[k] = NoName
    BY <1>0, <2>1
  <2>3. CASE deferred[k] = NoName
    <3>1. offers'[k] = offers[k] /\ bound'[k] = bound[k]
      BY <2>1, <2>3
    <3> QED
      BY <2>1, <2>2, <2>3, <3>1 DEF OffersKnown
  <2>4. CASE deferred[k] # NoName
    <3> DEFINE r == RemoveFirst(offers[k], deferred[k])
    <3>1. offers'[k] = r /\ bound'[k] = Replacement(k, deferred[k], r, TRUE)
      BY <2>1, <2>4
    <3>2. /\ deferred[k] \in Names /\ bound[k] = deferred[k] /\ Contains(offers[k], deferred[k])
          /\ deferred[k] \notin live
          /\ offers[k] \in Seq(Names) /\ IsInjective(offers[k])
      BY <2>2, <2>4, <1>t DEF OffersKnown, ConnectionTypeOK
    <3>3. /\ r \in Seq(Names)
          /\ \A n \in Names : Contains(r, n) <=> Contains(offers[k], n) /\ n # deferred[k]
      BY <3>2, RemoveFirstOnce
    <3> HIDE DEF r
    <3>4. bound'[k] = IF r # <<>> THEN Head(r) ELSE NoName
      BY <3>1, <3>2 DEF Replacement
    <3>5. r # <<>> => Contains(r, Head(r)) /\ Head(r) \in Names
      BY <3>3 DEF Contains
    <3>6. \A n \in Names :
            Contains(offers'[k], n) <=> Kind[n] = k /\ (n \in live' \/ n = deferred'[k])
      BY <2>1, <2>2, <3>1, <3>2, <3>3 DEF OffersKnown
    <3> QED
      BY <2>2, <3>1, <3>4, <3>5, <3>6 DEF OffersKnown
  <2> QED
    BY <2>3, <2>4
<1>3. ASSUME NEW n \in Names, NEW ok \in BOOLEAN, remove(n, ok)
      PROVE  OffersKnown(k)'
  <2> DEFINE j == Kind[n]
             rest == RemoveFirst(offers[j], n)
  <2>1. /\ transport = "ok" /\ n \in live /\ live' = live \ {n} /\ j \in Kinds
        /\ window' = window
    BY <1>3 DEF remove, Works
  <2>2. OffersKnown(k) /\ OffersKnown(j)
    BY <1>0, <2>1
  <2>3. CASE Selected(n) /\ window # "none" /\ HasActiveChildren(Kind[n])
    <3>1. /\ deferred' = [deferred EXCEPT ![j] = n] /\ UNCHANGED <<offers, bound>>
          /\ bound[j] = n
      BY <1>3, <2>3 DEF remove, Selected
    <3>2. deferred[j] = NoName
      BY <2>1, <2>2, <3>1 DEF OffersKnown
    <3>3. CASE k = j
      BY <1>t, <2>1, <2>2, <2>3, <3>1, <3>2, <3>3 DEF OffersKnown, ConnectionTypeOK
    <3>4. CASE k # j
      <4>1. deferred'[k] = deferred[k] /\ offers'[k] = offers[k] /\ bound'[k] = bound[k]
        BY <3>1, <3>4
      <4> QED
        BY <1>t, <2>1, <2>2, <3>4, <4>1 DEF OffersKnown
    <3> QED
      BY <3>3, <3>4
  <2>4. CASE ~(Selected(n) /\ window # "none" /\ HasActiveChildren(Kind[n]))
    <3>1. /\ offers' = [offers EXCEPT ![j] = rest]
          /\ bound' = [bound EXCEPT ![j] = Replacement(j, n, rest, ok)]
          /\ ok /\ deferred' = deferred
      BY <1>3, <2>4 DEF remove
    <3>2. Contains(offers[j], n) /\ offers[j] \in Seq(Names) /\ IsInjective(offers[j])
      BY <1>t, <2>1, <2>2 DEF OffersKnown, ConnectionTypeOK
    <3>3. /\ rest \in Seq(Names)
          /\ \A m \in Names : Contains(rest, m) <=> Contains(offers[j], m) /\ m # n
      BY <3>2, RemoveFirstOnce
    <3> HIDE DEF rest
    <3>4. CASE k = j
      <4>1. /\ offers'[k] = rest /\ deferred'[k] = deferred[k]
            /\ bound'[k] = IF bound[k] # n THEN bound[k]
                           ELSE IF rest # <<>> THEN Head(rest) ELSE NoName
        BY <1>t, <3>1, <3>4 DEF ConnectionTypeOK, Replacement
      <4>2. deferred[k] # n
        BY <2>1, <2>2 DEF OffersKnown
      <4>3. \A m \in Names :
              Contains(offers'[k], m) <=> Kind[m] = k /\ (m \in live' \/ m = deferred'[k])
        BY <2>1, <2>2, <3>3, <3>4, <4>1, <4>2 DEF OffersKnown
      <4>4. rest # <<>> => Contains(rest, Head(rest)) /\ Head(rest) \in Names
        BY <3>3 DEF Contains
      <4>5. CASE bound[k] # n
        <5>1. bound[k] # NoName
          BY <2>2, <3>2, <3>4 DEF OffersKnown, Contains
        <5>2. bound[k] \in Names /\ Contains(rest, bound[k])
          BY <1>t, <2>2, <3>3, <3>4, <4>5, <5>1 DEF OffersKnown, ConnectionTypeOK
        <5> QED
          BY <2>1, <2>2, <4>1, <4>3, <4>5, <5>1, <5>2 DEF OffersKnown
      <4>6. CASE bound[k] = n
        <5>1. deferred[k] = NoName
          BY <2>2, <4>2, <4>6 DEF OffersKnown
        <5> QED
          BY <4>1, <4>3, <4>4, <4>6, <5>1 DEF OffersKnown
      <4> QED
        BY <4>5, <4>6
    <3>5. CASE k # j
      <4>1. deferred'[k] = deferred[k] /\ offers'[k] = offers[k] /\ bound'[k] = bound[k]
        BY <3>1, <3>5
      <4> QED
        BY <1>t, <2>1, <2>2, <3>5, <4>1 DEF OffersKnown
    <3> QED
      BY <3>4, <3>5
  <2> QED
    BY <2>3, <2>4
<1>4. ASSUME NEW n \in Names, advertise(n)
      PROVE  OffersKnown(k)'
  <2> DEFINE j == Kind[n]
             more == Append(offers[j], n)
  <2>1. /\ transport = "ok" /\ n \notin live /\ live' = live \cup {n} /\ j \in Kinds
        /\ window' = window /\ deferred' = deferred
        /\ offers' = [offers EXCEPT ![j] = more]
        /\ bound' = IF bound[j] = NoName THEN [bound EXCEPT ![j] = n] ELSE bound
        /\ ~Contains(offers[j], n)
    BY <1>4 DEF advertise, Works, Binds
  <2>2. OffersKnown(k) /\ OffersKnown(j)
    BY <1>0, <2>1
  <2>3. offers[j] \in Seq(Names)
    BY <1>t, <2>1 DEF ConnectionTypeOK
  <2>4. \A m \in Names : Contains(more, m) <=> Contains(offers[j], m) \/ m = n
    BY <2>3, ContainsAppended
  <2>5. more # <<>>
    BY <2>3
  <2> HIDE DEF more
  <2>6. CASE k = j
    <3>1. /\ offers'[k] = more /\ deferred'[k] = deferred[k]
          /\ bound'[k] = IF bound[k] = NoName THEN n ELSE bound[k]
      BY <1>t, <2>1, <2>6 DEF ConnectionTypeOK
    <3>2. \A m \in Names :
            Contains(offers'[k], m) <=> Kind[m] = k /\ (m \in live' \/ m = deferred'[k])
      BY <2>1, <2>2, <2>4, <2>6, <3>1 DEF OffersKnown
    <3>3. bound'[k] # NoName /\ Contains(offers'[k], bound'[k])
      BY <1>t, <2>2, <2>4, <2>6, <3>1 DEF OffersKnown, ConnectionTypeOK
    <3>4. deferred[k] # n
      BY <2>1, <2>2, <2>6 DEF OffersKnown
    <3> QED
      BY <2>1, <2>2, <3>1, <3>2, <3>3, <3>4 DEF OffersKnown
  <2>7. CASE k # j
    <3>1. deferred'[k] = deferred[k] /\ offers'[k] = offers[k] /\ bound'[k] = bound[k]
      BY <1>t, <2>1, <2>7 DEF ConnectionTypeOK
    <3>2. deferred[k] # n
      BY <2>2, <2>7, <1>t DEF OffersKnown, ConnectionTypeOK
    <3> QED
      BY <1>t, <2>1, <2>2, <2>7, <3>1, <3>2 DEF OffersKnown
  <2> QED
    BY <2>6, <2>7
<1>5. CASE create \/ shutdown_window
  BY <1>1, <1>5 DEF create, shutdown_window
<1>6. ASSUME NEW o \in Outputs,
             \/ bind_output(o) \/ remove_output(o) \/ surface_enters(o) \/ surface_leaves(o)
             \/ \E f \in 0 .. MaxScaleFactor + 1 : handle_scale(o, f)
      PROVE  OffersKnown(k)'
  BY <1>1, <1>6 DEF bind_output, remove_output, surface_enters, surface_leaves, handle_scale
<1>7. CASE \/ \E c \in SUBSET Capability : handle_seat_capabilities(c)
           \/ \E f \in Factors : handle_fractional_scale(f)
  BY <1>1, <1>7 DEF handle_seat_capabilities, handle_fractional_scale
<1>8. CASE UNCHANGED registry
  BY <1>1, <1>8 DEF registry
<1>9. CASE \/ run_pending \/ task_throws \/ dispatch \/ wakes \/ display_ready \/ close_connection
           \/ UNCHANGED connectionVars \/ \E t \in Tasks : post(t)
  <2>1. UNCHANGED registry
    BY <1>9 DEF run_pending, task_throws, dispatch, wakes, display_ready, close_connection, post,
                connectionVars
  <2> QED
    BY <1>8, <2>1
<1>10. CASE fail_transport
  BY <1>10 DEF fail_transport
<1> QED
  BY <1>2, <1>3, <1>4, <1>5, <1>6, <1>7, <1>9, <1>10 DEF ConnectionNext

(* The seat: its capabilities need a proxy, and the window's objects are   *)
(* gone before the proxy is.                                               *)
LEMMA NextSeat ==
  ASSUME ConnectionInv, [ConnectionNext]_connectionVars, transport' = "ok"
  PROVE  SeatFollows'
<1> USE ConnectionConstants
<1>0. /\ ConnectionTypeOK
      /\ transport = "ok" => SeatFollows /\ OffersKnown("seat")
  BY DEF ConnectionInv
<1>1. CASE /\ UNCHANGED <<capabilities, children, window, transport>>
           /\ bound["seat"] # NoName => bound'["seat"] # NoName
  BY <1>0, <1>1 DEF SeatFollows
<1>2. CASE create \/ shutdown_window
  BY <1>0, <1>2 DEF create, shutdown_window, SeatFollows
<1>3. ASSUME NEW failing \in SUBSET Kinds, destroy(failing)
      PROVE  SeatFollows'
  <2> DEFINE gone == {j \in Kinds : deferred[j] # NoName}
  <2>1. /\ transport = "ok" /\ window' = "none" /\ children' = {}
        /\ capabilities' = IF "seat" \in gone THEN {} ELSE capabilities
        /\ "seat" \notin gone => bound'["seat"] = bound["seat"]
    BY <1>3 DEF destroy, CarryOutRemovals
  <2> QED
    BY <1>0, <2>1 DEF SeatFollows
<1>4. ASSUME NEW n \in Names, NEW ok \in BOOLEAN, remove(n, ok)
      PROVE  SeatFollows'
  <2>1. transport = "ok" /\ window' = window /\ Kind[n] \in Kinds
    BY <1>4 DEF remove, Works
  <2>2. CASE Selected(n) /\ window # "none" /\ HasActiveChildren(Kind[n])
    BY <1>1, <1>4, <2>1, <2>2 DEF remove
  <2>3. CASE ~(Selected(n) /\ window # "none" /\ HasActiveChildren(Kind[n]))
    <3>1. /\ bound' = [bound EXCEPT ![Kind[n]] =
                         Replacement(Kind[n], n, RemoveFirst(offers[Kind[n]], n), ok)]
          /\ capabilities' = IF Selected(n) /\ Kind[n] = "seat" THEN {} ELSE capabilities
          /\ children' = children
      BY <1>4, <2>3 DEF remove
    <3>2. CASE Selected(n) /\ Kind[n] = "seat"
      BY <1>0, <2>1, <2>3, <3>1, <3>2 DEF SeatFollows, HasActiveChildren
    <3>3. CASE ~(Selected(n) /\ Kind[n] = "seat")
      <4>1. bound'["seat"] = bound["seat"]
        BY <1>0, <3>1, <3>3 DEF Selected, Replacement, ConnectionTypeOK
      <4> QED
        BY <1>0, <2>1, <3>1, <3>3, <4>1 DEF SeatFollows
    <3> QED
      BY <3>2, <3>3
  <2> QED
    BY <2>2, <2>3
<1>5. ASSUME NEW n \in Names, advertise(n)
      PROVE  SeatFollows'
  BY <1>0, <1>1, <1>5 DEF advertise, Works, Binds, ConnectionTypeOK
<1>6. ASSUME NEW o \in Outputs,
             \/ bind_output(o) \/ remove_output(o) \/ surface_enters(o) \/ surface_leaves(o)
             \/ \E f \in 0 .. MaxScaleFactor + 1 : handle_scale(o, f)
      PROVE  SeatFollows'
  BY <1>1, <1>6 DEF bind_output, remove_output, surface_enters, surface_leaves, handle_scale
<1>7. ASSUME NEW c \in SUBSET Capability, handle_seat_capabilities(c)
      PROVE  SeatFollows'
  BY <1>0, <1>7 DEF handle_seat_capabilities, SeatFollows, SeatChildren, Works
<1>8. CASE \/ run_pending \/ task_throws \/ dispatch \/ wakes \/ display_ready \/ close_connection
           \/ UNCHANGED connectionVars \/ \E t \in Tasks : post(t)
  <2>1. UNCHANGED registry
    BY <1>8 DEF run_pending, task_throws, dispatch, wakes, display_ready, close_connection, post,
                connectionVars
  <2> QED
    BY <1>1, <2>1 DEF registry
<1>9. CASE fail_transport
  BY <1>9 DEF fail_transport
<1>10. CASE \E f \in Factors : handle_fractional_scale(f)
  BY <1>1, <1>10 DEF handle_fractional_scale
<1> QED
  BY <1>2, <1>3, <1>4, <1>5, <1>6, <1>7, <1>8, <1>9, <1>10 DEF ConnectionNext

(* The outputs and the scale derived from them. *)
LEMMA NextOutputs ==
  ASSUME ConnectionInv, [ConnectionNext]_connectionVars
  PROVE  OutputsFollow'
<1> USE ConnectionConstants
<1>0. /\ ConnectionTypeOK
      /\ \A o \in Outputs : outputs[o] # 0 => o \in live
      /\ window # "none" => \A o \in entered : outputs[o] # 0
      /\ window = "live" =>
           factor = IF fractional # 0 THEN fractional ELSE ScaleOf(entered, outputs)
  BY DEF ConnectionInv, OutputsFollow, ScaleFollowsOutputs
<1>1. CASE /\ UNCHANGED <<outputs, entered, factor>>
           /\ live \cap Outputs \subseteq live'
           /\ window' # "none" => window # "none"
           /\ window' = "live" => window = "live" /\ UNCHANGED fractional
  BY <1>0, <1>1 DEF OutputsFollow, ScaleFollowsOutputs
<1>2. CASE create
  BY <1>0, <1>2, ScaleOfNone
  DEF create, FractionalAtFirst, OutputsFollow, ScaleFollowsOutputs
<1>3. CASE shutdown_window \/ \E failing \in SUBSET Kinds : destroy(failing)
  BY <1>1, <1>3 DEF shutdown_window, destroy
<1>4. ASSUME NEW n \in Names,
             advertise(n) \/ \E ok \in BOOLEAN : remove(n, ok)
      PROVE  OutputsFollow'
  <2>1. UNCHANGED <<outputs, entered, factor, fractional, window>> /\ live \ {n} \subseteq live'
    BY <1>4 DEF advertise, remove
  <2> QED
    BY <1>1, <2>1
<1>5. ASSUME NEW o \in Outputs, bind_output(o)
      PROVE  OutputsFollow'
  <2>1. /\ live' = live \cup {o} /\ o \notin live
        /\ UNCHANGED <<entered, factor, fractional, window>>
        /\ outputs' = [outputs EXCEPT ![o] = 1] \/ outputs' = outputs
    BY <1>5 DEF bind_output
  <2>2. window # "none" => o \notin entered
    BY <1>0, <2>1 DEF ConnectionTypeOK
  <2>3. window # "none" => \A p \in entered : outputs'[p] = outputs[p]
    BY <1>0, <2>1, <2>2 DEF ConnectionTypeOK
  <2>4. window # "none" => ScaleOf(entered, outputs') = ScaleOf(entered, outputs)
    BY <1>0, <2>3, ScaleSame DEF ConnectionTypeOK
  <2> QED
    BY <1>0, <2>1, <2>3, <2>4 DEF OutputsFollow, ScaleFollowsOutputs, ConnectionTypeOK
<1>6. ASSUME NEW o \in Outputs, remove_output(o)
      PROVE  OutputsFollow'
  <2>1. /\ live' = live \ {o} /\ outputs' = [outputs EXCEPT ![o] = 0]
        /\ UNCHANGED <<fractional, window>>
    BY <1>6 DEF remove_output
  <2>2. \A p \in Outputs : outputs'[p] # 0 => p \in live'
    BY <1>0, <2>1 DEF ConnectionTypeOK
  <2>3. /\ window # "none" => entered' = entered \ {o}
        /\ window = "live" =>
             factor' = IF fractional # 0 THEN fractional ELSE ScaleOf(entered \ {o}, outputs)
    <3>1. CASE outputs[o] # 0
      BY <1>0, <1>6, <3>1 DEF remove_output, WithoutOutput, Rescaled
    <3>2. CASE outputs[o] = 0
      <4>1. UNCHANGED <<entered, factor>>
        BY <1>6, <3>2 DEF remove_output
      <4>2. window # "none" => entered \ {o} = entered
        BY <1>0, <3>2
      <4> QED
        BY <1>0, <4>1, <4>2
    <3> QED
      BY <3>1, <3>2
  <2>4. \A p \in entered \ {o} : outputs'[p] = outputs[p]
    BY <1>0, <2>1 DEF ConnectionTypeOK
  <2>5. ScaleOf(entered \ {o}, outputs') = ScaleOf(entered \ {o}, outputs)
    BY <1>0, <2>4, ScaleSame DEF ConnectionTypeOK
  <2> QED
    BY <1>0, <2>1, <2>2, <2>3, <2>4, <2>5 DEF OutputsFollow, ScaleFollowsOutputs
<1>7. ASSUME NEW o \in Outputs, surface_enters(o) \/ surface_leaves(o)
      PROVE  OutputsFollow'
  BY <1>0, <1>7 DEF surface_enters, surface_leaves, Rescaled, OutputsFollow, ScaleFollowsOutputs
<1>8. ASSUME NEW o \in Outputs, NEW f \in 0 .. MaxScaleFactor + 1, handle_scale(o, f)
      PROVE  OutputsFollow'
  <2>1. CASE f \in Factors
    <3>1. /\ outputs' = [outputs EXCEPT ![o] = f] /\ outputs[o] # 0
          /\ factor' = IF window = "none" \/ fractional # 0 THEN factor
                       ELSE ScaleOf(entered, outputs')
          /\ UNCHANGED <<entered, fractional, window, live>>
      BY <1>8, <2>1 DEF handle_scale, Rescaled
    <3>2. f # 0
      BY <2>1 DEF Factors
    <3> QED
      BY <1>0, <3>1, <3>2 DEF OutputsFollow, ScaleFollowsOutputs, ConnectionTypeOK
  <2>2. CASE f \notin Factors
    BY <1>1, <1>8, <2>2 DEF handle_scale
  <2> QED
    BY <2>1, <2>2
<1>9. CASE \E c \in SUBSET Capability : handle_seat_capabilities(c)
  BY <1>1, <1>9 DEF handle_seat_capabilities
<1>10. CASE fail_transport
  BY <1>1, <1>10 DEF fail_transport
<1>11. CASE \/ run_pending \/ task_throws \/ dispatch \/ wakes \/ display_ready
            \/ close_connection \/ UNCHANGED connectionVars \/ \E t \in Tasks : post(t)
  <2>1. UNCHANGED registry
    BY <1>11 DEF run_pending, task_throws, dispatch, wakes, display_ready, close_connection, post,
                 connectionVars
  <2> QED
    BY <1>1, <2>1 DEF registry
<1>12. ASSUME NEW f \in Factors, handle_fractional_scale(f)
       PROVE  OutputsFollow'
  <2>1. f # 0
    BY DEF Factors
  <2> QED
    BY <1>0, <1>12, <2>1 DEF handle_fractional_scale, OutputsFollow, ScaleFollowsOutputs
<1> QED
  BY <1>2, <1>3, <1>4, <1>5, <1>6, <1>7, <1>8, <1>9, <1>10, <1>11, <1>12 DEF ConnectionNext

(* The task runner: a queue that empties is seen under the mutex before    *)
(* the poll, and every later post signals.                                 *)
LEMMA NextWake ==
  ASSUME ConnectionInv, [ConnectionNext]_connectionVars
  PROVE  WakePending'
<1>0. ConnectionTypeOK /\ WakePending
  BY DEF ConnectionInv
<1>1. CASE UNCHANGED runnerVars
  BY <1>0, <1>1 DEF runnerVars, WakePending
<1>2. ASSUME NEW failing \in SUBSET Kinds, destroy(failing)
      PROVE  WakePending'
  BY <1>0, <1>2 DEF destroy, WakePending, ConnectionTypeOK
<1>3. CASE run_pending \/ task_throws
  BY <1>0, <1>3 DEF run_pending, task_throws, WakePending, ConnectionTypeOK
<1>4. CASE dispatch \/ wakes \/ display_ready \/ fail_transport
  BY <1>0, <1>4 DEF dispatch, wakes, display_ready, fail_transport, WakePending
<1>5. CASE close_connection
  BY <1>0, <1>5 DEF close_connection, WakePending, ConnectionTypeOK
<1>6. ASSUME NEW t \in Tasks, post(t)
      PROVE  WakePending'
  BY <1>0, <1>6 DEF post, WakePending, ConnectionTypeOK
<1>7. CASE \/ create \/ shutdown_window
           \/ \E n \in Names : advertise(n) \/ \E ok \in BOOLEAN : remove(n, ok)
           \/ \E o \in Outputs : \/ bind_output(o) \/ remove_output(o)
                                 \/ surface_enters(o) \/ surface_leaves(o)
                                 \/ \E f \in 0 .. MaxScaleFactor + 1 : handle_scale(o, f)
           \/ \E c \in SUBSET Capability : handle_seat_capabilities(c)
           \/ \E f \in Factors : handle_fractional_scale(f)
           \/ UNCHANGED connectionVars
  <2>1. UNCHANGED runnerVars
    BY <1>7 DEF create, shutdown_window, advertise, remove, bind_output, remove_output,
                surface_enters, surface_leaves, handle_scale, handle_seat_capabilities,
                handle_fractional_scale, connectionVars
  <2> QED
    BY <1>1, <2>1
<1> QED
  BY <1>2, <1>3, <1>4, <1>5, <1>6, <1>7 DEF ConnectionNext
-----------------------------------------------------------------------------
(* The inductive invariant holds throughout. *)
LEMMA ConnectionInvariant == ConnectionSpec => []ConnectionInv
<1>1. ConnectionInit => ConnectionInv
  BY InitConnection
<1>2. ConnectionInv /\ [ConnectionNext]_connectionVars => ConnectionInv'
  <2> SUFFICES ASSUME ConnectionInv, [ConnectionNext]_connectionVars
               PROVE  ConnectionInv'
    OBVIOUS
  <2>1. ConnectionTypeOK'
    BY NextConnectionType DEF ConnectionInv
  <2> QED
    BY <2>1, NextRegistry, NextSeat, NextOutputs, NextWake DEF ConnectionInv
<1> QED
  BY <1>1, <1>2, PTL DEF ConnectionSpec

(* Type correctness of the connection, its registry and its task runner. *)
THEOREM ConnectionTypeCorrect == ConnectionSpec => []ConnectionTypeOK
BY ConnectionInvariant, PTL DEF ConnectionInv

(* Whatever the compositor announces and withdraws, in any order and with  *)
(* any bind failing, while the transport works every proxy stands for a    *)
(* live global or for one whose removal waits for the window, no advertised *)
(* kind is left without a proxy, and a running window's scale is that of   *)
(* its fractional_scale object, or of the outputs it is on.                *)
THEOREM RegistryAlwaysFollowed == ConnectionSpec => []RegistryFollowed
<1>1. ConnectionInv => RegistryFollowed
  <2> SUFFICES ASSUME ConnectionInv
               PROVE  RegistryFollowed
    OBVIOUS
  <2>1. ASSUME transport = "ok", NEW k \in Kinds
        PROVE  /\ bound[k] # NoName /\ bound[k] \notin live =>
                    window # "none" /\ deferred[k] = bound[k]
               /\ bound[k] = NoName => \A n \in live \cap Names : Kind[n] # k
               /\ deferred[k] # NoName => deferred[k] = bound[k] /\ window # "none"
    <3>1. OffersKnown(k) /\ bound[k] \in Names \cup {NoName} /\ NoName \notin Names
      BY <2>1, ConnectionConstants DEF ConnectionInv, ConnectionTypeOK
    <3>2. bound[k] # NoName => bound[k] \in live \/ bound[k] = deferred[k]
      BY <3>1 DEF OffersKnown
    <3>3. bound[k] = NoName => \A n \in Names : ~Contains(offers[k], n)
      BY <3>1 DEF OffersKnown, Contains
    <3> QED
      BY <3>1, <3>2, <3>3 DEF OffersKnown
  <2>2. GlobalsFollow
    BY <2>1 DEF GlobalsFollow, ConnectionInv, SeatFollows
  <2> QED
    BY <2>2 DEF RegistryFollowed, ConnectionInv, OutputsFollow
<1> QED
  BY <1>1, ConnectionInvariant, PTL

(* No task is left asleep: an owner blocked in poll has its wake pending   *)
(* whenever a task is queued, and a closed runner holds none.              *)
THEOREM WakeAlwaysPending == ConnectionSpec => []WakePending
BY ConnectionInvariant, PTL DEF ConnectionInv
-----------------------------------------------------------------------------
(* FrameClock: arithmetic modulo the clock's range. *)
LEMMA RemainderUnique ==
  ASSUME NEW m \in Nat \ {0}, NEW k \in Nat, NEW r \in 0 .. m - 1
  PROVE  (m * k + r) % m = r
OBVIOUS

(* What a time less than two ranges into an epoch leaves. *)
LEMMA EpochRemainder ==
  ASSUME NEW m \in Nat \ {0}, NEW e \in Nat, e % m = 0, NEW x \in 0 .. 2 * m - 1
  PROVE  /\ (e + x) % m = IF x < m THEN x ELSE x - m
         /\ (e + m) % m = 0
<1> DEFINE k == e \div m
<1>1. k \in Nat /\ e = m * k
  OBVIOUS
<1> HIDE DEF k
<1>2. ASSUME x < m
      PROVE  (e + x) % m = x
  <2>1. (m * k + x) % m = x
    BY <1>1, <1>2, RemainderUnique
  <2> QED
    BY <1>1, <1>2, <2>1
<1>3. ASSUME ~(x < m)
      PROVE  (e + x) % m = x - m
  <2> DEFINE l == k + 1
             r == x - m
  <2>1. l \in Nat /\ r \in 0 .. m - 1
    BY <1>1, <1>3
  <2>2. e + x = m * l + r
    BY <1>1
  <2> HIDE DEF l, r
  <2>3. (m * l + r) % m = r
    BY <2>1, RemainderUnique
  <2> QED
    BY <1>3, <2>2, <2>3 DEF r
<1>4. (e + m) % m = 0
  <2> DEFINE l == k + 1
  <2>1. l \in Nat /\ 0 \in 0 .. m - 1
    BY <1>1
  <2>2. e + m = m * l + 0
    BY <1>1
  <2> HIDE DEF l
  <2>3. (m * l + 0) % m = 0
    BY <2>1, RemainderUnique
  <2> QED
    BY <2>2, <2>3
<1> QED
  BY <1>2, <1>3, <1>4

(* The inductive invariant: a pulse carries the unwrapped time. *)
ClockInv ==
  /\ ClockTypeOK
  /\ pulsed = -1 => clock = [last |-> 0, epoch |-> 0] /\ now <= MaxMilliseconds
  /\ pulsed # -1 => pulsed = clock.epoch + clock.last
  /\ 2 * MaxGap <= MaxMilliseconds + 1 /\ pulsed # -1 => pulsed = now

(* A callback keeps it. *)
LEMMA NextClock ==
  ASSUME ClockInv, NEW gap \in Nat, gap \in (IF pulsed = -1 THEN {0} ELSE 0 .. MaxGap),
         handle_done(gap)
  PROVE  ClockInv'
<1> DEFINE m == MaxMilliseconds + 1
           ms == (now + gap) % m
           next == IF Wraps(ms) THEN clock.epoch + m ELSE clock.epoch
<1>1. /\ m \in Nat \ {0} /\ now \in Nat /\ MaxGap \in Nat
      /\ clock.last \in 0 .. MaxMilliseconds /\ clock.epoch \in Nat /\ clock.epoch % m = 0
      /\ now + gap <= MaxTime /\ now' = now + gap
  BY ClockConstants DEF ClockInv, ClockTypeOK, handle_done
<1>2. ms \in 0 .. MaxMilliseconds
  BY <1>1, ClockConstants
<1>3. next \in Nat /\ next % m = 0
  <2>1. 0 \in 0 .. 2 * m - 1
    BY <1>1
  <2>2. (clock.epoch + m) % m = 0
    BY <1>1, <2>1, EpochRemainder
  <2> HIDE DEF m
  <2> QED
    BY <1>1, <2>2
<1>4. clock' = [last |-> ms, epoch |-> next] /\ pulsed' = next + ms
  <2>1. clock.epoch + MaxMilliseconds + 1 = clock.epoch + m
    BY <1>1, ClockConstants
  <2>2. /\ clock' = [last |-> ms, epoch |-> IF Wraps(ms) THEN clock.epoch + MaxMilliseconds + 1
                                            ELSE clock.epoch]
        /\ pulsed' = clock'.epoch + ms
    BY DEF handle_done
  <2> QED
    BY <2>1, <2>2
<1>5. ASSUME 2 * MaxGap <= MaxMilliseconds + 1
      PROVE  next + ms = now + gap
  <2>1. CASE pulsed = -1
    <3>1. gap = 0 /\ clock.last = 0 /\ clock.epoch = 0 /\ now \in 0 .. MaxMilliseconds
      BY <1>1, <2>1 DEF ClockInv
    <3>2. ms = now
      BY <1>1, <3>1, ClockConstants
    <3>3. ~Wraps(ms)
      BY <1>2, <3>1 DEF Wraps
    <3> QED
      BY <1>1, <3>1, <3>2, <3>3
  <2>2. CASE pulsed # -1
    <3> DEFINE x == clock.last + gap
    <3>1. gap <= MaxGap /\ now = clock.epoch + clock.last
      BY <1>1, <1>5, <2>2 DEF ClockInv
    <3>2. x \in 0 .. 2 * m - 1 /\ now + gap = clock.epoch + x
      BY <1>1, <1>5, <3>1, ClockConstants
    <3>3. ms = IF x < m THEN x ELSE x - m
      <4> HIDE DEF m, x
      <4>1. (clock.epoch + x) % m = IF x < m THEN x ELSE x - m
        BY <1>1, <3>2, EpochRemainder
      <4> QED
        BY <3>2, <4>1
    <3> HIDE DEF ms
    <3>4. CASE x < m
      <4>1. ~Wraps(ms)
        BY <1>1, <3>3, <3>4 DEF Wraps
      <4> QED
        BY <1>1, <3>2, <3>3, <3>4, <4>1
    <3>5. CASE ~(x < m)
      <4>0. gap < m /\ ms = clock.last + gap - m
        BY <1>1, <1>5, <3>1, <3>3, <3>5
      <4>1. ms < clock.last /\ clock.last - ms = m - gap
        BY <1>1, <4>0
      <4>2. m - gap > MaxMilliseconds \div 2
        BY <1>1, <1>5, <3>1, ClockConstants
      <4>3. Wraps(ms)
        BY <4>1, <4>2 DEF Wraps
      <4> QED
        BY <1>1, <3>2, <3>3, <3>5, <4>3
    <3> QED
      BY <3>4, <3>5
  <2> QED
    BY <2>1, <2>2
<1> HIDE DEF ms, next
<1>6. pulsed' \in Nat /\ pulsed' # -1
  BY <1>2, <1>3, <1>4
<1>7. ClockTypeOK'
  BY <1>1, <1>2, <1>3, <1>4, <1>6, ClockConstants DEF ClockTypeOK
<1> QED
  BY <1>1, <1>4, <1>5, <1>6, <1>7 DEF ClockInv

(* Every frame pulse carries the compositor's time, for any width of the   *)
(* clock and over any number of wraps, when callbacks are at most half the *)
(* range apart: that is exactly what the comparison in handle_done needs.  *)
THEOREM ClockAlwaysUnwraps == ClockSpec => [](ClockTypeOK /\ ClockUnwraps)
<1>1. ClockInit => ClockInv
  BY ClockConstants DEF ClockInit, ClockInv, ClockTypeOK
<1>2. ClockInv /\ [ClockNext]_clockVars => ClockInv'
  <2>1. ASSUME ClockInv, ClockNext
        PROVE  ClockInv'
    <3>1. PICK gap \in (IF pulsed = -1 THEN {0} ELSE 0 .. MaxGap) : handle_done(gap)
      BY <2>1 DEF ClockNext
    <3>2. gap \in Nat
      BY ClockConstants
    <3> QED
      BY <2>1, <3>1, <3>2, NextClock
  <2>2. ASSUME ClockInv, UNCHANGED clockVars
        PROVE  ClockInv'
    BY <2>2 DEF clockVars, ClockInv, ClockTypeOK
  <2> QED
    BY <2>1, <2>2
<1>3. ClockInv => ClockTypeOK /\ ClockUnwraps
  BY DEF ClockInv, ClockUnwraps
<1> QED
  BY <1>1, <1>2, <1>3, PTL DEF ClockSpec
-----------------------------------------------------------------------------
(***************************************************************************)
(* The parts side by side, as MCWayland runs them: each behaves as on its  *)
(* own.                                                                    *)
(***************************************************************************)
LEMMA PartsSideBySide == WaylandSpec => Spec /\ InputSpec /\ ConnectionSpec /\ ClockSpec
<1> DEFINE all == <<explored, vars, inputVars, connectionVars, clockVars>>
<1>1. WaylandInit => Init /\ InputInit /\ ConnectionInit /\ ClockInit
  BY DEF WaylandInit
<1>2. [WaylandNext]_all => [Next]_vars
  BY DEF WaylandNext
<1>3. [WaylandNext]_all => [InputNext]_inputVars
  BY DEF WaylandNext
<1>4. [WaylandNext]_all => [ConnectionNext]_connectionVars
  BY DEF WaylandNext
<1>5. [WaylandNext]_all => [ClockNext]_clockVars
  BY DEF WaylandNext
<1> QED
  BY <1>1, <1>2, <1>3, <1>4, <1>5, PTL DEF WaylandSpec, Spec, InputSpec, ConnectionSpec, ClockSpec

(* Type correctness of every part, the counters within their limits. *)
THEOREM WaylandTypeCorrect == WaylandSpec => []WaylandTypeOK
<1>1. WaylandTypeOK <=> TypeOK /\ InputTypeOK /\ ConnectionTypeOK /\ ClockTypeOK
  BY DEF WaylandTypeOK
<1> QED
  BY <1>1, PartsSideBySide, TypeCorrect, InputTypeCorrect, ConnectionTypeCorrect,
     ClockAlwaysUnwraps, PTL
=============================================================================
