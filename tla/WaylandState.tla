---------------------------- MODULE WaylandState ----------------------------
(***************************************************************************)
(* The value semantics of WaylandSurfaceState (src/src/platform/           *)
(* wayland.cpp): its fields as a record, each method as an operator from   *)
(* the record to the record it leaves.  WaylandSurface makes these the     *)
(* steps of a serial caller, WaylandWindow composes them into the handlers *)
(* of the native window.  Optional values are sets of at most one element. *)
(***************************************************************************)
EXTENDS Integers

CONSTANTS
  ScaleDenominator,  \* scale_denominator (120)
  MaxInt32,          \* numeric_limits<int32_t>::max()
  MaxUInt32,         \* numeric_limits<uint32_t>::max()
  MaxRevision,       \* numeric_limits<uint64_t>::max() of state_revision
  MaxGeneration      \* the same limit for next_commit_generation

ASSUME WaylandConstants ==
  /\ ScaleDenominator \in Nat \ {0}
  /\ MaxInt32 \in Nat \ {0}
  /\ MaxUInt32 \in Nat /\ MaxInt32 <= MaxUInt32 /\ ScaleDenominator <= MaxUInt32
  /\ MaxUInt32 <= ScaleDenominator * MaxInt32
  /\ MaxRevision \in Nat \ {0}
  /\ MaxGeneration \in Nat \ {0}

AtMostOne(o) == \A x, y \in o : x = y
CeilDiv(a, b) == (a + b - 1) \div b

Dimension == 1 .. MaxInt32
Extent == [width : Dimension, height : Dimension]
StagedExtent == [width : 0 .. MaxInt32, height : 0 .. MaxInt32]
Unstaged == [width |-> 0, height |-> 0]
Serial == 0 .. MaxUInt32
Scale == 1 .. MaxUInt32

WaylandCommit ==
  [generation : 1 .. MaxGeneration, state_revision : 1 .. MaxRevision,
   configure_serial : SUBSET Serial, logical_extent : Extent, buffer_extent : Extent,
   buffer_scale : Scale, scale_numerator : Scale, use_viewporter : BOOLEAN,
   request_frame_callback : BOOLEAN]

SurfaceState ==
  [desired_extent : Extent, applied_extent : Extent, staged : StagedExtent,
   desired_scale : Scale, applied_scale : Scale, pending_configure : SUBSET Serial,
   prepared : SUBSET WaylandCommit, state_revision : 1 .. MaxRevision,
   next_commit_generation : 1 .. MaxGeneration,
   frame_callback_generation : 0 .. MaxGeneration,
   fractional_scale_supported : BOOLEAN, initial_commit_started : BOOLEAN,
   configured : BOOLEAN, dirty : BOOLEAN, frame_demand : BOOLEAN]

(* The constructor. *)
NewSurface(extent, fractional) ==
  [desired_extent |-> extent, applied_extent |-> extent, staged |-> Unstaged,
   desired_scale |-> ScaleDenominator, applied_scale |-> ScaleDenominator,
   pending_configure |-> {}, prepared |-> {}, state_revision |-> 1,
   next_commit_generation |-> 1, frame_callback_generation |-> 0,
   fractional_scale_supported |-> fractional,
   initial_commit_started |-> FALSE, configured |-> FALSE, dirty |-> FALSE,
   frame_demand |-> FALSE]
-----------------------------------------------------------------------------
BeginInitialCommit(s) == [s EXCEPT !.initial_commit_started = TRUE]

StageExtent(s, w, h) == [s EXCEPT !.staged = [width |-> w, height |-> h]]

(* advance_revision throws at the last revision, before anything changes;  *)
(* it drops the prepared plan.                                             *)
CanAdvance(s) == s.state_revision # MaxRevision
KeepPrepared(s) == [s EXCEPT !.state_revision = @ + 1]
AdvanceRevision(s) == [s EXCEPT !.state_revision = @ + 1, !.prepared = {}]

(* receive_surface_configure: a staged zero keeps the dimension. *)
ConfiguredExtent(s) ==
  [width |-> IF s.staged.width # 0 THEN s.staged.width ELSE s.desired_extent.width,
   height |-> IF s.staged.height # 0 THEN s.staged.height ELSE s.desired_extent.height]
Configure(s, serial) ==
  [AdvanceRevision(s) EXCEPT
     !.desired_extent = ConfiguredExtent(s), !.staged = Unstaged,
     !.pending_configure = {serial}, !.dirty = TRUE]

HasConfigure(s) == s.configured \/ s.pending_configure # {}

(* set_preferred_scale of a scale that differs, and buffer_lost. *)
RescaleClean(s, n) == [AdvanceRevision(s) EXCEPT !.desired_scale = n]
Rescale(s, n) ==
  [AdvanceRevision(s) EXCEPT !.desired_scale = n, !.dirty = @ \/ HasConfigure(s)]
LoseBuffer(s) == [AdvanceRevision(s) EXCEPT !.dirty = TRUE]

DemandFrame(s) == [s EXCEPT !.frame_demand = TRUE]
-----------------------------------------------------------------------------
(* prepare_commit: whether there is anything to commit, whether computing  *)
(* the plan overflows, and the plan.                                       *)
CanRequestFrame(s) == s.frame_demand /\ s.frame_callback_generation = 0

EffectiveScale(s) ==
  IF s.fractional_scale_supported THEN s.desired_scale
  ELSE CeilDiv(s.desired_scale, ScaleDenominator) * ScaleDenominator
BufferDimension(logical, scale) == CeilDiv(logical * scale, ScaleDenominator)

ToPrepare(s) ==
  /\ s.initial_commit_started /\ HasConfigure(s) /\ s.prepared = {}
  /\ s.dirty \/ s.pending_configure # {} \/ CanRequestFrame(s)
PrepareOverflowsInWidth(s) ==
  \/ s.next_commit_generation = MaxGeneration
  \/ EffectiveScale(s) > MaxUInt32
  \/ BufferDimension(s.desired_extent.width, EffectiveScale(s)) > MaxInt32
PrepareOverflows(s) ==
  \/ s.next_commit_generation = MaxGeneration
  \/ EffectiveScale(s) > MaxUInt32
  \/ BufferDimension(s.desired_extent.width, EffectiveScale(s)) > MaxInt32
  \/ BufferDimension(s.desired_extent.height, EffectiveScale(s)) > MaxInt32

BufferScale(s) ==
  IF s.fractional_scale_supported THEN 1 ELSE CeilDiv(EffectiveScale(s), ScaleDenominator)

Plan(s) ==
  [generation |-> s.next_commit_generation,
   state_revision |-> s.state_revision,
   configure_serial |-> s.pending_configure,
   logical_extent |-> s.desired_extent,
   buffer_extent |->
     [width |-> BufferDimension(s.desired_extent.width, EffectiveScale(s)),
      height |-> BufferDimension(s.desired_extent.height, EffectiveScale(s))],
   buffer_scale |-> BufferScale(s),
   scale_numerator |-> EffectiveScale(s),
   use_viewporter |-> s.fractional_scale_supported,
   request_frame_callback |-> CanRequestFrame(s)]

Prepare(s) == [s EXCEPT !.prepared = {Plan(s)}, !.next_commit_generation = @ + 1]

(* submit_commit and discard_commit refuse any plan but the prepared one. *)
Submits(s, c) == s.prepared = {c} /\ c.state_revision = s.state_revision

SubmitForgettingConfigure(s, c) ==
  [s EXCEPT
     !.applied_extent = s.desired_extent, !.applied_scale = c.scale_numerator,
     !.dirty = FALSE, !.configured = TRUE,
     !.frame_callback_generation = IF c.request_frame_callback THEN c.generation ELSE @,
     !.frame_demand = @ /\ ~c.request_frame_callback,
     !.prepared = {}]
Submit(s, c) == [SubmitForgettingConfigure(s, c) EXCEPT !.pending_configure = {}]

Discards(s, c) == s.prepared = {c}
DiscardKeepsPlan(s, c) == [s EXCEPT !.dirty = TRUE]
Discard(s, c) == [s EXCEPT !.prepared = {}, !.dirty = TRUE]

(* frame_done, which ignores any generation but the outstanding one. *)
FrameDone(s, g) ==
  IF g # 0 /\ s.frame_callback_generation = g
    THEN [s EXCEPT !.frame_callback_generation = 0] ELSE s

(* WaylandCommit::valid. *)
ValidExtent(e) == e.width \in Dimension /\ e.height \in Dimension
ValidCommit(c) ==
  /\ c.generation # 0 /\ c.state_revision # 0
  /\ ValidExtent(c.logical_extent) /\ ValidExtent(c.buffer_extent)
  /\ c.buffer_scale \in Dimension /\ c.scale_numerator # 0
  /\ c.buffer_extent.width = BufferDimension(c.logical_extent.width, c.scale_numerator)
  /\ c.buffer_extent.height = BufferDimension(c.logical_extent.height, c.scale_numerator)
  /\ IF c.use_viewporter THEN c.buffer_scale = 1
     ELSE /\ c.scale_numerator % ScaleDenominator = 0
          /\ c.buffer_scale = c.scale_numerator \div ScaleDenominator
=============================================================================
