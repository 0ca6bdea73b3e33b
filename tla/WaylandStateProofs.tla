------------------------- MODULE WaylandStateProofs -------------------------
(***************************************************************************)
(* What the operators of WaylandState leave behind, for every scale        *)
(* denominator and every limit of the integers and counters: the lemmas    *)
(* that the proofs about WaylandSurface and WaylandWindow rest on.         *)
(***************************************************************************)
EXTENDS WaylandState, TLAPS

(* Rounding up: at least one, exact on a multiple. *)
LEMMA CeilDivPositive ==
  ASSUME NEW a \in Nat \ {0}, NEW b \in Nat \ {0}
  PROVE  CeilDiv(a, b) \in Nat \ {0}
BY DEF CeilDiv

LEMMA CeilDivExact ==
  ASSUME NEW k \in Nat, NEW b \in Nat \ {0}
  PROVE  CeilDiv(k * b, b) = k /\ (k * b) \div b = k /\ (k * b) % b = 0
BY DEF CeilDiv

LEMMA ProductPositive ==
  ASSUME NEW a \in Nat \ {0}, NEW b \in Nat \ {0}
  PROVE  a * b \in Nat \ {0}
OBVIOUS

LEMMA ProductMonotone ==
  ASSUME NEW k \in Nat, NEW m \in Nat, NEW b \in Nat \ {0}, k * b <= b * m
  PROVE  k <= m
OBVIOUS

(* The effective scale is positive, and without fractional scaling a       *)
(* multiple k of the denominator whose buffer scale is k.                  *)
LEMMA EffectiveScalePositive ==
  ASSUME NEW s \in SurfaceState
  PROVE  /\ EffectiveScale(s) \in Nat \ {0}
         /\ ~s.fractional_scale_supported =>
              \E k \in Nat \ {0} : EffectiveScale(s) = k * ScaleDenominator
<1>1. s.desired_scale \in Nat \ {0} /\ ScaleDenominator \in Nat \ {0}
  BY WaylandConstants DEF SurfaceState, Scale
<1>2. CeilDiv(s.desired_scale, ScaleDenominator) \in Nat \ {0}
  BY <1>1, CeilDivPositive
<1>3. CeilDiv(s.desired_scale, ScaleDenominator) * ScaleDenominator \in Nat \ {0}
  BY <1>1, <1>2, ProductPositive
<1> QED
  BY <1>1, <1>2, <1>3 DEF EffectiveScale

LEMMA BufferDimensionPositive ==
  ASSUME NEW d \in Dimension, NEW n \in Nat \ {0}
  PROVE  BufferDimension(d, n) \in Nat \ {0}
<1>1. d \in Nat \ {0} /\ ScaleDenominator \in Nat \ {0}
  BY WaylandConstants DEF Dimension
<1> QED
  BY <1>1, ProductPositive, CeilDivPositive DEF BufferDimension

(* A plan that does not overflow is a WaylandCommit, and valid. *)
LEMMA PlanTyped ==
  ASSUME NEW s \in SurfaceState, ~PrepareOverflows(s)
  PROVE  Plan(s) \in WaylandCommit /\ ValidCommit(Plan(s))
<1> DEFINE n == EffectiveScale(s)
           w == BufferDimension(s.desired_extent.width, n)
           h == BufferDimension(s.desired_extent.height, n)
<1>0. /\ s.desired_extent \in Extent
      /\ s.desired_extent.width \in Dimension /\ s.desired_extent.height \in Dimension
      /\ s.fractional_scale_supported \in BOOLEAN
      /\ s.state_revision \in 1 .. MaxRevision /\ s.next_commit_generation \in 1 .. MaxGeneration
      /\ s.pending_configure \in SUBSET Serial
      /\ s.frame_demand \in BOOLEAN
  BY DEF SurfaceState, Extent
<1>1. n \in Nat \ {0}
  BY EffectiveScalePositive
<1>2. n \in Scale
  BY <1>1, WaylandConstants DEF PrepareOverflows, Scale
<1>3. w \in Dimension /\ h \in Dimension
  <2>1. w \in Nat \ {0} /\ h \in Nat \ {0}
    BY <1>0, <1>1, BufferDimensionPositive
  <2>2. ~(w > MaxInt32) /\ ~(h > MaxInt32)
    BY DEF PrepareOverflows
  <2> HIDE DEF w, h
  <2> QED
    BY <2>1, <2>2, WaylandConstants DEF Dimension
<1>4. /\ BufferScale(s) \in Dimension /\ BufferScale(s) \in Scale
      /\ s.fractional_scale_supported => BufferScale(s) = 1
      /\ ~s.fractional_scale_supported =>
           n % ScaleDenominator = 0 /\ BufferScale(s) = n \div ScaleDenominator
  <2>1. CASE s.fractional_scale_supported
    BY <2>1, WaylandConstants DEF BufferScale, Dimension, Scale
  <2>2. CASE ~s.fractional_scale_supported
    <3>1. PICK k \in Nat \ {0} : n = k * ScaleDenominator
      BY <2>2, EffectiveScalePositive
    <3>2. ScaleDenominator \in Nat \ {0} /\ MaxInt32 \in Nat /\ MaxUInt32 \in Nat
      BY WaylandConstants
    <3>3. CeilDiv(n, ScaleDenominator) = k /\ n \div ScaleDenominator = k
          /\ n % ScaleDenominator = 0
      BY <3>1, <3>2, CeilDivExact
    <3>4. k * ScaleDenominator <= ScaleDenominator * MaxInt32
      BY <1>2, <3>1, <3>2, WaylandConstants DEF Scale
    <3>5. k <= MaxInt32
      BY <3>2, <3>4, ProductMonotone
    <3>6. BufferScale(s) = k
      BY <2>2, <3>3 DEF BufferScale
    <3> HIDE DEF n
    <3> QED
      BY <2>2, <3>2, <3>3, <3>5, <3>6, WaylandConstants DEF Dimension, Scale
  <2> QED
    BY <2>1, <2>2
<1>5. CanRequestFrame(s) \in BOOLEAN
  BY <1>0 DEF CanRequestFrame
<1>6. Plan(s).buffer_extent = [width |-> w, height |-> h]
  BY DEF Plan
<1>7. /\ Plan(s).generation = s.next_commit_generation
      /\ Plan(s).state_revision = s.state_revision
      /\ Plan(s).logical_extent = s.desired_extent
      /\ Plan(s).buffer_scale = BufferScale(s)
      /\ Plan(s).scale_numerator = n
      /\ Plan(s).use_viewporter = s.fractional_scale_supported
  BY DEF Plan
<1> HIDE DEF n, w, h
<1>8. [width |-> w, height |-> h] \in Extent
  BY <1>3 DEF Extent
<1>9. Plan(s) \in WaylandCommit
  BY <1>0, <1>2, <1>4, <1>5, <1>8 DEF Plan, WaylandCommit, n, w, h
<1>10. ValidCommit(Plan(s))
  <2>1. Plan(s).generation # 0 /\ Plan(s).state_revision # 0 /\ n # 0
    BY <1>0, <1>1, <1>7, WaylandConstants
  <2>2. ValidExtent(Plan(s).logical_extent) /\ ValidExtent(Plan(s).buffer_extent)
    BY <1>0, <1>3, <1>6, <1>7 DEF ValidExtent
  <2>3. /\ Plan(s).buffer_extent.width = BufferDimension(Plan(s).logical_extent.width, n)
        /\ Plan(s).buffer_extent.height = BufferDimension(Plan(s).logical_extent.height, n)
    BY <1>6, <1>7 DEF w, h
  <2> QED
    BY <1>4, <1>7, <2>1, <2>2, <2>3 DEF ValidCommit
<1> QED
  BY <1>9, <1>10
-----------------------------------------------------------------------------
(* A revision that can advance stays within its limit; so do the values    *)
(* configure, rescaling and losing the buffer leave.                       *)
LEMMA AdvanceTyped ==
  ASSUME NEW s \in SurfaceState, CanAdvance(s)
  PROVE  /\ AdvanceRevision(s) \in SurfaceState
         /\ AdvanceRevision(s) = [s EXCEPT !.state_revision = s.state_revision + 1,
                                           !.prepared = {}]
<1>1. s.state_revision + 1 \in 1 .. MaxRevision
  BY WaylandConstants DEF CanAdvance, SurfaceState
<1> QED
  BY <1>1 DEF AdvanceRevision, SurfaceState

LEMMA ConfigureTyped ==
  ASSUME NEW s \in SurfaceState, CanAdvance(s), NEW n \in Serial
  PROVE  Configure(s, n) \in SurfaceState
<1>1. AdvanceRevision(s) \in SurfaceState
  BY AdvanceTyped
<1>2. ConfiguredExtent(s) \in Extent
  BY WaylandConstants DEF ConfiguredExtent, Extent, SurfaceState, StagedExtent, Dimension
<1>3. Unstaged \in StagedExtent
  BY WaylandConstants DEF Unstaged, StagedExtent
<1> HIDE DEF AdvanceRevision
<1> QED
  BY <1>1, <1>2, <1>3 DEF Configure, SurfaceState

LEMMA RescaleTyped ==
  ASSUME NEW s \in SurfaceState, CanAdvance(s), NEW n \in Scale
  PROVE  Rescale(s, n) \in SurfaceState
<1>1. AdvanceRevision(s) \in SurfaceState
  BY AdvanceTyped
<1>2. (AdvanceRevision(s).dirty \/ HasConfigure(s)) \in BOOLEAN
  BY <1>1 DEF SurfaceState
<1> QED
  BY <1>1, <1>2 DEF Rescale, SurfaceState
-----------------------------------------------------------------------------
(* v is w up to the frame callback, the demand for one and the staged      *)
(* size: what content is shown or waits to be shown is the same.           *)
SameContent(v, w) ==
  /\ v.desired_extent = w.desired_extent /\ v.applied_extent = w.applied_extent
  /\ v.desired_scale = w.desired_scale /\ v.applied_scale = w.applied_scale
  /\ v.fractional_scale_supported = w.fractional_scale_supported
  /\ v.pending_configure = w.pending_configure /\ v.prepared = w.prepared
  /\ v.initial_commit_started = w.initial_commit_started
  /\ v.configured = w.configured /\ v.dirty = w.dirty

LEMMA SameScale ==
  ASSUME NEW v, NEW w, SameContent(v, w)
  PROVE  EffectiveScale(v) = EffectiveScale(w)
BY DEF SameContent, EffectiveScale

LEMMA FrameDoneLeaves ==
  ASSUME NEW s \in SurfaceState, NEW g \in Nat
  PROVE  LET r == FrameDone(s, g)
         IN  /\ r \in SurfaceState /\ SameContent(r, s)
             /\ r.frame_demand = s.frame_demand
             /\ r.frame_callback_generation =
                  IF g # 0 /\ s.frame_callback_generation = g THEN 0
                  ELSE s.frame_callback_generation
BY WaylandConstants DEF FrameDone, SurfaceState, SameContent

LEMMA DemandLeaves ==
  ASSUME NEW s \in SurfaceState
  PROVE  LET r == DemandFrame(s)
         IN  /\ r \in SurfaceState /\ SameContent(r, s)
             /\ r.frame_demand = TRUE
             /\ r.frame_callback_generation = s.frame_callback_generation
BY DEF DemandFrame, SurfaceState, SameContent

LEMMA StageLeaves ==
  ASSUME NEW s \in SurfaceState, NEW w \in 0 .. MaxInt32, NEW h \in 0 .. MaxInt32
  PROVE  LET r == StageExtent(s, w, h)
         IN  /\ r \in SurfaceState /\ SameContent(r, s)
             /\ r.frame_demand = s.frame_demand
             /\ r.frame_callback_generation = s.frame_callback_generation
<1>1. [width |-> w, height |-> h] \in StagedExtent
  BY DEF StagedExtent
<1> QED
  BY <1>1 DEF StageExtent, SurfaceState, SameContent

LEMMA ConfigureLeaves ==
  ASSUME NEW s \in SurfaceState, CanAdvance(s), NEW n \in Serial
  PROVE  LET r == Configure(s, n)
         IN  /\ r \in SurfaceState /\ r.pending_configure = {n} /\ r.prepared = {}
             /\ r.initial_commit_started = s.initial_commit_started
             /\ r.frame_demand = s.frame_demand
             /\ r.frame_callback_generation = s.frame_callback_generation
<1> DEFINE a == AdvanceRevision(s)
<1>1. /\ a \in SurfaceState /\ a.prepared = {}
      /\ a.initial_commit_started = s.initial_commit_started
      /\ a.frame_demand = s.frame_demand
      /\ a.frame_callback_generation = s.frame_callback_generation
  BY AdvanceTyped DEF SurfaceState
<1>2. Configure(s, n) = [a EXCEPT !.desired_extent = ConfiguredExtent(s), !.staged = Unstaged,
                                  !.pending_configure = {n}, !.dirty = TRUE]
  BY DEF Configure
<1>3. Configure(s, n) \in SurfaceState
  BY ConfigureTyped
<1> HIDE DEF a
<1> QED
  BY <1>1, <1>2, <1>3 DEF SurfaceState

LEMMA RescaleLeaves ==
  ASSUME NEW s \in SurfaceState, CanAdvance(s), NEW n \in Scale
  PROVE  LET r == Rescale(s, n)
         IN  /\ r \in SurfaceState /\ r.prepared = {}
             /\ r.pending_configure = s.pending_configure /\ r.configured = s.configured
             /\ r.dirty = (s.dirty \/ HasConfigure(s))
             /\ r.initial_commit_started = s.initial_commit_started
             /\ r.frame_demand = s.frame_demand
             /\ r.frame_callback_generation = s.frame_callback_generation
<1> DEFINE a == AdvanceRevision(s)
<1>1. /\ a \in SurfaceState /\ a.prepared = {}
      /\ a.pending_configure = s.pending_configure /\ a.configured = s.configured
      /\ a.dirty = s.dirty
      /\ a.initial_commit_started = s.initial_commit_started
      /\ a.frame_demand = s.frame_demand
      /\ a.frame_callback_generation = s.frame_callback_generation
  BY AdvanceTyped DEF SurfaceState
<1>2. Rescale(s, n) = [a EXCEPT !.desired_scale = n, !.dirty = a.dirty \/ HasConfigure(s)]
  BY DEF Rescale
<1>3. Rescale(s, n) \in SurfaceState
  BY RescaleTyped
<1> HIDE DEF a
<1> QED
  BY <1>1, <1>2, <1>3 DEF SurfaceState

LEMMA PrepareLeaves ==
  ASSUME NEW s \in SurfaceState, ~PrepareOverflows(s)
  PROVE  LET r == Prepare(s)
         IN  /\ r \in SurfaceState
             /\ r.desired_extent = s.desired_extent /\ r.desired_scale = s.desired_scale
             /\ r.fractional_scale_supported = s.fractional_scale_supported
             /\ r.pending_configure = s.pending_configure
             /\ r.initial_commit_started = s.initial_commit_started
             /\ r.frame_demand = s.frame_demand
             /\ r.frame_callback_generation = s.frame_callback_generation
<1>1. Plan(s) \in WaylandCommit
  BY PlanTyped
<1>2. s.next_commit_generation + 1 \in 1 .. MaxGeneration
  BY WaylandConstants DEF PrepareOverflows, SurfaceState
<1> QED
  BY <1>1, <1>2 DEF Prepare, SurfaceState

(* Preparing a plan and submitting it shows all that was asked for. *)
LEMMA CommitLeaves ==
  ASSUME NEW s \in SurfaceState, ~PrepareOverflows(s)
  PROVE  LET r == Submit(Prepare(s), Plan(s))
         IN  /\ r \in SurfaceState /\ r.prepared = {} /\ r.pending_configure = {}
             /\ r.configured = TRUE /\ r.dirty = FALSE
             /\ r.initial_commit_started = s.initial_commit_started
             /\ r.desired_extent = s.desired_extent /\ r.applied_extent = s.desired_extent
             /\ r.applied_scale = EffectiveScale(s)
             /\ EffectiveScale(r) = EffectiveScale(s)
             /\ r.frame_demand = (s.frame_demand /\ ~CanRequestFrame(s))
             /\ r.frame_callback_generation =
                  IF CanRequestFrame(s) THEN s.next_commit_generation
                  ELSE s.frame_callback_generation
<1> DEFINE p == Prepare(s)
           c == Plan(s)
           u == SubmitForgettingConfigure(p, c)
           r == Submit(p, c)
<1>1. /\ c \in WaylandCommit
      /\ c.generation = s.next_commit_generation
      /\ c.scale_numerator = EffectiveScale(s)
      /\ c.request_frame_callback = CanRequestFrame(s)
  BY PlanTyped DEF Plan
<1>2. /\ p \in SurfaceState
      /\ p.desired_extent = s.desired_extent /\ p.desired_scale = s.desired_scale
      /\ p.fractional_scale_supported = s.fractional_scale_supported
      /\ p.initial_commit_started = s.initial_commit_started
      /\ p.frame_demand = s.frame_demand
      /\ p.frame_callback_generation = s.frame_callback_generation
  BY PrepareLeaves
<1>3. /\ c.generation \in 0 .. MaxGeneration /\ c.scale_numerator \in Scale
      /\ c.request_frame_callback \in BOOLEAN
  BY <1>1, WaylandConstants DEF WaylandCommit
<1> HIDE DEF p, c
<1>4. /\ u \in SurfaceState /\ u.prepared = {}
      /\ u.configured = TRUE /\ u.dirty = FALSE
      /\ u.initial_commit_started = p.initial_commit_started
      /\ u.desired_extent = p.desired_extent /\ u.applied_extent = p.desired_extent
      /\ u.desired_scale = p.desired_scale /\ u.applied_scale = c.scale_numerator
      /\ u.fractional_scale_supported = p.fractional_scale_supported
      /\ u.frame_demand = (p.frame_demand /\ ~c.request_frame_callback)
      /\ u.frame_callback_generation =
           IF c.request_frame_callback THEN c.generation ELSE p.frame_callback_generation
  <2> DEFINE g == IF c.request_frame_callback THEN c.generation ELSE p.frame_callback_generation
             e == p.frame_demand /\ ~c.request_frame_callback
  <2>1. g \in 0 .. MaxGeneration /\ e \in BOOLEAN
    BY <1>2, <1>3 DEF SurfaceState
  <2>2. u = [p EXCEPT !.applied_extent = p.desired_extent, !.applied_scale = c.scale_numerator,
                      !.dirty = FALSE, !.configured = TRUE,
                      !.frame_callback_generation = g, !.frame_demand = e, !.prepared = {}]
    BY DEF SubmitForgettingConfigure
  <2> HIDE DEF g, e, u
  <2>3. /\ u \in SurfaceState /\ u.prepared = {}
        /\ u.configured = TRUE /\ u.dirty = FALSE
        /\ u.initial_commit_started = p.initial_commit_started
        /\ u.desired_extent = p.desired_extent /\ u.applied_extent = p.desired_extent
        /\ u.desired_scale = p.desired_scale /\ u.applied_scale = c.scale_numerator
        /\ u.fractional_scale_supported = p.fractional_scale_supported
        /\ u.frame_demand = e /\ u.frame_callback_generation = g
    BY <1>2, <1>3, <2>1, <2>2 DEF SurfaceState
  <2> QED
    BY <2>3 DEF g, e
<1>5. r = [u EXCEPT !.pending_configure = {}]
  BY DEF Submit
<1> HIDE DEF u, r
<1>6. /\ r \in SurfaceState /\ r.prepared = {} /\ r.pending_configure = {}
      /\ r.configured = TRUE /\ r.dirty = FALSE
      /\ r.initial_commit_started = u.initial_commit_started
      /\ r.desired_extent = u.desired_extent /\ r.applied_extent = u.applied_extent
      /\ r.desired_scale = u.desired_scale /\ r.applied_scale = u.applied_scale
      /\ r.fractional_scale_supported = u.fractional_scale_supported
      /\ r.frame_demand = u.frame_demand
      /\ r.frame_callback_generation = u.frame_callback_generation
  BY <1>4, <1>5 DEF SurfaceState
<1>7. EffectiveScale(r) = EffectiveScale(s)
  BY <1>2, <1>4, <1>6 DEF EffectiveScale
<1>8. /\ r.initial_commit_started = s.initial_commit_started
      /\ r.desired_extent = s.desired_extent /\ r.applied_extent = s.desired_extent
      /\ r.applied_scale = EffectiveScale(s)
  BY <1>1, <1>2, <1>4, <1>6
<1>9. /\ r.frame_demand = (s.frame_demand /\ ~CanRequestFrame(s))
      /\ r.frame_callback_generation =
           IF CanRequestFrame(s) THEN s.next_commit_generation ELSE s.frame_callback_generation
  BY <1>1, <1>2, <1>4, <1>6
<1> QED
  BY <1>6, <1>7, <1>8, <1>9 DEF r, p, c

LEMMA DiscardLeaves ==
  ASSUME NEW s \in SurfaceState, ~PrepareOverflows(s)
  PROVE  LET r == Discard(Prepare(s), Plan(s))
         IN  /\ r \in SurfaceState /\ r.prepared = {}
             /\ r.pending_configure = s.pending_configure
             /\ r.initial_commit_started = s.initial_commit_started
<1> DEFINE p == Prepare(s)
<1>1. /\ p \in SurfaceState
      /\ p.pending_configure = s.pending_configure
      /\ p.initial_commit_started = s.initial_commit_started
  BY PrepareLeaves
<1>2. Discard(p, Plan(s)) = [p EXCEPT !.prepared = {}, !.dirty = TRUE]
  BY DEF Discard
<1> HIDE DEF p
<1>3. LET r == [p EXCEPT !.prepared = {}, !.dirty = TRUE]
      IN  /\ r \in SurfaceState /\ r.prepared = {}
          /\ r.pending_configure = p.pending_configure
          /\ r.initial_commit_started = p.initial_commit_started
  BY <1>1 DEF SurfaceState
<1> QED
  BY <1>1, <1>2, <1>3 DEF p
=============================================================================
