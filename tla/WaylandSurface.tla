--------------------------- MODULE WaylandSurface ---------------------------
(***************************************************************************)
(* WaylandSurfaceState driven by a serial caller that may call any method  *)
(* at any time and keeps every plan prepare_commit ever gave it, so that   *)
(* submit_commit and discard_commit also meet stale ones.  The compositor's *)
(* configure serials grow; the caller acknowledges the serial of each plan *)
(* whose submission is accepted.                                           *)
(***************************************************************************)
EXTENDS WaylandState

CONSTANTS InitialExtent,
          Staged,   \* sizes a toplevel configure may carry (0: client's choice)
          Scales,   \* preferred scales, over ScaleDenominator
          MaxSerial \* bound on the configures received

ASSUME SurfaceConstants ==
  /\ InitialExtent \in Extent
  /\ Staged \subseteq 0 .. MaxInt32
  /\ Scales \subseteq Scale
  /\ MaxSerial \in Serial

VARIABLES
  surface,  \* the WaylandSurfaceState
  plans,    \* commits handed out by prepare_commit
  shown,    \* last commit whose submission was accepted
  serial,   \* last configure serial received, 0 before the first
  acked     \* last configure serial acknowledged

vars == <<surface, plans, shown, serial, acked>>

(* Type invariant. *)
TypeOK ==
  /\ surface \in SurfaceState
  /\ AtMostOne(surface.prepared) /\ AtMostOne(surface.pending_configure)
  /\ plans \subseteq WaylandCommit
  /\ shown \subseteq WaylandCommit /\ AtMostOne(shown)
  /\ serial \in 0 .. MaxSerial /\ acked \in 0 .. MaxSerial

Init ==
  /\ \E fractional \in BOOLEAN : surface = NewSurface(InitialExtent, fractional)
  /\ plans = {} /\ shown = {}
  /\ serial = 0 /\ acked = 0
-----------------------------------------------------------------------------
begin_initial_commit ==
  /\ ~surface.initial_commit_started
  /\ surface' = BeginInitialCommit(surface)
  /\ UNCHANGED <<plans, shown, serial, acked>>

receive_toplevel_configure(w, h) ==
  /\ surface' = StageExtent(surface, w, h)
  /\ UNCHANGED <<plans, shown, serial, acked>>

receive_surface_configure ==
  /\ surface.initial_commit_started /\ CanAdvance(surface)
  /\ serial < MaxSerial
  /\ serial' = serial + 1
  /\ surface' = Configure(surface, serial + 1)
  /\ UNCHANGED <<plans, shown, acked>>

set_preferred_scale(n) ==
  /\ surface.desired_scale # n /\ CanAdvance(surface)
  /\ surface' = Rescale(surface, n)
  /\ UNCHANGED <<plans, shown, serial, acked>>

request_frame ==
  /\ surface' = DemandFrame(surface)
  /\ UNCHANGED <<plans, shown, serial, acked>>

buffer_lost ==
  /\ HasConfigure(surface) /\ CanAdvance(surface)
  /\ surface' = LoseBuffer(surface)
  /\ UNCHANGED <<plans, shown, serial, acked>>

prepare_commit ==
  /\ ToPrepare(surface) /\ ~PrepareOverflows(surface)
  /\ surface' = Prepare(surface)
  /\ plans' = plans \cup {Plan(surface)}
  /\ UNCHANGED <<shown, serial, acked>>

(* An accepted submission; the caller then acknowledges and commits. *)
submit_commit(c) ==
  /\ Submits(surface, c)
  /\ surface' = Submit(surface, c)
  /\ shown' = {c}
  /\ acked' = (IF c.configure_serial = {} THEN acked ELSE CHOOSE n \in c.configure_serial : TRUE)
  /\ UNCHANGED <<plans, serial>>

discard_commit(c) ==
  /\ Discards(surface, c)
  /\ surface' = Discard(surface, c)
  /\ UNCHANGED <<plans, shown, serial, acked>>

frame_done(g) ==
  /\ surface' = FrameDone(surface, g)
  /\ UNCHANGED <<plans, shown, serial, acked>>

Next ==
  \/ begin_initial_commit \/ receive_surface_configure \/ request_frame \/ buffer_lost
  \/ prepare_commit
  \/ \E w, h \in Staged : receive_toplevel_configure(w, h)
  \/ \E n \in Scales : set_preferred_scale(n)
  \/ \E c \in plans : submit_commit(c) \/ discard_commit(c) \/ frame_done(c.generation)

Spec == Init /\ [][Next]_vars
-----------------------------------------------------------------------------
(* A prepared plan reflects everything received so far: configure, scale   *)
(* and buffer loss each drop it, so what submit_commit applies is what the *)
(* plan says and submit's revision test never refuses the prepared plan.   *)
(* It satisfies WaylandCommit::valid up to the protocol's limits.          *)
PreparedCurrent ==
  \A c \in surface.prepared :
    /\ ValidCommit(c)
    /\ c.state_revision = surface.state_revision
    /\ c.configure_serial = surface.pending_configure
    /\ c.logical_extent = surface.desired_extent
    /\ c.scale_numerator = EffectiveScale(surface)
    /\ c.request_frame_callback => CanRequestFrame(surface)
    /\ c.generation < surface.next_commit_generation

(* A configured surface that is not dirty shows what was last asked for:   *)
(* no configure, scale change or discarded plan is forgotten.              *)
CleanMeansShown ==
  surface.configured /\ ~surface.dirty /\ surface.pending_configure = {} =>
    /\ surface.applied_extent = surface.desired_extent
    /\ surface.applied_scale = EffectiveScale(surface)
    /\ \A c \in shown : /\ c.logical_extent = surface.applied_extent
                        /\ c.scale_numerator = surface.applied_scale

(* No content before the first configure was acknowledged, and nothing     *)
(* left to acknowledge but the newest configure: the pending serial is the *)
(* newest, and without one the newest has been acknowledged.               *)
NewestConfigure ==
  /\ surface.configured => acked # 0
  /\ surface.pending_configure = IF acked = serial THEN {} ELSE {serial}

(* A surface never commits a stale plan, never forgets a change it has not *)
(* shown, and acknowledges the newest configure.                           *)
SurfaceConsistent == PreparedCurrent /\ CleanMeansShown /\ NewestConfigure
=============================================================================
