------------------------------ MODULE LazyList ------------------------------
(***************************************************************************)
(* A SliverFixedExtentList over lazy_for_each: its element keeps the model *)
(* (keys, keep-alive keys, limit, revision), the children mounted for a    *)
(* range of it and the dormant ones kept alive (include/dui/views.hpp);    *)
(* its RenderSliverFixedExtentList asks for the range it needs             *)
(* (src/src/rendering.cpp); BuildOwner::layer_frame alternates layout and  *)
(* realization until no range is asked for.  A child is its key.  Extents  *)
(* are natural numbers; the binary searches of the layout are the counts   *)
(* they compute.                                                           *)
(***************************************************************************)
EXTENDS Integers, Sequences, FiniteSets, SequencesExt

CONSTANTS
  Models,       \* [keys, keep, limit], limit NoLimit where there is none
  NoLimit,
  ItemExtent, ViewportExtent, CacheExtent,
  MaxScroll, MaxModelRevision, \* bounds
  MaxRounds     \* max_realization_rounds

ASSUME LazyConstants ==
  /\ \A m \in Models : /\ m.keys \in Seq(Range(m.keys)) /\ IsInjective(m.keys)
                       /\ m.keep \subseteq Range(m.keys)
                       /\ m.limit \in Nat \/ m.limit = NoLimit
  /\ NoLimit \in Int /\ NoLimit < 0
  /\ {ViewportExtent, CacheExtent, MaxScroll, MaxRounds} \subseteq Nat
  /\ {ItemExtent, MaxModelRevision} \subseteq Nat \ {0}

VARIABLES
  list,    \* the element: model, revision, active and dormant children
  alive,   \* keys whose elements are mounted
  sliver,  \* the render object
  scroll,  \* scroll_offset
  frame    \* layer_frame: step, round; settled: no change since it last ended

lazyVars == <<list, alive, sliver, scroll, frame>>

AllKeys == UNION {Range(m.keys) : m \in Models}

(* Type invariant. *)
LazyTypeOK ==
  /\ list.model \in Models /\ list.revision \in 1 .. MaxModelRevision
  /\ list.active \in Seq(AllKeys) /\ list.dormant \in Seq(AllKeys)
  /\ alive \subseteq AllKeys
  /\ sliver.model \in 1 .. MaxModelRevision /\ sliver.mounted_revision \in 0 .. MaxModelRevision
  /\ sliver.count \in Nat /\ sliver.first \in Nat /\ sliver.mounted \in Nat
  /\ Cardinality(sliver.request) <= 1 /\ sliver.dirty \in BOOLEAN
  /\ sliver.children \in Seq(AllKeys)
  /\ scroll \in 0 .. MaxScroll
  /\ frame.step \in {"idle", "layout", "realize", "flush"} /\ frame.round \in 0 .. MaxRounds
  /\ frame.settled \in BOOLEAN

(* The first update of the element. *)
LazyInit ==
  \E m \in Models :
    /\ list = [model |-> m, revision |-> 1, active |-> <<>>, dormant |-> <<>>]
    /\ alive = {} /\ scroll = 0
    /\ sliver = [count |-> Len(m.keys), model |-> 1, first |-> 0, mounted |-> 0,
                 mounted_revision |-> 0, request |-> {}, dirty |-> TRUE, children |-> <<>>]
    /\ frame = [step |-> "idle", round |-> 0, settled |-> FALSE]
-----------------------------------------------------------------------------
(* enforce_lazy_keep_alive_limit drops the oldest. *)
Unlimited(dormant, limit) == dormant
Limited(dormant, limit) ==
  IF limit = NoLimit \/ Len(dormant) <= limit THEN dormant
  ELSE SubSeq(dormant, Len(dormant) - limit + 1, Len(dormant))

(* The elements of s that are, or are not, among keys, in order. *)
Only(s, keys) ==
  LET kept[i \in 0 .. Len(s)] ==
        IF i = 0 THEN <<>>
        ELSE IF s[i] \in keys THEN Append(kept[i - 1], s[i]) ELSE kept[i - 1]
  IN  kept[Len(s)]
Except(s, keys) == Only(s, Range(s) \ keys)

(* update_view with a new model, by a rebuild: outside a frame or in one   *)
(* of its flushes.                                                         *)
update_model(m) ==
  LET dormant == Limited(Only(list.dormant, m.keep), m.limit)
  IN  /\ frame.step \in {"idle", "flush"} /\ list.revision < MaxModelRevision
      /\ list' = [model |-> m, revision |-> list.revision + 1, active |-> list.active,
                  dormant |-> dormant]
      /\ alive' = alive \ (Range(list.dormant) \ Range(dormant))
      /\ sliver' = [sliver EXCEPT !.count = Len(m.keys), !.model = list.revision + 1,
                                  !.request = {}, !.dirty = TRUE]
      /\ frame' = [frame EXCEPT !.settled = FALSE]
      /\ UNCHANGED scroll

(* set_scroll_offset of the viewport, by a rebuild too. *)
scroll_to(x) ==
  /\ frame.step \in {"idle", "flush"} /\ x # scroll
  /\ scroll' = x
  /\ sliver' = [sliver EXCEPT !.dirty = TRUE]
  /\ frame' = [frame EXCEPT !.settled = FALSE]
  /\ UNCHANGED <<list, alive>>
-----------------------------------------------------------------------------
(* perform_layout: the items from the one that reaches into the leading    *)
(* cache to the last that starts before the end of the trailing one.       *)
StartingBefore(n, end) == Cardinality({i \in 0 .. n - 1 : i * ItemExtent < end})
FirstCached(n, x) ==
  IF n = 0 \/ x - n * ItemExtent >= CacheExtent THEN n
  ELSE IF x <= CacheExtent THEN 0
  ELSE StartingBefore(n, x - CacheExtent + 1) - 1
CachedEnd(n, x) == StartingBefore(n, x + ViewportExtent + CacheExtent)

Laid(s) ==
  LET first == FirstCached(s.count, scroll)
      end == CachedEnd(s.count, scroll)
      fits == /\ s.mounted_revision = s.model /\ s.first = first
              /\ s.mounted = end - first /\ s.mounted = Len(s.children)
  IN  [s EXCEPT !.dirty = FALSE,
                !.request = IF fits THEN {}
                            ELSE {[first |-> first, end |-> end, revision |-> s.model]}]

begin_frame ==
  /\ frame.step = "idle"
  /\ frame' = [frame EXCEPT !.step = "flush", !.round = 0, !.settled = FALSE]
  /\ UNCHANGED <<list, alive, sliver, scroll>>

(* synchronize_render_tree and the layout, after a flush. *)
layout ==
  LET synced == [sliver EXCEPT !.children = list.active,
                               !.dirty = @ \/ sliver.children # list.active]
      laid == IF synced.dirty THEN Laid(synced) ELSE synced
      pending == \E r \in laid.request : r.revision = list.revision
  IN  /\ frame.step = "flush"
      /\ sliver' = laid
      /\ frame' = IF ~pending THEN [frame EXCEPT !.step = "idle", !.settled = TRUE]
                  ELSE IF frame.round = MaxRounds THEN [frame EXCEPT !.step = "idle"]
                  ELSE [frame EXCEPT !.step = "realize"]
      /\ UNCHANGED <<list, alive, scroll>>

(* realize_lazy_fixed_extent_range: children of the range are taken from   *)
(* the active, then the dormant ones, or made; the others become dormant,  *)
(* if their keys are kept alive, or are unmounted.                         *)
Asked == CHOOSE r \in sliver.request : TRUE
Wanted == SubSeq(list.model.keys, Asked.first + 1, Asked.end)

realize ==
  LET wanted == Range(Wanted)
      rest == Except(list.dormant, wanted) \o Except(list.active, wanted)
      dormant == Limited(Only(rest, list.model.keep), list.model.limit)
  IN  /\ frame.step = "realize"
      /\ list' = [list EXCEPT !.active = Wanted, !.dormant = dormant]
      /\ alive' = (alive \cup wanted) \ (Range(rest) \ Range(dormant))
      /\ sliver' = [sliver EXCEPT !.first = Asked.first, !.mounted = Asked.end - Asked.first,
                                  !.mounted_revision = Asked.revision, !.request = {},
                                  !.dirty = TRUE]
      /\ frame' = [frame EXCEPT !.step = "flush", !.round = @ + 1]
      /\ UNCHANGED scroll

(* A builder throws before anything is moved, or a child's update throws,  *)
(* which unmounts everything; either ends the frame.                       *)
realize_throws(inChild) ==
  /\ frame.step = "realize"
  /\ IF inChild /\ Wanted # <<>>
       THEN list' = [list EXCEPT !.active = <<>>, !.dormant = <<>>] /\ alive' = {}
       ELSE UNCHANGED <<list, alive>>
  /\ frame' = [frame EXCEPT !.step = "idle"]
  /\ UNCHANGED <<sliver, scroll>>

LazyNext ==
  \/ begin_frame \/ layout \/ realize
  \/ \E m \in Models : update_model(m)
  \/ \E x \in 0 .. MaxScroll : scroll_to(x)
  \/ \E b \in BOOLEAN : realize_throws(b)
LazySpec == LazyInit /\ [][LazyNext]_lazyVars
-----------------------------------------------------------------------------
(* The items that reach into the viewport or its caches. *)
Needed(n, x) == {i \in 0 .. n - 1 : /\ (i + 1) * ItemExtent > x - CacheExtent
                                    /\ i * ItemExtent < x + ViewportExtent + CacheExtent}

(* After a frame exactly the items that reach into the cached viewport are *)
(* mounted, in order, whatever models, scrolls and failed realizations     *)
(* came before; at every step dormant children are the ones the model      *)
(* keeps alive, within its limit, and every mounted element is active or   *)
(* dormant, not both.                                                      *)
LazyFits ==
  /\ IsInjective(list.active) /\ IsInjective(list.dormant)
  /\ Range(list.active) \cap Range(list.dormant) = {}
  /\ alive = Range(list.active) \cup Range(list.dormant)
  /\ Range(list.dormant) \subseteq list.model.keep
  /\ list.model.limit # NoLimit => Len(list.dormant) <= list.model.limit
  /\ frame.settled =>
       LET n == Len(list.model.keys)
           needed == Needed(n, scroll)
       IN  /\ sliver.children = list.active
           /\ list.active = SubSeq(list.model.keys, sliver.first + 1, sliver.first + sliver.mounted)
           /\ {i \in 0 .. n - 1 : sliver.first <= i /\ i < sliver.first + sliver.mounted} = needed
=============================================================================
