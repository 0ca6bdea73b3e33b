---------------------------- MODULE RenderLayers ----------------------------
(***************************************************************************)
(* Retained layers of src/src/rendering.cpp: RenderObject's layout and     *)
(* paint marks, RenderBox::layout, and RenderOwner's recording and         *)
(* composing of repaint boundaries, over boxes that the element tree       *)
(* mounts, unmounts, keeps alive detached and changes (src/src/ui.cpp).    *)
(* The code is sequential; layout or paint of any box may throw.  A box    *)
(* paints its color over the constraints it was laid out in, which stand   *)
(* for its size, and places its children by its inset, like RenderPadding  *)
(* with a background.  Clips, paint ranges, slivers and dirty_layout_,     *)
(* which is only counted, are left out.  Layers are immutable, so shared   *)
(* pointers to them are their values.                                      *)
(***************************************************************************)
EXTENDS Integers, Sequences, FiniteSets, SequencesExt

CONSTANTS
  Preorder,    \* the boxes that may exist, parents first
  RootBox,     \* root_, the RenderView
  NoBox,
  Home,        \* the box a box is a child of, when attached
  Boundaries,  \* is_repaint_boundary()
  Painted, Inset, Replaceable, KeptAlive, \* boxes whose color or inset is set, whose
                                          \* element is unmounted, or becomes dormant
  Viewports,
  MaxBoxId     \* bound on next_id_

Boxes == Range(Preorder)
Postorder == Reverse(Preorder)

ASSUME LayerConstants ==
  /\ RootBox \in Boundaries /\ Boundaries \subseteq Boxes /\ NoBox \notin Boxes
  /\ Home \in [Boxes \ {RootBox} -> Boxes]
  /\ (Inset \cup Replaceable \cup KeptAlive) \subseteq Boxes \ {RootBox}
  /\ Painted \subseteq Boxes
  /\ Viewports \subseteq Nat \ {0} /\ MaxBoxId \in Nat

VARIABLES
  tree,    \* RenderOwner with its boxes; threw: an exception is passing
  dormant, \* boxes of dormant elements
  shown    \* step: edited, laid out or shown; the viewport of the layout

layerVars == <<tree, dormant, shown>>

NoRenderBox == [id |-> 0, parent |-> NoBox, needs_layout |-> FALSE, needs_paint |-> FALSE,
                needs_compositing |-> FALSE, constraints |-> 0, offset |-> 0, color |-> 0,
                inset |-> 0, chunks |-> <<>>, layer |-> <<>>]
LiveBox(s, o) == s.box[o].id # 0

(* Type invariant. *)
LayersTypeOK ==
  /\ \A o \in Boxes :
       LET b == tree.box[o]
       IN  /\ b.id \in 0 .. MaxBoxId
           /\ b.parent # NoBox => b.parent = Home[o]
           /\ {b.needs_layout, b.needs_paint, b.needs_compositing} \subseteq BOOLEAN
           /\ b.constraints \in Viewports \cup {0} /\ b.color \in 0 .. 1 /\ b.inset \in 0 .. 1
           /\ b.id = 0 => b = NoRenderBox
  /\ tree.dirty_paint \cup tree.dirty_compositing \subseteq {o \in Boxes : LiveBox(tree, o)}
  /\ tree.next_id \in 1 .. MaxBoxId + 1
  /\ ~tree.threw /\ dormant \subseteq KeptAlive
  /\ shown.step \in {"edited", "laid", "shown"} /\ shown.viewport \in Viewports \cup {0}
-----------------------------------------------------------------------------
(* The constructor of a render object. *)
Constructed(s, o) ==
  [s EXCEPT !.box[o] = [NoRenderBox EXCEPT !.id = s.next_id, !.needs_layout = TRUE,
                                           !.needs_paint = TRUE, !.needs_compositing = TRUE],
            !.next_id = @ + 1, !.dirty_paint = @ \cup {o}]

LayersInit ==
  /\ tree = Constructed([box |-> [o \in Boxes |-> NoRenderBox], dirty_paint |-> {},
                         dirty_compositing |-> {}, next_id |-> 1, threw |-> FALSE,
                         broken |-> FALSE, last_layer_tree |-> <<>>], RootBox)
  /\ dormant = {}
  /\ shown = [step |-> "edited", viewport |-> 0]

Children(s, o) == SelectSeq(Preorder, LAMBDA c : s.box[c].parent = o)

RECURSIVE Above(_, _)
Above(s, o) ==
  LET p == s.box[o].parent IN IF p = NoBox THEN {} ELSE {p} \cup Above(s, p)

(* A boundary that needs paint makes every boundary above compose again. *)
ComposingNearest(s, o) ==
  {x \in Above(s, o) \cap Boundaries : Above(s, o) \cap Boundaries \subseteq Above(s, x) \cup {x}}
Composing(s, o) == Above(s, o) \cap Boundaries

(* The mark goes up to the nearest boundary. *)
RECURSIVE mark_needs_paint(_, _)
mark_needs_paint(s, o) ==
  LET flagged == IF s.box[o].needs_paint THEN s
                 ELSE [s EXCEPT !.box[o].needs_paint = TRUE, !.dirty_paint = @ \cup {o}]
      above == {x \in Composing(s, o) : ~s.box[x].needs_compositing}
  IN  IF o \notin Boundaries
        THEN IF s.box[o].parent = NoBox THEN flagged
             ELSE mark_needs_paint(flagged, s.box[o].parent)
        ELSE [flagged EXCEPT
                !.box = [x \in Boxes |->
                           IF x = o THEN [flagged.box[x] EXCEPT !.needs_compositing = FALSE]
                           ELSE IF x \in above
                           THEN [flagged.box[x] EXCEPT !.needs_compositing = TRUE]
                           ELSE flagged.box[x]],
                !.dirty_compositing = @ \cup above]

RECURSIVE mark_needs_layout(_, _)
mark_needs_layout(s, o) ==
  LET marked == mark_needs_paint([s EXCEPT !.box[o].needs_layout = TRUE], o)
      p == s.box[o].parent
  IN  IF p = NoBox THEN marked ELSE mark_needs_layout(marked, p)

Adopted(s, o, kids) ==
  [s EXCEPT !.box = [x \in Boxes |->
     IF x \in kids THEN [s.box[x] EXCEPT !.parent = o]
     ELSE IF s.box[x].parent = o THEN [s.box[x] EXCEPT !.parent = NoBox] ELSE s.box[x]]]

set_children(s, o, kids) ==
  IF Range(Children(s, o)) = kids THEN s ELSE mark_needs_layout(Adopted(s, o, kids), o)

(* The destructor. *)
Destroyed(s, o) ==
  LET p == s.box[o].parent
      left == IF p = NoBox THEN s
              ELSE mark_needs_layout([s EXCEPT !.box[o].parent = NoBox], p)
      alone == Adopted(left, o, {})
  IN  [alone EXCEPT !.box[o] = NoRenderBox, !.dirty_paint = @ \ {o}, !.dirty_compositing = @ \ {o}]
-----------------------------------------------------------------------------
(* The element tree: elements of attached and of dormant boxes are built   *)
(* alike; a box is unmounted after the boxes in it.                        *)
HomePath[o \in Boxes] == IF o = RootBox THEN {o} ELSE {o} \cup HomePath[Home[o]]

Edits(s) == tree' = s /\ shown' = [shown EXCEPT !.step = "edited"]

mount_box(o) ==
  /\ ~LiveBox(tree, o) /\ LiveBox(tree, Home[o]) /\ tree.next_id <= MaxBoxId
  /\ Edits(Constructed(tree, o))
  /\ UNCHANGED dormant

unmount_box(o) ==
  LET inside == SelectSeq(Postorder, LAMBDA x : o \in HomePath[x] /\ LiveBox(tree, x))
  IN  /\ LiveBox(tree, o)
      /\ Edits(FoldLeft(Destroyed, tree, inside))
      /\ dormant' = dormant \ Range(inside)

(* A lazy list keeps the element or takes it back, and marks itself        *)
(* (set_mounted_range); the box is detached or attached by the next        *)
(* synchronization.                                                        *)
keep_alive(o) ==
  /\ LiveBox(tree, o)
  /\ dormant' = IF o \in dormant THEN dormant \ {o} ELSE dormant \cup {o}
  /\ Edits(mark_needs_layout(tree, Home[o]))

(* Bound: each is set once in the life of a box. *)
set_color(o) ==
  /\ LiveBox(tree, o) /\ tree.box[o].color = 0
  /\ Edits(mark_needs_paint([tree EXCEPT !.box[o].color = 1], o))
  /\ UNCHANGED dormant

set_insets(o) ==
  /\ LiveBox(tree, o) /\ tree.box[o].inset = 0
  /\ Edits(mark_needs_layout([tree EXCEPT !.box[o].inset = 1], o))
  /\ UNCHANGED dormant

(* synchronize_render_tree, children first. *)
Active(o) == \A x \in HomePath[o] : LiveBox(tree, x) /\ x \notin dormant
ActiveBoxes == {o \in Boxes : Active(o)}
ActiveKids(o) == {c \in Boxes \ {RootBox} : Home[c] = o /\ Active(c)}
Synchronized ==
  FoldLeft(LAMBDA s, o : set_children(s, o, ActiveKids(o)), tree,
           SelectSeq(Postorder, Active))
-----------------------------------------------------------------------------
(* RenderBox::layout; `failing' is the box whose perform_layout throws,    *)
(* before it has laid out its children or after.  A failed layout gives    *)
(* the constraints back and stays marked; a child keeps its offset.        *)
Nowhere == [box |-> NoBox, early |-> FALSE]
OffsetMark(o, c) == IF c \in Boundaries THEN o ELSE c

RECURSIVE box_layout(_, _, _, _)
layout_child(s, o, c, v, failing) ==
  LET offset == s.box[o].inset
      moved == IF s.box[c].offset = offset THEN s
               ELSE mark_needs_paint([s EXCEPT !.box[c].offset = offset], OffsetMark(o, c))
  IN  IF s.threw THEN s ELSE box_layout(moved, c, v, failing)

box_layout(s, o, v, failing) ==
  LET before == s.box[o]
      entered == [s EXCEPT !.box[o].constraints = v, !.box[o].needs_layout = TRUE,
                           !.threw = failing.box = o /\ failing.early]
      inner == FoldLeft(LAMBDA t, c : layout_child(t, o, c, v, failing), entered, Children(s, o))
      laid == [inner EXCEPT !.threw = @ \/ failing.box = o]
      marked == IF before.constraints = v THEN laid ELSE mark_needs_paint(laid, o)
  IN  IF ~before.needs_layout /\ before.constraints = v THEN s
      ELSE IF laid.threw THEN [laid EXCEPT !.box[o].constraints = before.constraints]
      ELSE [marked EXCEPT !.box[o].needs_layout = FALSE]

render_layout(v, failing) ==
  LET laid == box_layout(Synchronized, RootBox, v, failing)
  IN  /\ shown.step # "laid" /\ v >= shown.viewport \* bound: the viewport never shrinks
      /\ tree' = [laid EXCEPT !.threw = FALSE]
      /\ shown' = [step |-> IF laid.threw THEN "edited" ELSE "laid", viewport |-> v]
      /\ UNCHANGED dormant
-----------------------------------------------------------------------------
(* Recording a boundary collects chunks, its own drawing or the slot of a  *)
(* boundary below, and composing makes them into its layer; `failing' is   *)
(* the box whose paint throws.                                             *)
Drawing(s, o, offset) ==
  [slot |-> 0, offset |-> offset, draws |-> <<s.box[o].color, s.box[o].constraints>>]
Slot(s, o, offset) == [slot |-> s.box[o].id, offset |-> offset, draws |-> <<>>]

RECURSIVE ensure_boundary(_, _, _)

(* compose_boundary: marks are cleared only when every slot is ensured. *)
Resolved(s, id) == {o \in Boundaries : s.box[o].id = id}
Composed(acc, chunk, failing) ==
  LET c == CHOOSE o \in Resolved(acc.s, chunk.slot) : TRUE
      ensured == ensure_boundary(acc.s, c, failing)
      part == [offset |-> chunk.offset, draws |-> chunk.draws]
  IN  IF acc.s.threw THEN acc
      ELSE IF chunk.slot = 0 THEN [acc EXCEPT !.layers = Append(@, part @@ [layer |-> <<>>])]
      ELSE IF Resolved(acc.s, chunk.slot) = {}
        THEN [acc EXCEPT !.s.threw = TRUE, !.s.broken = TRUE]
      ELSE [s |-> ensured,
            layers |-> Append(acc.layers, part @@ [layer |-> ensured.box[c].layer])]

compose_boundary(s, b, failing) ==
  LET acc == FoldLeft(LAMBDA a, chunk : Composed(a, chunk, failing),
                      [s |-> s, layers |-> <<>>], s.box[b].chunks)
  IN  IF acc.s.threw THEN acc.s
      ELSE [acc.s EXCEPT !.box[b].layer = <<acc.layers>>, !.box[b].needs_compositing = FALSE,
                         !.dirty_compositing = @ \ {b}]

RECURSIVE RecordBox(_, _, _, _)
RecordChild(acc, c, offset, failing) ==
  LET ensured == ensure_boundary(acc.s, c, failing)
  IN  IF acc.s.threw THEN acc
      ELSE IF c \in Boundaries
        THEN [acc EXCEPT !.s = ensured, !.chunks = Append(@, Slot(acc.s, c, offset))]
      ELSE RecordBox(acc, c, offset, failing)

RecordBox(acc, o, offset, failing) ==
  IF failing = o THEN [acc EXCEPT !.s.threw = TRUE]
  ELSE FoldLeft(LAMBDA a, c : RecordChild(a, c, offset + a.s.box[c].offset, failing),
                [acc EXCEPT !.chunks = Append(@, Drawing(acc.s, o, offset)),
                            !.painted = @ \cup {o}],
                Children(acc.s, o))

record_boundary(s, b, failing) ==
  LET acc == RecordBox([s |-> s, chunks |-> <<>>, painted |-> {}], b, 0, failing)
      done == compose_boundary([acc.s EXCEPT !.box[b].chunks = acc.chunks], b, failing)
  IN  IF acc.s.threw THEN acc.s
      ELSE IF done.threw THEN [done EXCEPT !.box[b].chunks = s.box[b].chunks]
      ELSE [done EXCEPT !.box = [x \in Boxes |-> IF x \in acc.painted
                                   THEN [done.box[x] EXCEPT !.needs_paint = FALSE]
                                   ELSE done.box[x]],
                        !.dirty_paint = @ \ acc.painted]

ensure_boundary(s, b, failing) ==
  IF s.threw THEN s
  ELSE IF s.box[b].needs_paint \/ s.box[b].layer = <<>> THEN record_boundary(s, b, failing)
  ELSE IF s.box[b].needs_compositing THEN compose_boundary(s, b, failing)
  ELSE s

composite_frame(failing) ==
  LET clean == /\ tree.dirty_paint = {} /\ tree.dirty_compositing = {}
               /\ tree.last_layer_tree # <<>>
      done == ensure_boundary(tree, RootBox, failing)
  IN  /\ shown.step = "laid"
      /\ tree' = IF clean THEN tree
                 ELSE IF done.threw THEN [done EXCEPT !.threw = FALSE]
                 ELSE [done EXCEPT !.dirty_paint = {}, !.dirty_compositing = {},
                                   !.last_layer_tree = done.box[RootBox].layer]
      /\ shown' = [shown EXCEPT !.step = IF ~clean /\ done.threw THEN "edited" ELSE "shown"]
      /\ UNCHANGED dormant

LayersNext ==
  \/ \E o \in Boxes \ {RootBox} : mount_box(o)
  \/ \E o \in Replaceable : unmount_box(o)
  \/ \E o \in KeptAlive : keep_alive(o)
  \/ \E o \in Painted : set_color(o)
  \/ \E o \in Inset : set_insets(o)
  \/ \E v \in Viewports, f \in {Nowhere} \cup [box : ActiveBoxes, early : BOOLEAN] :
       render_layout(v, f)
  \/ \E o \in {NoBox} \cup ActiveBoxes : composite_frame(o)
-----------------------------------------------------------------------------
(* What the layers of a layer tree draw, and what painting every active    *)
(* box afresh would draw.                                                  *)
RECURSIVE Drawn(_, _)
Drawn(layer, at) ==
  FoldLeft(LAMBDA acc, part :
             acc \o IF part.layer = <<>> THEN <<[at |-> at + part.offset, draws |-> part.draws]>>
                    ELSE Drawn(part.layer[1], at + part.offset),
           <<>>, layer)

RECURSIVE Afresh(_, _)
Afresh(o, at) ==
  FoldLeft(LAMBDA acc, c : acc \o Afresh(c, at + tree.box[o].inset),
           <<[at |-> at, draws |-> <<tree.box[o].color, shown.viewport>>]>>,
           SelectSeq(Preorder, LAMBDA c : c # RootBox /\ c \in ActiveKids(o)))

(* A frame that completes shows every active box as it is now, where it is *)
(* now, and nothing else, although it draws again only what was marked:    *)
(* over boxes changed while detached, boundaries unmounted, and frames     *)
(* whose layout or paint threw half way, no retained layer is stale; and   *)
(* no slot of a retained boundary is left that does not resolve.           *)
LayersFresh ==
  /\ ~tree.broken
  /\ shown.step = "shown" => Drawn(tree.last_layer_tree[1], 0) = Afresh(RootBox, 0)
=============================================================================
