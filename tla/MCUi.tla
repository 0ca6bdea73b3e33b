-------------------------------- MODULE MCUi --------------------------------
(* The parts of the UI runtime that do not share state, side by side: in   *)
(* each behaviour one of them moves.  Positions of the timeline end at 7,  *)
(* which stands for 2^64-1: the ring of 3 wraps twice before.  The second  *)
(* arena, the third focus node of a chain, the two trees of components (a  *)
(* list of two, and a list item with an optional child and two props), the *)
(* dormant child over the limit, and a repaint boundary two boxes inside   *)
(* another, with one id left for the boundary that replaces it, are each   *)
(* the smallest instances that show what is asked of them.                 *)
EXTENDS Timeline, GestureArena, FocusManager, UiBuild, LazyList, Restoration, RenderLayers

ChainOfViews == [v \in {"v1", "v2", "v3"} |->
                   IF v = "v1" THEN "none" ELSE IF v = "v2" THEN "v1" ELSE "v2"]
ListOfTwo == [kids |-> [c \in {"root", "a", "b"} |-> IF c = "root" THEN {"a", "b"} ELSE {}],
              lists |-> {"root"}, props |-> {1}]
NestedOptional == [kids |-> [c \in {"root", "a", "b"} |->
                               IF c = "root" THEN {"a"} ELSE IF c = "a" THEN {"b"} ELSE {}],
                   lists |-> {"root"}, props |-> {1, 2}]
TreesOfComponents == {ListOfTwo, NestedOptional}

Unbounded == -1
ListModels == {
  [keys |-> <<"a", "b", "c", "d">>, keep |-> {"a", "b", "c"}, limit |-> 1],
  [keys |-> <<"d", "b", "a">>, keep |-> {"a", "b", "d"}, limit |-> Unbounded],
  [keys |-> <<"b">>, keep |-> {}, limit |-> 0]}

BoxesInOrder == <<"root", "outer", "plain", "inner">>
BoxParents == [o \in {"outer", "plain", "inner"} |->
                 IF o = "outer" THEN "root" ELSE IF o = "plain" THEN "outer" ELSE "plain"]

VARIABLE explored

others(part) ==
  /\ part # "timeline" => UNCHANGED timelineVars
  /\ part # "arena" => UNCHANGED arenaVars
  /\ part # "focus" => UNCHANGED focusVars
  /\ part # "build" => UNCHANGED buildVars
  /\ part # "lazy" => UNCHANGED lazyVars
  /\ part # "restoration" => UNCHANGED restorationVars
  /\ part # "layers" => UNCHANGED layerVars

(* Type invariant: each part's, where it is the one that moves. *)
UiTypeOK ==
  /\ explored = "timeline" => TimelineTypeOK
  /\ explored = "arena" => ArenaTypeOK
  /\ explored = "focus" => FocusTypeOK
  /\ explored = "build" => BuildTypeOK
  /\ explored = "lazy" => LazyTypeOK
  /\ explored = "restoration" => RestorationTypeOK
  /\ explored = "layers" => LayersTypeOK

UiInit ==
  /\ explored \in {"timeline", "arena", "focus", "build", "lazy", "restoration", "layers"}
  /\ TimelineInit /\ ArenaInit /\ FocusInit /\ BuildInit /\ LazyInit /\ RestorationInit
  /\ LayersInit
  /\ explored # "lazy" => list.model.keep = {}
  /\ explored # "build" => shape = ListOfTwo

UiNext ==
  /\ UNCHANGED explored
  /\ \/ explored = "timeline" /\ TimelineNext
     \/ explored = "arena" /\ ArenaNext
     \/ explored = "focus" /\ FocusNext
     \/ explored = "build" /\ BuildNext
     \/ explored = "lazy" /\ LazyNext
     \/ explored = "restoration" /\ RestorationNext
     \/ explored = "layers" /\ LayersNext
  /\ others(explored)

UiSpec == UiInit /\ [][UiNext]_<<explored, timelineVars, arenaVars, focusVars, buildVars,
                                lazyVars, restorationVars, layerVars>>
=============================================================================
