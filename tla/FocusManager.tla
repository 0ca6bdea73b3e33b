---------------------------- MODULE FocusManager ----------------------------
(***************************************************************************)
(* FocusManager and FocusNode of src/src/input.cpp, and the FocusViews of  *)
(* include/dui/views.hpp whose elements own the nodes.  A key is offered   *)
(* to the focused node and then to its ancestors; the handlers are user    *)
(* code that may change the focus and the tree, and dispatch_key keeps the *)
(* nodes of its route alive until it returns.  A node is destroyed, and    *)
(* detached, with its last reference.                                      *)
(***************************************************************************)
EXTENDS Integers, Sequences, FiniteSets, SequencesExt

CONSTANTS
  FocusViews, NoView,
  Enclosing,   \* nearest enclosing FocusView of each, or NoView
  MaxNodes,    \* bound on the nodes created
  MaxRoutes    \* bound on nested dispatches

ASSUME FocusConstants ==
  /\ NoView \notin FocusViews /\ Enclosing \in [FocusViews -> FocusViews \cup {NoView}]
  /\ MaxNodes \in Nat /\ MaxRoutes \in Nat

VARIABLES
  focus,   \* the manager: nodes by id, focused_ (0: none), next_id_
  mounted, \* focus_node_ of each FocusView's element, 0 when unmounted
  route    \* dispatches under way: the nodes and how many were asked

focusVars == <<focus, mounted, route>>

Ids == 1 .. MaxNodes
Absent == [alive |-> FALSE, view |-> NoView, parent |-> 0, can_focus |-> FALSE]

(* Type invariant. *)
FocusTypeOK ==
  /\ focus.node \in [Ids -> [alive : BOOLEAN, view : FocusViews \cup {NoView},
                             parent : 0 .. MaxNodes, can_focus : BOOLEAN]]
  /\ focus.focused \in 0 .. MaxNodes /\ focus.next \in 1 .. MaxNodes + 1
  /\ mounted \in [FocusViews -> 0 .. MaxNodes]
  /\ \A i \in DOMAIN route : route[i].nodes \in Seq(Ids) /\ route[i].asked \in Nat

FocusInit ==
  /\ focus = [node |-> [i \in Ids |-> Absent], focused |-> 0, next |-> 1]
  /\ mounted = [v \in FocusViews |-> 0]
  /\ route = <<>>
-----------------------------------------------------------------------------
(* detach: the node's children go to its parent, and a focus it had to the *)
(* nearest ancestor that can have it.                                      *)
FallbackToParent(node, i) == IF i # 0 /\ node[i].alive THEN i ELSE 0
Fallback(node, i) ==
  LET up[j \in 0 .. MaxNodes] ==
        IF j = 0 \/ (j # 0 /\ ~node[j].alive) THEN 0
        ELSE IF node[j].can_focus THEN j ELSE up[node[j].parent]
  IN  up[i]

Detach(f, i) ==
  LET parent == f.node[i].parent
      rest == [j \in Ids |-> IF j = i THEN Absent
                             ELSE IF f.node[j].alive /\ f.node[j].parent = i
                                    THEN [f.node[j] EXCEPT !.parent = parent] ELSE f.node[j]]
  IN  [f EXCEPT !.node = rest, !.focused = IF @ = i THEN Fallback(rest, parent) ELSE @]

(* Drops references to the nodes ids in turn; `kept' are still referenced. *)
LetGo(f, i, kept) == IF i \in kept \/ ~f.node[i].alive THEN f ELSE Detach(f, i)
Release(f, ids, kept) ==
  LET left[n \in 0 .. Len(ids)] == IF n = 0 THEN f ELSE LetGo(left[n - 1], ids[n], kept)
  IN  left[Len(ids)]

InRoutes(rs) == UNION {Range(rs[i].nodes) : i \in DOMAIN rs}
InTree(m) == {m[v] : v \in FocusViews} \ {0}
-----------------------------------------------------------------------------
(* Elements.  ensure_focus_node creates the node under the nearest         *)
(* enclosing one; later updates set whether it can be focused.             *)
mount(v, can, autofocus) ==
  /\ mounted[v] = 0 /\ focus.next <= MaxNodes
  /\ Enclosing[v] = NoView \/ (Enclosing[v] # NoView /\ mounted[Enclosing[v]] # 0)
  /\ LET parent == IF Enclosing[v] = NoView THEN 0 ELSE mounted[Enclosing[v]]
         i == focus.next
     IN  /\ focus' = [node |-> [focus.node EXCEPT ![i] = [alive |-> TRUE, view |-> v,
                                                          parent |-> parent, can_focus |-> can]],
                      focused |-> IF autofocus /\ can THEN i ELSE focus.focused,
                      next |-> i + 1]
         /\ mounted' = [mounted EXCEPT ![v] = i]
  /\ UNCHANGED route

(* set_can_focus: a node that cannot have the focus gives it up. *)
set_can_focus(v, can) ==
  /\ mounted[v] # 0
  /\ focus' = [focus EXCEPT !.node[mounted[v]].can_focus = can,
                            !.focused = IF ~can /\ @ = mounted[v] THEN 0 ELSE @]
  /\ UNCHANGED <<mounted, route>>

(* The elements inside v's are unmounted with it, the inner ones first:    *)
(* a node is younger than those around it.                                 *)
Inside(v) == {u \in FocusViews : \A S \in SUBSET FocusViews :
                v \in S /\ (\A w \in FocusViews : Enclosing[w] \in S => w \in S) => u \in S}
YoungestFirst == [n \in Ids |-> MaxNodes + 1 - n]
unmount_view(v) ==
  LET left == [u \in FocusViews |-> IF u \in Inside(v) THEN 0 ELSE mounted[u]]
  IN  /\ mounted[v] # 0
      /\ focus' = Release(focus, YoungestFirst, InTree(left) \cup InRoutes(route))
      /\ mounted' = left
      /\ UNCHANGED route

request_focus(i) ==
  /\ focus.node[i].alive /\ focus.node[i].can_focus
  /\ focus' = [focus EXCEPT !.focused = i]
  /\ UNCHANGED <<mounted, route>>

clear_focus ==
  /\ focus' = [focus EXCEPT !.focused = 0]
  /\ UNCHANGED <<mounted, route>>
-----------------------------------------------------------------------------
(* dispatch_key collects the route, then asks the handlers in turn. *)
RouteOf(i) ==
  LET path[j \in 0 .. MaxNodes] ==
        IF j = 0 \/ (j # 0 /\ ~focus.node[j].alive) THEN <<>>
        ELSE <<j>> \o path[focus.node[j].parent]
  IN  path[i]

dispatch_key ==
  /\ Len(route) < MaxRoutes /\ focus.focused # 0
  /\ route' = Append(route, [nodes |-> RouteOf(focus.focused), asked |-> 1])
  /\ UNCHANGED <<focus, mounted>>

(* A handler ignores the key, or handles it, or throws, which ends the     *)
(* dispatch as the last handler does: the route is released.               *)
handler_returns(ignored) ==
  /\ route # <<>>
  /\ LET r == Last(route)
     IN  IF ignored /\ r.asked < Len(r.nodes)
           THEN /\ route' = Append(Front(route), [r EXCEPT !.asked = @ + 1])
                /\ UNCHANGED focus
           ELSE /\ route' = Front(route)
                /\ focus' = Release(focus, r.nodes, InTree(mounted) \cup InRoutes(Front(route)))
  /\ UNCHANGED mounted

FocusNext ==
  \/ clear_focus \/ dispatch_key
  \/ \E v \in FocusViews :
       \/ unmount_view(v)
       \/ \E can, auto \in BOOLEAN : mount(v, can, auto)
       \/ \E can \in BOOLEAN : set_can_focus(v, can)
  \/ \E i \in Ids : request_focus(i)
  \/ \E b \in BOOLEAN : handler_returns(b)
FocusSpec == FocusInit /\ [][FocusNext]_focusVars
-----------------------------------------------------------------------------
(* The focused node exists and can be focused, however handlers, updates   *)
(* and unmounts move the focus; handlers run only on live nodes; and once  *)
(* no dispatch holds on to a route, the nodes are those of the mounted     *)
(* views and form their tree.                                              *)
FocusFits ==
  /\ focus.focused # 0 => focus.node[focus.focused].alive /\ focus.node[focus.focused].can_focus
  /\ \A i \in InRoutes(route) \cup InTree(mounted) : focus.node[i].alive
  /\ \A i \in Ids : focus.node[i].alive =>
       /\ focus.node[i].parent # 0 => focus.node[focus.node[i].parent].alive
       /\ route = <<>> =>
            LET v == focus.node[i].view
            IN  /\ mounted[v] = i
                /\ focus.node[i].parent = IF Enclosing[v] = NoView THEN 0 ELSE mounted[Enclosing[v]]
=============================================================================
