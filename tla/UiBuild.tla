------------------------------ MODULE UiBuild ------------------------------
(***************************************************************************)
(* The element tree and BuildOwner: render, flush and reconcile_child of   *)
(* src/src/ui.cpp and include/dui/views.hpp, dependencies on signals, and  *)
(* dirty marking.  Components form a tree; the views between a component   *)
(* and its child components are collapsed into an optional child per kid   *)
(* or, for the ListParents, a keyed ForEach.  A build is user code: it     *)
(* reads and sets signals and state, returns a view or throws; `builds' is *)
(* the stack of component builds under way.  What a component is given is  *)
(* its prop.  An element is identified with its component: its id is only  *)
(* used to recognise that it was unmounted.                                *)
(***************************************************************************)
EXTENDS Integers, Sequences, FiniteSets, SequencesExt

CONSTANTS
  Components, RootComponent,
  Shapes,       \* the trees explored: the child components of each component,
                \* those that mount their kids through ForEach, the props given
  Comparable,   \* those whose descriptors are compared (equality_comparable)
  Signals, NoProp

ASSUME BuildConstants ==
  /\ RootComponent \in Components /\ Comparable \subseteq Components
  /\ \A t \in Shapes :
       /\ t.kids \in [Components -> SUBSET Components]
       /\ \A c \in Components : RootComponent \notin t.kids[c]
       /\ \A c, d \in Components : c # d => t.kids[c] \cap t.kids[d] = {}
       /\ \A S \in (SUBSET Components) \ {{}} : \E c \in S : S \cap t.kids[c] = {}
       /\ t.lists \subseteq Components /\ NoProp \notin t.props

VARIABLES
  shape,    \* the tree of the program that runs
  element,  \* the element of each component
  deps,     \* dependencies_ of each element
  subs,     \* subscribers_ of each signal
  signals,  \* signals that exist
  dirty,    \* dirty_ of the owner
  batch,    \* flush's pending elements not yet visited
  builds,   \* component builds under way
  doing,    \* "idle", "render" or "flush": reconciling_
  spoiled   \* components a failed build left unfinished, or unvisited in its batch

buildVars == <<shape, element, deps, subs, signals, dirty, batch, builds, doing, spoiled>>

Kids == shape.kids
ListParents == shape.lists
Props == shape.props

Given == Props \cup {NoProp}
Unmounted == [mounted |-> FALSE, dirty |-> FALSE, prop |-> NoProp, built |-> NoProp,
              stale |-> FALSE, reads |-> {}, view |-> [k \in Components |-> NoProp]]

(* Type invariant: the mounted components have a prop, the others none.    *)
(* `built' is the prop, `reads' the signals and `view' the kids of the     *)
(* last build; `stale' says that something it read or its state changed    *)
(* since.                                                                  *)
BuildTypeOK ==
  /\ shape \in Shapes
  /\ \A c \in Components :
       /\ element[c].mounted \in BOOLEAN /\ element[c].dirty \in BOOLEAN
       /\ element[c].stale \in BOOLEAN
       /\ element[c].prop \in IF element[c].mounted THEN Props ELSE {NoProp}
       /\ element[c].built \in Given
       /\ element[c].reads \subseteq Signals /\ element[c].view \in [Components -> Given]
  /\ deps \in [Components -> SUBSET Signals] /\ subs \in [Signals -> SUBSET Components]
  /\ signals \subseteq Signals
  /\ dirty \subseteq Components /\ batch \subseteq Components /\ spoiled \subseteq Components
  /\ doing \in {"idle", "render", "flush"}
  /\ \A i \in DOMAIN builds : builds[i].of \in Components
                              /\ builds[i].phase \in {"build", "children"}

BuildInit ==
  /\ shape \in Shapes
  /\ element = [c \in Components |-> Unmounted]
  /\ deps = [c \in Components |-> {}] /\ subs = [s \in Signals |-> {}]
  /\ signals = Signals /\ dirty = {} /\ batch = {} /\ builds = <<>>
  /\ doing = "idle" /\ spoiled = {}
-----------------------------------------------------------------------------
(* The components of the subtree of c. *)
Below(c) == {d \in Components : \A S \in SUBSET Components :
               c \in S /\ (\A k \in S : Kids[k] \subseteq S) => d \in S}
Depth(c) == Cardinality({d \in Components : c \in Below(d)})

(* The tree as a record, and its operations as functions of it. *)
Tree == [element |-> element, deps |-> deps, subs |-> subs, dirty |-> dirty, batch |-> batch,
         spoiled |-> spoiled]
Becomes(t) ==
  /\ element' = t.element /\ deps' = t.deps /\ subs' = t.subs
  /\ dirty' = t.dirty /\ batch' = t.batch /\ spoiled' = t.spoiled

(* unmount of the subtrees of the components cs. *)
Unmount(t, cs) ==
  LET gone == UNION {Below(c) : c \in cs}
  IN  [element |-> [c \in Components |-> IF c \in gone THEN Unmounted ELSE t.element[c]],
       deps |-> [c \in Components |-> IF c \in gone THEN {} ELSE t.deps[c]],
       subs |-> [s \in Signals |-> t.subs[s] \ gone],
       dirty |-> t.dirty \ gone, batch |-> t.batch \ gone, spoiled |-> t.spoiled \ gone]

(* mark_dirty of mounted elements. *)
Mark(t, cs) ==
  LET live == {c \in cs : t.element[c].mounted}
  IN  [t EXCEPT !.dirty = @ \cup live,
                !.element = [c \in Components |-> IF c \in live THEN [@[c] EXCEPT !.dirty = TRUE]
                                                  ELSE @[c]]]

(* The rebuild of a component: its dependencies are cleared first. *)
StartBuild(t, c) ==
  [t EXCEPT !.element[c].built = t.element[c].prop, !.element[c].stale = FALSE,
            !.element[c].reads = {}, !.deps[c] = {},
            !.subs = [s \in Signals |-> @[s] \ {c}]]
Build(c) == [of |-> c, phase |-> "build", todo |-> {}]

(* reconcile_child: the element is made if there is none, is no longer     *)
(* dirty, and is built unless it has an equal descriptor and was clean.    *)
MemoIgnoresDirty(e, c, p) == c \in Comparable /\ e.mounted /\ e.prop = p
Unchanged(e, c, p) == c \in Comparable /\ e.mounted /\ e.prop = p /\ ~e.dirty

Updated(t, c, p) ==
  [t EXCEPT !.dirty = @ \ {c}, !.element[c].mounted = TRUE, !.element[c].dirty = FALSE,
            !.element[c].prop = p]

Reconcile(c, p, t, rest) ==
  IF Unchanged(t.element[c], c, p)
    THEN Becomes(Updated(t, c, p)) /\ builds' = rest
    ELSE Becomes(StartBuild(Updated(t, c, p), c)) /\ builds' = Append(rest, Build(c))
-----------------------------------------------------------------------------
(* User code runs between the owner's operations and inside a build. *)
InBuild == builds # <<>> /\ Last(builds).phase = "build"
UserCode == doing = "idle" \/ InBuild

(* Signal::set and StateHandle::set of a different value. *)
Stale(t, cs) ==
  [t EXCEPT !.element = [c \in Components |->
                           IF c \in cs THEN [@[c] EXCEPT !.stale = TRUE] ELSE @[c]]]

set_signal(s) ==
  /\ UserCode /\ s \in signals
  /\ Becomes(Mark(Stale(Tree, {c \in Components : s \in element[c].reads}), subs[s]))
  /\ UNCHANGED <<signals, builds, doing>>

set_state(c) ==
  /\ UserCode /\ element[c].mounted
  /\ Becomes(Mark(Stale(Tree, {c}), {c}))
  /\ UNCHANGED <<signals, builds, doing>>

(* ~DependencySource: the elements forget it. *)
destroy_signal(s) ==
  /\ UserCode /\ s \in signals
  /\ signals' = signals \ {s}
  /\ Becomes([Tree EXCEPT !.deps = [c \in Components |-> deps[c] \ {s}], !.subs[s] = {},
                          !.element = [c \in Components |-> [element[c] EXCEPT !.reads = @ \ {s}]]])
  /\ UNCHANGED <<builds, doing>>

(* observe, by the component being built. *)
read_signal(s) ==
  LET c == Last(builds).of
  IN  /\ InBuild /\ s \in signals
      /\ Becomes([Tree EXCEPT !.deps[c] = @ \cup {s}, !.subs[s] = @ \cup {c},
                              !.element[c].reads = @ \cup {s}])
      /\ UNCHANGED <<signals, builds, doing>>
-----------------------------------------------------------------------------
render(p) ==
  /\ doing = "idle"
  /\ doing' = "render"
  /\ Reconcile(RootComponent, p, Tree, <<>>)
  /\ UNCHANGED signals

(* flush: batches of dirty elements, the shallow ones first; one that was  *)
(* rebuilt or unmounted meanwhile is passed over.                          *)
flush ==
  /\ doing = "idle"
  /\ doing' = "flush"
  /\ UNCHANGED <<element, deps, subs, signals, dirty, batch, builds, spoiled>>

next_batch ==
  /\ doing = "flush" /\ builds = <<>> /\ batch = {} /\ dirty # {}
  /\ batch' = dirty /\ dirty' = {}
  /\ UNCHANGED <<element, deps, subs, signals, builds, doing, spoiled>>

rebuild(c) ==
  /\ doing = "flush" /\ builds = <<>>
  /\ c \in batch /\ \A d \in batch : Depth(c) <= Depth(d)
  /\ LET t == [Tree EXCEPT !.batch = @ \ {c}, !.element[c].dirty = FALSE]
     IN  IF element[c].dirty
           THEN Becomes(StartBuild(t, c)) /\ builds' = <<Build(c)>>
           ELSE Becomes(t) /\ UNCHANGED builds
  /\ UNCHANGED <<signals, doing>>

end_operation ==
  /\ doing # "idle" /\ builds = <<>> /\ batch = {}
  /\ doing = "flush" => dirty = {}
  /\ doing' = "idle"
  /\ UNCHANGED <<element, deps, subs, signals, dirty, batch, builds, spoiled>>
-----------------------------------------------------------------------------
(* A build returns its view: the prop of each kid, none of those left out. *)
(* The order of the kids is the view's: any.                               *)
build_returns(view) ==
  LET f == Last(builds)
      todo == {k \in Kids[f.of] : f.of \in ListParents => view[k] # NoProp}
  IN  /\ InBuild /\ \A k \in Components \ Kids[f.of] : view[k] = NoProp
      /\ builds' = Append(Front(builds), [f EXCEPT !.phase = "children", !.todo = todo])
      /\ Becomes([Tree EXCEPT !.element[f.of].view = view])
      /\ UNCHANGED <<signals, doing>>

(* The kids in turn, then what a ForEach no longer has is unmounted. *)
update_child ==
  /\ builds # <<>> /\ Last(builds).phase = "children"
  /\ \E k \in Last(builds).todo :
     LET f == Last(builds)
         p == element[f.of].view[k]
         rest == Append(Front(builds), [f EXCEPT !.todo = @ \ {k}])
     IN  IF p = NoProp THEN Becomes(Unmount(Tree, {k})) /\ builds' = rest
         ELSE Reconcile(k, p, Tree, rest)
  /\ UNCHANGED <<signals, doing>>

end_build ==
  /\ builds # <<>> /\ Last(builds).phase = "children" /\ Last(builds).todo = {}
  /\ LET c == Last(builds).of
     IN  Becomes(Unmount([Tree EXCEPT !.spoiled = @ \ {c}],
                         {k \in Kids[c] : element[c].view[k] = NoProp}))
  /\ builds' = Front(builds)
  /\ UNCHANGED <<signals, doing>>

(* A build throws: the operation ends with it.  Each ForEach on the way    *)
(* unmounts all its children; the rest of the batch is dropped.            *)
build_throws ==
  LET outer == {builds[i].of : i \in 1 .. Len(builds) - 1}
      lists == outer \cap ListParents
  IN  /\ InBuild
      /\ Becomes(Unmount([Tree EXCEPT !.batch = {},
                                      !.spoiled = @ \cup batch \cup {builds[i].of : i \in DOMAIN builds}],
                         UNION {Kids[c] : c \in lists}))
      /\ builds' = <<>> /\ doing' = "idle"
      /\ UNCHANGED signals

BuildNext ==
  /\ UNCHANGED shape
  /\ \/ flush \/ next_batch \/ end_operation \/ update_child \/ end_build \/ build_throws
     \/ \E p \in Props : render(p)
     \/ \E c \in Components : rebuild(c) \/ set_state(c)
     \/ \E s \in Signals : set_signal(s) \/ destroy_signal(s) \/ read_signal(s)
     \/ \E view \in [Components -> Given] : build_returns(view)
BuildSpec == BuildInit /\ [][BuildNext]_buildVars
-----------------------------------------------------------------------------
(* Dependencies and subscriptions always agree, unmounted elements have    *)
(* none, and once nothing is dirty every mounted component that no failed  *)
(* build left behind was built from its current prop, signals and state,   *)
(* and its kids are the ones its last build asked for.  Failed or not, a   *)
(* component whose signals or state changed since its build keeps its      *)
(* mark: what flush dropped from its batch is built again by the next      *)
(* update from above, equal descriptor or not, and by the next mark.       *)
BuildsFresh ==
  /\ \A c \in Components, s \in Signals : s \in deps[c] <=> c \in subs[s]
  /\ \A c \in Components : ~element[c].mounted => deps[c] = {} /\ c \notin dirty
  /\ \A c \in Components : element[c].stale => element[c].dirty
  /\ doing = "idle" /\ dirty = {} =>
       \A c \in Components \ spoiled : element[c].mounted =>
         /\ ~element[c].stale /\ ~element[c].dirty
         /\ element[c].built = element[c].prop
         /\ \A k \in Kids[c] : element[k].prop = element[c].view[k]
=============================================================================
