------------------------- MODULE HostAccessibility -------------------------
(***************************************************************************)
(* The accessibility service of a host window (src/src/host.cpp) with the  *)
(* bridge that turns semantics trees into changes (src/src/rendering.cpp). *)
(*                                                                         *)
(* The framework publishes trees on the UI executor, which owns the        *)
(* AccessibilityBridge; one publication at a time is applied to the        *)
(* adapter on the platform executor, and its result comes back to the UI   *)
(* executor.  The driver replaces the adapter: it invalidates under the    *)
(* mutex and posts the reset of the bridge afterwards.                     *)
(***************************************************************************)
EXTENDS Integers, Sequences

CONSTANTS
  Nodes,            \* ids of semantics nodes
  Trees,            \* the trees published: functions from sets of nodes to entries
  MaxService,       \* limit of accessibility_generation
  MaxPublication,   \* limit of the bridge's next_generation_
  MaxQueue,         \* bound on the UI queue for calls of the framework
  CoLocated,        \* TRUE: both executors are one thread
  ApplyMayFail,     \* TRUE: AccessibilityAdapter::apply may throw
  PostsMayFail      \* TRUE: TaskRunner::post may throw

ASSUME AccessibilityConstants ==
  /\ \A t \in Trees : DOMAIN t \subseteq Nodes /\ t = [n \in DOMAIN t |-> t[n]]
  /\ MaxService \in Nat \ {0} /\ MaxPublication \in Nat \ {0} /\ MaxQueue \in Nat
  /\ {CoLocated, ApplyMayFail, PostsMayFail} \subseteq BOOLEAN

VARIABLES
  running,
  adapter,                \* TRUE unless null
  accessibility_generation,
  in_flight, retry_pending, retry_requested,       \* accessibility_*
  publication, publication_service,                \* accessibility_publication*
  desired_semantics,      \* a set of at most one tree
  bridge,                 \* AccessibilityBridge
  uiStep, holder, applying,   \* where the UI executor, the driver and the platform task are
  uiQ, platQ,
  model,                  \* the tree the current adapter retains
  misled                  \* TRUE once an adapter got changes that do not fit its
                          \* tree, or the bridge refused to prepare

flight == <<in_flight, retry_pending, retry_requested, publication, publication_service>>
service == <<adapter, accessibility_generation>>
queues == <<uiQ, platQ>>
native == <<applying, model, misled>>
vars == <<running, service, flight, desired_semantics, bridge, uiStep, holder, queues, native>>

NoTree == [n \in {} |-> n]
Services == 0 .. MaxService
Publications == 0 .. MaxPublication
AllTrees == Trees \cup {NoTree}
-----------------------------------------------------------------------------
(* SemanticsDiffer::update: what turns one tree into another, and what an  *)
(* adapter makes of it (all or nothing).                                   *)
Diff(old, new) ==
  [added |-> {n \in DOMAIN new : n \notin DOMAIN old},
   updated |-> {n \in DOMAIN new \cap DOMAIN old : new[n] # old[n]},
   removed |-> DOMAIN old \ DOMAIN new,
   entries |-> new]
EmptyDiff(d) == d.added = {} /\ d.updated = {} /\ d.removed = {}

Fits(d, tree) ==
  /\ d.added \cap DOMAIN tree = {}
  /\ d.updated \cup d.removed \subseteq DOMAIN tree
Applied(d, tree) ==
  [n \in (DOMAIN tree \cup d.added) \ d.removed |->
     IF n \in d.added \cup d.updated THEN d.entries[n] ELSE tree[n]]

Diffs == {Diff(s, t) : s, t \in AllTrees}
Transaction == [generation : Publications, candidate : AllTrees, update : Diffs,
                in_flight : BOOLEAN]
Publication == [generation : Publications, update : Diffs, service : Services]
UiTask == [kind : {"publish", "retry", "reset", "result", "stop"}, service : Services,
           tree : AllTrees, generation : Publications, success : BOOLEAN]
Step == [pc : {"idle", "publish", "ask_retry", "dispatch", "prepare", "settle", "retry",
               "reprepare", "post", "stop"},
         service : Services, tree : AllTrees, success : BOOLEAN, posting : SUBSET Publication]

TaskOf(kind, s) ==
  [kind |-> kind, service |-> s, tree |-> NoTree, generation |-> 0, success |-> FALSE]
At(pc, s) == [pc |-> pc, service |-> s, tree |-> NoTree, success |-> FALSE, posting |-> {}]
Idle == At("idle", 0)

TypeOK ==
  /\ running \in BOOLEAN /\ adapter \in BOOLEAN
  /\ accessibility_generation \in Services
  /\ {in_flight, retry_pending, retry_requested} \subseteq BOOLEAN
  /\ publication \in Publications /\ publication_service \in Services
  /\ desired_semantics \in SUBSET AllTrees
  /\ bridge.acknowledged \in AllTrees
  /\ bridge.transaction \in SUBSET Transaction
  /\ bridge.next_generation \in 1 .. MaxPublication
  /\ uiStep \in Step /\ applying \in SUBSET Publication
  /\ holder \in {"idle", "post", "stop"}
  /\ uiQ \in Seq(UiTask) /\ platQ \in Seq(Publication)
  /\ misled \in BOOLEAN

Init ==
  /\ running = TRUE /\ adapter = FALSE /\ accessibility_generation = 0
  /\ in_flight = FALSE /\ retry_pending = FALSE /\ retry_requested = FALSE
  /\ publication = 0 /\ publication_service = 0
  /\ desired_semantics = {}
  /\ bridge = [acknowledged |-> NoTree, transaction |-> {}, next_generation |-> 1]
  /\ uiStep = Idle /\ holder = "idle"
  /\ uiQ = <<>> /\ platQ = <<>> /\ applying = {} /\ model = NoTree /\ misled = FALSE

(* With one thread, the executors take turns; the driver may still be      *)
(* entered from inside the adapter's apply.                                *)
UiTurn == CoLocated => applying = {} /\ holder = "idle"
DriverTurn == CoLocated => uiStep = Idle
PlatformTurn == CoLocated => uiStep = Idle /\ holder = "idle"
-----------------------------------------------------------------------------
(* shutdown(): its UI task is posted, unless that fails too. *)
StopHost ==
  /\ running' = FALSE
  /\ \/ running /\ uiQ' = Append(uiQ, TaskOf("stop", 0))
     \/ (~running \/ PostsMayFail) /\ uiQ' = uiQ

shutdown ==
  /\ running /\ holder = "idle" /\ StopHost
  /\ UNCHANGED <<service, flight, desired_semantics, bridge, uiStep, holder, platQ, native>>

UiStops ==
  /\ UiTurn /\ uiStep.pc = "stop" /\ holder = "idle"
  /\ StopHost /\ uiStep' = Idle
  /\ UNCHANGED <<service, flight, desired_semantics, bridge, holder, platQ, native>>

(* complete_platform_shutdown releases the adapter. *)
ReleaseAdapter ==
  /\ ~running /\ adapter /\ applying = {}
  /\ adapter' = FALSE
  /\ UNCHANGED <<running, accessibility_generation, flight, desired_semantics, bridge, uiStep,
                 holder, queues, native>>

(* publish_semantics (clear_semantics publishes no nodes) and              *)
(* retry_semantics read the service under the mutex and post afterwards.   *)
publish_semantics(t) ==
  /\ running /\ UiTurn /\ uiStep = Idle /\ Len(uiQ) < MaxQueue
  /\ uiStep' = [At("publish", accessibility_generation) EXCEPT !.tree = t]
  /\ UNCHANGED <<running, service, flight, desired_semantics, bridge, holder, queues, native>>

retry_semantics ==
  /\ running /\ UiTurn /\ uiStep = Idle /\ Len(uiQ) < MaxQueue
  /\ adapter /\ (in_flight \/ retry_pending)
  /\ publication_service = accessibility_generation
  /\ uiStep' = At("ask_retry", accessibility_generation)
  /\ UNCHANGED <<running, service, flight, desired_semantics, bridge, holder, queues, native>>

PostCall ==
  /\ UiTurn /\ uiStep.pc \in {"publish", "ask_retry"}
  /\ \/ /\ uiQ' = Append(uiQ, [TaskOf(IF uiStep.pc = "publish" THEN "publish" ELSE "retry",
                                      uiStep.service) EXCEPT !.tree = uiStep.tree])
        /\ uiStep' = Idle
     \/ PostsMayFail /\ uiQ' = uiQ /\ uiStep' = At("stop", 0)
  /\ UNCHANGED <<running, service, flight, desired_semantics, bridge, holder, platQ, native>>
-----------------------------------------------------------------------------
(* set_accessibility_adapter: everything in flight is invalidated under    *)
(* the mutex, and the reset of the bridge is posted after it.              *)
ClearFlight ==
  /\ in_flight' = FALSE /\ retry_pending' = FALSE /\ retry_requested' = FALSE
  /\ publication' = 0 /\ publication_service' = 0

set_accessibility_adapter(a) ==
  /\ running /\ DriverTurn /\ holder = "idle"
  /\ \/ /\ accessibility_generation = MaxService
        /\ holder' = "stop"
        /\ UNCHANGED <<service, flight, model>>
     \/ /\ accessibility_generation # MaxService
        /\ accessibility_generation' = accessibility_generation + 1
        /\ adapter' = a
        /\ ClearFlight
        /\ model' = NoTree
        /\ holder' = "post"
  /\ UNCHANGED <<running, desired_semantics, bridge, uiStep, queues, applying, misled>>

PostReset ==
  /\ DriverTurn /\ holder = "post"
  /\ \/ /\ uiQ' = Append(uiQ, TaskOf("reset", accessibility_generation))
        /\ holder' = "idle"
     \/ PostsMayFail /\ uiQ' = uiQ /\ holder' = "stop"
  /\ UNCHANGED <<running, service, flight, desired_semantics, bridge, uiStep, platQ, native>>

HolderStops ==
  /\ DriverTurn /\ holder = "stop" /\ StopHost /\ holder' = "idle"
  /\ UNCHANGED <<service, flight, desired_semantics, bridge, uiStep, platQ, native>>
-----------------------------------------------------------------------------
(* The UI tasks, up to the end of their first locked section. *)
RunUiTask(kind) ==
  /\ UiTurn /\ uiStep = Idle /\ uiQ # <<>> /\ Head(uiQ).kind = kind
  /\ uiQ' = Tail(uiQ)

PublishTask ==
  /\ RunUiTask("publish")
  /\ LET t == Head(uiQ)
     IN  /\ desired_semantics' = (IF running THEN {t.tree} ELSE desired_semantics)
         /\ uiStep' = IF running /\ accessibility_generation = t.service
                      THEN At("dispatch", 0) ELSE Idle
  /\ UNCHANGED <<running, service, flight, bridge, holder, platQ, native>>

RetryTask ==
  /\ RunUiTask("retry")
  /\ uiStep' = At("retry", Head(uiQ).service)
  /\ UNCHANGED <<running, service, flight, desired_semantics, bridge, holder, platQ, native>>

ResetTransaction == [bridge EXCEPT !.transaction = {}]
ResetBridge == [bridge EXCEPT !.acknowledged = NoTree, !.transaction = {}]
ResetTask ==
  /\ RunUiTask("reset")
  /\ \/ /\ running /\ accessibility_generation = Head(uiQ).service
        /\ ClearFlight
        /\ bridge' = ResetBridge
        /\ uiStep' = At("dispatch", 0)
     \/ /\ ~(running /\ accessibility_generation = Head(uiQ).service)
        /\ UNCHANGED <<flight, bridge, uiStep>>
  /\ UNCHANGED <<running, service, desired_semantics, holder, platQ, native>>

StopTask ==
  /\ RunUiTask("stop")
  /\ ClearFlight
  /\ bridge' = ResetBridge
  /\ desired_semantics' = {}
  /\ UNCHANGED <<running, service, uiStep, holder, platQ, native>>

(* A result of another service or publication is stale. *)
ResultCurrent(t) ==
  /\ running /\ in_flight
  /\ accessibility_generation = t.service /\ publication_service = t.service
  /\ publication = t.generation

(* AccessibilityBridge::acknowledge and reject. *)
Matching(g) == {x \in bridge.transaction : x.in_flight /\ x.generation = g}
Acknowledged(g) ==
  IF Matching(g) = {} THEN bridge
  ELSE [bridge EXCEPT !.acknowledged = (CHOOSE x \in Matching(g) : TRUE).candidate,
                      !.transaction = {}]
Rejected(br, g) ==
  [br EXCEPT !.transaction = {IF x.in_flight /\ x.generation = g
                              THEN [x EXCEPT !.in_flight = FALSE] ELSE x : x \in @}]

ResultTask ==
  /\ RunUiTask("result")
  /\ LET t == Head(uiQ)
     IN  \/ ~ResultCurrent(t) /\ UNCHANGED <<bridge, uiStep>>
         \/ /\ ResultCurrent(t)
            /\ bridge' = IF t.success THEN Acknowledged(t.generation)
                         ELSE Rejected(bridge, t.generation)
            /\ uiStep' = [At("settle", t.service) EXCEPT !.success = t.success]
  /\ UNCHANGED <<running, service, flight, desired_semantics, holder, platQ, native>>

(* Its second locked section: after a success the latest tree is           *)
(* dispatched, after a failure a retry that was asked for meanwhile.       *)
IdleUnlessRetry(success, s) == IF ~success /\ retry_requested THEN At("retry", s) ELSE Idle
AfterResult(success, s) ==
  IF success THEN At("dispatch", 0)
  ELSE IF retry_requested THEN At("retry", s) ELSE Idle
SettleResult ==
  /\ UiTurn /\ uiStep.pc = "settle"
  /\ in_flight' = FALSE
  /\ retry_pending' = ~uiStep.success
  /\ retry_requested' = FALSE
  /\ uiStep' = AfterResult(uiStep.success, uiStep.service)
  /\ UNCHANGED <<running, service, publication, publication_service, desired_semantics, bridge,
                 holder, queues, native>>
-----------------------------------------------------------------------------
(* dispatch_desired_semantics and retry_semantics_on_ui: a locked section, *)
(* then the bridge, then post_accessibility_publication.                   *)
MayDispatch ==
  /\ running /\ ~in_flight /\ ~retry_pending
  /\ adapter /\ desired_semantics # {}

Dispatch ==
  /\ UiTurn /\ uiStep.pc = "dispatch"
  /\ \/ ~MayDispatch /\ uiStep' = Idle
     \/ /\ MayDispatch
        /\ \E t \in desired_semantics :
             uiStep' = [At("prepare", accessibility_generation) EXCEPT !.tree = t]
  /\ UNCHANGED <<running, service, flight, desired_semantics, bridge, holder, queues, native>>

Retry ==
  /\ UiTurn /\ uiStep.pc = "retry"
  /\ LET mine == /\ running /\ adapter
                 /\ accessibility_generation = uiStep.service
                 /\ publication_service = uiStep.service
     IN  /\ retry_requested' = (retry_requested \/ (mine /\ in_flight))
         /\ uiStep' = IF mine /\ ~in_flight /\ retry_pending
                      THEN At("reprepare", uiStep.service) ELSE Idle
  /\ UNCHANGED <<running, service, in_flight, retry_pending, publication, publication_service,
                 desired_semantics, bridge, holder, queues, native>>

(* post_accessibility_publication, its locked section: the publication is  *)
(* rejected if the adapter changed since.                                  *)
MayPublish(s) == running /\ adapter /\ accessibility_generation = s /\ ~in_flight

Publish(br, g, update) ==
  \/ /\ MayPublish(uiStep.service)
     /\ in_flight' = TRUE
     /\ publication' = g /\ publication_service' = uiStep.service
     /\ bridge' = br
     /\ uiStep' = [At("post", uiStep.service) EXCEPT
                     !.posting = {[generation |-> g, update |-> update,
                                   service |-> uiStep.service]}]
  \/ /\ ~MayPublish(uiStep.service)
     /\ bridge' = Rejected(br, g)
     /\ uiStep' = Idle
     /\ UNCHANGED <<in_flight, publication, publication_service>>

(* AccessibilityBridge::prepare throws while a transaction exists, and the *)
(* host stops.                                                             *)
Busy == bridge.transaction # {}
NeverExhausted == FALSE
Exhausted == bridge.next_generation = MaxPublication

Prepare ==
  /\ UiTurn /\ uiStep.pc = "prepare"
  /\ LET update == Diff(bridge.acknowledged, uiStep.tree)
         g == bridge.next_generation
     IN  \/ /\ Busy \/ (~EmptyDiff(update) /\ Exhausted)
            /\ uiStep' = At("stop", 0)
            /\ misled' = (misled \/ Busy)
            /\ UNCHANGED <<bridge, in_flight, publication, publication_service>>
         \/ /\ ~Busy /\ EmptyDiff(update)
            /\ uiStep' = Idle
            /\ UNCHANGED <<bridge, in_flight, publication, publication_service, misled>>
         \/ /\ ~Busy /\ ~EmptyDiff(update) /\ ~Exhausted
            /\ Publish([bridge EXCEPT !.next_generation = g + 1,
                          !.transaction = {[generation |-> g, candidate |-> uiStep.tree,
                                            update |-> update, in_flight |-> TRUE]}],
                       g, update)
            /\ UNCHANGED misled
  /\ UNCHANGED <<running, service, retry_pending, retry_requested, desired_semantics, holder,
                 queues, applying, model>>

(* AccessibilityBridge::retry repeats the batch under a fresh generation. *)
Reprepare ==
  /\ UiTurn /\ uiStep.pc = "reprepare"
  /\ LET waiting == {x \in bridge.transaction : ~x.in_flight}
         g == bridge.next_generation
     IN  \/ /\ waiting = {} /\ uiStep' = Idle
            /\ UNCHANGED <<bridge, in_flight, retry_pending, publication, publication_service>>
         \/ /\ waiting # {} /\ Exhausted /\ uiStep' = At("stop", 0)
            /\ UNCHANGED <<bridge, in_flight, retry_pending, publication, publication_service>>
         \/ /\ ~Exhausted
            /\ \E x \in waiting :
                 Publish([bridge EXCEPT !.next_generation = g + 1,
                            !.transaction = {[x EXCEPT !.generation = g, !.in_flight = TRUE]}],
                         g, x.update)
            /\ retry_pending' = FALSE
  /\ UNCHANGED <<running, service, retry_requested, desired_semantics, holder, queues, native>>

PostPublication ==
  /\ UiTurn /\ uiStep.pc = "post"
  /\ \E x \in uiStep.posting :
       \/ /\ platQ' = Append(platQ, x)
          /\ uiStep' = Idle
          /\ UNCHANGED <<in_flight, bridge>>
       \/ /\ PostsMayFail
          /\ in_flight' = (in_flight /\ ~(publication = x.generation
                                            /\ publication_service = x.service))
          /\ bridge' = Rejected(bridge, x.generation)
          /\ uiStep' = At("stop", 0)
          /\ UNCHANGED platQ
  /\ UNCHANGED <<running, service, retry_pending, retry_requested, publication,
                 publication_service, desired_semantics, holder, uiQ, native>>
-----------------------------------------------------------------------------
(* The platform task: dropped if stale; otherwise the adapter is called    *)
(* with the mutex released and the result posted to the UI executor.       *)
ApplyCurrent(x) ==
  /\ running /\ adapter /\ accessibility_generation = x.service
  /\ in_flight /\ publication = x.generation

BeginApply ==
  /\ PlatformTurn /\ platQ # <<>> /\ applying = {}
  /\ platQ' = Tail(platQ)
  /\ applying' = {x \in {Head(platQ)} : ApplyCurrent(x)}
  /\ UNCHANGED <<running, service, flight, desired_semantics, bridge, uiStep, holder, uiQ,
                 model, misled>>

EndApply(success) ==
  /\ PlatformTurn
  /\ \E x \in applying :
       /\ applying' = {}
       /\ LET here == success /\ accessibility_generation = x.service
          IN  /\ model' = IF here /\ Fits(x.update, model) THEN Applied(x.update, model)
                          ELSE model
              /\ misled' = (misled \/ (here /\ ~Fits(x.update, model)))
       /\ \/ /\ uiQ' = Append(uiQ, [TaskOf("result", x.service) EXCEPT
                                       !.generation = x.generation, !.success = success])
             /\ UNCHANGED running
          \/ PostsMayFail /\ holder = "idle" /\ StopHost
  /\ UNCHANGED <<service, flight, desired_semantics, bridge, uiStep, holder, platQ>>

Ui ==
  \/ UiStops \/ PostCall \/ PublishTask \/ RetryTask \/ ResetTask \/ StopTask \/ ResultTask
  \/ SettleResult \/ Dispatch \/ Retry \/ Prepare \/ Reprepare \/ PostPublication

Next ==
  \/ Ui \/ shutdown \/ ReleaseAdapter \/ retry_semantics
  \/ \E t \in Trees : publish_semantics(t)
  \/ \E a \in BOOLEAN : set_accessibility_adapter(a)
  \/ PostReset \/ HolderStops \/ BeginApply
  \/ EndApply(TRUE) \/ (ApplyMayFail /\ EndApply(FALSE))

Spec == Init /\ [][Next]_vars
-----------------------------------------------------------------------------
(* Every publication fits the tree its adapter retains, and the bridge is  *)
(* never asked to prepare over a pending transaction: a replacement starts *)
(* empty and gets "a complete add snapshot" (implementation-status.md).    *)
ChangesFit == ~misled

(* Nothing is queued or in progress. *)
AtRest ==
  /\ running /\ uiStep = Idle /\ holder = "idle" /\ applying = {}
  /\ uiQ = <<>> /\ platQ = <<>>

(* At rest the adapter retains exactly the acknowledged tree, and that is  *)
(* the latest desired one unless a refused batch waits for a retry.        *)
AdapterFollows ==
  AtRest =>
    /\ ~in_flight /\ ~retry_requested
    /\ adapter =>
         /\ model = bridge.acknowledged
         /\ \/ \E t \in desired_semantics : model = t
            \/ desired_semantics = {}
            \/ retry_pending /\ \E x \in bridge.transaction : ~x.in_flight
=============================================================================
