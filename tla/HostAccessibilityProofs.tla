------------------------ MODULE HostAccessibilityProofs ------------------------
(***************************************************************************)
(* The publication of semantics: what is proved about HostAccessibility.   *)
(* Inv is the inductive invariant.  Its Base holds whatever the service    *)
(* does: batches are generations of one bridge, at most one of them is     *)
(* under way, and the adapter's model is the acknowledged tree, or that    *)
(* tree with the one unanswered batch applied.  While the service is       *)
(* alive OrderInv orders the tasks of the two queues, and either a reset   *)
(* is awaited (AwaitClean: nothing older can still be applied) or the      *)
(* adapter's generation is current (Current: the desired tree, the batch   *)
(* under way and the retry flags account for every difference).            *)
(***************************************************************************)
EXTENDS HostAccessibility, SequenceTheorems, TLAPS

(***************************************************************************)
(* Accessibility: the trees and what turns one into another.               *)
(***************************************************************************)
LEMMA TreesAreFunctions ==
  /\ NoTree \in AllTrees /\ DOMAIN NoTree = {}
  /\ \A t \in AllTrees : t = [n \in DOMAIN t |-> t[n]]
<1>1. NoTree \in AllTrees /\ DOMAIN NoTree = {}
  BY DEF NoTree, AllTrees
<1>2. NoTree = [n \in DOMAIN NoTree |-> NoTree[n]]
  BY DEF NoTree
<1> QED
  BY <1>1, <1>2, AccessibilityConstants DEF AllTrees

LEMMA DiffTurns ==
  ASSUME NEW t \in AllTrees, NEW u \in AllTrees
  PROVE  /\ Diff(t, u) \in Diffs
         /\ Fits(Diff(t, u), t) /\ Applied(Diff(t, u), t) = u
         /\ EmptyDiff(Diff(t, u)) => t = u
<1>1. Diff(t, u) \in Diffs
  BY DEF Diffs
<1> DEFINE d == Diff(t, u)
<1>2. /\ d.added = {n \in DOMAIN u : n \notin DOMAIN t}
      /\ d.updated = {n \in DOMAIN u \cap DOMAIN t : u[n] # t[n]}
      /\ d.removed = DOMAIN t \ DOMAIN u /\ d.entries = u
  BY DEF Diff
<1> HIDE DEF d
<1>3. t = [n \in DOMAIN t |-> t[n]] /\ u = [n \in DOMAIN u |-> u[n]]
  BY TreesAreFunctions
<1>4. Fits(d, t)
  BY <1>2 DEF Fits
<1>5. Applied(d, t) = u
  <2>1. (DOMAIN t \cup d.added) \ d.removed = DOMAIN u
    BY <1>2
  <2>2. \A n \in DOMAIN u : (IF n \in d.added \cup d.updated THEN d.entries[n] ELSE t[n]) = u[n]
    BY <1>2
  <2>3. Applied(d, t) = [n \in DOMAIN u |-> IF n \in d.added \cup d.updated THEN d.entries[n] ELSE t[n]]
    BY <2>1 DEF Applied
  <2>4. [n \in DOMAIN u |-> IF n \in d.added \cup d.updated THEN d.entries[n] ELSE t[n]]
          = [n \in DOMAIN u |-> u[n]]
    BY <2>2
  <2> QED
    BY <1>3, <2>3, <2>4
<1>6. ASSUME EmptyDiff(d) PROVE t = u
  <2>1. DOMAIN t = DOMAIN u
    BY <1>2, <1>6 DEF EmptyDiff
  <2>2. \A n \in DOMAIN t : t[n] = u[n]
    BY <1>2, <1>6, <2>1 DEF EmptyDiff
  <2>3. [n \in DOMAIN t |-> t[n]] = [n \in DOMAIN u |-> u[n]]
    BY <2>1, <2>2
  <2> QED
    BY <1>3, <2>3
<1> QED
  BY <1>1, <1>4, <1>5, <1>6 DEF d
-----------------------------------------------------------------------------
(* Type correctness. *)
Bridge == [acknowledged : AllTrees, transaction : SUBSET Transaction,
           next_generation : 1 .. MaxPublication]
Typed == TypeOK /\ bridge \in Bridge

Kinds == {"publish", "retry", "reset", "result", "stop"}
Pcs == {"idle", "publish", "ask_retry", "dispatch", "prepare", "settle", "retry",
        "reprepare", "post", "stop"}

LEMMA Zero == 0 \in Services /\ 0 \in Publications
BY AccessibilityConstants DEF Services, Publications

LEMMA TaskIs ==
  ASSUME NEW k \in Kinds, NEW s \in Services
  PROVE  /\ TaskOf(k, s) \in UiTask /\ TaskOf(k, s).kind = k /\ TaskOf(k, s).service = s
         /\ TaskOf(k, s).generation = 0
BY Zero, TreesAreFunctions DEF TaskOf, UiTask, Kinds

LEMMA CallIs ==
  ASSUME NEW k \in Kinds, NEW s \in Services, NEW t \in AllTrees
  PROVE  LET u == [TaskOf(k, s) EXCEPT !.tree = t]
         IN  u \in UiTask /\ u.kind = k /\ u.service = s /\ u.generation = 0 /\ u.tree = t
<1> DEFINE u == [TaskOf(k, s) EXCEPT !.tree = t]
<1>1. PICK r \in UiTask : r = TaskOf(k, s) /\ r.kind = k /\ r.service = s /\ r.generation = 0
  BY TaskIs
<1>2. u \in UiTask /\ u.kind = k /\ u.service = s /\ u.generation = 0 /\ u.tree = t
  BY <1>1 DEF UiTask
<1> QED
  BY <1>2 DEF u

LEMMA ResultIs ==
  ASSUME NEW s \in Services, NEW g \in Publications, NEW b \in BOOLEAN
  PROVE  LET u == [TaskOf("result", s) EXCEPT !.generation = g, !.success = b]
         IN  /\ u \in UiTask /\ u.kind = "result" /\ u.service = s /\ u.generation = g
             /\ u.success = b
<1> DEFINE u == [TaskOf("result", s) EXCEPT !.generation = g, !.success = b]
<1>1. PICK r \in UiTask : r = TaskOf("result", s) /\ r.kind = "result" /\ r.service = s
  BY TaskIs DEF Kinds
<1>2. /\ u \in UiTask /\ u.kind = "result" /\ u.service = s /\ u.generation = g
      /\ u.success = b
  BY <1>1 DEF UiTask
<1> QED
  BY <1>2 DEF u

LEMMA AtIs ==
  ASSUME NEW pc \in Pcs, NEW s \in Services
  PROVE  /\ At(pc, s) \in Step /\ At(pc, s).pc = pc /\ At(pc, s).service = s
         /\ At(pc, s).posting = {}
BY TreesAreFunctions DEF At, Step, Pcs

LEMMA IdleIs == Idle \in Step /\ Idle.pc = "idle" /\ Idle.posting = {} /\ Idle.service = 0
<1>1. "idle" \in Pcs
  BY DEF Pcs
<1> QED
  BY <1>1, AtIs, Zero DEF Idle

LEMMA AtTreeIs ==
  ASSUME NEW pc \in Pcs, NEW s \in Services, NEW t \in AllTrees
  PROVE  LET u == [At(pc, s) EXCEPT !.tree = t]
         IN  u \in Step /\ u.pc = pc /\ u.service = s /\ u.tree = t /\ u.posting = {}
<1> DEFINE u == [At(pc, s) EXCEPT !.tree = t]
<1>1. PICK r \in Step : r = At(pc, s) /\ r.pc = pc /\ r.service = s /\ r.posting = {}
  BY AtIs
<1>2. u \in Step /\ u.pc = pc /\ u.service = s /\ u.tree = t /\ u.posting = {}
  BY <1>1 DEF Step
<1> QED
  BY <1>2 DEF u

LEMMA SettleIs ==
  ASSUME NEW s \in Services, NEW b \in BOOLEAN
  PROVE  LET u == [At("settle", s) EXCEPT !.success = b]
         IN  u \in Step /\ u.pc = "settle" /\ u.service = s /\ u.success = b /\ u.posting = {}
<1> DEFINE u == [At("settle", s) EXCEPT !.success = b]
<1>1. PICK r \in Step : r = At("settle", s) /\ r.pc = "settle" /\ r.service = s /\ r.posting = {}
  BY AtIs DEF Pcs
<1>2. u \in Step /\ u.pc = "settle" /\ u.service = s /\ u.success = b /\ u.posting = {}
  BY <1>1 DEF Step
<1> QED
  BY <1>2 DEF u

LEMMA PostIs ==
  ASSUME NEW s \in Services, NEW x \in Publication
  PROVE  LET u == [At("post", s) EXCEPT !.posting = {x}]
         IN  u \in Step /\ u.pc = "post" /\ u.service = s /\ u.posting = {x}
<1> DEFINE u == [At("post", s) EXCEPT !.posting = {x}]
<1>1. PICK r \in Step : r = At("post", s) /\ r.pc = "post" /\ r.service = s
  BY AtIs DEF Pcs
<1>2. u \in Step /\ u.pc = "post" /\ u.service = s /\ u.posting = {x}
  BY <1>1 DEF Step
<1> QED
  BY <1>2 DEF u


LEMMA Stopping == StopHost => running' = FALSE
BY DEF StopHost

LEMMA StopTyped ==
  ASSUME Typed, StopHost
  PROVE  running' \in BOOLEAN /\ uiQ' \in Seq(UiTask)
<1>1. TaskOf("stop", 0) \in UiTask /\ uiQ \in Seq(UiTask)
  BY TaskIs, Zero DEF Kinds, Typed, TypeOK
<1>2. Append(uiQ, TaskOf("stop", 0)) \in Seq(UiTask)
  BY <1>1
<1>3. running' = FALSE /\ uiQ' \in {uiQ, Append(uiQ, TaskOf("stop", 0))}
  BY DEF StopHost
<1> QED
  BY <1>1, <1>2, <1>3

(* AccessibilityBridge, its operations. *)
LEMMA BridgeTyped ==
  ASSUME Typed
  PROVE  /\ ResetBridge \in Bridge /\ ResetBridge.acknowledged = NoTree
         /\ ResetBridge.transaction = {} /\ ResetBridge.next_generation = bridge.next_generation
         /\ \A g : Acknowledged(g) \in Bridge
                   /\ Acknowledged(g).next_generation = bridge.next_generation
<1>1. bridge \in Bridge /\ NoTree \in AllTrees
  BY TreesAreFunctions DEF Typed
<1>2. /\ ResetBridge \in Bridge /\ ResetBridge.acknowledged = NoTree
      /\ ResetBridge.transaction = {} /\ ResetBridge.next_generation = bridge.next_generation
  BY <1>1 DEF ResetBridge, Bridge
<1>3. ASSUME NEW g PROVE Acknowledged(g) \in Bridge /\ Acknowledged(g).next_generation = bridge.next_generation
  <2>1. CASE Matching(g) = {}
    BY <1>1, <2>1 DEF Acknowledged
  <2>2. CASE Matching(g) # {}
    <3> DEFINE x == CHOOSE y \in Matching(g) : TRUE
    <3>1. x \in Matching(g)
      BY <2>2
    <3>2. x \in Transaction
      BY <1>1, <3>1 DEF Matching, Bridge
    <3>3. x.candidate \in AllTrees
      BY <3>2 DEF Transaction
    <3>4. Acknowledged(g) = [bridge EXCEPT !.acknowledged = x.candidate, !.transaction = {}]
      BY <2>2 DEF Acknowledged
    <3> HIDE DEF x
    <3> QED
      BY <1>1, <3>3, <3>4 DEF Bridge
  <2> QED
    BY <2>1, <2>2
<1> QED
  BY <1>2, <1>3

LEMMA RejectedTyped ==
  ASSUME NEW br \in Bridge, NEW g
  PROVE  /\ Rejected(br, g) \in Bridge /\ Rejected(br, g).acknowledged = br.acknowledged
         /\ Rejected(br, g).next_generation = br.next_generation
         /\ Rejected(br, g).transaction
              = {IF x.in_flight /\ x.generation = g THEN [x EXCEPT !.in_flight = FALSE] ELSE x
                   : x \in br.transaction}
<1> DEFINE T == {IF x.in_flight /\ x.generation = g THEN [x EXCEPT !.in_flight = FALSE] ELSE x
                   : x \in br.transaction}
<1>1. br.transaction \in SUBSET Transaction
  BY DEF Bridge
<1>2. \A x \in Transaction : [x EXCEPT !.in_flight = FALSE] \in Transaction
  BY DEF Transaction
<1>3. T \in SUBSET Transaction
  BY <1>1, <1>2
<1>4. Rejected(br, g) = [br EXCEPT !.transaction = T]
  BY DEF Rejected
<1> HIDE DEF T
<1>5. /\ Rejected(br, g) \in Bridge /\ Rejected(br, g).acknowledged = br.acknowledged
      /\ Rejected(br, g).next_generation = br.next_generation /\ Rejected(br, g).transaction = T
  BY <1>3, <1>4 DEF Bridge
<1> QED
  BY <1>5 DEF T

LEMMA PreparedTyped ==
  ASSUME Typed, ~Exhausted, NEW x \in Transaction,
         x.generation = bridge.next_generation
  PROVE  LET br == [bridge EXCEPT !.next_generation = bridge.next_generation + 1,
                                  !.transaction = {x}]
         IN  /\ br \in Bridge /\ br.transaction = {x} /\ br.acknowledged = bridge.acknowledged
             /\ br.next_generation = bridge.next_generation + 1
<1> DEFINE n == bridge.next_generation
           br == [bridge EXCEPT !.next_generation = n + 1, !.transaction = {x}]
<1>1. bridge \in Bridge /\ n \in 1 .. MaxPublication /\ n # MaxPublication /\ MaxPublication \in Nat
  BY AccessibilityConstants DEF Typed, Bridge, Exhausted
<1>2. n + 1 \in 1 .. MaxPublication
  BY <1>1
<1> HIDE DEF n
<1> QED
  BY <1>1, <1>2 DEF Bridge, n

LEMMA PublishTyped ==
  ASSUME Typed, NEW br \in Bridge, NEW g \in Publications, NEW d \in Diffs,
         Publish(br, g, d)
  PROVE  /\ in_flight' \in BOOLEAN /\ publication' \in Publications
         /\ publication_service' \in Services /\ bridge' \in Bridge /\ uiStep' \in Step
<1>1. uiStep.service \in Services
  BY DEF Typed, TypeOK, Step
<1> DEFINE x == [generation |-> g, update |-> d, service |-> uiStep.service]
<1>2. x \in Publication
  BY <1>1 DEF Publication
<1>4. [At("post", uiStep.service) EXCEPT !.posting = {x}] \in Step
  BY <1>1, <1>2, PostIs
<1> HIDE DEF x
<1>5. CASE MayPublish(uiStep.service)
  BY <1>1, <1>4, <1>5 DEF Publish, x
<1>6. CASE ~MayPublish(uiStep.service)
  BY <1>6, IdleIs, RejectedTyped DEF Publish, Typed, TypeOK
<1> QED
  BY <1>5, <1>6

LEMMA ClearTyped ==
  ASSUME ClearFlight
  PROVE  /\ {in_flight, retry_pending, retry_requested}' \subseteq BOOLEAN
         /\ publication' \in Publications /\ publication_service' \in Services
BY Zero DEF ClearFlight

LEMMA QueueTyped ==
  ASSUME NEW S, NEW q \in Seq(S), q # <<>>
  PROVE  Head(q) \in S /\ Tail(q) \in Seq(S) /\ Len(q) \in Nat /\ Len(q) # 0
OBVIOUS

LEMMA TypedStep == Typed /\ [Next]_vars => Typed'
<1> SUFFICES ASSUME Typed, [Next]_vars PROVE Typed'
  OBVIOUS
<1> USE DEF service, flight, queues, native
<1>0. /\ TypeOK /\ bridge \in Bridge
      /\ uiStep \in Step /\ uiStep.pc \in Pcs /\ uiStep.service \in Services /\ uiStep.tree \in AllTrees
      /\ uiStep.success \in BOOLEAN /\ uiStep.posting \in SUBSET Publication
      /\ bridge.acknowledged \in AllTrees /\ bridge.transaction \in SUBSET Transaction
  BY DEF Typed, TypeOK, Step, Pcs
<1>00. \A s \in Services, pc \in Pcs : At(pc, s) \in Step
  BY AtIs
<1>01. {"idle", "publish", "ask_retry", "dispatch", "prepare", "settle", "retry",
        "reprepare", "post", "stop"} \subseteq Pcs
  BY DEF Pcs
<1>02. bridge' \in Bridge => /\ bridge'.acknowledged \in AllTrees
                             /\ bridge'.transaction \in SUBSET Transaction
                             /\ bridge'.next_generation \in 1 .. MaxPublication
  BY DEF Bridge
<1>03. ASSUME NEW kind, RunUiTask(kind)
       PROVE  Head(uiQ) \in UiTask /\ uiQ' \in Seq(UiTask)
  BY <1>0, <1>03, QueueTyped DEF RunUiTask, TypeOK
<1>04. \A t \in UiTask : /\ t.service \in Services /\ t.tree \in AllTrees
                         /\ t.generation \in Publications /\ t.success \in BOOLEAN
  BY DEF UiTask
<1>1. CASE UNCHANGED vars
  BY <1>0, <1>1 DEF vars, Typed, TypeOK
<1>2. CASE shutdown
  BY <1>0, <1>2, StopTyped DEF shutdown, Typed, TypeOK
<1>3. CASE UiStops
  BY <1>0, <1>3, StopTyped, IdleIs DEF UiStops, Typed, TypeOK
<1>4. CASE ReleaseAdapter
  BY <1>0, <1>4 DEF ReleaseAdapter, Typed, TypeOK
<1>5. ASSUME NEW t \in Trees, publish_semantics(t) PROVE Typed'
  <2>1. t \in AllTrees /\ accessibility_generation \in Services /\ "publish" \in Pcs
    BY <1>0, <1>01 DEF AllTrees, TypeOK
  <2>2. uiStep' \in Step
    BY <1>5, <2>1, AtTreeIs DEF publish_semantics
  <2> QED
    BY <1>0, <1>5, <2>2 DEF publish_semantics, Typed, TypeOK
<1>6. CASE retry_semantics
  BY <1>0, <1>00, <1>01, <1>6 DEF retry_semantics, Typed, TypeOK
<1>7. CASE PostCall
  <2>1. uiQ' \in Seq(UiTask)
    <3>1. CASE uiQ' = uiQ
      BY <1>0, <3>1 DEF TypeOK
    <3>2. CASE uiQ' # uiQ
      <4> DEFINE k == IF uiStep.pc = "publish" THEN "publish" ELSE "retry"
                 t == [TaskOf(k, uiStep.service) EXCEPT !.tree = uiStep.tree]
      <4>1. uiQ' = Append(uiQ, t)
        BY <1>7, <3>2 DEF PostCall
      <4>2. k \in Kinds
        BY DEF Kinds
      <4> HIDE DEF k
      <4>3. t \in UiTask
        BY <1>0, <4>2, CallIs
      <4> QED
        BY <1>0, <4>1, <4>3 DEF TypeOK
    <3> QED
      BY <3>1, <3>2
  <2>2. uiStep' \in Step
    BY <1>00, <1>01, <1>7, IdleIs, Zero DEF PostCall
  <2> QED
    BY <1>0, <1>7, <2>1, <2>2 DEF PostCall, Typed, TypeOK
<1>8. ASSUME NEW a \in BOOLEAN, set_accessibility_adapter(a) PROVE Typed'
  <2>1. CASE accessibility_generation = MaxService
    BY <1>0, <1>8, <2>1 DEF set_accessibility_adapter, Typed, TypeOK
  <2>2. CASE accessibility_generation # MaxService
    <3>1. accessibility_generation + 1 \in Services
      BY <1>0, <2>2, AccessibilityConstants DEF TypeOK, Services
    <3>2. ClearFlight /\ accessibility_generation' = accessibility_generation + 1 /\ adapter' = a
          /\ holder' = "post"
      BY <1>8, <2>2 DEF set_accessibility_adapter
    <3> QED
      BY <1>0, <1>8, <3>1, <3>2, ClearTyped DEF set_accessibility_adapter, Typed, TypeOK
  <2> QED
    BY <2>1, <2>2
<1>9. CASE PostReset
  <2>1. TaskOf("reset", accessibility_generation) \in UiTask
    BY <1>0, TaskIs DEF TypeOK, Kinds
  <2>2. Typed'
    <3>1. uiQ' \in Seq(UiTask)
      <4>1. uiQ \in Seq(UiTask)
        BY <1>0 DEF TypeOK
      <4>2. Append(uiQ, TaskOf("reset", accessibility_generation)) \in Seq(UiTask)
        BY <2>1, <4>1
      <4> QED
        BY <1>9, <4>1, <4>2 DEF PostReset
    <3> QED
      BY <1>0, <1>9, <3>1 DEF PostReset, Typed, TypeOK
  <2> QED
    BY <2>2
<1>10. CASE HolderStops
  BY <1>0, <1>10, StopTyped DEF HolderStops, Typed, TypeOK
<1>11. CASE PublishTask
  <2>1. Head(uiQ) \in UiTask /\ uiQ' \in Seq(UiTask)
    BY <1>03, <1>11 DEF PublishTask
  <2>2. uiStep' \in Step
    BY <1>00, <1>01, <1>11, IdleIs, Zero DEF PublishTask
  <2>3. desired_semantics' \in SUBSET AllTrees
    BY <1>0, <1>04, <1>11, <2>1 DEF PublishTask, TypeOK
  <2> QED
    BY <1>0, <1>11, <2>1, <2>2, <2>3 DEF PublishTask, Typed, TypeOK
<1>12. CASE RetryTask
  <2>1. Head(uiQ) \in UiTask /\ uiQ' \in Seq(UiTask)
    BY <1>03, <1>12 DEF RetryTask
  <2>2. uiStep' \in Step
    BY <1>00, <1>01, <1>04, <1>12, <2>1 DEF RetryTask
  <2> QED
    BY <1>0, <1>12, <2>1, <2>2 DEF RetryTask, Typed, TypeOK
<1>13. CASE ResetTask
  <2>1. uiQ' \in Seq(UiTask)
    BY <1>03, <1>13 DEF ResetTask
  <2>2. CASE ClearFlight /\ bridge' = ResetBridge /\ uiStep' = At("dispatch", 0)
    <3>1. uiStep' \in Step /\ bridge' \in Bridge
      BY <1>00, <1>01, <2>2, Zero, BridgeTyped
    <3> QED
      BY <1>0, <1>02, <1>13, <2>1, <2>2, <3>1, ClearTyped DEF ResetTask, Typed, TypeOK
  <2>3. CASE UNCHANGED <<flight, bridge, uiStep>>
    BY <1>0, <1>13, <2>1, <2>3 DEF ResetTask, Typed, TypeOK
  <2> QED
    BY <1>13, <2>2, <2>3 DEF ResetTask
<1>14. CASE StopTask
  <2>1. uiQ' \in Seq(UiTask) /\ bridge' \in Bridge
    BY <1>03, <1>14, BridgeTyped DEF StopTask
  <2> QED
    BY <1>0, <1>02, <1>14, <2>1, ClearTyped DEF StopTask, Typed, TypeOK
<1>15. CASE ResultTask
  <2>1. Head(uiQ) \in UiTask /\ uiQ' \in Seq(UiTask)
    BY <1>03, <1>15 DEF ResultTask
  <2>2. bridge' \in Bridge
    BY <1>0, <1>15, BridgeTyped, RejectedTyped DEF ResultTask
  <2>3. uiStep' \in Step
    BY <1>0, <1>04, <1>15, <2>1, SettleIs DEF ResultTask
  <2> QED
    BY <1>0, <1>02, <1>15, <2>1, <2>2, <2>3 DEF ResultTask, Typed, TypeOK
<1>16. CASE SettleResult
  <2>1. uiStep' \in Step
    BY <1>0, <1>00, <1>01, <1>16, IdleIs, Zero DEF SettleResult, AfterResult
  <2>2. retry_pending' \in BOOLEAN
    BY <1>0, <1>16 DEF SettleResult
  <2> QED
    BY <1>0, <1>16, <2>1, <2>2 DEF SettleResult, Typed, TypeOK
<1>17. CASE Dispatch
  <2>1. uiStep' \in Step
    BY <1>0, <1>01, <1>17, IdleIs, AtTreeIs DEF Dispatch, TypeOK
  <2> QED
    BY <1>0, <1>17, <2>1 DEF Dispatch, Typed, TypeOK
<1>18. CASE Retry
  <2>1. uiStep' \in Step
    BY <1>0, <1>00, <1>01, <1>18, IdleIs DEF Retry
  <2>2. retry_requested' \in BOOLEAN
    BY <1>0, <1>18 DEF Retry, TypeOK
  <2> QED
    BY <1>0, <1>18, <2>1, <2>2 DEF Retry, Typed, TypeOK
<1>190. bridge.next_generation \in Publications /\ 0 \in Services
  <2>1. bridge.next_generation \in 1 .. MaxPublication /\ MaxPublication \in Nat
    BY <1>0, AccessibilityConstants DEF TypeOK
  <2> QED
    BY <2>1, Zero DEF Publications
<1>19. CASE Prepare
  <2> DEFINE d == Diff(bridge.acknowledged, uiStep.tree)
             g == bridge.next_generation
             x == [generation |-> g, candidate |-> uiStep.tree, update |-> d, in_flight |-> TRUE]
             br == [bridge EXCEPT !.next_generation = g + 1, !.transaction = {x}]
  <2>1. d \in Diffs
    BY <1>0, DiffTurns
  <2>2. x \in Transaction /\ x.generation = g
    BY <1>0, <1>190, <2>1 DEF Transaction
  <2>3. ~Exhausted => br \in Bridge
    BY <2>2, PreparedTyped
  <2>4. \/ uiStep' = At("stop", 0) /\ UNCHANGED <<bridge, in_flight, publication, publication_service>>
        \/ uiStep' = Idle /\ UNCHANGED <<bridge, in_flight, publication, publication_service>>
        \/ ~Exhausted /\ Publish(br, g, d)
    BY <1>19 DEF Prepare
  <2>5. misled' \in BOOLEAN
    BY <1>0, <1>19 DEF Prepare, TypeOK
  <2> HIDE DEF d, g, x, br
  <2>6. /\ in_flight' \in BOOLEAN /\ publication' \in Publications
        /\ publication_service' \in Services /\ bridge' \in Bridge /\ uiStep' \in Step
    <3>1. CASE ~Exhausted /\ Publish(br, g, d)
      BY <1>190, <2>1, <2>3, <3>1, PublishTyped DEF g
    <3>2. CASE uiStep' \in {At("stop", 0), Idle} /\ UNCHANGED <<bridge, in_flight, publication, publication_service>>
      BY <1>0, <1>00, <1>01, <1>190, <3>2, IdleIs DEF TypeOK
    <3> QED
      BY <2>4, <3>1, <3>2
  <2> QED
    BY <1>0, <1>02, <1>19, <2>5, <2>6 DEF Prepare, Typed, TypeOK
<1>20. CASE Reprepare
  <2> DEFINE waiting == {x \in bridge.transaction : ~x.in_flight}
             g == bridge.next_generation
             y(x) == [x EXCEPT !.generation = g, !.in_flight = TRUE]
             br(x) == [bridge EXCEPT !.next_generation = g + 1, !.transaction = {y(x)}]
  <2>1. \A x \in Transaction : y(x) \in Transaction /\ y(x).generation = g /\ x.update \in Diffs
    BY <1>190 DEF Transaction
  <2>2. waiting \subseteq Transaction
    BY <1>0
  <2>3. \/ /\ uiStep' \in {At("stop", 0), Idle}
           /\ UNCHANGED <<bridge, in_flight, retry_pending, publication, publication_service>>
        \/ /\ ~Exhausted /\ retry_pending' = FALSE
           /\ \E x \in waiting : Publish(br(x), g, x.update)
    BY <1>20 DEF Reprepare
  <2> HIDE DEF waiting, y
  <2>4. /\ in_flight' \in BOOLEAN /\ publication' \in Publications /\ retry_pending' \in BOOLEAN
        /\ publication_service' \in Services /\ bridge' \in Bridge /\ uiStep' \in Step
    <3>1. ASSUME ~Exhausted, retry_pending' = FALSE, NEW x \in waiting, Publish(br(x), g, x.update)
          PROVE  /\ in_flight' \in BOOLEAN /\ publication' \in Publications
                 /\ retry_pending' \in BOOLEAN
                 /\ publication_service' \in Services /\ bridge' \in Bridge /\ uiStep' \in Step
      <4>1. PICK z \in Transaction : z = y(x) /\ z.generation = g /\ x.update \in Diffs
        BY <2>1, <2>2
      <4>2. br(x) \in Bridge
        BY <3>1, <4>1, PreparedTyped
      <4> QED
        BY <1>190, <3>1, <4>1, <4>2, PublishTyped
    <3>2. CASE /\ uiStep' \in {At("stop", 0), Idle}
               /\ UNCHANGED <<bridge, in_flight, retry_pending, publication, publication_service>>
      BY <1>0, <1>00, <1>01, <1>190, <3>2, IdleIs DEF TypeOK
    <3> QED
      BY <2>3, <3>1, <3>2
  <2> QED
    BY <1>0, <1>02, <1>20, <2>4 DEF Reprepare, Typed, TypeOK
<1>21. CASE PostPublication
  <2>1. PICK x \in uiStep.posting :
          \/ platQ' = Append(platQ, x) /\ uiStep' = Idle /\ UNCHANGED <<in_flight, bridge>>
          \/ /\ in_flight' = (in_flight /\ ~(publication = x.generation
                                               /\ publication_service = x.service))
             /\ bridge' = Rejected(bridge, x.generation)
             /\ uiStep' = At("stop", 0) /\ UNCHANGED platQ
    BY <1>21 DEF PostPublication
  <2>2. bridge' \in Bridge /\ uiStep' \in Step /\ platQ' \in Seq(Publication) /\ in_flight' \in BOOLEAN
    <3>1. x \in Publication /\ platQ \in Seq(Publication) /\ in_flight \in BOOLEAN
      BY <1>0 DEF TypeOK
    <3>2. At("stop", 0) \in Step /\ Idle \in Step /\ Rejected(bridge, x.generation) \in Bridge
      BY <1>0, <1>00, <1>01, <1>190, IdleIs, RejectedTyped
    <3>3. Append(platQ, x) \in Seq(Publication)
      BY <3>1
    <3> QED
      BY <1>0, <2>1, <3>1, <3>2, <3>3
  <2> QED
    BY <1>0, <1>02, <1>21, <2>2 DEF PostPublication, Typed, TypeOK
<1>22. CASE BeginApply
  <2>1. platQ' \in Seq(Publication) /\ Head(platQ) \in Publication
    BY <1>0, <1>22, QueueTyped DEF BeginApply, TypeOK
  <2>2. applying' \in SUBSET Publication
    BY <1>22, <2>1 DEF BeginApply
  <2> QED
    BY <1>0, <1>22, <2>1, <2>2 DEF BeginApply, Typed, TypeOK
<1>23. ASSUME NEW success \in BOOLEAN, EndApply(success) PROVE Typed'
  <2>1. PICK x \in applying :
          /\ applying' = {}
          /\ misled' = (misled \/ ((success /\ accessibility_generation = x.service)
                                     /\ ~Fits(x.update, model)))
          /\ \/ /\ uiQ' = Append(uiQ, [TaskOf("result", x.service) EXCEPT
                                         !.generation = x.generation, !.success = success])
                /\ UNCHANGED running
             \/ StopHost
    BY <1>23 DEF EndApply
  <2>2. x.service \in Services /\ x.generation \in Publications
    BY <1>0 DEF TypeOK, Publication
  <2>3. [TaskOf("result", x.service) EXCEPT !.generation = x.generation, !.success = success] \in UiTask
    BY <2>2, ResultIs
  <2>4. uiQ' \in Seq(UiTask) /\ running' \in BOOLEAN
    BY <1>0, <2>1, <2>3, StopTyped DEF TypeOK
  <2>5. misled' \in BOOLEAN
    BY <1>0, <2>1 DEF TypeOK
  <2> QED
    BY <1>0, <1>23, <2>1, <2>4, <2>5 DEF EndApply, Typed, TypeOK
<1> QED
  BY <1>1, <1>2, <1>3, <1>4, <1>5, <1>6, <1>7, <1>8, <1>9, <1>10, <1>11, <1>12, <1>13, <1>14,
     <1>15, <1>16, <1>17, <1>18, <1>19, <1>20, <1>21, <1>22, <1>23 DEF Next, Ui
-----------------------------------------------------------------------------
(* What the queues hold.  s is a service, p a publication, n the next one. *)
NoStop(q) == \A i \in 1 .. Len(q) : q[i].kind # "stop"
Below(q, s, n) == \A i \in 1 .. Len(q) : q[i].service <= s /\ q[i].generation < n

IsReset(t, s) == t.kind = "reset" /\ t.service = s
Unreset(q, s) == \A i \in 1 .. Len(q) : ~IsReset(q[i], s)
(* A call to publish is stale exactly if the reset of its adapter's        *)
(* successor is still behind it, or not even posted.                       *)
Ordered(q, s, posting) ==
  /\ \A j \in 1 .. Len(q) : q[j].kind = "publish" =>
       (q[j].service # s <=> posting \/ \E i \in 1 .. Len(q) : i > j /\ IsReset(q[i], s))
  /\ posting => Unreset(q, s)
  /\ \A i, j \in 1 .. Len(q) : IsReset(q[i], s) /\ IsReset(q[j], s) => i = j

IsResult(t, s, p) == t.kind = "result" /\ t.service = s /\ t.generation = p
NoResult(q, s) == \A i \in 1 .. Len(q) : q[i].kind = "result" => q[i].service # s
Unanswered(q, s, p) == \A i \in 1 .. Len(q) : ~IsResult(q[i], s, p)
OneAnswer(q, s, p) ==
  \A i, j \in 1 .. Len(q) : IsResult(q[i], s, p) /\ IsResult(q[j], s, p) => i = j
Tells(t, T, ack, tree) == IF t.success THEN \E x \in T : tree = x.candidate ELSE tree = ack
Truthful(q, s, p, T, ack, tree) ==
  \A i \in 1 .. Len(q) : IsResult(q[i], s, p) => Tells(q[i], T, ack, tree)

Carries(x, s, p) == x.service = s /\ x.generation = p
NoneOf(q, s) == \A i \in 1 .. Len(q) : q[i].service # s
Unsent(q, s, p) == \A i \in 1 .. Len(q) : ~Carries(q[i], s, p)
OneSent(q, s, p) ==
  \A i, j \in 1 .. Len(q) : Carries(q[i], s, p) /\ Carries(q[j], s, p) => i = j
Brings(x, T) == \E y \in T : x.update = y.update
AllBring(q, s, p, T) == \A i \in 1 .. Len(q) : Carries(q[i], s, p) => Brings(q[i], T)

LEMMA Grown ==
  ASSUME NEW S, NEW q \in Seq(S), NEW t \in S, NEW r, r = Append(q, t)
  PROVE  /\ r \in Seq(S) /\ Len(q) \in Nat /\ Len(r) = Len(q) + 1 /\ r[Len(q) + 1] = t
         /\ \A i \in 1 .. Len(q) : i \in 1 .. Len(r) /\ r[i] = q[i] /\ i < Len(q) + 1
         /\ \A i \in 1 .. Len(r) : i \in 1 .. Len(q) \/ i = Len(q) + 1
         /\ Len(q) + 1 \in 1 .. Len(r)
BY AppendProperties

LEMMA Shrunk ==
  ASSUME NEW S, NEW q \in Seq(S), q # <<>>, NEW r, r = Tail(q)
  PROVE  /\ r \in Seq(S) /\ Len(q) \in Nat /\ 1 \in 1 .. Len(q) /\ q[1] = Head(q)
         /\ \A i \in 1 .. Len(r) : i + 1 \in 1 .. Len(q) /\ r[i] = q[i + 1] /\ i + 1 > 1 /\ i \in Nat
         /\ \A i \in 1 .. Len(q) : i # 1 => i - 1 \in 1 .. Len(r) /\ r[i - 1] = q[i]
<1>1. /\ Len(q) \in Nat /\ Len(q) # 0 /\ Tail(q) \in Seq(S) /\ Len(Tail(q)) = Len(q) - 1
      /\ Head(q) = q[1] /\ \A i \in 1 .. Len(q) - 1 : Tail(q)[i] = q[i + 1]
  BY HeadTailProperties, EmptySeq
<1>2. PICK n \in Nat : n = Len(q) /\ n # 0 /\ Len(r) = n - 1
  BY <1>1
<1>3. \A i \in 1 .. n - 1 : i + 1 \in 1 .. n /\ i + 1 > 1 /\ i \in Nat
  BY <1>2
<1>4. \A i \in 1 .. n : i # 1 => i - 1 \in 1 .. n - 1 /\ (i - 1) + 1 = i
  BY <1>2
<1>5. 1 \in 1 .. n
  BY <1>2
<1>6. \A i \in 1 .. n - 1 : r[i] = q[i + 1]
  BY <1>1, <1>2
<1>7. \A i \in 1 .. n : i # 1 => i - 1 \in 1 .. n - 1 /\ r[i - 1] = q[i]
  <2> SUFFICES ASSUME NEW i \in 1 .. n, i # 1 PROVE i - 1 \in 1 .. n - 1 /\ r[i - 1] = q[i]
    OBVIOUS
  <2>1. PICK k \in 1 .. n - 1 : k = i - 1 /\ k + 1 = i
    BY <1>4
  <2> QED
    BY <1>6, <2>1
<1> QED
  BY <1>1, <1>2, <1>3, <1>5, <1>6, <1>7

(* One more task. *)
LEMMA GrowsStop ==
  ASSUME NEW S, NEW q \in Seq(S), NEW t \in S, NEW r, r = Append(q, t)
  PROVE  NoStop(q) /\ t.kind # "stop" => NoStop(r)
BY Grown DEF NoStop

LEMMA GrowsBelow ==
  ASSUME NEW S, NEW q \in Seq(S), NEW t \in S, NEW r, r = Append(q, t), NEW s, NEW n
  PROVE  Below(q, s, n) /\ t.service <= s /\ t.generation < n => Below(r, s, n)
BY Grown DEF Below

LEMMA GrowsOther ==
  ASSUME NEW S, NEW q \in Seq(S), NEW t \in S, NEW r, r = Append(q, t), NEW s,
         ~IsReset(t, s), t.kind = "publish" => t.service = s
  PROVE  /\ Unreset(r, s) <=> Unreset(q, s)
         /\ Ordered(q, s, FALSE) => Ordered(r, s, FALSE)
<1> DEFINE m == Len(q) + 1
<1>1. /\ Len(r) = m /\ r[m] = t /\ m \in 1 .. Len(r) /\ Len(q) \in Nat /\ m \in Nat
      /\ \A i \in 1 .. Len(q) : i \in 1 .. Len(r) /\ r[i] = q[i] /\ i < m
      /\ \A i \in 1 .. Len(r) : i \in 1 .. Len(q) \/ i = m
  BY Grown
<1> HIDE DEF m
<1>2. Unreset(r, s) <=> Unreset(q, s)
  BY <1>1 DEF Unreset
<1>3. ASSUME Ordered(q, s, FALSE) PROVE Ordered(r, s, FALSE)
  <2>1. \A i \in 1 .. Len(r) : IsReset(r[i], s) => i \in 1 .. Len(q) /\ IsReset(q[i], s)
    BY <1>1
  <2>2. \A i, j \in 1 .. Len(r) : IsReset(r[i], s) /\ IsReset(r[j], s) => i = j
    BY <1>3, <2>1 DEF Ordered
  <2>3. ASSUME NEW j \in 1 .. Len(r), r[j].kind = "publish"
        PROVE  r[j].service # s <=> \E i \in 1 .. Len(r) : i > j /\ IsReset(r[i], s)
    <3>1. CASE j \in 1 .. Len(q)
      <4>1. q[j].service # s <=> \E i \in 1 .. Len(q) : i > j /\ IsReset(q[i], s)
        BY <1>1, <1>3, <2>3, <3>1 DEF Ordered
      <4>2. (\E i \in 1 .. Len(q) : i > j /\ IsReset(q[i], s))
              <=> (\E i \in 1 .. Len(r) : i > j /\ IsReset(r[i], s))
        BY <1>1, <2>1
      <4> QED
        BY <1>1, <3>1, <4>1, <4>2
    <3>2. CASE j = m
      <4>1. \A i \in 1 .. Len(r) : ~(i > m /\ IsReset(r[i], s))
        BY <1>1, <2>1
      <4> QED
        BY <1>1, <2>3, <3>2, <4>1
    <3> QED
      BY <1>1, <3>1, <3>2
  <2> QED
    BY <2>2, <2>3 DEF Ordered
<1> QED
  BY <1>2, <1>3

LEMMA GrowsReset ==
  ASSUME NEW S, NEW q \in Seq(S), NEW t \in S, NEW r, r = Append(q, t), NEW s,
         IsReset(t, s), Ordered(q, s, TRUE)
  PROVE  ~Unreset(r, s) /\ Ordered(r, s, FALSE)
<1> DEFINE m == Len(q) + 1
<1>1. /\ Len(r) = m /\ r[m] = t /\ m \in 1 .. Len(r) /\ Len(q) \in Nat /\ m \in Nat
      /\ \A i \in 1 .. Len(q) : i \in 1 .. Len(r) /\ r[i] = q[i] /\ i < m
      /\ \A i \in 1 .. Len(r) : i \in 1 .. Len(q) \/ i = m
  BY Grown
<1> HIDE DEF m
<1>2. \A i \in 1 .. Len(q) : ~IsReset(q[i], s)
  BY DEF Ordered, Unreset
<1>3. \A i \in 1 .. Len(r) : IsReset(r[i], s) => i = m
  BY <1>1, <1>2
<1>4. ~Unreset(r, s)
  BY <1>1 DEF Unreset
<1>5. ASSUME NEW j \in 1 .. Len(r), r[j].kind = "publish"
      PROVE  r[j].service # s /\ m > j
  <2>1. j # m
    BY <1>1, <1>5 DEF IsReset
  <2> QED
    BY <1>1, <1>5, <2>1 DEF Ordered
<1> QED
  BY <1>1, <1>3, <1>4, <1>5 DEF Ordered

LEMMA GrowsQuiet ==
  ASSUME NEW S, NEW q \in Seq(S), NEW t \in S, NEW r, r = Append(q, t), NEW s, NEW p,
         NEW T, NEW ack, NEW tree
  PROVE  /\ NoResult(q, s) /\ (t.kind # "result" \/ t.service # s) => NoResult(r, s)
         /\ ~IsResult(t, s, p) =>
              /\ Unanswered(r, s, p) <=> Unanswered(q, s, p)
              /\ OneAnswer(q, s, p) => OneAnswer(r, s, p)
              /\ Truthful(q, s, p, T, ack, tree) => Truthful(r, s, p, T, ack, tree)
         /\ IsResult(t, s, p) /\ Unanswered(q, s, p) =>
              /\ ~Unanswered(r, s, p) /\ OneAnswer(r, s, p)
              /\ Tells(t, T, ack, tree) => Truthful(r, s, p, T, ack, tree)
<1> DEFINE m == Len(q) + 1
<1>1. /\ r[m] = t /\ m \in 1 .. Len(r)
      /\ \A i \in 1 .. Len(q) : i \in 1 .. Len(r) /\ r[i] = q[i]
      /\ \A i \in 1 .. Len(r) : i \in 1 .. Len(q) \/ i = m
  BY Grown
<1> HIDE DEF m
<1>2. NoResult(q, s) /\ (t.kind # "result" \/ t.service # s) => NoResult(r, s)
  BY <1>1 DEF NoResult
<1>3. ASSUME ~IsResult(t, s, p)
      PROVE  /\ Unanswered(r, s, p) <=> Unanswered(q, s, p)
             /\ OneAnswer(q, s, p) => OneAnswer(r, s, p)
             /\ Truthful(q, s, p, T, ack, tree) => Truthful(r, s, p, T, ack, tree)
  <2>1. \A i \in 1 .. Len(r) : IsResult(r[i], s, p) => i \in 1 .. Len(q) /\ IsResult(q[i], s, p)
    BY <1>1, <1>3
  <2>2. Unanswered(r, s, p) <=> Unanswered(q, s, p)
    BY <1>1, <2>1 DEF Unanswered
  <2>3. OneAnswer(q, s, p) => OneAnswer(r, s, p)
    BY <2>1 DEF OneAnswer
  <2>4. Truthful(q, s, p, T, ack, tree) => Truthful(r, s, p, T, ack, tree)
    BY <1>1, <2>1 DEF Truthful
  <2> QED
    BY <2>2, <2>3, <2>4
<1>4. ASSUME IsResult(t, s, p), Unanswered(q, s, p)
      PROVE  /\ ~Unanswered(r, s, p) /\ OneAnswer(r, s, p)
             /\ Tells(t, T, ack, tree) => Truthful(r, s, p, T, ack, tree)
  <2>1. \A i \in 1 .. Len(r) : IsResult(r[i], s, p) => i = m
    BY <1>1, <1>4 DEF Unanswered
  <2>2. ~Unanswered(r, s, p) /\ OneAnswer(r, s, p)
    BY <1>1, <1>4, <2>1 DEF Unanswered, OneAnswer
  <2>3. Tells(t, T, ack, tree) => Truthful(r, s, p, T, ack, tree)
    BY <1>1, <2>1 DEF Truthful
  <2> QED
    BY <2>2, <2>3
<1> QED
  BY <1>2, <1>3, <1>4

LEMMA GrowsSent ==
  ASSUME NEW S, NEW q \in Seq(S), NEW t \in S, NEW r, r = Append(q, t), NEW s, NEW p, NEW T
  PROVE  /\ Carries(t, s, p) /\ Unsent(q, s, p) =>
              /\ ~Unsent(r, s, p) /\ OneSent(r, s, p)
              /\ Brings(t, T) => AllBring(r, s, p, T)
<1> DEFINE m == Len(q) + 1
<1>1. /\ r[m] = t /\ m \in 1 .. Len(r)
      /\ \A i \in 1 .. Len(q) : i \in 1 .. Len(r) /\ r[i] = q[i]
      /\ \A i \in 1 .. Len(r) : i \in 1 .. Len(q) \/ i = m
  BY Grown
<1> HIDE DEF m
<1>2. SUFFICES ASSUME Carries(t, s, p), Unsent(q, s, p)
               PROVE  /\ ~Unsent(r, s, p) /\ OneSent(r, s, p)
                      /\ Brings(t, T) => AllBring(r, s, p, T)
  OBVIOUS
<1>3. \A i \in 1 .. Len(r) : Carries(r[i], s, p) => i = m
  BY <1>1, <1>2 DEF Unsent
<1>4. ~Unsent(r, s, p) /\ OneSent(r, s, p)
  BY <1>1, <1>2, <1>3 DEF Unsent, OneSent
<1>5. Brings(t, T) => AllBring(r, s, p, T)
  BY <1>1, <1>3 DEF AllBring
<1> QED
  BY <1>4, <1>5

(* The first task leaves. *)
LEMMA ShrinksPlain ==
  ASSUME NEW S, NEW q \in Seq(S), q # <<>>, NEW r, r = Tail(q), NEW s, NEW n
  PROVE  /\ NoStop(q) => NoStop(r) /\ Head(q).kind # "stop"
         /\ Below(q, s, n) => Below(r, s, n) /\ Head(q).service <= s /\ Head(q).generation < n
         /\ NoResult(q, s) => NoResult(r, s)
         /\ NoneOf(q, s) => NoneOf(r, s) /\ Head(q).service # s
         /\ Unreset(q, s) => Unreset(r, s) /\ ~IsReset(Head(q), s)
         /\ ~IsReset(Head(q), s) /\ Unreset(r, s) => Unreset(q, s)
<1>1. /\ 1 \in 1 .. Len(q) /\ q[1] = Head(q)
      /\ \A i \in 1 .. Len(r) : i + 1 \in 1 .. Len(q) /\ r[i] = q[i + 1]
      /\ \A i \in 1 .. Len(q) : i # 1 => i - 1 \in 1 .. Len(r) /\ r[i - 1] = q[i]
  BY Shrunk
<1>2. NoStop(q) => NoStop(r) /\ Head(q).kind # "stop"
  BY <1>1 DEF NoStop
<1>3. Below(q, s, n) => Below(r, s, n) /\ Head(q).service <= s /\ Head(q).generation < n
  BY <1>1 DEF Below
<1>4. NoResult(q, s) => NoResult(r, s)
  BY <1>1 DEF NoResult
<1>5. NoneOf(q, s) => NoneOf(r, s) /\ Head(q).service # s
  BY <1>1 DEF NoneOf
<1>6. Unreset(q, s) => Unreset(r, s) /\ ~IsReset(Head(q), s)
  BY <1>1 DEF Unreset
<1>7. ~IsReset(Head(q), s) /\ Unreset(r, s) => Unreset(q, s)
  BY <1>1 DEF Unreset
<1> QED
  BY <1>2, <1>3, <1>4, <1>5, <1>6, <1>7

LEMMA ShrinksOrdered ==
  ASSUME NEW S, NEW q \in Seq(S), q # <<>>, NEW r, r = Tail(q), NEW s, Ordered(q, s, FALSE)
  PROVE  /\ Ordered(r, s, FALSE)
         /\ IsReset(Head(q), s) => Unreset(r, s)
         /\ Head(q).kind = "publish" => (Head(q).service = s <=> Unreset(r, s))
<1>1. /\ 1 \in 1 .. Len(q) /\ q[1] = Head(q) /\ Len(q) \in Nat
      /\ \A i \in 1 .. Len(r) : i + 1 \in 1 .. Len(q) /\ r[i] = q[i + 1] /\ i + 1 > 1 /\ i \in Nat
      /\ \A i \in 1 .. Len(q) : i # 1 => i - 1 \in 1 .. Len(r) /\ r[i - 1] = q[i]
  BY Shrunk
<1>2. \A i, j \in 1 .. Len(q) : IsReset(q[i], s) /\ IsReset(q[j], s) => i = j
  BY DEF Ordered
<1>3. \A i, j \in 1 .. Len(r) : IsReset(r[i], s) /\ IsReset(r[j], s) => i = j
  <2> SUFFICES ASSUME NEW i \in 1 .. Len(r), NEW j \in 1 .. Len(r), IsReset(r[i], s), IsReset(r[j], s)
               PROVE  i = j
    OBVIOUS
  <2>1. i + 1 = j + 1
    BY <1>1, <1>2
  <2> QED
    BY <1>1, <2>1
<1>4. IsReset(Head(q), s) => Unreset(r, s)
  <2> SUFFICES ASSUME IsReset(q[1], s), NEW i \in 1 .. Len(r), IsReset(r[i], s) PROVE FALSE
    BY <1>1 DEF Unreset
  <2>1. i + 1 = 1
    BY <1>1, <1>2
  <2> QED
    BY <1>1, <2>1
<1>5. ASSUME NEW j \in 1 .. Len(r)
      PROVE  (\E i \in 1 .. Len(r) : i > j /\ IsReset(r[i], s))
               <=> (\E i \in 1 .. Len(q) : i > j + 1 /\ IsReset(q[i], s))
  <2>1. ASSUME NEW i \in 1 .. Len(r), i > j, IsReset(r[i], s)
        PROVE  \E k \in 1 .. Len(q) : k > j + 1 /\ IsReset(q[k], s)
    <3>1. i + 1 \in 1 .. Len(q) /\ i + 1 > j + 1 /\ IsReset(q[i + 1], s)
      BY <1>1, <2>1
    <3> QED
      BY <3>1
  <2>2. ASSUME NEW k \in 1 .. Len(q), k > j + 1, IsReset(q[k], s)
        PROVE  \E i \in 1 .. Len(r) : i > j /\ IsReset(r[i], s)
    <3>1. k # 1 /\ k - 1 > j
      BY <1>1, <2>2
    <3>2. k - 1 \in 1 .. Len(r) /\ IsReset(r[k - 1], s)
      BY <1>1, <2>2, <3>1
    <3> QED
      BY <3>1, <3>2
  <2> QED
    BY <2>1, <2>2
<1>6. ASSUME NEW j \in 1 .. Len(r), r[j].kind = "publish"
      PROVE  r[j].service # s <=> \E i \in 1 .. Len(r) : i > j /\ IsReset(r[i], s)
  <2>1. PICK k \in 1 .. Len(q) : k = j + 1 /\ r[j] = q[k]
    BY <1>1
  <2>2. q[k].service # s <=> \E i \in 1 .. Len(q) : i > k /\ IsReset(q[i], s)
    BY <1>6, <2>1 DEF Ordered
  <2> QED
    BY <1>5, <2>1, <2>2
<1>7. ASSUME Head(q).kind = "publish" PROVE Head(q).service = s <=> Unreset(r, s)
  <2>1. Head(q).service # s <=> \E i \in 1 .. Len(q) : i > 1 /\ IsReset(q[i], s)
    BY <1>1, <1>7 DEF Ordered
  <2>2. (\E i \in 1 .. Len(q) : i > 1 /\ IsReset(q[i], s)) <=> ~Unreset(r, s)
    <3>1. ASSUME NEW i \in 1 .. Len(q), i > 1, IsReset(q[i], s) PROVE ~Unreset(r, s)
      <4>1. i # 1
        BY <3>1
      <4>2. PICK k \in 1 .. Len(r) : r[k] = q[i]
        BY <1>1, <4>1
      <4> QED
        BY <3>1, <4>2 DEF Unreset
    <3>2. ASSUME NEW i \in 1 .. Len(r), IsReset(r[i], s)
          PROVE  \E k \in 1 .. Len(q) : k > 1 /\ IsReset(q[k], s)
      BY <1>1, <3>2
    <3> QED
      BY <3>1, <3>2 DEF Unreset
  <2> QED
    BY <2>1, <2>2
<1> QED
  BY <1>3, <1>4, <1>6, <1>7 DEF Ordered

LEMMA ShrinksAnswers ==
  ASSUME NEW S, NEW q \in Seq(S), q # <<>>, NEW r, r = Tail(q), NEW s, NEW p,
         NEW T, NEW ack, NEW tree
  PROVE  /\ OneAnswer(q, s, p) => OneAnswer(r, s, p)
         /\ Truthful(q, s, p, T, ack, tree) =>
              Truthful(r, s, p, T, ack, tree) /\ (IsResult(Head(q), s, p) => Tells(Head(q), T, ack, tree))
         /\ ~IsResult(Head(q), s, p) => (Unanswered(r, s, p) <=> Unanswered(q, s, p))
         /\ IsResult(Head(q), s, p) => ~Unanswered(q, s, p)
<1>1. /\ 1 \in 1 .. Len(q) /\ q[1] = Head(q) /\ Len(q) \in Nat
      /\ \A i \in 1 .. Len(r) : i + 1 \in 1 .. Len(q) /\ r[i] = q[i + 1] /\ i + 1 > 1 /\ i \in Nat
      /\ \A i \in 1 .. Len(q) : i # 1 => i - 1 \in 1 .. Len(r) /\ r[i - 1] = q[i]
  BY Shrunk
<1>2. ASSUME OneAnswer(q, s, p) PROVE OneAnswer(r, s, p)
  <2> SUFFICES ASSUME NEW i \in 1 .. Len(r), NEW j \in 1 .. Len(r), IsResult(r[i], s, p), IsResult(r[j], s, p)
               PROVE  i = j
    BY DEF OneAnswer
  <2>1. i + 1 = j + 1
    BY <1>1, <1>2 DEF OneAnswer
  <2> QED
    BY <1>1, <2>1
<1>3. ASSUME Truthful(q, s, p, T, ack, tree)
      PROVE  Truthful(r, s, p, T, ack, tree) /\ (IsResult(Head(q), s, p) => Tells(Head(q), T, ack, tree))
  BY <1>1, <1>3 DEF Truthful
<1>4. ~IsResult(Head(q), s, p) => (Unanswered(r, s, p) <=> Unanswered(q, s, p))
  BY <1>1 DEF Unanswered
<1>5. IsResult(Head(q), s, p) => ~Unanswered(q, s, p)
  BY <1>1 DEF Unanswered
<1> QED
  BY <1>2, <1>3, <1>4, <1>5

LEMMA ShrinksSent ==
  ASSUME NEW S, NEW q \in Seq(S), q # <<>>, NEW r, r = Tail(q), NEW s, NEW p, NEW T
  PROVE  /\ OneSent(q, s, p) => OneSent(r, s, p) /\ (Carries(Head(q), s, p) => Unsent(r, s, p))
         /\ AllBring(q, s, p, T) => AllBring(r, s, p, T) /\ (Carries(Head(q), s, p) => Brings(Head(q), T))
         /\ ~Carries(Head(q), s, p) => (Unsent(r, s, p) <=> Unsent(q, s, p))
         /\ Carries(Head(q), s, p) => ~Unsent(q, s, p)
<1>1. /\ 1 \in 1 .. Len(q) /\ q[1] = Head(q) /\ Len(q) \in Nat
      /\ \A i \in 1 .. Len(r) : i + 1 \in 1 .. Len(q) /\ r[i] = q[i + 1] /\ i + 1 > 1 /\ i \in Nat
      /\ \A i \in 1 .. Len(q) : i # 1 => i - 1 \in 1 .. Len(r) /\ r[i - 1] = q[i]
  BY Shrunk
<1>2. ASSUME OneSent(q, s, p) PROVE OneSent(r, s, p) /\ (Carries(Head(q), s, p) => Unsent(r, s, p))
  <2>1. ASSUME NEW i \in 1 .. Len(r), NEW j \in 1 .. Len(r), Carries(r[i], s, p), Carries(r[j], s, p)
        PROVE  i = j
    <3>1. i + 1 = j + 1
      BY <1>1, <1>2, <2>1 DEF OneSent
    <3> QED
      BY <1>1, <3>1
  <2>2. ASSUME Carries(q[1], s, p), NEW i \in 1 .. Len(r), Carries(r[i], s, p) PROVE FALSE
    <3>1. i + 1 = 1
      BY <1>1, <1>2, <2>2 DEF OneSent
    <3> QED
      BY <1>1, <3>1
  <2> QED
    BY <1>1, <2>1, <2>2 DEF OneSent, Unsent
<1>3. ASSUME AllBring(q, s, p, T)
      PROVE  AllBring(r, s, p, T) /\ (Carries(Head(q), s, p) => Brings(Head(q), T))
  BY <1>1, <1>3 DEF AllBring
<1>4. ~Carries(Head(q), s, p) => (Unsent(r, s, p) <=> Unsent(q, s, p))
  BY <1>1 DEF Unsent
<1>5. Carries(Head(q), s, p) => ~Unsent(q, s, p)
  BY <1>1 DEF Unsent
<1> QED
  BY <1>2, <1>3, <1>4, <1>5
-----------------------------------------------------------------------------
(***************************************************************************)
(* The inductive invariant.  Once the host stops, only the first part is   *)
(* left of it.  Until then, either the reset of the bridge for the current *)
(* adapter is still to come and nothing of that adapter is under way       *)
(* (AwaitClean), or the bridge and the adapter agree up to the one         *)
(* publication in flight (Synced), which is in exactly one place (Places). *)
(***************************************************************************)
Alive == running /\ holder # "stop" /\ uiStep.pc # "stop"
Gen == accessibility_generation
Ack == bridge.acknowledged
Txn == bridge.transaction
Awaiting == holder = "post" \/ ~Unreset(uiQ, Gen)
One(S) == \A x, y \in S : x = y

Turns ==
  /\ uiStep.pc = "idle" => uiStep = Idle
  /\ uiStep # Idle => applying = {} /\ holder = "idle"
  /\ uiStep.pc # "post" => uiStep.posting = {}
  /\ One(uiStep.posting) /\ One(applying) /\ One(desired_semantics)
  /\ running => NoStop(uiQ)
Older ==
  /\ uiStep.service <= Gen
  /\ \A x \in applying \cup uiStep.posting :
       x.service <= Gen /\ x.generation < bridge.next_generation
  /\ Below(platQ, Gen, bridge.next_generation)
  /\ Below(uiQ, Gen, bridge.next_generation)
ApplyFits == \A x \in applying : x.service = Gen => Fits(x.update, model)
PrepareFree == uiStep.pc = "prepare" => Txn = {}
Base == ~misled /\ Turns /\ Older /\ ApplyFits /\ PrepareFree

OrderInv ==
  /\ Ordered(uiQ, Gen, holder = "post")
  /\ uiStep.pc \in {"publish", "prepare", "reprepare", "settle"} => uiStep.service = Gen

Calls == {"idle", "publish", "ask_retry", "retry"}
AwaitClean ==
  /\ ~in_flight /\ ~retry_pending /\ ~retry_requested
  /\ uiStep.pc \in Calls
  /\ model = NoTree
  /\ \A x \in applying : x.service # Gen
  /\ NoneOf(platQ, Gen) /\ NoResult(uiQ, Gen)

Synced ==
  /\ One(Txn) /\ \A x \in Txn : x.update = Diff(Ack, x.candidate)
  /\ retry_requested => in_flight
  /\ in_flight => ~retry_pending /\ adapter /\ publication_service = Gen
  /\ uiStep.pc = "settle" =>
       /\ in_flight /\ model = Ack
       /\ IF uiStep.success THEN Txn = {} ELSE \E x \in Txn : ~x.in_flight
  /\ uiStep.pc # "settle" /\ in_flight =>
       /\ uiStep.pc \notin {"prepare", "reprepare"}
       /\ \E x \in Txn : x.in_flight /\ x.generation = publication
  /\ ~in_flight /\ retry_pending =>
       /\ \E x \in Txn : ~x.in_flight
       /\ model = Ack /\ uiStep.pc # "prepare" /\ publication_service = Gen
  /\ ~in_flight /\ ~retry_pending => Txn = {} /\ model = Ack /\ uiStep.pc # "reprepare"
  /\ uiStep.pc \in {"prepare", "reprepare"} => adapter

InPost == uiStep.pc = "post" /\ \E y \in uiStep.posting : Carries(y, Gen, publication)
InPlatform == ~Unsent(platQ, Gen, publication)
InApply == \E y \in applying : Carries(y, Gen, publication)
InResult == ~Unanswered(uiQ, Gen, publication)
Places ==
  /\ uiStep.pc = "post" => InPost
  /\ InPost => ~InPlatform /\ ~InApply /\ ~InResult
  /\ InPlatform => ~InApply /\ ~InResult
  /\ InApply => ~InResult
  /\ InPost \/ InPlatform \/ InApply \/ InResult
  /\ OneSent(platQ, Gen, publication) /\ OneAnswer(uiQ, Gen, publication)
  /\ \A y \in applying \cup uiStep.posting : Carries(y, Gen, publication) => Brings(y, Txn)
  /\ AllBring(platQ, Gen, publication, Txn)
  /\ ~InResult => model = Ack
  /\ Truthful(uiQ, Gen, publication, Txn, Ack, model)
AppliesCurrent == \A x \in applying : x.service = Gen => in_flight /\ publication = x.generation
Wanted ==
  /\ uiStep.pc = "prepare" => uiStep.tree \in desired_semantics
  /\ adapter /\ ~in_flight /\ ~retry_pending /\ uiStep.pc \notin {"dispatch", "prepare"} =>
       \A t \in desired_semantics : t = Ack
Current ==
  /\ Synced /\ AppliesCurrent /\ Wanted
  /\ in_flight /\ uiStep.pc # "settle" => Places

Inv ==
  /\ Base
  /\ Alive => /\ OrderInv
              /\ Awaiting => AwaitClean
              /\ ~Awaiting => Current

(* What the types say of the numbers and of the queues. *)
LEMMA Counted ==
  ASSUME Typed
  PROVE  /\ uiQ \in Seq(UiTask) /\ platQ \in Seq(Publication)
         /\ Gen \in Services /\ Gen \in Nat /\ bridge.next_generation \in Nat
         /\ bridge.next_generation >= 1 /\ uiStep.service \in Services
         /\ uiStep.pc \in Pcs /\ uiStep.tree \in AllTrees /\ uiStep.success \in BOOLEAN
         /\ uiStep.posting \in SUBSET Publication /\ applying \in SUBSET Publication
         /\ bridge.next_generation \in Publications
<1>1. /\ uiQ \in Seq(UiTask) /\ platQ \in Seq(Publication) /\ uiStep \in Step
      /\ Gen \in Services /\ bridge.next_generation \in 1 .. MaxPublication
      /\ applying \in SUBSET Publication
  BY DEF Typed, TypeOK, Gen
<1>2. /\ uiStep.service \in Services /\ uiStep.pc \in Pcs /\ uiStep.tree \in AllTrees
      /\ uiStep.success \in BOOLEAN /\ uiStep.posting \in SUBSET Publication
  BY <1>1 DEF Step, Pcs
<1>3. MaxService \in Nat /\ MaxPublication \in Nat
  BY AccessibilityConstants
<1>4. Gen \in Nat /\ bridge.next_generation \in Nat /\ bridge.next_generation >= 1
      /\ bridge.next_generation \in Publications
  BY <1>1, <1>3 DEF Services, Publications
<1> QED
  BY <1>1, <1>2, <1>4

LEMMA Numbers ==
  /\ \A s \in Services : s \in Nat
  /\ \A x \in Publication : /\ x.service \in Services /\ x.generation \in Publications
                            /\ x.update \in Diffs
  /\ \A t \in UiTask : /\ t.service \in Services /\ t.generation \in Publications
                       /\ t.tree \in AllTrees /\ t.success \in BOOLEAN
BY AccessibilityConstants DEF Services, Publications, Publication, UiTask

LEMMA StopsBelow ==
  ASSUME Typed, StopHost, Below(uiQ, Gen, bridge.next_generation)
  PROVE  Below(uiQ', Gen, bridge.next_generation)
<1>1. /\ TaskOf("stop", 0) \in UiTask /\ TaskOf("stop", 0).service = 0
      /\ TaskOf("stop", 0).generation = 0
  BY TaskIs, Zero DEF Kinds
<1>2. CASE uiQ' = uiQ
  BY <1>2
<1>3. CASE uiQ' = Append(uiQ, TaskOf("stop", 0))
  <2>1. 0 <= Gen /\ 0 < bridge.next_generation /\ uiQ \in Seq(UiTask)
    BY Counted
  <2>2. PICK t \in UiTask : uiQ' = Append(uiQ, t) /\ t.service = 0 /\ t.generation = 0
    BY <1>1, <1>3
  <2> QED
    BY <2>1, <2>2, GrowsBelow
<1> QED
  BY <1>2, <1>3 DEF StopHost

LEMMA StopKeeps ==
  ASSUME Typed, Inv, StopHost, uiStep' \in {uiStep, Idle}, holder' \in {holder, "idle"},
         UNCHANGED <<service, flight, desired_semantics, bridge, platQ, native>>
  PROVE  Inv'
<1> USE DEF service, flight, native, Gen, Ack, Txn
<1>0. Base
  BY DEF Inv
<1>1. ~running'
  BY DEF StopHost
<1>2. Turns'
  BY <1>0, <1>1, IdleIs DEF Base, Turns, One
<1>3. Below(uiQ', Gen, bridge.next_generation)
  BY <1>0, StopsBelow DEF Base, Older
<1>4. uiStep'.service <= Gen /\ uiStep'.posting \subseteq uiStep.posting
  BY <1>0, Counted, IdleIs DEF Base, Older
<1>5. Older'
  BY <1>0, <1>3, <1>4 DEF Base, Older
<1>6. ~misled' /\ ApplyFits' /\ PrepareFree'
  BY <1>0, IdleIs DEF Base, ApplyFits, PrepareFree
<1> QED
  BY <1>1, <1>2, <1>5, <1>6 DEF Inv, Base, Alive

LEMMA ReleaseKeeps ==
  ASSUME Inv, ReleaseAdapter
  PROVE  Inv'
<1> USE DEF service, flight, native, queues, Gen, Ack, Txn
<1>1. Base /\ ~running'
  BY DEF Inv, ReleaseAdapter
<1>2. Base'
  BY <1>1 DEF ReleaseAdapter, Base, Turns, Older, ApplyFits, PrepareFree
<1> QED
  BY <1>1, <1>2 DEF Inv, Alive

(* From one place between two tasks to another, nothing else moves. *)
LEMMA CallsKeep ==
  ASSUME Inv, uiStep.pc \in Calls, uiStep'.pc \in Calls,
         uiStep'.posting = {}, uiStep'.service <= Gen,
         uiStep'.pc = "idle" => uiStep' = Idle,
         uiStep'.pc = "publish" => uiStep'.service = Gen,
         applying = {}, holder = "idle",
         UNCHANGED <<running, service, flight, bridge, holder, platQ, native>>,
         One(desired_semantics'), Alive /\ ~Awaiting => desired_semantics' = desired_semantics,
         NoStop(uiQ) => NoStop(uiQ'),
         Below(uiQ, Gen, bridge.next_generation) => Below(uiQ', Gen, bridge.next_generation),
         Unreset(uiQ', Gen) <=> Unreset(uiQ, Gen),
         Ordered(uiQ, Gen, FALSE) => Ordered(uiQ', Gen, FALSE),
         NoResult(uiQ, Gen) => NoResult(uiQ', Gen),
         in_flight /\ ~Awaiting /\ Alive =>
           /\ Unanswered(uiQ', Gen, publication) <=> Unanswered(uiQ, Gen, publication)
           /\ OneAnswer(uiQ, Gen, publication) => OneAnswer(uiQ', Gen, publication)
           /\ Truthful(uiQ, Gen, publication, Txn, Ack, model)
                => Truthful(uiQ', Gen, publication, Txn, Ack, model)
  PROVE  Inv'
<1> USE DEF service, flight, native, Gen, Ack, Txn
<1>0. Base /\ uiStep.posting = {}
  BY DEF Inv, Base, Turns, Calls
<1>1. Turns'
  BY <1>0 DEF Base, Turns, One, Calls
<1>2. Older'
  BY <1>0 DEF Base, Older
<1>3. ~misled' /\ ApplyFits' /\ PrepareFree'
  BY <1>0 DEF Base, ApplyFits, PrepareFree, Calls
<1>4. SUFFICES ASSUME Alive'
               PROVE  OrderInv' /\ (Awaiting' => AwaitClean') /\ (~Awaiting' => Current')
  BY <1>1, <1>2, <1>3 DEF Inv, Base
<1>5. Alive /\ (Awaiting' <=> Awaiting)
  BY <1>4 DEF Alive, Awaiting, Calls
<1>6. OrderInv'
  <2>1. Ordered(uiQ, Gen, FALSE)
    <3>1. (holder = "post") = FALSE
      OBVIOUS
    <3> QED
      BY <1>5, <3>1 DEF Inv, OrderInv
  <2>2. Ordered(uiQ', Gen', FALSE) /\ (holder' = "post") = FALSE
    BY <2>1
  <2> QED
    BY <2>2 DEF OrderInv, Calls
<1>7. ASSUME Awaiting PROVE AwaitClean'
  BY <1>5, <1>7 DEF Inv, AwaitClean
<1>8. ASSUME ~Awaiting PROVE Current'
  <2>0. Current
    BY <1>5, <1>8 DEF Inv
  <2>1. Synced' /\ AppliesCurrent' /\ Wanted'
    BY <1>5, <1>8, <2>0 DEF Current, Synced, AppliesCurrent, Wanted, Calls
  <2>2. ASSUME in_flight' PROVE Places'
    <3>1. Places
      BY <2>0, <2>2 DEF Current, Calls
    <3>2. /\ ~InPost /\ ~InPost' /\ (InPlatform' <=> InPlatform) /\ (InApply' <=> InApply)
          /\ (InResult' <=> InResult)
      BY <1>5, <1>8, <2>2 DEF InPost, InPlatform, InApply, InResult, Calls
    <3>3. /\ OneSent(platQ', Gen', publication') /\ OneAnswer(uiQ', Gen', publication')
          /\ AllBring(platQ', Gen', publication', Txn')
          /\ Truthful(uiQ', Gen', publication', Txn', Ack', model')
      BY <1>5, <1>8, <2>2, <3>1 DEF Places
    <3> QED
      BY <1>0, <3>1, <3>2, <3>3 DEF Places, Calls
  <2> QED
    BY <2>1, <2>2 DEF Current
<1> QED
  BY <1>5, <1>6, <1>7, <1>8

LEMMA HaltKeeps ==
  ASSUME Typed, Inv, uiStep' = At("stop", 0), applying = {}, holder = "idle", ~misled',
         bridge'.next_generation = bridge.next_generation,
         UNCHANGED <<running, service, desired_semantics, holder, queues, applying, model>>
  PROVE  Inv'
<1> USE DEF service, flight, native, queues, Gen, Ack, Txn
<1>0. Base
  BY DEF Inv
<1>1. /\ uiStep'.pc = "stop" /\ uiStep'.service = 0 /\ uiStep'.posting = {}
      /\ uiStep'.service <= Gen
  BY AtIs, Zero, Counted DEF Pcs
<1>2. Turns' /\ Older' /\ ApplyFits' /\ PrepareFree'
  BY <1>0, <1>1 DEF Base, Turns, One, Older, ApplyFits, PrepareFree
<1> QED
  BY <1>1, <1>2 DEF Inv, Base, Alive

LEMMA AskKeeps ==
  ASSUME CoLocated, Typed, Inv, retry_semantics \/ \E t \in Trees : publish_semantics(t)
  PROVE  Inv'
<1> USE DEF service, flight, native, queues, Gen
<1>1. /\ uiStep = Idle /\ applying = {} /\ holder = "idle" /\ Idle.pc = "idle"
      /\ UNCHANGED <<running, service, flight, desired_semantics, bridge, holder, queues, native>>
  BY IdleIs DEF publish_semantics, retry_semantics, UiTurn
<1>2. uiStep'.pc \in {"publish", "ask_retry"} /\ uiStep'.service = Gen /\ uiStep'.posting = {}
  <2>1. Trees \subseteq AllTrees /\ Gen \in Services /\ "publish" \in Pcs /\ "ask_retry" \in Pcs
    BY Counted DEF AllTrees, Pcs
  <2>2. ASSUME NEW t \in Trees, publish_semantics(t)
        PROVE  uiStep'.pc \in {"publish", "ask_retry"} /\ uiStep'.service = Gen /\ uiStep'.posting = {}
    BY <2>1, <2>2, AtTreeIs DEF publish_semantics
  <2>3. CASE retry_semantics
    BY <2>1, <2>3, AtIs DEF retry_semantics
  <2> QED
    BY <2>2, <2>3
<1>3. uiStep'.service <= Gen /\ One(desired_semantics')
  BY <1>1, <1>2, Counted DEF Inv, Base, Turns
<1> QED
  BY <1>1, <1>2, <1>3, CallsKeep DEF Calls

LEMMA PostCallKeeps ==
  ASSUME CoLocated, Typed, Inv, PostCall
  PROVE  Inv'
<1> USE DEF service, flight, native, queues, Gen
<1>1. /\ uiStep.pc \in {"publish", "ask_retry"} /\ applying = {} /\ holder = "idle"
      /\ UNCHANGED <<running, service, flight, desired_semantics, bridge, holder, platQ, native>>
  BY DEF PostCall, UiTurn
<1>2. CASE uiQ' = uiQ /\ uiStep' = At("stop", 0)
  BY <1>1, <1>2, HaltKeeps DEF Inv, Base
<1>3. CASE ~(uiQ' = uiQ /\ uiStep' = At("stop", 0))
  <2> DEFINE k == IF uiStep.pc = "publish" THEN "publish" ELSE "retry"
  <2>1. uiQ' = Append(uiQ, [TaskOf(k, uiStep.service) EXCEPT !.tree = uiStep.tree]) /\ uiStep' = Idle
    BY <1>3 DEF PostCall
  <2>2. k \in Kinds /\ k \notin {"reset", "result", "stop"} /\ (k = "publish" => uiStep.pc = "publish")
    BY DEF Kinds
  <2> HIDE DEF k
  <2>3. /\ uiQ \in Seq(UiTask) /\ Gen \in Nat /\ bridge.next_generation \in Nat
        /\ bridge.next_generation >= 1 /\ uiStep.service \in Services /\ uiStep.tree \in AllTrees
    BY Counted
  <2>4. PICK t \in UiTask : /\ uiQ' = Append(uiQ, t) /\ t.kind = k /\ t.service = uiStep.service
                            /\ t.generation = 0
    <3> DEFINE w == [TaskOf(k, uiStep.service) EXCEPT !.tree = uiStep.tree]
    <3>1. w \in UiTask /\ w.kind = k /\ w.service = uiStep.service /\ w.generation = 0
      BY <2>2, <2>3, CallIs
    <3>2. uiQ' = Append(uiQ, w)
      BY <2>1
    <3> HIDE DEF w
    <3> QED
      BY <3>1, <3>2
  <2>5. t.service <= Gen /\ t.generation < bridge.next_generation
    BY <2>3, <2>4 DEF Inv, Base, Older
  <2>6. /\ NoStop(uiQ) => NoStop(uiQ')
        /\ Below(uiQ, Gen, bridge.next_generation) => Below(uiQ', Gen, bridge.next_generation)
    BY <2>2, <2>3, <2>4, <2>5, GrowsStop, GrowsBelow
  <2>7. ~IsReset(t, Gen) /\ ~IsResult(t, Gen, publication)
    BY <2>2, <2>4 DEF IsReset, IsResult
  <2>8. /\ NoResult(uiQ, Gen) => NoResult(uiQ', Gen)
        /\ Unanswered(uiQ', Gen, publication) <=> Unanswered(uiQ, Gen, publication)
        /\ OneAnswer(uiQ, Gen, publication) => OneAnswer(uiQ', Gen, publication)
        /\ Truthful(uiQ, Gen, publication, Txn, Ack, model)
                => Truthful(uiQ', Gen, publication, Txn, Ack, model)
    BY <2>2, <2>3, <2>4, <2>7, GrowsQuiet
  <2>9. CASE ~Alive
    <3>1. ~running
      BY <1>1, <2>9 DEF Alive
    <3>2. Base'
      <4>0. Base
        BY DEF Inv
      <4>1. Turns'
        BY <1>1, <2>1, <3>1, <4>0, IdleIs DEF Base, Turns, One
      <4>2. uiStep'.service <= Gen' /\ uiStep'.posting = {}
        BY <1>1, <2>1, <2>3, IdleIs
      <4>3. Older'
        BY <1>1, <2>6, <4>0, <4>2 DEF Base, Older
      <4>4. ~misled' /\ ApplyFits' /\ PrepareFree'
        BY <1>1, <2>1, <4>0, IdleIs DEF Base, ApplyFits, PrepareFree
      <4> QED
        BY <4>1, <4>3, <4>4 DEF Base
    <3> QED
      BY <1>1, <3>1, <3>2 DEF Inv, Alive
  <2>10. CASE Alive
    <3>1. t.kind = "publish" => t.service = Gen
      BY <2>2, <2>4, <2>10 DEF Inv, OrderInv
    <3>2. /\ Unreset(uiQ', Gen) <=> Unreset(uiQ, Gen)
          /\ Ordered(uiQ, Gen, FALSE) => Ordered(uiQ', Gen, FALSE)
      BY <2>3, <2>4, <2>7, <3>1, GrowsOther
    <3>3. uiStep'.pc = "idle" /\ uiStep'.posting = {} /\ uiStep'.service <= Gen
      BY <2>1, <2>3, IdleIs
    <3> QED
      BY <1>1, <2>1, <2>6, <2>8, <3>2, <3>3, CallsKeep DEF Calls, Inv, Base, Turns
  <2> QED
    BY <2>9, <2>10
<1> QED
  BY <1>2, <1>3

(* A task that starts nothing. *)
LEMMA DropKeeps ==
  ASSUME CoLocated, Typed, Inv, NEW kind, RunUiTask(kind), uiStep'.pc \in Calls,
         uiStep'.posting = {}, uiStep'.service <= Gen,
         uiStep'.pc = "idle" => uiStep' = Idle,
         uiStep'.pc # "publish",
         UNCHANGED <<running, service, flight, bridge, holder, platQ, native>>,
         One(desired_semantics'), Alive /\ ~Awaiting => desired_semantics' = desired_semantics,
         ~IsReset(Head(uiQ), Gen),
         in_flight /\ ~Awaiting /\ Alive => ~IsResult(Head(uiQ), Gen, publication)
  PROVE  Inv'
<1> USE DEF service, flight, native, Gen
<1>1. /\ uiStep = Idle /\ applying = {} /\ holder = "idle" /\ uiQ # <<>> /\ uiQ' = Tail(uiQ)
      /\ uiQ \in Seq(UiTask) /\ uiStep.pc \in Calls
  BY IdleIs, Counted DEF RunUiTask, UiTurn, Calls
<1>2. /\ NoStop(uiQ) => NoStop(uiQ')
      /\ Below(uiQ, Gen, bridge.next_generation) => Below(uiQ', Gen, bridge.next_generation)
      /\ NoResult(uiQ, Gen) => NoResult(uiQ', Gen)
      /\ Unreset(uiQ, Gen) => Unreset(uiQ', Gen)
      /\ Unreset(uiQ', Gen) => Unreset(uiQ, Gen)
  BY <1>1, ShrinksPlain
<1>3. Ordered(uiQ, Gen, FALSE) => Ordered(uiQ', Gen, FALSE)
  BY <1>1, ShrinksOrdered
<1>4. ASSUME in_flight, ~Awaiting, Alive
      PROVE  /\ Unanswered(uiQ', Gen, publication) <=> Unanswered(uiQ, Gen, publication)
             /\ OneAnswer(uiQ, Gen, publication) => OneAnswer(uiQ', Gen, publication)
             /\ Truthful(uiQ, Gen, publication, Txn, Ack, model)
                  => Truthful(uiQ', Gen, publication, Txn, Ack, model)
  BY <1>1, <1>4, ShrinksAnswers
<1> QED
  BY <1>1, <1>2, <1>3, <1>4, CallsKeep

(* To the first step of a dispatch. *)
LEMMA DispatchNext ==
  ASSUME Typed, uiStep' = At("dispatch", 0)
  PROVE  /\ uiStep'.pc = "dispatch" /\ uiStep'.posting = {} /\ uiStep'.service <= Gen
         /\ uiStep' # Idle
BY AtIs, IdleIs, Zero, Counted DEF Pcs

LEMMA PublishTaskKeeps ==
  ASSUME CoLocated, Typed, Inv, PublishTask
  PROVE  Inv'
<1> USE DEF service, flight, native, Gen, Ack, Txn
<1> DEFINE h == Head(uiQ)
<1>1. /\ RunUiTask("publish") /\ uiStep = Idle /\ applying = {} /\ holder = "idle" /\ uiQ # <<>>
      /\ uiQ' = Tail(uiQ) /\ uiQ \in Seq(UiTask) /\ h.kind = "publish"
      /\ UNCHANGED <<running, service, flight, bridge, holder, platQ, native>>
  BY IdleIs, Counted DEF PublishTask, RunUiTask, UiTurn
<1>2. /\ desired_semantics' = (IF running THEN {h.tree} ELSE desired_semantics)
      /\ uiStep' = IF running /\ Gen = h.service THEN At("dispatch", 0) ELSE Idle
  BY DEF PublishTask
<1> HIDE DEF h
<1>3. One(desired_semantics') /\ Base
  BY <1>2 DEF Inv, Base, Turns, One
<1>4. /\ ~IsReset(h, Gen) /\ ~IsResult(h, Gen, publication)
      /\ Idle.pc = "idle" /\ Idle.posting = {} /\ Idle.service <= Gen
  BY <1>1, IdleIs, Counted DEF IsReset, IsResult
<1>5. CASE ~running
  BY <1>1, <1>2, <1>3, <1>4, <1>5, DropKeeps DEF h, Calls
<1>6. ASSUME running
      PROVE  /\ Alive /\ Ordered(uiQ, Gen, FALSE) /\ Ordered(uiQ', Gen, FALSE)
             /\ h.service = Gen <=> Unreset(uiQ', Gen)
             /\ Unreset(uiQ', Gen) <=> Unreset(uiQ, Gen)
  <2>1. Alive /\ (holder = "post") = FALSE
    BY <1>1, <1>6, IdleIs DEF Alive
  <2>2. Ordered(uiQ, Gen, FALSE)
    BY <2>1 DEF Inv, OrderInv
  <2>3. Ordered(uiQ', Gen, FALSE) /\ (h.service = Gen <=> Unreset(uiQ', Gen))
    BY <1>1, <2>2, ShrinksOrdered DEF h
  <2>4. Unreset(uiQ', Gen) <=> Unreset(uiQ, Gen)
    BY <1>1, <1>4, ShrinksPlain DEF h
  <2> QED
    BY <2>1, <2>2, <2>3, <2>4
<1>7. CASE running /\ Gen # h.service
  <2>1. Awaiting /\ uiStep' = Idle
    BY <1>2, <1>6, <1>7 DEF Awaiting
  <2> QED
    BY <1>1, <1>2, <1>3, <1>4, <2>1, DropKeeps DEF h, Calls
<1>8. CASE running /\ Gen = h.service
  <2>1. /\ uiStep'.pc = "dispatch" /\ uiStep'.posting = {} /\ uiStep'.service <= Gen /\ uiStep' # Idle
    BY <1>2, <1>8, DispatchNext
  <2>2. ~Awaiting /\ ~Awaiting' /\ Alive /\ Current
    BY <1>1, <1>6, <1>8 DEF Awaiting, Inv
  <2>3. NoStop(uiQ') /\ Below(uiQ', Gen, bridge.next_generation)
    BY <1>1, <1>3, <1>8, ShrinksPlain DEF Base, Turns, Older
  <2>4. Turns'
    BY <1>1, <1>3, <2>1, <2>3 DEF Base, Turns, One
  <2>5. Older' /\ ~misled' /\ ApplyFits' /\ PrepareFree'
    BY <1>1, <1>3, <2>1, <2>3 DEF Base, Older, ApplyFits, PrepareFree
  <2>6. OrderInv'
    <3>1. Ordered(uiQ', Gen', FALSE) /\ (holder' = "post") = FALSE
      BY <1>1, <1>6, <1>8
    <3> QED
      BY <2>1, <3>1 DEF OrderInv
  <2>7. Synced' /\ AppliesCurrent' /\ Wanted'
    BY <1>1, <2>1, <2>2, IdleIs DEF Current, Synced, AppliesCurrent, Wanted
  <2>8. ASSUME in_flight' PROVE Places'
    <3>1. Places
      BY <1>1, <2>2, <2>8, IdleIs DEF Current
    <3>2. /\ Unanswered(uiQ', Gen', publication') <=> Unanswered(uiQ, Gen, publication)
          /\ OneAnswer(uiQ', Gen', publication')
          /\ Truthful(uiQ', Gen', publication', Txn', Ack', model')
      BY <1>1, <1>4, <3>1, ShrinksAnswers DEF Places, h
    <3>3. /\ ~InPost /\ ~InPost' /\ (InPlatform' <=> InPlatform) /\ (InApply' <=> InApply)
          /\ (InResult' <=> InResult)
      BY <1>1, <1>4, <2>1, <3>2 DEF InPost, InPlatform, InApply, InResult
    <3> QED
      BY <1>1, <1>4, <2>1, <3>1, <3>2, <3>3 DEF Places
  <2> QED
    BY <2>2, <2>4, <2>5, <2>6, <2>7, <2>8 DEF Inv, Base, Current
<1> QED
  BY <1>5, <1>7, <1>8

LEMMA RetryTaskKeeps ==
  ASSUME CoLocated, Typed, Inv, RetryTask
  PROVE  Inv'
<1> USE DEF service, flight, native, Gen
<1>1. /\ RunUiTask("retry") /\ uiQ # <<>> /\ uiQ \in Seq(UiTask) /\ Head(uiQ).kind = "retry"
      /\ UNCHANGED <<running, service, flight, desired_semantics, bridge, holder, platQ, native>>
      /\ uiStep' = At("retry", Head(uiQ).service)
  BY Counted DEF RetryTask, RunUiTask
<1>2. Head(uiQ) \in UiTask /\ Head(uiQ).service \in Services
  BY <1>1, Numbers, QueueTyped
<1>3. Head(uiQ).service <= Gen
  BY <1>1, ShrinksPlain DEF Inv, Base, Older
<1>4. uiStep'.pc = "retry" /\ uiStep'.service <= Gen /\ uiStep'.posting = {}
  BY <1>1, <1>2, <1>3, AtIs DEF Pcs
<1>5. ~IsReset(Head(uiQ), Gen) /\ ~IsResult(Head(uiQ), Gen, publication)
  BY <1>1 DEF IsReset, IsResult
<1> QED
  BY <1>1, <1>4, <1>5, DropKeeps DEF Calls, Inv, Base, Turns

LEMMA StopTaskKeeps ==
  ASSUME CoLocated, Typed, Inv, StopTask
  PROVE  Inv'
<1> USE DEF service, flight, native, Gen, Ack, Txn
<1>1. /\ uiStep = Idle /\ applying = {} /\ holder = "idle" /\ uiQ # <<>> /\ uiQ' = Tail(uiQ)
      /\ uiQ \in Seq(UiTask) /\ Head(uiQ).kind = "stop" /\ bridge' = ResetBridge
      /\ desired_semantics' = {} /\ UNCHANGED <<running, service, uiStep, holder, platQ, native>>
  BY Counted DEF StopTask, RunUiTask, UiTurn
<1>2. Base /\ ~running /\ Below(uiQ', Gen, bridge.next_generation)
  BY <1>1, ShrinksPlain DEF Inv, Base, Turns, Older
<1>3. bridge'.next_generation = bridge.next_generation
  BY <1>1, BridgeTyped
<1>4. Turns'
  BY <1>1, <1>2 DEF Base, Turns, One
<1>5. Older' /\ ~misled' /\ ApplyFits' /\ PrepareFree'
  BY <1>1, <1>2, <1>3, IdleIs DEF Base, Older, ApplyFits, PrepareFree
<1> QED
  BY <1>1, <1>2, <1>4, <1>5 DEF Inv, Base, Alive

LEMMA ResetTaskKeeps ==
  ASSUME CoLocated, Typed, Inv, ResetTask
  PROVE  Inv'
<1> USE DEF service, flight, native, Gen, Ack, Txn
<1> DEFINE h == Head(uiQ)
<1>1. /\ RunUiTask("reset") /\ uiStep = Idle /\ applying = {} /\ holder = "idle" /\ uiQ # <<>>
      /\ uiQ' = Tail(uiQ) /\ uiQ \in Seq(UiTask) /\ h.kind = "reset"
      /\ UNCHANGED <<running, service, desired_semantics, holder, platQ, native>>
  BY IdleIs, Counted DEF ResetTask, RunUiTask, UiTurn
<1>2. \/ /\ running /\ Gen = h.service /\ ClearFlight /\ bridge' = ResetBridge
         /\ uiStep' = At("dispatch", 0)
      \/ ~(running /\ Gen = h.service) /\ UNCHANGED <<flight, bridge, uiStep>>
  BY DEF ResetTask
<1> HIDE DEF h
<1>3. Base /\ Idle.pc = "idle" /\ Idle.posting = {} /\ Idle.service <= Gen
  BY IdleIs, Counted DEF Inv
<1>4. Below(uiQ', Gen, bridge.next_generation) /\ (running => NoStop(uiQ'))
  BY <1>1, <1>3, ShrinksPlain DEF Base, Turns, Older
<1>5. CASE ~running
  <2>1. UNCHANGED <<flight, bridge, uiStep>>
    BY <1>2, <1>5
  <2>2. Turns' /\ Older'
    BY <1>1, <1>3, <1>4, <1>5, <2>1 DEF Base, Turns, Older
  <2>3. ~misled' /\ ApplyFits' /\ PrepareFree'
    BY <1>1, <1>3, <2>1 DEF Base, ApplyFits, PrepareFree
  <2> QED
    BY <1>1, <1>5, <2>2, <2>3 DEF Inv, Base, Alive
<1>6. CASE running /\ Gen # h.service
  <2>1. UNCHANGED <<flight, bridge, uiStep>> /\ ~IsReset(h, Gen) /\ ~IsResult(h, Gen, publication)
    BY <1>1, <1>2, <1>6 DEF IsReset, IsResult
  <2> QED
    BY <1>1, <1>3, <2>1, DropKeeps DEF h, Calls, Base, Turns
<1>7. CASE running /\ Gen = h.service
  <2>1. ClearFlight /\ bridge' = ResetBridge /\ uiStep' = At("dispatch", 0) /\ IsReset(h, Gen)
    BY <1>1, <1>2, <1>7 DEF IsReset
  <2>2. /\ bridge'.acknowledged = NoTree /\ bridge'.transaction = {}
        /\ bridge'.next_generation = bridge.next_generation
    BY <2>1, BridgeTyped
  <2>3. /\ uiStep'.pc = "dispatch" /\ uiStep'.posting = {} /\ uiStep'.service <= Gen /\ uiStep' # Idle
    BY <2>1, DispatchNext
  <2>4. Alive /\ (holder = "post") = FALSE /\ Ordered(uiQ, Gen, FALSE)
    <3>1. Alive /\ (holder = "post") = FALSE
      BY <1>1, <1>3, <1>7 DEF Alive
    <3> QED
      BY <3>1 DEF Inv, OrderInv
  <2>5. Ordered(uiQ', Gen, FALSE) /\ Unreset(uiQ', Gen)
    BY <1>1, <2>1, <2>4, ShrinksOrdered DEF h
  <2>6. Awaiting /\ ~Awaiting'
    BY <1>1, <2>1, <2>5, ShrinksPlain DEF Awaiting, h
  <2>7. model = NoTree
    BY <2>4, <2>6 DEF Inv, AwaitClean
  <2>8. Turns'
    BY <1>1, <1>3, <1>4, <2>3 DEF Base, Turns, One
  <2>9. Older' /\ ~misled' /\ ApplyFits' /\ PrepareFree'
    BY <1>1, <1>3, <1>4, <2>2, <2>3 DEF Base, Older, ApplyFits, PrepareFree
  <2>10. OrderInv'
    <3>1. Ordered(uiQ', Gen', FALSE) /\ (holder' = "post") = FALSE
      BY <1>1, <2>5
    <3> QED
      BY <2>3, <3>1 DEF OrderInv
  <2>11. ~in_flight' /\ ~retry_pending' /\ ~retry_requested' /\ model' = Ack' /\ Txn' = {}
    BY <1>1, <2>1, <2>2, <2>7 DEF ClearFlight
  <2>12. Synced' /\ AppliesCurrent' /\ Wanted'
    BY <1>1, <2>3, <2>11 DEF Synced, AppliesCurrent, Wanted, One
  <2> QED
    BY <2>6, <2>8, <2>9, <2>10, <2>11, <2>12 DEF Inv, Base, Current
<1> QED
  BY <1>5, <1>6, <1>7

(* AccessibilityBridge::acknowledge and reject on the publication in flight. *)
LEMMA Answered ==
  ASSUME Typed, One(Txn), \A x \in Txn : x.update = Diff(Ack, x.candidate),
         NEW g, \E x \in Txn : x.in_flight /\ x.generation = g
  PROVE  /\ Acknowledged(g).transaction = {} /\ \A x \in Txn : Acknowledged(g).acknowledged = x.candidate
         /\ Rejected(bridge, g).acknowledged = Ack
         /\ One(Rejected(bridge, g).transaction)
         /\ \A x \in Rejected(bridge, g).transaction : x.update = Diff(Ack, x.candidate)
         /\ \E x \in Rejected(bridge, g).transaction : ~x.in_flight
<1>1. bridge \in Bridge /\ Txn \subseteq Transaction
  BY DEF Typed, Bridge, Txn
<1>2. PICK x \in Txn : x.in_flight /\ x.generation = g
  OBVIOUS
<1>3. Txn = {x} /\ x \in Transaction
  BY <1>1, <1>2 DEF One
<1>4. Acknowledged(g).transaction = {} /\ Acknowledged(g).acknowledged = x.candidate
  <2>1. Matching(g) = {x}
    BY <1>2, <1>3 DEF Matching, Txn
  <2>2. (CHOOSE y \in Matching(g) : TRUE) = x
    BY <2>1
  <2>3. Acknowledged(g) = [bridge EXCEPT !.acknowledged = x.candidate, !.transaction = {}]
    BY <2>1, <2>2 DEF Acknowledged
  <2> QED
    BY <1>1, <2>3 DEF Bridge
<1>5. PICK y \in Transaction : y = [x EXCEPT !.in_flight = FALSE] /\ ~y.in_flight
                               /\ y.update = x.update /\ y.candidate = x.candidate
  <2> DEFINE y == [x EXCEPT !.in_flight = FALSE]
  <2>1. y \in Transaction /\ ~y.in_flight /\ y.update = x.update /\ y.candidate = x.candidate
    BY <1>3 DEF Transaction
  <2>2. y = [x EXCEPT !.in_flight = FALSE]
    OBVIOUS
  <2> HIDE DEF y
  <2> QED
    BY <2>1, <2>2
<1>6. Rejected(bridge, g).transaction = {y} /\ Rejected(bridge, g).acknowledged = Ack
  <2>1. {IF z.in_flight /\ z.generation = g THEN [z EXCEPT !.in_flight = FALSE] ELSE z : z \in Txn} = {y}
    BY <1>2, <1>3, <1>5
  <2> QED
    BY <1>1, <2>1, RejectedTyped DEF Txn, Ack
<1> QED
  BY <1>2, <1>3, <1>4, <1>5, <1>6 DEF One

LEMMA ResultTaskKeeps ==
  ASSUME CoLocated, Typed, Inv, ResultTask
  PROVE  Inv'
<1> USE DEF service, flight, native, Gen, Ack, Txn
<1> DEFINE h == Head(uiQ)
<1>1. /\ RunUiTask("result") /\ uiStep = Idle /\ applying = {} /\ holder = "idle" /\ uiQ # <<>>
      /\ uiQ' = Tail(uiQ) /\ uiQ \in Seq(UiTask) /\ h.kind = "result"
      /\ UNCHANGED <<running, service, flight, desired_semantics, holder, platQ, native>>
  BY IdleIs, Counted DEF ResultTask, RunUiTask, UiTurn
<1>2. \/ ~ResultCurrent(h) /\ UNCHANGED <<bridge, uiStep>>
      \/ /\ ResultCurrent(h)
         /\ bridge' = IF h.success THEN Acknowledged(h.generation)
                      ELSE Rejected(bridge, h.generation)
         /\ uiStep' = [At("settle", h.service) EXCEPT !.success = h.success]
  BY DEF ResultTask
<1>02. h \in UiTask /\ h.service \in Services /\ h.success \in BOOLEAN
  BY <1>1, Numbers, QueueTyped
<1> HIDE DEF h
<1>3. Base /\ Idle.pc = "idle" /\ Idle.posting = {} /\ Idle.service <= Gen
  BY IdleIs, Counted DEF Inv
<1>4. CASE ~ResultCurrent(h) /\ UNCHANGED <<bridge, uiStep>>
  <2>1. ~IsReset(h, Gen)
    BY <1>1 DEF IsReset
  <2>2. in_flight /\ ~Awaiting /\ Alive => ~IsResult(h, Gen, publication)
    BY <1>4 DEF ResultCurrent, IsResult, Alive, Inv, Current, Synced
  <2> QED
    BY <1>1, <1>3, <1>4, <2>1, <2>2, DropKeeps DEF h, Calls, Base, Turns
<1>5. CASE ResultCurrent(h)
  <2>1. /\ running /\ in_flight /\ IsResult(h, Gen, publication) /\ h.service = Gen
        /\ h.generation = publication
    BY <1>1, <1>5 DEF ResultCurrent, IsResult
  <2>2. Alive /\ ~Awaiting /\ OrderInv /\ Current
    <3>1. Alive
      BY <1>1, <1>3, <2>1 DEF Alive
    <3> QED
      BY <2>1, <3>1 DEF Inv, AwaitClean
  <2>3. Synced /\ Places /\ InResult
    <3>1. Synced /\ Places
      BY <1>1, <1>3, <2>1, <2>2 DEF Current
    <3> QED
      BY <1>1, <2>1, <3>1, ShrinksAnswers DEF InResult, h
  <2>4. /\ uiStep'.pc = "settle" /\ uiStep'.posting = {} /\ uiStep'.service = Gen
        /\ uiStep'.success = h.success /\ uiStep' # Idle /\ uiStep'.service <= Gen
    <3>1. uiStep' = [At("settle", h.service) EXCEPT !.success = h.success]
      BY <1>2, <1>5
    <3>2. /\ uiStep'.pc = "settle" /\ uiStep'.posting = {} /\ uiStep'.service = h.service
          /\ uiStep'.success = h.success
      BY <1>02, <3>1, SettleIs
    <3>3. Gen <= Gen
      BY Counted
    <3> QED
      BY <1>3, <2>1, <3>2, <3>3
  <2>5. bridge' = IF h.success THEN Acknowledged(publication) ELSE Rejected(bridge, publication)
    BY <1>2, <1>5, <2>1
  <2>6. bridge'.next_generation = bridge.next_generation
    BY <2>5, BridgeTyped, RejectedTyped DEF Typed
  <2>7. NoStop(uiQ') /\ Below(uiQ', Gen, bridge.next_generation)
    BY <1>1, <1>3, <2>1, ShrinksPlain DEF Base, Turns, Older
  <2>8. Turns'
    BY <1>1, <1>3, <2>4, <2>7 DEF Base, Turns, One
  <2>9. Older' /\ ~misled' /\ ApplyFits' /\ PrepareFree'
    BY <1>1, <1>3, <2>4, <2>6, <2>7 DEF Base, Older, ApplyFits, PrepareFree
  <2>10. OrderInv' /\ ~Awaiting'
    <3>1. (holder = "post") = FALSE /\ (holder' = "post") = FALSE
      BY <1>1
    <3>2. Ordered(uiQ, Gen, FALSE) /\ Unreset(uiQ, Gen)
      BY <2>2, <3>1 DEF OrderInv, Awaiting
    <3>3. Ordered(uiQ', Gen', FALSE) /\ Unreset(uiQ', Gen')
      BY <1>1, <3>2, ShrinksOrdered, ShrinksPlain
    <3>4. uiStep'.service = Gen'
      BY <1>1, <2>4
    <3> QED
      BY <3>1, <3>3, <3>4 DEF OrderInv, Awaiting
  <2>11. Tells(h, Txn, Ack, model)
    BY <1>1, <2>1, <2>3, ShrinksAnswers DEF Places, h
  <2>12. /\ One(Txn) /\ \A x \in Txn : x.update = Diff(Ack, x.candidate)
         /\ \E x \in Txn : x.in_flight /\ x.generation = publication
    BY <1>1, <1>3, <2>1, <2>3 DEF Synced
  <2>13. CASE h.success
    <3>1. bridge'.transaction = {} /\ bridge'.acknowledged = model
      BY <2>5, <2>11, <2>12, <2>13, Answered DEF Tells
    <3>2. Synced'
      BY <1>1, <2>1, <2>3, <2>4, <2>13, <3>1 DEF Synced, One
    <3>3. AppliesCurrent' /\ Wanted'
      BY <1>1, <2>1, <2>4 DEF AppliesCurrent, Wanted
    <3> QED
      BY <2>4, <2>8, <2>9, <2>10, <3>2, <3>3 DEF Inv, Base, Current
  <2>14. CASE ~h.success
    <3>1. /\ bridge'.acknowledged = Ack /\ model = Ack /\ One(bridge'.transaction)
          /\ \A x \in bridge'.transaction : x.update = Diff(Ack, x.candidate)
          /\ \E x \in bridge'.transaction : ~x.in_flight
      BY <2>5, <2>11, <2>12, <2>14, Answered DEF Tells
    <3>2. Synced'
      BY <1>1, <2>1, <2>3, <2>4, <2>14, <3>1 DEF Synced
    <3>3. AppliesCurrent' /\ Wanted'
      BY <1>1, <2>1, <2>4 DEF AppliesCurrent, Wanted
    <3> QED
      BY <2>4, <2>8, <2>9, <2>10, <3>2, <3>3 DEF Inv, Base, Current
  <2> QED
    BY <2>13, <2>14
<1> QED
  BY <1>2, <1>4, <1>5

(* The UI executor's steps that touch neither the queues nor the bridge. *)
LEMMA StepBase ==
  ASSUME Base, applying = {}, holder = "idle", uiStep'.service <= Gen, uiStep'.posting = {},
         uiStep'.pc # "prepare", uiStep'.pc = "idle" => uiStep' = Idle,
         UNCHANGED <<running, service, desired_semantics, bridge, holder, queues, native>>
  PROVE  Base'
<1> USE DEF service, native, queues, Gen, Ack, Txn
<1>1. Turns'
  BY DEF Base, Turns, One
<1>2. Older' /\ ~misled' /\ ApplyFits' /\ PrepareFree'
  BY DEF Base, Older, ApplyFits, PrepareFree
<1> QED
  BY <1>1, <1>2 DEF Base

LEMMA SettleKeeps ==
  ASSUME CoLocated, Typed, Inv, SettleResult
  PROVE  Inv'
<1> USE DEF service, flight, native, queues, Gen, Ack, Txn
<1>1. /\ uiStep.pc = "settle" /\ applying = {} /\ holder = "idle" /\ Base
      /\ in_flight' = FALSE /\ retry_pending' = ~uiStep.success /\ retry_requested' = FALSE
      /\ UNCHANGED <<running, service, publication, publication_service, desired_semantics, bridge,
                     holder, queues, native>>
  BY DEF SettleResult, UiTurn, Inv
<1>2. /\ uiStep'.posting = {} /\ uiStep'.service <= Gen /\ (uiStep'.pc = "idle" => uiStep' = Idle)
      /\ uiStep'.pc = "dispatch" \/ (~uiStep.success /\ uiStep'.pc \in {"retry", "idle"})
  <2>1. /\ At("dispatch", 0).pc = "dispatch" /\ At("dispatch", 0).posting = {}
        /\ At("dispatch", 0).service = 0
        /\ At("retry", uiStep.service).pc = "retry" /\ At("retry", uiStep.service).posting = {}
        /\ At("retry", uiStep.service).service = uiStep.service
    BY AtIs, Zero, Counted DEF Pcs
  <2>2. uiStep.service <= Gen /\ 0 <= Gen
    BY <1>1, Counted DEF Base, Older
  <2> QED
    BY <2>1, <2>2, IdleIs DEF SettleResult, AfterResult
<1>3. Base'
  BY <1>1, <1>2, StepBase
<1>4. SUFFICES ASSUME Alive' PROVE OrderInv' /\ (Awaiting' => AwaitClean') /\ (~Awaiting' => Current')
  BY <1>3 DEF Inv
<1>5. Alive /\ (Awaiting' <=> Awaiting)
  BY <1>1, <1>4 DEF Alive, Awaiting
<1>6. OrderInv /\ ~Awaiting /\ Synced
  BY <1>1, <1>5 DEF Inv, AwaitClean, Calls, Current
<1>7. OrderInv'
  BY <1>1, <1>2, <1>6 DEF OrderInv
<1>8. Synced' /\ AppliesCurrent' /\ Wanted'
  BY <1>1, <1>2, <1>6 DEF Synced, AppliesCurrent, Wanted, One
<1> QED
  BY <1>1, <1>5, <1>6, <1>7, <1>8 DEF Current

LEMMA DispatchKeeps ==
  ASSUME CoLocated, Typed, Inv, Dispatch
  PROVE  Inv'
<1> USE DEF service, flight, native, queues, Gen, Ack, Txn
<1>1. /\ uiStep.pc = "dispatch" /\ applying = {} /\ holder = "idle" /\ Base
      /\ UNCHANGED <<running, service, flight, desired_semantics, bridge, holder, queues, native>>
  BY DEF Dispatch, UiTurn, Inv
<1>2. ASSUME Alive, Alive'
      PROVE  OrderInv /\ ~Awaiting /\ ~Awaiting' /\ Current
  BY <1>1, <1>2 DEF Inv, AwaitClean, Calls, Awaiting
<1>3. CASE ~MayDispatch /\ uiStep' = Idle
  <2>1. uiStep'.pc = "idle" /\ uiStep'.posting = {} /\ uiStep'.service <= Gen
    BY <1>3, IdleIs, Counted
  <2>2. Base'
    BY <1>1, <1>3, <2>1, StepBase
  <2>3. SUFFICES ASSUME Alive' PROVE OrderInv' /\ ~Awaiting' /\ Current'
    BY <2>2 DEF Inv
  <2>4. Alive /\ running
    BY <1>1, <2>3 DEF Alive
  <2>5. OrderInv /\ ~Awaiting' /\ Current
    BY <1>2, <2>3, <2>4
  <2>6. OrderInv'
    BY <1>1, <2>1, <2>5 DEF OrderInv
  <2>7. Synced' /\ AppliesCurrent'
    BY <1>1, <2>1, <2>5 DEF Current, Synced, AppliesCurrent
  <2>8. Wanted'
    BY <1>1, <1>3, <2>1, <2>4 DEF Wanted, MayDispatch
  <2>9. ASSUME in_flight' PROVE Places'
    <3>1. Places /\ uiStep.posting = {}
      BY <1>1, <2>5, <2>9 DEF Current, Base, Turns
    <3> QED
      BY <1>1, <2>1, <3>1 DEF Places, InPost, InPlatform, InApply, InResult
  <2> QED
    BY <2>5, <2>6, <2>7, <2>8, <2>9 DEF Current
<1>4. CASE MayDispatch /\ \E t \in desired_semantics : uiStep' = [At("prepare", Gen) EXCEPT !.tree = t]
  <2>1. PICK t \in desired_semantics : uiStep' = [At("prepare", Gen) EXCEPT !.tree = t]
    BY <1>4
  <2>2. t \in AllTrees /\ "prepare" \in Pcs /\ Gen \in Services
    BY Counted DEF Typed, TypeOK, Pcs
  <2>3. /\ uiStep'.pc = "prepare" /\ uiStep'.service = Gen /\ uiStep'.tree = t /\ uiStep'.posting = {}
        /\ uiStep'.service <= Gen /\ uiStep' # Idle
    <3>1. /\ uiStep'.pc = "prepare" /\ uiStep'.service = Gen /\ uiStep'.tree = t
          /\ uiStep'.posting = {}
      BY <2>1, <2>2, AtTreeIs
    <3>2. Gen <= Gen
      BY Counted
    <3> QED
      BY <3>1, <3>2, IdleIs
  <2>4. running /\ ~in_flight /\ ~retry_pending /\ adapter
    BY <1>4 DEF MayDispatch
  <2>5. Alive /\ Alive'
    BY <1>1, <2>3, <2>4 DEF Alive
  <2>6. OrderInv /\ ~Awaiting' /\ Current
    BY <1>2, <2>5
  <2>7. Txn = {} /\ model = Ack
    BY <2>4, <2>6 DEF Current, Synced
  <2>8. Turns'
    BY <1>1, <2>3 DEF Base, Turns, One
  <2>9. Older' /\ ~misled' /\ ApplyFits' /\ PrepareFree'
    BY <1>1, <2>3, <2>7 DEF Base, Older, ApplyFits, PrepareFree
  <2>10. OrderInv'
    BY <1>1, <2>3, <2>6 DEF OrderInv
  <2>11. Synced' /\ AppliesCurrent' /\ Wanted'
    BY <1>1, <2>3, <2>4, <2>6, <2>7 DEF Current, Synced, AppliesCurrent, Wanted
  <2> QED
    BY <1>1, <2>4, <2>6, <2>8, <2>9, <2>10, <2>11 DEF Inv, Base, Current
<1> QED
  BY <1>3, <1>4 DEF Dispatch

LEMMA RetryKeeps ==
  ASSUME CoLocated, Typed, Inv, Retry
  PROVE  Inv'
<1> USE DEF service, flight, native, queues, Gen, Ack, Txn
<1> DEFINE mine == /\ running /\ adapter /\ Gen = uiStep.service
                   /\ publication_service = uiStep.service
<1>1. /\ uiStep.pc = "retry" /\ applying = {} /\ holder = "idle" /\ Base
      /\ UNCHANGED <<running, service, in_flight, retry_pending, publication, publication_service,
                     desired_semantics, bridge, holder, queues, native>>
  BY DEF Retry, UiTurn, Inv
<1>2. /\ retry_requested' = (retry_requested \/ (mine /\ in_flight))
      /\ uiStep' = IF mine /\ ~in_flight /\ retry_pending
                   THEN At("reprepare", uiStep.service) ELSE Idle
  BY DEF Retry
<1>3. /\ uiStep'.posting = {} /\ uiStep'.service <= Gen /\ (uiStep'.pc = "idle" => uiStep' = Idle)
      /\ \/ uiStep'.pc = "idle"
         \/ /\ uiStep'.pc = "reprepare" /\ ~in_flight /\ retry_pending /\ adapter
            /\ uiStep'.service = Gen
  <2>1. /\ At("reprepare", uiStep.service).pc = "reprepare" /\ At("reprepare", uiStep.service).posting = {}
        /\ At("reprepare", uiStep.service).service = uiStep.service
    BY AtIs, Counted DEF Pcs
  <2>2. uiStep.service <= Gen /\ 0 <= Gen
    BY <1>1, Counted DEF Base, Older
  <2> QED
    BY <1>2, <2>1, <2>2, IdleIs
<1>4. retry_requested' => retry_requested \/ in_flight
  BY <1>2
<1> HIDE DEF mine
<1>5. Base'
  BY <1>1, <1>3, StepBase
<1>6. SUFFICES ASSUME Alive' PROVE OrderInv' /\ (Awaiting' => AwaitClean') /\ (~Awaiting' => Current')
  BY <1>5 DEF Inv
<1>7. Alive /\ OrderInv /\ (Awaiting' <=> Awaiting)
  BY <1>1, <1>6 DEF Alive, Awaiting, Inv
<1>8. OrderInv'
  BY <1>1, <1>3, <1>7 DEF OrderInv
<1>9. ASSUME Awaiting PROVE AwaitClean'
  <2>1. AwaitClean
    BY <1>7, <1>9 DEF Inv
  <2>2. ~retry_requested'
    BY <1>2, <2>1 DEF AwaitClean
  <2> QED
    BY <1>1, <1>3, <2>1, <2>2 DEF AwaitClean, Calls
<1>10. ASSUME ~Awaiting PROVE Current'
  <2>1. Current
    BY <1>7, <1>10 DEF Inv
  <2>2. Synced'
    BY <1>1, <1>3, <1>4, <2>1 DEF Current, Synced
  <2>3. AppliesCurrent' /\ Wanted'
    BY <1>1, <1>3, <2>1 DEF Current, AppliesCurrent, Wanted
  <2>4. ASSUME in_flight' PROVE Places'
    <3>1. Places /\ uiStep.posting = {}
      BY <1>1, <2>1, <2>4 DEF Current, Base, Turns
    <3> QED
      BY <1>1, <1>3, <3>1 DEF Places, InPost, InPlatform, InApply, InResult
  <2> QED
    BY <2>2, <2>3, <2>4 DEF Current
<1> QED
  BY <1>7, <1>8, <1>9, <1>10

(* The driver: what it invalidates, and the reset it posts. *)
LEMMA NewService ==
  ASSUME NEW S, NEW q \in Seq(S), NEW s \in Nat, NEW n, Below(q, s, n),
         \A x \in S : x.service \in Nat
  PROVE  /\ Below(q, s + 1, n) /\ Unreset(q, s + 1) /\ NoneOf(q, s + 1) /\ NoResult(q, s + 1)
         /\ Ordered(q, s + 1, TRUE)
<1>1. \A i \in 1 .. Len(q) : /\ q[i].service \in Nat /\ q[i].service <= s
                             /\ q[i].generation < n
  BY ElementOfSeq DEF Below
<1>2. \A m \in Nat : m <= s => m <= s + 1 /\ m # s + 1
  OBVIOUS
<1>3. \A i \in 1 .. Len(q) : q[i].service <= s + 1 /\ q[i].service # s + 1
  BY <1>1, <1>2
<1>4. Below(q, s + 1, n) /\ Unreset(q, s + 1) /\ NoneOf(q, s + 1) /\ NoResult(q, s + 1)
  BY <1>1, <1>3 DEF Below, Unreset, NoneOf, NoResult, IsReset
<1>5. Ordered(q, s + 1, TRUE)
  BY <1>3, <1>4 DEF Ordered, Unreset
<1> QED
  BY <1>4, <1>5

LEMMA SetAdapterKeeps ==
  ASSUME CoLocated, Typed, Inv, NEW a \in BOOLEAN, set_accessibility_adapter(a)
  PROVE  Inv'
<1> USE DEF service, flight, native, queues, Gen, Ack, Txn
<1>1. /\ running /\ uiStep = Idle /\ holder = "idle" /\ Base /\ Idle.pc = "idle"
      /\ Idle.posting = {} /\ Idle.service = 0
      /\ UNCHANGED <<running, desired_semantics, bridge, uiStep, queues, applying, misled>>
  BY IdleIs DEF set_accessibility_adapter, DriverTurn, Inv
<1>2. CASE holder' = "stop" /\ UNCHANGED <<service, flight, model>>
  <2>1. Base'
    BY <1>1, <1>2 DEF Base, Turns, Older, ApplyFits, PrepareFree
  <2> QED
    BY <1>2, <2>1 DEF Inv, Alive
<1>3. CASE /\ Gen' = Gen + 1 /\ ClearFlight /\ model' = NoTree /\ holder' = "post"
  <2>1. /\ uiQ \in Seq(UiTask) /\ platQ \in Seq(Publication) /\ Gen \in Nat
        /\ \A x \in UiTask : x.service \in Nat
        /\ \A x \in Publication : x.service \in Nat
        /\ applying \in SUBSET Publication
    BY Counted, Numbers
  <2>2. Below(uiQ, Gen, bridge.next_generation) /\ Below(platQ, Gen, bridge.next_generation)
    BY <1>1 DEF Base, Older
  <2>3. /\ Below(uiQ, Gen + 1, bridge.next_generation) /\ Below(platQ, Gen + 1, bridge.next_generation)
        /\ NoneOf(platQ, Gen + 1) /\ NoResult(uiQ, Gen + 1) /\ Ordered(uiQ, Gen + 1, TRUE)
    BY <2>1, <2>2, NewService
  <2>4. \A x \in applying : /\ x.service <= Gen + 1 /\ x.service # Gen + 1
                            /\ x.generation < bridge.next_generation
    <3>1. \A x \in applying : /\ x.service \in Nat /\ x.service <= Gen
                              /\ x.generation < bridge.next_generation
      BY <1>1, <2>1 DEF Base, Older
    <3>2. \A m \in Nat : m <= Gen => m <= Gen + 1 /\ m # Gen + 1
      BY <2>1
    <3> QED
      BY <3>1, <3>2
  <2>5. Turns'
    BY <1>1, <1>3 DEF Base, Turns
  <2>6. Older'
    <3>1. 0 <= Gen + 1
      BY <2>1
    <3> QED
      BY <1>1, <1>3, <2>3, <2>4, <3>1 DEF Older
  <2>7. ~misled' /\ ApplyFits' /\ PrepareFree'
    BY <1>1, <1>3, <2>4 DEF Base, ApplyFits, PrepareFree
  <2>8. Awaiting'
    BY <1>3 DEF Awaiting
  <2>9. AwaitClean'
    BY <1>1, <1>3, <2>3, <2>4 DEF AwaitClean, ClearFlight, Calls
  <2>10. OrderInv'
    <3>1. (holder' = "post") = TRUE
      BY <1>3
    <3>2. Ordered(uiQ', Gen', TRUE)
      BY <1>1, <1>3, <2>3
    <3> QED
      BY <1>1, <3>1, <3>2 DEF OrderInv
  <2> QED
    BY <2>5, <2>6, <2>7, <2>8, <2>9, <2>10 DEF Inv, Base
<1> QED
  BY <1>2, <1>3 DEF set_accessibility_adapter

LEMMA PostResetKeeps ==
  ASSUME CoLocated, Typed, Inv, PostReset
  PROVE  Inv'
<1> USE DEF service, flight, native, queues, Gen, Ack, Txn
<1>1. /\ uiStep = Idle /\ holder = "post" /\ Base /\ Idle.pc = "idle"
      /\ UNCHANGED <<running, service, flight, desired_semantics, bridge, uiStep, platQ, native>>
  BY IdleIs DEF PostReset, DriverTurn, Inv
<1>2. CASE uiQ' = uiQ /\ holder' = "stop"
  <2>1. Base'
    BY <1>1, <1>2 DEF Base, Turns, Older, ApplyFits, PrepareFree
  <2> QED
    BY <1>2, <2>1 DEF Inv, Alive
<1>3. CASE uiQ' = Append(uiQ, TaskOf("reset", Gen)) /\ holder' = "idle"
  <2>1. /\ uiQ \in Seq(UiTask) /\ Gen \in Services /\ Gen <= Gen /\ 0 < bridge.next_generation
    BY Counted
  <2>2. PICK t \in UiTask : /\ uiQ' = Append(uiQ, t) /\ t.kind = "reset" /\ t.service = Gen
                            /\ t.generation = 0
    BY <1>3, <2>1, TaskIs DEF Kinds
  <2>3. Below(uiQ', Gen, bridge.next_generation) /\ (running => NoStop(uiQ'))
    BY <1>1, <2>1, <2>2, GrowsBelow, GrowsStop DEF Base, Older, Turns
  <2>4. Turns'
    BY <1>1, <1>3, <2>3 DEF Base, Turns
  <2>5. Older' /\ ~misled' /\ ApplyFits' /\ PrepareFree'
    BY <1>1, <2>3 DEF Base, Older, ApplyFits, PrepareFree
  <2>6. SUFFICES ASSUME Alive' PROVE OrderInv' /\ Awaiting' /\ AwaitClean'
    BY <2>4, <2>5 DEF Inv, Base
  <2>7. Alive /\ Awaiting /\ OrderInv /\ AwaitClean
    BY <1>1, <2>6 DEF Alive, Awaiting, Inv
  <2>8. Ordered(uiQ, Gen, TRUE)
    <3>1. (holder = "post") = TRUE
      BY <1>1
    <3> QED
      BY <2>7, <3>1 DEF OrderInv
  <2>9. ~Unreset(uiQ', Gen) /\ Ordered(uiQ', Gen, FALSE)
    BY <2>1, <2>2, <2>8, GrowsReset DEF IsReset
  <2>10. OrderInv' /\ Awaiting'
    <3>1. (holder' = "post") = FALSE
      BY <1>3
    <3>2. Ordered(uiQ', Gen', FALSE)
      BY <1>1, <2>9
    <3> QED
      BY <1>1, <2>9, <3>1, <3>2 DEF OrderInv, Awaiting
  <2>11. NoResult(uiQ', Gen)
    BY <2>1, <2>2, <2>7, GrowsQuiet DEF AwaitClean
  <2> QED
    BY <1>1, <2>7, <2>10, <2>11 DEF AwaitClean
<1> QED
  BY <1>2, <1>3 DEF PostReset

(* A batch goes out under a fresh number: nothing anywhere carries it yet. *)
LEMMA FreshPublication ==
  ASSUME NEW S, NEW q \in Seq(S), NEW s, NEW n \in Nat, Below(q, s, n),
         \A x \in S : x.generation \in Nat
  PROVE  /\ Below(q, s, n + 1) /\ Unsent(q, s, n) /\ Unanswered(q, s, n)
         /\ OneSent(q, s, n) /\ OneAnswer(q, s, n)
         /\ \A T : AllBring(q, s, n, T)
         /\ \A T, ack, tree : Truthful(q, s, n, T, ack, tree)
<1>1. \A i \in 1 .. Len(q) : /\ q[i].generation \in Nat /\ q[i].service <= s
                             /\ q[i].generation < n
  BY ElementOfSeq DEF Below
<1>2. \A m \in Nat : m < n => m < n + 1 /\ m # n
  OBVIOUS
<1>3. \A i \in 1 .. Len(q) : q[i].generation < n + 1 /\ q[i].generation # n
  BY <1>1, <1>2
<1>4. Below(q, s, n + 1) /\ Unsent(q, s, n) /\ Unanswered(q, s, n)
  BY <1>1, <1>3 DEF Below, Unsent, Unanswered, Carries, IsResult
<1> QED
  BY <1>4 DEF Unsent, Unanswered, OneSent, OneAnswer, AllBring, Truthful

LEMMA PublishKeeps ==
  ASSUME CoLocated, Typed, Inv, ~Exhausted, applying = {}, holder = "idle", ~misled',
         uiStep.pc \in {"prepare", "reprepare"},
         NEW x \in Transaction, x.generation = bridge.next_generation, x.in_flight,
         Alive => x.update = Diff(Ack, x.candidate) /\ ~retry_pending',
         Publish([bridge EXCEPT !.next_generation = bridge.next_generation + 1, !.transaction = {x}],
                 bridge.next_generation, x.update),
         UNCHANGED <<running, service, retry_requested, desired_semantics, holder, queues,
                     applying, model>>
  PROVE  Inv'
<1> USE DEF service, flight, native, queues, Gen, Ack, Txn
<1> DEFINE n == bridge.next_generation
           br == [bridge EXCEPT !.next_generation = n + 1, !.transaction = {x}]
<1>1. br \in Bridge /\ br.transaction = {x} /\ br.acknowledged = Ack /\ br.next_generation = n + 1
  BY PreparedTyped
<1>2. Publish(br, n, x.update)
  OBVIOUS
<1> HIDE DEF br
<1>3. /\ Base /\ n \in Nat /\ n \in Publications /\ n >= 1 /\ Gen \in Nat /\ uiQ \in Seq(UiTask)
      /\ platQ \in Seq(Publication) /\ uiStep.service \in Services /\ uiStep.service <= Gen
      /\ \A y \in UiTask : y.generation \in Nat
      /\ \A y \in Publication : y.generation \in Nat
      /\ Idle.pc = "idle" /\ Idle.posting = {} /\ Idle.service <= Gen /\ n < n + 1
  <2>1. Base /\ uiStep.service <= Gen
    BY DEF Inv, Base, Older
  <2>2. /\ n \in Nat /\ n \in Publications /\ n >= 1 /\ Gen \in Nat /\ uiQ \in Seq(UiTask)
        /\ platQ \in Seq(Publication) /\ uiStep.service \in Services
    BY Counted
  <2>3. \A g \in Publications : g \in Nat
    BY AccessibilityConstants DEF Publications
  <2> QED
    BY <2>1, <2>2, <2>3, Numbers, IdleIs
<1> HIDE DEF n
<1>4. /\ Below(uiQ, Gen, n + 1) /\ Below(platQ, Gen, n + 1)
      /\ Unsent(platQ, Gen, n) /\ OneSent(platQ, Gen, n) /\ Unanswered(uiQ, Gen, n)
      /\ OneAnswer(uiQ, Gen, n)
      /\ AllBring(platQ, Gen, n, {x}) /\ Truthful(uiQ, Gen, n, {x}, Ack, model)
  <2>1. Below(uiQ, Gen, n) /\ Below(platQ, Gen, n)
    BY <1>3 DEF Base, Older, n
  <2> QED
    BY <1>3, <2>1, FreshPublication
<1>5. CASE ~Alive
  <2>1. ~running
    BY <1>5 DEF Alive
  <2>2. bridge' = Rejected(br, n) /\ uiStep' = Idle
    BY <1>2, <2>1 DEF Publish, MayPublish
  <2>3. bridge'.next_generation = n + 1
    BY <1>1, <2>2, RejectedTyped
  <2>4. Turns'
    BY <1>3, <2>1, <2>2 DEF Base, Turns, One
  <2>5. Older'
    BY <1>3, <1>4, <2>2, <2>3 DEF Older
  <2>6. ApplyFits' /\ PrepareFree'
    BY <1>3, <2>2 DEF ApplyFits, PrepareFree
  <2> QED
    BY <2>1, <2>4, <2>5, <2>6 DEF Inv, Base, Alive
<1>6. CASE Alive
  <2>1. OrderInv /\ ~Awaiting /\ Synced /\ Wanted
    BY <1>6 DEF Inv, AwaitClean, Calls, Current
  <2>2. running /\ adapter /\ Gen = uiStep.service /\ ~in_flight /\ model = Ack
    BY <1>6, <2>1 DEF Alive, OrderInv, Synced
  <2> DEFINE y == [generation |-> n, update |-> x.update, service |-> uiStep.service]
  <2>3. /\ in_flight' = TRUE /\ publication' = n /\ publication_service' = Gen /\ bridge' = br
        /\ uiStep' = [At("post", uiStep.service) EXCEPT !.posting = {y}]
    BY <1>2, <2>2 DEF Publish, MayPublish
  <2>4. y \in Publication /\ y.generation = n /\ y.update = x.update /\ y.service = Gen
    <3>1. x.update \in Diffs
      BY DEF Transaction
    <3> QED
      BY <1>3, <2>2, <3>1 DEF Publication
  <2> HIDE DEF y
  <2>5. /\ uiStep'.pc = "post" /\ uiStep'.service = Gen /\ uiStep'.posting = {y}
        /\ uiStep' # Idle
    <3>1. uiStep'.pc = "post" /\ uiStep'.service = uiStep.service /\ uiStep'.posting = {y}
      BY <1>3, <2>3, <2>4, PostIs
    <3> QED
      BY <1>3, <2>2, <3>1
  <2>6. Turns'
    BY <1>3, <2>5 DEF Base, Turns, One
  <2>7. Older'
    <3>1. Gen <= Gen /\ Below(platQ', Gen', bridge'.next_generation)
          /\ Below(uiQ', Gen', bridge'.next_generation)
      BY <1>1, <1>3, <1>4, <2>3
    <3>2. uiStep'.service <= Gen'
      BY <2>5, <3>1
    <3>3. \A z \in applying' \cup uiStep'.posting :
            z.service <= Gen' /\ z.generation < bridge'.next_generation
      BY <1>1, <1>3, <2>3, <2>4, <2>5, <3>1
    <3> QED
      BY <3>1, <3>2, <3>3 DEF Older
  <2>8. ApplyFits' /\ PrepareFree'
    BY <2>5 DEF ApplyFits, PrepareFree
  <2>9. OrderInv' /\ ~Awaiting'
    BY <2>1, <2>5 DEF OrderInv, Awaiting
  <2>10. Txn' = {x} /\ Ack' = Ack
    BY <1>1, <2>3
  <2>11. Synced'
    <3>1. x.generation = publication' /\ ~retry_pending' /\ x.update = Diff(Ack', x.candidate)
      BY <1>6, <2>3, <2>10 DEF n
    <3> QED
      BY <2>2, <2>3, <2>5, <2>10, <3>1 DEF Synced, One
  <2>12. AppliesCurrent' /\ Wanted'
    BY <2>3, <2>5 DEF AppliesCurrent, Wanted
  <2>13. Places'
    <3>1. InPost'
      BY <2>3, <2>4, <2>5 DEF InPost, Carries
    <3>2. ~InPlatform' /\ ~InApply' /\ ~InResult'
      BY <1>4, <2>3 DEF InPlatform, InApply, InResult
    <3>3. /\ OneSent(platQ', Gen', publication') /\ OneAnswer(uiQ', Gen', publication')
          /\ AllBring(platQ', Gen', publication', Txn')
          /\ Truthful(uiQ', Gen', publication', Txn', Ack', model')
      BY <1>4, <2>3, <2>10
    <3>4. \A z \in applying' \cup uiStep'.posting : Brings(z, Txn')
      BY <2>4, <2>5, <2>10 DEF Brings
    <3>5. model' = Ack'
      BY <2>2, <2>10
    <3> QED
      BY <2>5, <3>1, <3>2, <3>3, <3>4, <3>5 DEF Places
  <2> QED
    BY <2>6, <2>7, <2>8, <2>9, <2>11, <2>12, <2>13 DEF Inv, Base, Current
<1> QED
  BY <1>5, <1>6

LEMMA PrepareKeeps ==
  ASSUME CoLocated, Typed, Inv, Prepare
  PROVE  Inv'
<1> USE DEF service, flight, native, queues, Gen, Ack, Txn
<1> DEFINE d == Diff(Ack, uiStep.tree)
           n == bridge.next_generation
           x == [generation |-> n, candidate |-> uiStep.tree, update |-> d, in_flight |-> TRUE]
<1>1. /\ uiStep.pc = "prepare" /\ applying = {} /\ holder = "idle" /\ Base
      /\ UNCHANGED <<running, service, retry_pending, retry_requested, desired_semantics, holder,
                     queues, applying, model>>
  BY DEF Prepare, UiTurn, Inv
<1>2. ~Busy /\ ~misled
  BY <1>1 DEF Base, PrepareFree, Busy
<1>3. \/ /\ uiStep' = At("stop", 0) /\ misled' = (misled \/ Busy)
         /\ UNCHANGED <<bridge, in_flight, publication, publication_service>>
      \/ /\ EmptyDiff(d) /\ uiStep' = Idle
         /\ UNCHANGED <<bridge, in_flight, publication, publication_service, misled>>
      \/ /\ ~Exhausted /\ UNCHANGED misled
         /\ Publish([bridge EXCEPT !.next_generation = n + 1, !.transaction = {x}], n, d)
  BY DEF Prepare
<1>4. CASE /\ uiStep' = At("stop", 0) /\ misled' = (misled \/ Busy)
           /\ UNCHANGED <<bridge, in_flight, publication, publication_service>>
  BY <1>1, <1>2, <1>4, HaltKeeps
<1>5. CASE /\ EmptyDiff(d) /\ uiStep' = Idle
           /\ UNCHANGED <<bridge, in_flight, publication, publication_service, misled>>
  <2>1. uiStep'.pc = "idle" /\ uiStep'.posting = {} /\ uiStep'.service <= Gen
    BY <1>5, IdleIs, Counted
  <2>2. Base'
    BY <1>1, <1>5, <2>1, StepBase
  <2>3. SUFFICES ASSUME Alive' PROVE OrderInv' /\ ~Awaiting' /\ Current'
    BY <2>2 DEF Inv
  <2>4. Alive
    BY <1>1, <2>3 DEF Alive
  <2>5. OrderInv /\ ~Awaiting /\ Current
    BY <1>1, <2>4 DEF Inv, AwaitClean, Calls
  <2>6. Ack = uiStep.tree
    <3>1. Ack \in AllTrees /\ uiStep.tree \in AllTrees
      BY Counted DEF Typed, TypeOK
    <3> QED
      BY <1>5, <3>1, DiffTurns
  <2>7. OrderInv' /\ ~Awaiting'
    BY <1>1, <1>5, <2>1, <2>5 DEF OrderInv, Awaiting
  <2>8. ~in_flight
    BY <1>1, <2>5 DEF Current, Synced
  <2>9. Synced' /\ AppliesCurrent'
    BY <1>1, <1>5, <2>1, <2>5 DEF Current, Synced, AppliesCurrent
  <2>10. Wanted'
    <3>1. uiStep.tree \in desired_semantics /\ One(desired_semantics)
      BY <1>1, <2>5 DEF Current, Wanted, Base, Turns
    <3>2. \A t \in desired_semantics : t = Ack
      BY <2>6, <3>1 DEF One
    <3> QED
      BY <1>1, <1>5, <2>1, <3>2 DEF Wanted
  <2> QED
    BY <1>5, <2>7, <2>8, <2>9, <2>10 DEF Current
<1>6. CASE /\ ~Exhausted /\ UNCHANGED misled
           /\ Publish([bridge EXCEPT !.next_generation = n + 1, !.transaction = {x}], n, d)
  <2>1. /\ x \in Transaction /\ x.generation = n /\ x.in_flight /\ x.update = d
        /\ x.candidate = uiStep.tree
    <3>1. Ack \in AllTrees /\ uiStep.tree \in AllTrees /\ n \in Publications
      BY Counted DEF Typed, TypeOK
    <3>2. d \in Diffs
      BY <3>1, DiffTurns
    <3> HIDE DEF d, n
    <3> QED
      BY <3>1, <3>2 DEF Transaction
  <2>2. Alive => ~retry_pending'
    BY <1>1 DEF Inv, AwaitClean, Calls, Current, Synced
  <2>3. /\ x.update = Diff(Ack, x.candidate) /\ x.generation = bridge.next_generation
        /\ Publish([bridge EXCEPT !.next_generation = bridge.next_generation + 1, !.transaction = {x}],
                   bridge.next_generation, x.update)
    BY <1>6, <2>1
  <2> HIDE DEF x
  <2> QED
    BY <1>1, <1>2, <1>6, <2>1, <2>2, <2>3, PublishKeeps
<1> QED
  BY <1>3, <1>4, <1>5, <1>6

LEMMA ReprepareKeeps ==
  ASSUME CoLocated, Typed, Inv, Reprepare
  PROVE  Inv'
<1> USE DEF service, flight, native, queues, Gen, Ack, Txn
<1> DEFINE waiting == {x \in Txn : ~x.in_flight}
           n == bridge.next_generation
           y(x) == [x EXCEPT !.generation = n, !.in_flight = TRUE]
<1>1. /\ uiStep.pc = "reprepare" /\ applying = {} /\ holder = "idle" /\ Base /\ ~misled'
      /\ UNCHANGED <<running, service, retry_requested, desired_semantics, holder, queues, native>>
  BY DEF Reprepare, UiTurn, Inv, Base
<1>2. \/ /\ uiStep' = Idle
         /\ UNCHANGED <<bridge, in_flight, retry_pending, publication, publication_service>>
      \/ /\ uiStep' = At("stop", 0)
         /\ UNCHANGED <<bridge, in_flight, retry_pending, publication, publication_service>>
      \/ /\ ~Exhausted /\ retry_pending' = FALSE
         /\ \E x \in waiting :
              Publish([bridge EXCEPT !.next_generation = n + 1, !.transaction = {y(x)}], n, x.update)
  BY DEF Reprepare
<1>3. CASE /\ uiStep' = At("stop", 0)
           /\ UNCHANGED <<bridge, in_flight, retry_pending, publication, publication_service>>
  BY <1>1, <1>3, HaltKeeps
<1>4. CASE /\ uiStep' = Idle
           /\ UNCHANGED <<bridge, in_flight, retry_pending, publication, publication_service>>
  <2>1. uiStep'.pc = "idle" /\ uiStep'.posting = {} /\ uiStep'.service <= Gen
    BY <1>4, IdleIs, Counted
  <2>2. Base'
    BY <1>1, <1>4, <2>1, StepBase
  <2>3. SUFFICES ASSUME Alive' PROVE OrderInv' /\ ~Awaiting' /\ Current'
    BY <2>2 DEF Inv
  <2>4. Alive
    BY <1>1, <2>3 DEF Alive
  <2>5. OrderInv /\ ~Awaiting /\ Current
    BY <1>1, <2>4 DEF Inv, AwaitClean, Calls
  <2>6. ~in_flight /\ retry_pending
    BY <1>1, <2>5 DEF Current, Synced
  <2>7. OrderInv' /\ ~Awaiting'
    BY <1>1, <1>4, <2>1, <2>5 DEF OrderInv, Awaiting
  <2>8. Synced' /\ AppliesCurrent' /\ Wanted'
    BY <1>1, <1>4, <2>1, <2>5, <2>6 DEF Current, Synced, AppliesCurrent, Wanted
  <2> QED
    BY <1>4, <2>6, <2>7, <2>8 DEF Current
<1>5. ASSUME ~Exhausted, retry_pending' = FALSE, NEW x \in waiting,
             Publish([bridge EXCEPT !.next_generation = n + 1, !.transaction = {y(x)}], n, x.update)
      PROVE  Inv'
  <2>1. x \in Txn /\ x \in Transaction /\ n \in Publications
    BY <1>5, Counted DEF Typed, TypeOK
  <2>2. PICK z \in Transaction : /\ z = y(x) /\ z.generation = n /\ z.in_flight
                                 /\ z.update = x.update /\ z.candidate = x.candidate
    <3>1. /\ y(x) \in Transaction /\ y(x).generation = n /\ y(x).in_flight
          /\ y(x).update = x.update /\ y(x).candidate = x.candidate
      <4> HIDE DEF n
      <4> QED
        BY <2>1 DEF Transaction
    <3> HIDE DEF y
    <3> QED
      BY <3>1
  <2>3. Publish([bridge EXCEPT !.next_generation = bridge.next_generation + 1, !.transaction = {z}],
                bridge.next_generation, z.update)
    BY <1>5, <2>2
  <2>4. Alive => z.update = Diff(Ack, z.candidate)
    BY <1>1, <2>1, <2>2 DEF Inv, AwaitClean, Calls, Current, Synced
  <2> HIDE DEF y
  <2> QED
    BY <1>1, <1>5, <2>2, <2>3, <2>4, PublishKeeps
<1> QED
  BY <1>2, <1>3, <1>4, <1>5

LEMMA PostPublicationKeeps ==
  ASSUME CoLocated, Typed, Inv, PostPublication
  PROVE  Inv'
<1> USE DEF service, flight, native, queues, Gen, Ack, Txn
<1>1. /\ uiStep.pc = "post" /\ applying = {} /\ holder = "idle" /\ Base /\ ~misled'
      /\ UNCHANGED <<running, service, retry_pending, retry_requested, publication,
                     publication_service, desired_semantics, holder, uiQ, native>>
  BY DEF PostPublication, UiTurn, Inv, Base
<1>2. PICK x \in uiStep.posting :
        \/ platQ' = Append(platQ, x) /\ uiStep' = Idle /\ UNCHANGED <<in_flight, bridge>>
        \/ /\ bridge' = Rejected(bridge, x.generation)
           /\ uiStep' = At("stop", 0) /\ UNCHANGED platQ
  BY DEF PostPublication
<1>3. CASE bridge' = Rejected(bridge, x.generation) /\ uiStep' = At("stop", 0) /\ UNCHANGED platQ
  <2>1. bridge'.next_generation = bridge.next_generation
    BY <1>3, RejectedTyped DEF Typed
  <2> QED
    BY <1>1, <1>3, <2>1, HaltKeeps
<1>4. CASE platQ' = Append(platQ, x) /\ uiStep' = Idle /\ UNCHANGED <<in_flight, bridge>>
  <2>1. /\ uiStep'.pc = "idle" /\ uiStep'.posting = {} /\ uiStep'.service <= Gen
        /\ platQ \in Seq(Publication) /\ x \in Publication
    BY <1>4, IdleIs, Counted
  <2>2. Below(platQ', Gen, bridge.next_generation)
    <3>1. /\ Below(platQ, Gen, bridge.next_generation) /\ x.service <= Gen
          /\ x.generation < bridge.next_generation
      BY <1>1 DEF Base, Older
    <3> QED
      BY <1>4, <2>1, <3>1, GrowsBelow
  <2>3. Turns'
    BY <1>1, <1>4, <2>1 DEF Base, Turns, One
  <2>4. Older' /\ ApplyFits' /\ PrepareFree'
    BY <1>1, <1>4, <2>1, <2>2 DEF Base, Older, ApplyFits, PrepareFree
  <2>5. SUFFICES ASSUME Alive' PROVE OrderInv' /\ ~Awaiting' /\ Current'
    BY <1>1, <2>3, <2>4 DEF Inv, Base
  <2>6. Alive
    BY <1>1, <2>5 DEF Alive
  <2>7. OrderInv /\ ~Awaiting /\ Current
    BY <1>1, <2>6 DEF Inv, AwaitClean, Calls
  <2>8. OrderInv' /\ ~Awaiting'
    BY <1>1, <2>1, <2>7 DEF OrderInv, Awaiting
  <2>9. Synced' /\ AppliesCurrent' /\ Wanted'
    BY <1>1, <1>4, <2>1, <2>7 DEF Current, Synced, AppliesCurrent, Wanted
  <2>10. ASSUME in_flight' PROVE Places'
    <3>1. Places /\ InPost
      BY <1>1, <1>4, <2>7, <2>10 DEF Current, Places
    <3>2. Carries(x, Gen, publication)
      BY <1>1, <3>1 DEF InPost, Base, Turns, One
    <3>3. Unsent(platQ, Gen, publication) /\ Brings(x, Txn) /\ ~InResult
      BY <3>1, <3>2 DEF Places, InPlatform
    <3>4. /\ ~Unsent(platQ', Gen, publication) /\ OneSent(platQ', Gen, publication)
          /\ AllBring(platQ', Gen, publication, Txn)
      BY <1>4, <2>1, <3>2, <3>3, GrowsSent
    <3>5. ~InPost' /\ InPlatform' /\ ~InApply' /\ ~InResult'
      BY <1>1, <2>1, <3>3, <3>4 DEF InPost, InPlatform, InApply, InResult
    <3> QED
      BY <1>1, <1>4, <2>1, <3>1, <3>3, <3>4, <3>5 DEF Places
  <2> QED
    BY <2>8, <2>9, <2>10 DEF Current
<1> QED
  BY <1>2, <1>3, <1>4

LEMMA BeginApplyKeeps ==
  ASSUME CoLocated, Typed, Inv, BeginApply
  PROVE  Inv'
<1> USE DEF service, flight, native, queues, Gen, Ack, Txn
<1> DEFINE h == Head(platQ)
<1>1. /\ uiStep = Idle /\ holder = "idle" /\ platQ # <<>> /\ applying = {} /\ platQ' = Tail(platQ)
      /\ Base /\ Idle.pc = "idle" /\ Idle.posting = {} /\ platQ \in Seq(Publication)
      /\ UNCHANGED <<running, service, flight, desired_semantics, bridge, uiStep, holder, uiQ,
                     model, misled>>
  BY IdleIs, Counted DEF BeginApply, PlatformTurn, Inv
<1>2. applying' = {x \in {h} : ApplyCurrent(x)}
  BY DEF BeginApply
<1> HIDE DEF h
<1>3. /\ Below(platQ', Gen, bridge.next_generation) /\ h.service <= Gen
      /\ h.generation < bridge.next_generation
  BY <1>1, ShrinksPlain DEF Base, Older, h
<1>4. Turns' /\ Older' /\ ~misled' /\ PrepareFree'
  <2>1. \A x \in applying' : x = h
    BY <1>2
  <2>2. Turns'
    BY <1>1, <2>1 DEF Base, Turns, One
  <2>3. Older'
    BY <1>1, <1>3, <2>1 DEF Base, Older
  <2> QED
    BY <1>1, <2>2, <2>3 DEF Base, PrepareFree
<1>5. CASE ~Alive
  <2>1. ~running
    BY <1>1, <1>5 DEF Alive
  <2>2. applying' = {}
    BY <1>2, <2>1 DEF ApplyCurrent
  <2> QED
    BY <1>1, <1>4, <2>1, <2>2 DEF Inv, Base, Alive, ApplyFits
<1>6. CASE Alive
  <2>1. Alive' /\ OrderInv' /\ (Awaiting' <=> Awaiting)
    BY <1>1, <1>6 DEF Alive, OrderInv, Inv, Awaiting
  <2>2. CASE Awaiting
    <3>1. AwaitClean
      BY <1>6, <2>2 DEF Inv
    <3>2. applying' = {}
      BY <1>2, <3>1 DEF ApplyCurrent, AwaitClean
    <3>3. NoneOf(platQ', Gen)
      BY <1>1, <3>1, ShrinksPlain DEF AwaitClean
    <3> QED
      BY <1>1, <1>4, <2>1, <2>2, <3>1, <3>2, <3>3 DEF Inv, Base, ApplyFits, AwaitClean
  <2>3. CASE ~Awaiting
    <3>1. Current
      BY <1>6, <2>3 DEF Inv
    <3>2. Synced' /\ Wanted'
      BY <1>1, <3>1 DEF Current, Synced, Wanted
    <3>3. AppliesCurrent'
      BY <1>1, <1>2 DEF AppliesCurrent, ApplyCurrent
    <3>4. CASE ~in_flight
      <4>1. applying' = {}
        BY <1>2, <3>4 DEF ApplyCurrent
      <4> QED
        BY <1>1, <1>4, <2>1, <2>3, <3>2, <3>3, <3>4, <4>1 DEF Inv, Base, ApplyFits, Current
    <3>5. CASE in_flight
      <4>1. Places /\ Synced
        BY <1>1, <3>1, <3>5 DEF Current
      <4>2. ~InPost /\ ~InPost' /\ ~InApply /\ (InResult' <=> InResult)
        BY <1>1 DEF InPost, InApply, InResult
      <4>3. /\ OneSent(platQ', Gen', publication') /\ AllBring(platQ', Gen', publication', Txn')
            /\ ~Carries(h, Gen, publication) =>
                 (Unsent(platQ', Gen', publication') <=> Unsent(platQ, Gen, publication))
            /\ Carries(h, Gen, publication) =>
                 /\ Unsent(platQ', Gen', publication') /\ ~Unsent(platQ, Gen, publication)
                 /\ Brings(h, Txn)
        BY <1>1, <4>1, ShrinksSent DEF Places, h
      <4>4. CASE ~Carries(h, Gen, publication)
        <5>1. applying' = {}
          BY <1>2, <4>4 DEF ApplyCurrent, Carries
        <5>2. (InPlatform' <=> InPlatform) /\ ~InApply'
          BY <4>3, <4>4, <5>1 DEF InPlatform, InApply
        <5>3. Places'
          BY <1>1, <4>1, <4>2, <4>3, <5>1, <5>2 DEF Places
        <5> QED
          BY <1>1, <1>4, <2>1, <2>3, <3>2, <3>3, <5>1, <5>3 DEF Inv, Base, ApplyFits, Current
      <4>5. CASE Carries(h, Gen, publication)
        <5>1. ApplyCurrent(h)
          BY <1>1, <1>6, <3>5, <4>1, <4>5 DEF ApplyCurrent, Carries, Alive, Synced
        <5>2. applying' = {h}
          BY <1>2, <5>1
        <5>3. InPlatform /\ ~InResult /\ model = Ack
          BY <4>1, <4>3, <4>5 DEF InPlatform, Places
        <5>4. ~InPlatform' /\ InApply' /\ ~InResult'
          BY <1>1, <4>2, <4>3, <4>5, <5>2, <5>3 DEF InPlatform, InApply
        <5>5. \A y \in applying' \cup uiStep'.posting : Brings(y, Txn')
          BY <1>1, <4>3, <4>5, <5>2
        <5>6. Places'
          BY <1>1, <4>1, <4>2, <4>3, <5>3, <5>4, <5>5 DEF Places
        <5>7. Fits(h.update, model)
          <6>1. PICK z \in Txn : h.update = z.update /\ z.update = Diff(Ack, z.candidate)
            BY <4>1, <4>3, <4>5 DEF Brings, Synced
          <6>2. Ack \in AllTrees /\ z.candidate \in AllTrees
            BY DEF Typed, TypeOK, Transaction
          <6> QED
            BY <5>3, <6>1, <6>2, DiffTurns
        <5>8. ApplyFits'
          BY <1>1, <5>2, <5>7 DEF ApplyFits
        <5> QED
          BY <1>1, <1>4, <2>1, <2>3, <3>2, <3>3, <5>6, <5>8 DEF Inv, Base, Current
      <4> QED
        BY <4>4, <4>5
    <3> QED
      BY <3>4, <3>5
  <2> QED
    BY <2>2, <2>3
<1> QED
  BY <1>5, <1>6

LEMMA EndApplyKeeps ==
  ASSUME CoLocated, Typed, Inv, NEW success \in BOOLEAN, EndApply(success)
  PROVE  Inv'
<1> USE DEF service, flight, native, queues, Gen, Ack, Txn
<1>1. /\ uiStep = Idle /\ holder = "idle" /\ Base /\ Idle.pc = "idle" /\ Idle.posting = {}
      /\ UNCHANGED <<service, flight, desired_semantics, bridge, uiStep, holder, platQ>>
  BY IdleIs DEF EndApply, PlatformTurn, Inv
<1>2. PICK x \in applying :
        /\ applying' = {}
        /\ model' = IF (success /\ Gen = x.service) /\ Fits(x.update, model)
                    THEN Applied(x.update, model) ELSE model
        /\ misled' = (misled \/ ((success /\ Gen = x.service) /\ ~Fits(x.update, model)))
        /\ \/ /\ uiQ' = Append(uiQ, [TaskOf("result", x.service) EXCEPT
                                       !.generation = x.generation, !.success = success])
              /\ UNCHANGED running
           \/ StopHost
  BY DEF EndApply
<1>3. ~misled' /\ (x.service = Gen => Fits(x.update, model))
  BY <1>1, <1>2 DEF Base, ApplyFits
<1>4. /\ x \in Publication /\ x.service \in Services /\ x.generation \in Publications
      /\ x.service <= Gen /\ x.generation < bridge.next_generation /\ uiQ \in Seq(UiTask)
  <2>1. x \in Publication /\ uiQ \in Seq(UiTask)
    BY Counted
  <2> QED
    BY <1>1, <2>1, Numbers DEF Base, Older
<1>5. CASE StopHost
  <2>1. ~running' /\ Below(uiQ', Gen, bridge.next_generation)
    BY <1>1, <1>5, StopsBelow DEF StopHost, Base, Older
  <2>2. Turns'
    BY <1>1, <1>2, <2>1 DEF Base, Turns, One
  <2>3. Older' /\ ApplyFits' /\ PrepareFree'
    BY <1>1, <1>2, <2>1 DEF Base, Older, ApplyFits, PrepareFree
  <2> QED
    BY <1>3, <2>1, <2>2, <2>3 DEF Inv, Base, Alive
<1>6. CASE /\ uiQ' = Append(uiQ, [TaskOf("result", x.service) EXCEPT
                                    !.generation = x.generation, !.success = success])
           /\ UNCHANGED running
  <2>1. PICK t \in UiTask : /\ uiQ' = Append(uiQ, t) /\ t.kind = "result"
                            /\ t.service = x.service /\ t.generation = x.generation
                            /\ t.success = success
    <3> DEFINE w == [TaskOf("result", x.service) EXCEPT
                       !.generation = x.generation, !.success = success]
    <3>1. w \in UiTask /\ w.kind = "result" /\ w.service = x.service /\ w.generation = x.generation
          /\ w.success = success
      <4>1. PICK r \in UiTask : r = TaskOf("result", x.service) /\ r.kind = "result" /\ r.service = x.service
        BY <1>4, TaskIs DEF Kinds
      <4>2. PICK g \in Publications : g = x.generation
        BY <1>4
      <4>3. w = [r EXCEPT !.generation = g, !.success = success]
        BY <4>1, <4>2
      <4> HIDE DEF w
      <4>4. w \in UiTask /\ w.kind = "result" /\ w.service = r.service /\ w.generation = g /\ w.success = success
        BY <4>1, <4>3 DEF UiTask
      <4> QED
        BY <4>1, <4>2, <4>4
    <3>2. uiQ' = Append(uiQ, w)
      BY <1>6
    <3> HIDE DEF w
    <3> QED
      BY <3>1, <3>2
  <2>2. Below(uiQ', Gen, bridge.next_generation) /\ (running => NoStop(uiQ'))
    <3>1. Below(uiQ, Gen, bridge.next_generation) /\ (running => NoStop(uiQ))
      BY <1>1 DEF Base, Older, Turns
    <3> QED
      BY <1>4, <2>1, <3>1, GrowsBelow, GrowsStop
  <2>3. Turns'
    BY <1>1, <1>2, <1>6, <2>2 DEF Base, Turns, One
  <2>4. Older' /\ ApplyFits' /\ PrepareFree'
    BY <1>1, <1>2, <2>2 DEF Base, Older, ApplyFits, PrepareFree
  <2>5. SUFFICES ASSUME Alive'
                 PROVE  OrderInv' /\ (Awaiting' => AwaitClean') /\ (~Awaiting' => Current')
    BY <1>3, <2>3, <2>4 DEF Inv, Base
  <2>6. Alive /\ OrderInv
    BY <1>1, <1>6, <2>5 DEF Alive, Inv
  <2>7. OrderInv' /\ (Awaiting' <=> Awaiting)
    <3>1. ~IsReset(t, Gen) /\ t.kind # "publish"
      BY <2>1 DEF IsReset
    <3>2. (holder = "post") = FALSE /\ (holder' = "post") = FALSE
      BY <1>1
    <3>3. Ordered(uiQ, Gen, FALSE)
      BY <2>6, <3>2 DEF OrderInv
    <3>4. Ordered(uiQ', Gen', FALSE) /\ (Unreset(uiQ', Gen') <=> Unreset(uiQ, Gen))
      BY <1>1, <1>4, <2>1, <3>1, <3>3, GrowsOther
    <3> QED
      BY <1>1, <3>2, <3>4 DEF OrderInv, Awaiting
  <2>8. ASSUME Awaiting PROVE AwaitClean'
    <3>1. AwaitClean /\ x.service # Gen
      BY <2>6, <2>8 DEF Inv, AwaitClean
    <3>2. NoResult(uiQ', Gen)
      BY <1>4, <2>1, <3>1, GrowsQuiet DEF AwaitClean
    <3> QED
      BY <1>1, <1>2, <3>1, <3>2 DEF AwaitClean
  <2>9. ASSUME ~Awaiting PROVE Current'
    <3>1. Current
      BY <2>6, <2>9 DEF Inv
    <3>2. CASE x.service # Gen
      <4>1. model' = model /\ ~IsResult(t, Gen, publication) /\ ~Carries(x, Gen, publication)
        BY <1>2, <2>1, <3>2 DEF IsResult, Carries
      <4>2. Synced' /\ AppliesCurrent' /\ Wanted'
        BY <1>1, <1>2, <3>1, <4>1 DEF Current, Synced, AppliesCurrent, Wanted
      <4>3. ASSUME in_flight' PROVE Places'
        <5>1. Places
          BY <1>1, <3>1, <4>3 DEF Current
        <5>2. /\ Unanswered(uiQ', Gen, publication) <=> Unanswered(uiQ, Gen, publication)
              /\ OneAnswer(uiQ', Gen, publication)
              /\ Truthful(uiQ', Gen, publication, Txn, Ack, model)
          BY <1>4, <2>1, <4>1, <5>1, GrowsQuiet DEF Places
        <5>3. ~InApply /\ ~InApply'
          BY <1>1, <1>2, <4>1 DEF InApply, Base, Turns, One
        <5>4. ~InPost /\ ~InPost' /\ (InPlatform' <=> InPlatform) /\ (InResult' <=> InResult)
          BY <1>1, <5>2 DEF InPost, InPlatform, InResult
        <5> QED
          BY <1>1, <1>2, <4>1, <5>1, <5>2, <5>3, <5>4 DEF Places
      <4> QED
        BY <4>2, <4>3 DEF Current
    <3>3. CASE x.service = Gen
      <4>1. in_flight /\ publication = x.generation
        BY <3>1, <3>3 DEF Current, AppliesCurrent
      <4>2. Places /\ Synced /\ Carries(x, Gen, publication) /\ IsResult(t, Gen, publication)
        BY <1>1, <2>1, <3>1, <3>3, <4>1 DEF Current, Carries, IsResult
      <4>3. InApply /\ ~InPlatform /\ ~InPost /\ ~InResult /\ model = Ack /\ Brings(x, Txn)
        BY <4>2 DEF InApply, Places
      <4>4. Tells(t, Txn, Ack, model')
        <5>1. CASE success
          <6>1. PICK z \in Txn : x.update = z.update /\ z.update = Diff(Ack, z.candidate)
            BY <4>2, <4>3 DEF Brings, Synced
          <6>2. Ack \in AllTrees /\ z.candidate \in AllTrees
            BY DEF Typed, TypeOK, Transaction
          <6>3. model' = Applied(x.update, model)
            BY <1>2, <1>3, <3>3, <5>1
          <6>4. model' = z.candidate
            BY <4>3, <6>1, <6>2, <6>3, DiffTurns
          <6> QED
            BY <2>1, <5>1, <6>4 DEF Tells
        <5>2. CASE ~success
          BY <1>2, <2>1, <4>3, <5>2 DEF Tells
        <5> QED
          BY <5>1, <5>2
      <4>5. /\ ~Unanswered(uiQ', Gen, publication) /\ OneAnswer(uiQ', Gen, publication)
            /\ Truthful(uiQ', Gen, publication, Txn, Ack, model')
        BY <1>4, <2>1, <4>2, <4>3, <4>4, GrowsQuiet DEF InResult
      <4>6. Synced' /\ AppliesCurrent' /\ Wanted'
        BY <1>1, <1>2, <3>1, <4>1 DEF Current, Synced, AppliesCurrent, Wanted
      <4>7. ~InPost' /\ ~InPlatform' /\ ~InApply' /\ InResult'
        BY <1>1, <1>2, <4>3, <4>5 DEF InPost, InPlatform, InApply, InResult
      <4>8. Places'
        BY <1>1, <1>2, <4>2, <4>5, <4>7 DEF Places
      <4> QED
        BY <4>6, <4>8 DEF Current
    <3> QED
      BY <3>2, <3>3
  <2> QED
    BY <2>7, <2>8, <2>9
<1> QED
  BY <1>2, <1>5, <1>6
-----------------------------------------------------------------------------
LEMMA InitInv == Init => Typed /\ Inv
<1> SUFFICES ASSUME Init PROVE Typed /\ Inv
  OBVIOUS
<1> USE DEF Gen, Ack, Txn
<1>1. /\ bridge \in Bridge /\ bridge.acknowledged = NoTree /\ bridge.transaction = {}
      /\ bridge.next_generation = 1
  BY TreesAreFunctions, AccessibilityConstants DEF Init, Bridge
<1>2. bridge.next_generation \in 1 .. MaxPublication
  BY <1>1 DEF Bridge
<1>3. Typed
  <2>1. /\ running \in BOOLEAN /\ adapter \in BOOLEAN /\ accessibility_generation \in Services
        /\ {in_flight, retry_pending, retry_requested} \subseteq BOOLEAN
        /\ publication \in Publications /\ publication_service \in Services
        /\ desired_semantics \in SUBSET AllTrees /\ misled \in BOOLEAN
    BY Zero DEF Init
  <2>2. /\ bridge.acknowledged \in AllTrees /\ bridge.transaction \in SUBSET Transaction
    BY <1>1, TreesAreFunctions
  <2>3. /\ uiStep \in Step /\ applying \in SUBSET Publication /\ holder \in {"idle", "post", "stop"}
        /\ uiQ \in Seq(UiTask) /\ platQ \in Seq(Publication)
    BY IdleIs DEF Init
  <2> QED
    BY <1>1, <1>2, <2>1, <2>2, <2>3 DEF Typed, TypeOK
<1>4. uiQ = <<>> /\ platQ = <<>> /\ Len(uiQ) = 0 /\ Len(platQ) = 0 /\ 1 .. 0 = {}
  BY DEF Init
<1>5. /\ NoStop(uiQ) /\ Below(uiQ, 0, 1) /\ Below(platQ, 0, 1) /\ Ordered(uiQ, 0, FALSE)
      /\ Unreset(uiQ, 0)
  BY <1>4 DEF NoStop, Below, Ordered, Unreset
<1>6. Turns /\ Older /\ ~misled /\ ApplyFits /\ PrepareFree
  BY <1>1, <1>5, IdleIs DEF Init, Turns, Older, One, ApplyFits, PrepareFree
<1>7. OrderInv /\ ~Awaiting
  <2>1. (holder = "post") = FALSE
    BY DEF Init
  <2> QED
    BY <1>5, <2>1, IdleIs DEF Init, OrderInv, Awaiting
<1>8. Synced /\ AppliesCurrent /\ Wanted /\ ~in_flight
  BY <1>1, IdleIs DEF Init, Synced, AppliesCurrent, Wanted, One
<1> QED
  BY <1>3, <1>6, <1>7, <1>8 DEF Inv, Base, Current

LEMMA InvStep == CoLocated /\ Typed /\ Inv /\ [Next]_vars => Inv'
<1> SUFFICES ASSUME CoLocated, Typed, Inv, [Next]_vars PROVE Inv'
  OBVIOUS
<1>1. CASE UNCHANGED vars
  BY <1>1 DEF vars, service, flight, queues, native, Inv, Base, Turns, Older, ApplyFits, PrepareFree,
     Alive, OrderInv, Awaiting, AwaitClean, Current, Synced, AppliesCurrent, Wanted, Places, InPost,
     InPlatform, InApply, InResult, Gen, Ack, Txn
<1>2. CASE shutdown \/ UiStops \/ HolderStops
  BY <1>2, StopKeeps DEF shutdown, UiStops, HolderStops
<1>3. CASE ReleaseAdapter
  BY <1>3, ReleaseKeeps
<1>4. CASE retry_semantics \/ \E t \in Trees : publish_semantics(t)
  BY <1>4, AskKeeps
<1>5. CASE \E a \in BOOLEAN : set_accessibility_adapter(a)
  BY <1>5, SetAdapterKeeps
<1>6. CASE PostReset
  BY <1>6, PostResetKeeps
<1>7. CASE BeginApply
  BY <1>7, BeginApplyKeeps
<1>8. CASE EndApply(TRUE) \/ EndApply(FALSE)
  BY <1>8, EndApplyKeeps
<1>9. CASE PostCall \/ PublishTask \/ RetryTask \/ ResetTask \/ StopTask \/ ResultTask
  BY <1>9, PostCallKeeps, PublishTaskKeeps, RetryTaskKeeps, ResetTaskKeeps, StopTaskKeeps,
     ResultTaskKeeps
<1>10. CASE SettleResult \/ Dispatch \/ Retry \/ Prepare \/ Reprepare \/ PostPublication
  BY <1>10, SettleKeeps, DispatchKeeps, RetryKeeps, PrepareKeeps, ReprepareKeeps,
     PostPublicationKeeps
<1> QED
  BY <1>1, <1>2, <1>3, <1>4, <1>5, <1>6, <1>7, <1>8, <1>9, <1>10 DEF Next, Ui

LEMMA InvFollows ==
  ASSUME Typed, Inv
  PROVE  ChangesFit /\ AdapterFollows
<1> USE DEF Gen, Ack, Txn
<1>1. ChangesFit
  BY DEF Inv, Base, ChangesFit
<1>2. ASSUME AtRest
      PROVE  /\ ~in_flight /\ ~retry_requested
             /\ adapter =>
                  /\ model = bridge.acknowledged
                  /\ \/ \E t \in desired_semantics : model = t
                     \/ desired_semantics = {}
                     \/ retry_pending /\ \E x \in bridge.transaction : ~x.in_flight
  <2>1. /\ running /\ uiStep = Idle /\ uiStep.pc = "idle" /\ uiStep.posting = {} /\ holder = "idle"
        /\ applying = {} /\ uiQ = <<>> /\ platQ = <<>> /\ Len(uiQ) = 0 /\ Len(platQ) = 0
        /\ 1 .. 0 = {}
    BY <1>2, IdleIs DEF AtRest
  <2>2. /\ Unreset(uiQ, Gen) /\ Unsent(platQ, Gen, publication)
        /\ Unanswered(uiQ, Gen, publication)
    BY <2>1 DEF Unreset, Unsent, Unanswered
  <2>3. Current
    BY <2>1, <2>2 DEF Inv, Alive, Awaiting
  <2>4. ~in_flight
    BY <2>1, <2>2, <2>3 DEF Current, Places, InPost, InPlatform, InApply, InResult
  <2>5. ~retry_requested /\ model = Ack
    BY <2>3, <2>4 DEF Current, Synced
  <2>6. ASSUME adapter, ~retry_pending PROVE \A t \in desired_semantics : t = model
    BY <2>1, <2>3, <2>4, <2>5, <2>6 DEF Current, Wanted
  <2>7. retry_pending => \E x \in bridge.transaction : ~x.in_flight
    BY <2>3, <2>4 DEF Current, Synced
  <2> QED
    BY <2>4, <2>5, <2>6, <2>7
<1> QED
  BY <1>1, <1>2 DEF AdapterFollows

(***************************************************************************)
(* Every field keeps its type, whatever the executors do: queues hold only *)
(* tasks of this service's making, the bridge at most well-formed batches, *)
(* and no counter of src/src/host.cpp or of the bridge passes its limit.   *)
(***************************************************************************)
THEOREM AccessibilityTypeCorrect == Spec => []TypeOK
<1>1. Init => Typed
  BY InitInv
<1>2. Typed /\ [Next]_vars => Typed'
  BY TypedStep
<1>3. Typed => TypeOK
  BY DEF Typed
<1> QED
  BY <1>1, <1>2, <1>3, PTL DEF Spec

LEMMA InvAlways ==
  ASSUME CoLocated
  PROVE  Spec => [](Typed /\ Inv)
<1>1. Init => Typed /\ Inv
  BY InitInv
<1>2. Typed /\ Inv /\ [Next]_vars => Typed' /\ Inv'
  BY TypedStep, InvStep
<1> QED
  BY <1>1, <1>2, PTL DEF Spec

(***************************************************************************)
(* With both executors on one thread (CoLocated), every batch the platform *)
(* adapter is handed (post_accessibility_publication in src/src/host.cpp)  *)
(* fits the tree the adapter has: it adds only absent nodes, and updates   *)
(* and removes only present ones, across rejected batches, retries, resets *)
(* and replaced adapters.  On two threads this is false: the run           *)
(* accessibility_separate_executors shows it.                              *)
(***************************************************************************)
THEOREM ChangesAlwaysFit ==
  ASSUME CoLocated
  PROVE  Spec => []ChangesFit
<1>1. Typed /\ Inv => ChangesFit
  BY InvFollows
<1> QED
  BY <1>1, InvAlways, PTL

(***************************************************************************)
(* With both executors on one thread, once every queued task has run no    *)
(* batch is left unanswered, no retry is forgotten, and an attached        *)
(* adapter has the tree the bridge believes acknowledged, which is the     *)
(* last one given to update_semantics unless the adapter rejected it and   *)
(* a retry is still owed.                                                  *)
(***************************************************************************)
THEOREM AdapterAlwaysFollows ==
  ASSUME CoLocated
  PROVE  Spec => []AdapterFollows
<1>1. Typed /\ Inv => AdapterFollows
  BY InvFollows
<1> QED
  BY <1>1, InvAlways, PTL
=============================================================================
