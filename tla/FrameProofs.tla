---------------------------- MODULE FrameProofs ----------------------------
(***************************************************************************)
(* The way of a frame: proofs about the frame loop of the host window      *)
(* (HostFrame) for every limit of the counters, any set of timestamps and  *)
(* with or without failing posts and control calls; and about RasterThread *)
(* for any set of clients and any number of submissions.                   *)
(***************************************************************************)
EXTENDS HostFrame, RasterThread, TLAPS

(***************************************************************************)
(* The frame loop: type correctness and the invariants that make it sound. *)
(***************************************************************************)
(* A step description that ArmFrame, an invalidation or a shutdown leaves  *)
(* stays within the generation counter's range.                            *)
LEMMA InvalidatedTyped ==
  ASSUME TypeOK
  PROVE  InvalidatedDemand \in BOOLEAN /\ InvalidatedGeneration \in FrameGenerations
         /\ InvalidateExhausts \in BOOLEAN
BY FrameConstants
   DEF TypeOK, InvalidatedDemand, InvalidatedGeneration, InvalidateExhausts, FrameGenerations

LEMMA AppendUi ==
  ASSUME NEW q \in Seq(UiTask), NEW t \in UiTask
  PROVE  Append(q, t) \in Seq(UiTask)
OBVIOUS

LEMMA AppendPlatform ==
  ASSUME NEW q \in Seq(PlatformTask), NEW t \in PlatformTask
  PROVE  Append(q, t) \in Seq(PlatformTask)
OBVIOUS

LEMMA QueueTails ==
  ASSUME TypeOK
  PROVE  /\ uiQ # <<>> => Head(uiQ) \in UiTask /\ Tail(uiQ) \in Seq(UiTask)
         /\ platQ # <<>> => Head(platQ) \in PlatformTask /\ Tail(platQ) \in Seq(PlatformTask)
BY DEF TypeOK

(* HostWindow::shutdown keeps the state it touches well typed. *)
LEMMA ShutdownTyped ==
  ASSUME TypeOK, NEW ui \in Seq(UiTask), NEW plat \in Seq(PlatformTask),
         Shutdown(ui, plat)
  PROVE  /\ running' \in BOOLEAN /\ visible' \in BOOLEAN /\ surface' \in HostSurfaceState
         /\ metrics_generation' \in 1 .. MaxMetricsGeneration
         /\ frame_demand' \in BOOLEAN /\ frame_armed' \in BOOLEAN
         /\ frame_delivering' \in BOOLEAN
         /\ frame_generation' \in FrameGenerations
         /\ next_frame_sequence' \in 1 .. MaxSequence
         /\ last_frame_timestamp' \in Timestamps \cup {-1}
         /\ platform_shutdown_complete' \in BOOLEAN
         /\ uiQ' \in Seq(UiTask)
         /\ platQ' \in Seq(PlatformTask)
<1>1. Append(ui, Task("shutdown", 0)) \in Seq(UiTask)
  BY AppendUi DEF Task, UiTask
<1>2. Append(plat, ShutdownControl) \in Seq(PlatformTask)
  BY AppendPlatform DEF PlatformTask
<1>3. uiQ' \in Seq(UiTask) /\ platQ' \in Seq(PlatformTask)
  BY <1>1, <1>2 DEF Shutdown, ShutdownPosts
<1>4. frame_generation' \in FrameGenerations
  BY FrameConstants DEF Shutdown, StopFrames, TypeOK, FrameGenerations
<1> QED
  BY <1>3, <1>4 DEF Shutdown, StopFrames, TypeOK

LEMMA InitTyped == Init => TypeOK
<1> SUFFICES ASSUME Init PROVE TypeOK
  OBVIOUS
<1>1. uiStep \in UiSteps /\ platStep \in PlatSteps
  BY FrameConstants DEF Init, FrameGenerations, PlatSteps, UiSteps, UiIdle
<1>2. uiQ \in Seq(UiTask) /\ platQ \in Seq(PlatformTask)
  BY DEF Init
<1>3. /\ metrics_generation \in 1 .. MaxMetricsGeneration
      /\ frame_generation \in FrameGenerations
      /\ next_frame_sequence \in 1 .. MaxSequence
      /\ ctl \in FrameGenerations /\ late \in FrameGenerations
      /\ told \in 1 .. MaxMetricsGeneration
  BY FrameConstants DEF Init, FrameGenerations
<1>4. last_frame_timestamp \in Timestamps \cup {-1} /\ surface \in HostSurfaceState
  BY DEF Init, HostSurfaceState
<1> QED
  BY <1>1, <1>2, <1>3, <1>4 DEF Init, TypeOK

LEMMA NextTyped == TypeOK /\ [Next]_vars => TypeOK'
<1> SUFFICES ASSUME TypeOK, [Next]_vars PROVE TypeOK'
  OBVIOUS
<1> USE FrameConstants
<1>0. 0 \in FrameGenerations
  BY DEF FrameGenerations
<1>1. CASE set_metrics
  <2>1. Usable \in BOOLEAN
    BY DEF TypeOK, Usable
  <2>2. metrics_generation + 1 \in 1 .. MaxMetricsGeneration
    BY <1>1 DEF set_metrics, TypeOK
  <2>3. Task("metrics", metrics_generation + 1) \in UiTask
    BY <2>2 DEF Task, UiTask
  <2> DEFINE g == IF Arms(Usable, FALSE, frame_delivering, InvalidatedDemand,
                          InvalidatedGeneration)
                    THEN InvalidatedGeneration + 1 ELSE 0
  <2>4. /\ frame_armed' \in BOOLEAN
        /\ frame_generation' \in FrameGenerations
        /\ frame_generation_exhausted' \in BOOLEAN
        /\ g \in FrameGenerations
    BY <1>1, <2>1, InvalidatedTyped DEF set_metrics, ArmFrame, Arms, CanArm, ArmExhausts,
        FrameGenerations, TypeOK
  <2>5. platStep' \in PlatSteps
    BY <1>1, <2>3, <2>4 DEF set_metrics, PlatSteps, Posting, TypeOK
  <2> QED
    BY <1>1, <2>2, <2>4, <2>5, InvalidatedTyped DEF set_metrics, TypeOK, native
<1>2. CASE hide
  <2>1. platStep' \in PlatSteps
    BY <1>2, <1>0 DEF hide, PlatSteps, Posting, TypeOK, Task, UiTask
  <2> QED
    BY <1>2, <2>1, InvalidatedTyped DEF hide, TypeOK, native
<1>3. CASE show
  <2> DEFINE g == IF Arms(surface = "available", frame_armed, frame_delivering,
                          frame_demand, frame_generation)
                    THEN frame_generation + 1 ELSE 0
  <2>1. /\ frame_armed' \in BOOLEAN
        /\ frame_generation' \in FrameGenerations
        /\ frame_generation_exhausted' \in BOOLEAN
        /\ g \in FrameGenerations
    BY <1>3 DEF show, ArmFrame, Arms, CanArm, ArmExhausts,
        FrameGenerations, TypeOK
  <2>2. platStep' \in PlatSteps
    BY <1>3, <2>1 DEF show, PlatSteps, Posting, TypeOK, Task, UiTask
  <2> QED
    BY <1>3, <2>1, <2>2 DEF show, TypeOK, native
<1>4. ASSUME NEW s \in HostSurfaceState, set_surface_state(s) PROVE TypeOK'
  <2>1. metrics_generation' \in 1 .. MaxMetricsGeneration
    BY <1>4 DEF set_surface_state, TypeOK
  <2>2. SurfaceTask(s) \in UiTask
    BY <1>4 DEF SurfaceTask, Task, UiTask, set_surface_state, TypeOK
  <2> DEFINE g == IF s = "available" /\ Arms(visible, frame_armed, frame_delivering,
                                             frame_demand, frame_generation)
                    THEN frame_generation + 1 ELSE 0
  <2>3. /\ frame_armed' \in BOOLEAN
        /\ frame_generation' \in FrameGenerations
        /\ frame_generation_exhausted' \in BOOLEAN
        /\ frame_demand' \in BOOLEAN
        /\ g \in FrameGenerations
    <3>1. CASE s = "available"
      BY <1>4, <3>1 DEF set_surface_state, ArmFrame, Arms, CanArm, ArmExhausts,
        FrameGenerations, TypeOK
    <3>2. CASE s # "available"
      BY <1>4, <3>2, <1>0, InvalidatedTyped DEF set_surface_state, TypeOK
    <3> QED
      BY <3>1, <3>2
  <2>4. platStep' \in PlatSteps
    BY <1>4, <2>2, <2>3 DEF set_surface_state, PlatSteps, Posting, TypeOK
  <2> QED
    BY <1>4, <2>1, <2>3, <2>4 DEF set_surface_state, TypeOK, native
<1>5. ASSUME NEW s \in HostSurfaceState, set_surface_state_exhausted(s) PROVE TypeOK'
  <2>1. Shutdown(uiQ, platQ) /\ uiQ \in Seq(UiTask) /\ platQ \in Seq(PlatformTask)
    BY <1>5 DEF set_surface_state_exhausted, TypeOK
  <2> QED
    BY <1>5, <2>1, ShutdownTyped DEF set_surface_state_exhausted, TypeOK, native
<1>6. ASSUME NEW t \in Timestamps, NativePulse(t) \/ BackwardPulse(t) \/ LatePulse(t)
      PROVE  TypeOK'
  <2>1. PICK g \in {ctl, late} : frame_pulse(g, t)
    BY <1>6 DEF NativePulse, BackwardPulse, LatePulse
  <2>2. ctl' \in FrameGenerations /\ late' \in FrameGenerations
        /\ uiStep' = uiStep /\ told' = told
    BY <1>6, <1>0 DEF NativePulse, BackwardPulse, LatePulse, native, TypeOK
  <2>3. CASE UNCHANGED <<state, uiQ, platQ, platStep>>
    BY <2>2, <2>3 DEF TypeOK, state
  <2>4. CASE Shutdown(uiQ, platQ) /\ UNCHANGED <<frame_generation_exhausted, platStep>>
    <3>1. uiQ \in Seq(UiTask) /\ platQ \in Seq(PlatformTask)
      BY DEF TypeOK
    <3> QED
      BY <2>2, <2>4, <3>1, ShutdownTyped DEF TypeOK
  <2>5. CASE ~(~PulseAccepted(g) \/ Backwards(t)) /\ next_frame_sequence # MaxSequence
    <3>1. Posting(Task("frame", metrics_generation), FALSE, 0, FALSE) \in PlatSteps
      BY <1>0 DEF TypeOK, Posting, Task, PlatSteps, UiTask
    <3>2. /\ last_frame_timestamp' = t
          /\ next_frame_sequence' = next_frame_sequence + 1
          /\ platStep' = Posting(Task("frame", metrics_generation), FALSE, 0, FALSE)
          /\ frame_armed' = FALSE /\ frame_delivering' = TRUE /\ frame_demand' = FALSE
          /\ UNCHANGED <<running, visible, surface, metrics_generation,
                         frame_generation_exhausted, frame_generation,
                         platform_shutdown_complete, uiQ, platQ>>
      BY <2>1, <2>5 DEF frame_pulse
    <3>3. next_frame_sequence' \in 1 .. MaxSequence
      BY <2>5, <3>2 DEF TypeOK
    <3> QED
      BY <2>2, <3>1, <3>2, <3>3 DEF TypeOK
  <2> QED
    BY <2>1, <2>3, <2>4, <2>5 DEF frame_pulse
<1>7. CASE PlatformPost
  <2>1. platStep \in [pc : {"posting"}, task : UiTask, cancel : BOOLEAN,
                      gen : FrameGenerations, check : BOOLEAN]
    BY <1>7 DEF PlatformPost, TypeOK, PlatSteps
  <2> DEFINE ui == Append(uiQ, platStep.task)
             plat == IF NeedsControl(platStep)
                       THEN Append(platQ, Control(platStep.cancel, platStep.gen)) ELSE platQ
  <2>2. uiQ \in Seq(UiTask) /\ ui \in Seq(UiTask)
    BY <2>1, AppendUi DEF TypeOK
  <2>3. Control(platStep.cancel, platStep.gen) \in PlatformTask
    BY <2>1 DEF Control, PlatformTask, ControlTask
  <2>4. platQ \in Seq(PlatformTask) /\ plat \in Seq(PlatformTask)
    BY <2>3, AppendPlatform DEF TypeOK
  <2>5. platStep' \in PlatSteps /\ frame_generation_exhausted' \in BOOLEAN
        /\ uiStep' = uiStep /\ ctl' = ctl /\ late' = late /\ told' = told
    BY <1>7 DEF PlatformPost, PlatSteps, TypeOK, native, state
  <2>6. \/ uiQ' = ui /\ platQ' = plat /\ UNCHANGED state
        \/ Shutdown(ui, plat) \/ Shutdown(uiQ, platQ) \/ Shutdown(ui, platQ)
    BY <1>7 DEF PlatformPost
  <2>7. CASE uiQ' = ui /\ platQ' = plat /\ UNCHANGED state
    BY <2>2, <2>4, <2>5, <2>7 DEF TypeOK, state
  <2>8. CASE Shutdown(ui, plat) \/ Shutdown(uiQ, platQ) \/ Shutdown(ui, platQ)
    <3> HIDE DEF ui, plat
    <3> QED
      BY <2>2, <2>4, <2>5, <2>8, ShutdownTyped DEF TypeOK
  <2> QED
    BY <2>6, <2>7, <2>8
<1>8. CASE RunControl
  <2>1. Head(platQ) \in ControlTask /\ platQ' \in Seq(PlatformTask)
    BY <1>8, QueueTails DEF RunControl, PlatformTask, ShutdownControl
  <2>2. ctl' \in FrameGenerations /\ late' \in FrameGenerations
    BY <1>8, <1>0, <2>1 DEF RunControl, HeldAfter, ControlTask, TypeOK, native
  <2>3. frame_armed' \in BOOLEAN /\ frame_demand' \in BOOLEAN
    BY <1>8 DEF RunControl, TypeOK
  <2> QED
    BY <1>8, <2>1, <2>2, <2>3 DEF RunControl, TypeOK
<1>9. CASE RunPlatformShutdown
  BY <1>9, <1>0, QueueTails DEF RunPlatformShutdown, TypeOK
<1>10. CASE request_frame
  <2>1. Usable \in BOOLEAN
    BY DEF TypeOK, Usable
  <2> DEFINE g == IF Arms(Usable, frame_armed, frame_delivering, TRUE, frame_generation)
                    THEN frame_generation + 1 ELSE 0
  <2>2. /\ frame_armed' \in BOOLEAN
        /\ frame_generation' \in FrameGenerations
        /\ frame_generation_exhausted' \in BOOLEAN
        /\ g \in FrameGenerations
    BY <1>10, <2>1 DEF request_frame, ArmFrame, Arms, CanArm, ArmExhausts,
        FrameGenerations, TypeOK
  <2>3. uiStep' = UiIdle \/ uiStep' = [pc |-> "request", metrics |-> 0, gen |-> g]
    BY <1>10 DEF request_frame, RequestStep
  <2>4. uiStep' \in UiSteps
    <3> HIDE DEF g
    <3> QED
      BY <1>0, <2>2, <2>3 DEF UiSteps, UiIdle
  <2> QED
    BY <1>10, <2>2, <2>4 DEF request_frame, TypeOK, native
<1>11. CASE request_frame_in_callback
  <2>1. uiQ \in Seq(UiTask) /\ platQ \in Seq(PlatformTask)
    BY DEF TypeOK
  <2>2. CASE Shutdown(uiQ, platQ)
    BY <1>11, <2>1, <2>2, ShutdownTyped DEF request_frame_in_callback, TypeOK, native
  <2>3. CASE ~Shutdown(uiQ, platQ)
    BY <1>11, <2>3 DEF request_frame_in_callback, TypeOK, native
  <2> QED
    BY <2>2, <2>3
<1>12. CASE UiPost
  <2> DEFINE plat == IF uiStep.gen # 0 THEN Append(platQ, Control(FALSE, uiStep.gen))
                                       ELSE platQ
  <2>1. Control(FALSE, uiStep.gen) \in PlatformTask
    BY DEF Control, PlatformTask, ControlTask, TypeOK, UiSteps
  <2>2. uiQ \in Seq(UiTask) /\ platQ \in Seq(PlatformTask) /\ plat \in Seq(PlatformTask)
    BY <2>1, AppendPlatform DEF TypeOK
  <2>7. UiIdle \in UiSteps
    BY <1>0 DEF UiSteps, UiIdle
  <2>3. uiStep' \in UiSteps /\ frame_generation_exhausted' \in BOOLEAN
        /\ platStep' = platStep /\ ctl' = ctl /\ late' = late /\ told' = told
    BY <1>12, <2>7 DEF UiPost, TypeOK, native, state
  <2>4. \/ platQ' = plat /\ UNCHANGED <<state, uiQ>>
        \/ Shutdown(uiQ, plat) \/ Shutdown(uiQ, platQ)
    BY <1>12 DEF UiPost
  <2>5. CASE platQ' = plat /\ UNCHANGED <<state, uiQ>>
    BY <2>2, <2>3, <2>5 DEF TypeOK, state
  <2>6. CASE Shutdown(uiQ, plat) \/ Shutdown(uiQ, platQ)
    <3> HIDE DEF plat
    <3> QED
      BY <2>2, <2>3, <2>6, ShutdownTyped DEF TypeOK
  <2> QED
    BY <2>4, <2>5, <2>6
<1>13. CASE Notify
  <2>1. told' \in 1 .. MaxMetricsGeneration
    BY <1>13, QueueTails DEF Notify, UiTask, TypeOK
  <2> QED
    BY <1>13, <2>1, QueueTails DEF Notify, TypeOK, state, native
<1>14. CASE FrameTaskBegin
  <2>1. Head(uiQ).gen \in 1 .. MaxMetricsGeneration
    BY <1>14, QueueTails DEF FrameTaskBegin, UiTask
  <2>2. PICK m \in 0 .. MaxMetricsGeneration : uiStep' = InFrame(m)
    BY <1>14, <2>1 DEF FrameTaskBegin, FrameTaskStep
  <2>3. uiStep' \in UiSteps
    BY <1>0, <2>2 DEF InFrame, UiSteps
  <2> QED
    BY <1>14, <2>3, QueueTails DEF FrameTaskBegin, TypeOK, state, native
<1>15. CASE FrameTaskEnd
  <2>1. Usable \in BOOLEAN
    BY DEF TypeOK, Usable
  <2> DEFINE g == IF Arms(Usable, frame_armed, FALSE, frame_demand, frame_generation)
                    THEN frame_generation + 1 ELSE 0
  <2>2. /\ frame_armed' \in BOOLEAN
        /\ frame_generation' \in FrameGenerations
        /\ frame_generation_exhausted' \in BOOLEAN
        /\ g \in FrameGenerations
    BY <1>15, <2>1 DEF FrameTaskEnd, EndDelivery, ArmFrame, Arms, CanArm, ArmExhausts,
        FrameGenerations, TypeOK
  <2>3. uiStep' = [pc |-> "rearm", metrics |-> 0, gen |-> g]
    BY <1>15 DEF FrameTaskEnd, EndDelivery
  <2>4. uiStep' \in UiSteps
    <3> HIDE DEF g
    <3> QED
      BY <2>2, <2>3 DEF UiSteps
  <2> QED
    BY <1>15, <2>2, <2>4 DEF FrameTaskEnd, EndDelivery, TypeOK, native
<1>16. CASE RunUiShutdown
  <2>1. Append(platQ, ShutdownControl) \in Seq(PlatformTask)
    BY AppendPlatform DEF PlatformTask, TypeOK
  <2>2. platQ' \in Seq(PlatformTask)
    BY <1>16, <2>1 DEF RunUiShutdown, TypeOK
  <2> QED
    BY <1>16, <2>2, QueueTails DEF RunUiShutdown, TypeOK, state, native
<1>17. CASE shutdown
  <2>1. Shutdown(uiQ, platQ) /\ uiQ \in Seq(UiTask) /\ platQ \in Seq(PlatformTask)
    BY <1>17 DEF shutdown, TypeOK
  <2> QED
    BY <1>17, <2>1, ShutdownTyped DEF shutdown, TypeOK, native
<1>18. CASE UNCHANGED vars
  BY <1>18 DEF vars, state, native, TypeOK
<1> QED
  BY <1>1, <1>2, <1>3, <1>4, <1>5, <1>6, <1>7, <1>8, <1>9, <1>10, <1>11, <1>12, <1>13,
     <1>14, <1>15, <1>16, <1>17, <1>18
     DEF Next, Platform, Ui, Driver

(* The host's frame state stays well typed: in particular frame, metrics   *)
(* and sequence counters never pass their limit.                           *)
THEOREM TypeCorrect == Spec => []TypeOK
BY InitTyped, NextTyped, PTL DEF Spec
-----------------------------------------------------------------------------
(* How the frame tasks of a queue change with the queue. *)
LEMMA FramesAppendOther ==
  ASSUME NEW q \in Seq(UiTask), NEW t \in UiTask, t.kind # "frame"
  PROVE  FramesIn(Append(q, t)) = FramesIn(q)
BY DEF FramesIn

LEMMA FramesAppendFrame ==
  ASSUME NEW q \in Seq(UiTask), NEW t \in UiTask, t.kind = "frame", FramesIn(q) = {}
  PROVE  FramesIn(Append(q, t)) = {Len(q) + 1}
BY DEF FramesIn

LEMMA FramesTailFrame ==
  ASSUME NEW q \in Seq(UiTask), q # <<>>, AtMostOne(FramesIn(q)), Head(q).kind = "frame"
  PROVE  FramesIn(Tail(q)) = {}
<1> SUFFICES ASSUME NEW i \in 1 .. Len(Tail(q)), Tail(q)[i].kind = "frame" PROVE FALSE
  BY DEF FramesIn
<1>1. 1 \in FramesIn(q) /\ i + 1 \in FramesIn(q)
  BY DEF FramesIn
<1> QED
  BY <1>1 DEF AtMostOne

LEMMA FramesTailOther ==
  ASSUME NEW q \in Seq(UiTask), q # <<>>, AtMostOne(FramesIn(q)), Head(q).kind # "frame"
  PROVE  /\ AtMostOne(FramesIn(Tail(q)))
         /\ FramesIn(Tail(q)) = {} <=> FramesIn(q) = {}
<1>1. \A i \in 1 .. Len(Tail(q)) : i \in FramesIn(Tail(q)) <=> i + 1 \in FramesIn(q)
  BY DEF FramesIn
<1>2. \A k \in FramesIn(q) : k - 1 \in FramesIn(Tail(q))
  BY DEF FramesIn
<1>3. AtMostOne(FramesIn(Tail(q)))
  <2> SUFFICES ASSUME NEW i \in FramesIn(Tail(q)), NEW j \in FramesIn(Tail(q))
               PROVE  i = j
    BY DEF AtMostOne
  <2>1. i \in 1 .. Len(Tail(q)) /\ j \in 1 .. Len(Tail(q))
    BY DEF FramesIn
  <2>2. i + 1 = j + 1
    BY <1>1, <2>1 DEF AtMostOne
  <2> QED
    BY <2>1, <2>2
<1>4. FramesIn(Tail(q)) \subseteq 1 .. Len(Tail(q))
  BY DEF FramesIn
<1> QED
  BY <1>1, <1>2, <1>3, <1>4

(* Shutdown moves no frame task and cannot start a delivery. *)
LEMMA ShutdownFrames ==
  ASSUME TypeOK, NEW ui \in Seq(UiTask), NEW plat, Shutdown(ui, plat)
  PROVE  /\ FramesIn(uiQ') = FramesIn(ui)
         /\ frame_delivering' = frame_delivering
         /\ frame_armed' => frame_armed
         /\ running' = FALSE
<1>1. Task("shutdown", 0) \in UiTask /\ Task("shutdown", 0).kind # "frame"
  BY DEF Task, UiTask
<1>2. FramesIn(Append(ui, Task("shutdown", 0))) = FramesIn(ui)
  BY <1>1, FramesAppendOther
<1>3. FramesIn(uiQ') = FramesIn(ui)
  BY <1>2 DEF Shutdown, ShutdownPosts
<1> QED
  BY <1>3 DEF Shutdown, StopFrames, TypeOK

(* One frame at a time, and frame_delivering always has its task: the two  *)
(* are inductive together.                                                 *)
DeliveryInv == SingleDelivery /\ DeliveryPending

LEMMA NextDelivery == TypeOK /\ DeliveryInv /\ [Next]_vars => DeliveryInv'
<1> SUFFICES ASSUME TypeOK, DeliveryInv, [Next]_vars PROVE DeliveryInv'
  OBVIOUS
<1> USE DEF DeliveryInv, SingleDelivery, DeliveryPending, FrameTasks, FramePosting
<1>0. uiQ \in Seq(UiTask)
  BY DEF TypeOK
<1>1. CASE set_metrics
  <2>1. platStep = NoStep /\ platStep'.task.kind = "metrics" /\ platStep' # NoStep
    BY <1>1 DEF set_metrics, PlatformTurn, Posting, Task, NoStep
  <2>2. frame_armed' => ~frame_delivering
    BY <1>1 DEF set_metrics, ArmFrame, Arms, CanArm
  <2> QED
    BY <1>1, <2>1, <2>2 DEF set_metrics
<1>2. CASE hide
  <2>1. platStep = NoStep /\ platStep'.task.kind = "event" /\ platStep' # NoStep
    BY <1>2 DEF hide, PlatformTurn, Posting, Task, NoStep
  <2> QED
    BY <1>2, <2>1 DEF hide
<1>3. CASE show
  <2>1. platStep = NoStep /\ platStep'.task.kind = "event" /\ platStep' # NoStep
    BY <1>3 DEF show, PlatformTurn, Posting, Task, NoStep
  <2>2. frame_armed' => frame_armed \/ ~frame_delivering
    BY <1>3 DEF show, ArmFrame, Arms, CanArm
  <2> QED
    BY <1>3, <2>1, <2>2 DEF show
<1>4. ASSUME NEW s \in HostSurfaceState, set_surface_state(s) PROVE DeliveryInv'
  <2>1. platStep = NoStep /\ platStep'.task.kind # "frame" /\ platStep' # NoStep
    BY <1>4 DEF set_surface_state, PlatformTurn, Posting, Task, SurfaceTask, NoStep
  <2>2. frame_armed' => frame_armed \/ ~frame_delivering
    BY <1>4 DEF set_surface_state, ArmFrame, Arms, CanArm
  <2> QED
    BY <1>4, <2>1, <2>2 DEF set_surface_state
<1>5. ASSUME NEW s \in HostSurfaceState, set_surface_state_exhausted(s) PROVE DeliveryInv'
  <2>1. Shutdown(uiQ, platQ) /\ UNCHANGED <<platStep, uiStep>>
    BY <1>5 DEF set_surface_state_exhausted
  <2> QED
    BY <1>0, <2>1, ShutdownFrames
<1>6. ASSUME NEW t \in Timestamps, NativePulse(t) \/ BackwardPulse(t) \/ LatePulse(t)
      PROVE  DeliveryInv'
  <2>1. PICK g \in {ctl, late} : frame_pulse(g, t)
    BY <1>6 DEF NativePulse, BackwardPulse, LatePulse
  <2>2. uiStep' = uiStep /\ platStep = NoStep
    BY <1>6 DEF NativePulse, BackwardPulse, LatePulse, PlatformTurn
  <2>3. CASE UNCHANGED <<state, uiQ, platQ, platStep>>
    BY <2>2, <2>3 DEF state
  <2>4. CASE Shutdown(uiQ, platQ) /\ UNCHANGED <<frame_generation_exhausted, platStep>>
    BY <1>0, <2>2, <2>4, ShutdownFrames
  <2>5. CASE PulseAccepted(g) /\ frame_armed' = FALSE /\ frame_delivering' = TRUE
             /\ platStep' = Posting(Task("frame", metrics_generation), FALSE, 0, FALSE)
             /\ UNCHANGED <<running, uiQ>>
    <3>1. frame_armed /\ ~frame_delivering
      BY <2>5 DEF PulseAccepted, TypeOK
    <3>2. platStep' # NoStep /\ platStep'.task.kind = "frame"
      BY <2>5 DEF Posting, Task, NoStep
    <3> QED
      BY <2>2, <2>5, <3>1, <3>2
  <2> QED
    BY <2>1, <2>3, <2>4, <2>5 DEF frame_pulse
<1>7. CASE PlatformPost
  <2>1. platStep # NoStep /\ platStep' = NoStep /\ uiStep' = uiStep
    BY <1>7 DEF PlatformPost
  <2>2. platStep.task \in UiTask
    BY <2>1 DEF TypeOK, PlatSteps
  <2> DEFINE ui == Append(uiQ, platStep.task)
  <2>3. ui \in Seq(UiTask)
    BY <1>0, <2>2
  <2>4. /\ platStep.task.kind # "frame" => FramesIn(ui) = FramesIn(uiQ)
        /\ platStep.task.kind = "frame" => FramesIn(ui) = {Len(uiQ) + 1}
    BY <1>0, <2>1, <2>2, FramesAppendOther, FramesAppendFrame
  <2> HIDE DEF ui
  <2>5. \/ uiQ' = ui /\ UNCHANGED state
        \/ (\E plat : Shutdown(ui, plat)) \/ Shutdown(uiQ, platQ)
    BY <1>7 DEF PlatformPost, ui
  <2>6. CASE uiQ' = ui /\ UNCHANGED state
    BY <2>1, <2>4, <2>6 DEF state, AtMostOne
  <2>7. CASE \E plat : Shutdown(ui, plat)
    <3>1. PICK plat : Shutdown(ui, plat)
      BY <2>7
    <3>2. /\ FramesIn(uiQ') = FramesIn(ui) /\ frame_delivering' = frame_delivering
          /\ (frame_armed' => frame_armed) /\ running' = FALSE
      BY <2>3, <3>1, ShutdownFrames
    <3> QED
      BY <2>1, <2>4, <3>2 DEF AtMostOne
  <2>8. CASE Shutdown(uiQ, platQ)
    BY <1>0, <2>1, <2>8, ShutdownFrames
  <2> QED
    BY <2>5, <2>6, <2>7, <2>8
<1>8. CASE RunControl
  <2>1. UNCHANGED <<running, frame_delivering, uiQ, platStep, uiStep>>
        /\ (frame_armed' => frame_armed)
    BY <1>8 DEF RunControl
  <2> QED
    BY <2>1
<1>9. CASE RunPlatformShutdown
  BY <1>9 DEF RunPlatformShutdown
<1>10. CASE request_frame
  <2>1. frame_armed' => frame_armed \/ ~frame_delivering
    BY <1>10 DEF request_frame, ArmFrame, Arms, CanArm
  <2>2. uiStep.pc # "frame" /\ uiStep'.pc # "frame"
    BY <1>10 DEF request_frame, RequestStep, UiIdle
  <2> QED
    BY <1>10, <2>1, <2>2 DEF request_frame
<1>11. CASE request_frame_in_callback
  <2>1. UNCHANGED <<platStep, uiStep>>
    BY <1>11 DEF request_frame_in_callback
  <2>2. CASE Shutdown(uiQ, platQ)
    BY <1>0, <2>1, <2>2, ShutdownFrames
  <2>3. CASE UNCHANGED <<running, frame_armed, frame_delivering, uiQ>>
    BY <2>1, <2>3
  <2> QED
    BY <1>11, <2>2, <2>3 DEF request_frame_in_callback
<1>12. CASE UiPost
  <2>1. platStep' = platStep /\ uiStep.pc # "frame" /\ uiStep'.pc # "frame"
    BY <1>12 DEF UiPost, UiIdle
  <2>2. UNCHANGED <<state, uiQ>> \/ \E plat : Shutdown(uiQ, plat)
    BY <1>12 DEF UiPost
  <2>3. CASE UNCHANGED <<state, uiQ>>
    BY <2>1, <2>3 DEF state
  <2>4. ASSUME NEW plat, Shutdown(uiQ, plat) PROVE DeliveryInv'
    BY <1>0, <2>1, <2>4, ShutdownFrames
  <2> QED
    BY <2>2, <2>3, <2>4
<1>13. CASE Notify
  <2>1. uiQ # <<>> /\ Head(uiQ).kind # "frame" /\ uiQ' = Tail(uiQ)
        /\ UNCHANGED <<state, platStep, uiStep>>
    BY <1>13 DEF Notify
  <2> QED
    BY <1>0, <2>1, FramesTailOther DEF state
<1>14. CASE FrameTaskBegin
  <2>1. uiQ # <<>> /\ Head(uiQ).kind = "frame" /\ uiQ' = Tail(uiQ)
        /\ uiStep'.pc = "frame" /\ UNCHANGED <<state, platStep>>
    BY <1>14 DEF FrameTaskBegin, FrameTaskStep, InFrame
  <2>2. FramesIn(uiQ) # {}
    BY <1>0, <2>1 DEF FramesIn
  <2> QED
    BY <1>0, <2>1, <2>2, FramesTailFrame DEF state, AtMostOne
<1>15. CASE FrameTaskEnd
  <2>1. uiStep.pc = "frame" /\ uiStep'.pc # "frame" /\ frame_delivering' = FALSE
        /\ UNCHANGED <<uiQ, platStep>>
    BY <1>15 DEF FrameTaskEnd, EndDelivery
  <2> QED
    BY <2>1
<1>16. CASE RunUiShutdown
  <2>1. uiQ # <<>> /\ Head(uiQ).kind # "frame" /\ uiQ' = Tail(uiQ)
        /\ UNCHANGED <<state, platStep, uiStep>>
    BY <1>16 DEF RunUiShutdown
  <2> QED
    BY <1>0, <2>1, FramesTailOther DEF state
<1>17. CASE shutdown
  <2>1. Shutdown(uiQ, platQ) /\ UNCHANGED <<platStep, uiStep>>
    BY <1>17 DEF shutdown
  <2> QED
    BY <1>0, <2>1, ShutdownFrames
<1>18. CASE UNCHANGED vars
  BY <1>18 DEF vars, state
<1> QED
  BY <1>1, <1>2, <1>3, <1>4, <1>5, <1>6, <1>7, <1>8, <1>9, <1>10, <1>11, <1>12, <1>13,
     <1>14, <1>15, <1>16, <1>17, <1>18
     DEF Next, Platform, Ui, Driver

(* Demand is never lost, for every instance: each action preserves         *)
(* NoLostDemand by itself, because every path that sets frame_demand,      *)
(* clears frame_delivering or makes the window usable again arms.          *)
LEMMA NextNoLostDemand ==
  TypeOK /\ SingleDelivery /\ NoLostDemand /\ [Next]_vars => NoLostDemand'
<1> SUFFICES ASSUME TypeOK, SingleDelivery, NoLostDemand, [Next]_vars PROVE NoLostDemand'
  OBVIOUS
<1> USE FrameConstants DEF NoLostDemand, Usable
<1>1. CASE set_metrics
  <2>1. InvalidatedGeneration \in FrameGenerations
    BY InvalidatedTyped
  <2> QED
    BY <1>1, <2>1 DEF set_metrics, ArmFrame, Arms, CanArm, Usable, TypeOK, FrameGenerations
<1>2. CASE hide
  BY <1>2 DEF hide
<1>3. CASE show
  BY <1>3 DEF show, ArmFrame, Arms, CanArm, TypeOK, FrameGenerations
<1>4. ASSUME NEW s \in HostSurfaceState, set_surface_state(s) PROVE NoLostDemand'
  <2>1. CASE s = "available"
    BY <1>4, <2>1 DEF set_surface_state, ArmFrame, Arms, CanArm, TypeOK, FrameGenerations
  <2>2. CASE s # "available"
    BY <1>4, <2>2 DEF set_surface_state
  <2> QED
    BY <2>1, <2>2
<1>5. ASSUME NEW s \in HostSurfaceState, set_surface_state_exhausted(s)
      PROVE  NoLostDemand'
  BY <1>5 DEF set_surface_state_exhausted, Shutdown, StopFrames
<1>6. ASSUME NEW t \in Timestamps, NativePulse(t) \/ BackwardPulse(t) \/ LatePulse(t)
      PROVE  NoLostDemand'
  <2>1. PICK g \in {ctl, late} : frame_pulse(g, t)
    BY <1>6 DEF NativePulse, BackwardPulse, LatePulse
  <2> QED
    BY <2>1 DEF frame_pulse, Shutdown, StopFrames, state
<1>7. CASE PlatformPost
  <2>1. UNCHANGED state \/ running' = FALSE
    BY <1>7 DEF PlatformPost, Shutdown, StopFrames
  <2> QED
    BY <2>1 DEF state
<1>8. CASE RunControl
  BY <1>8 DEF RunControl
<1>9. CASE RunPlatformShutdown
  BY <1>9 DEF RunPlatformShutdown
<1>10. CASE request_frame
  BY <1>10 DEF request_frame, ArmFrame, Arms, CanArm, TypeOK, FrameGenerations
<1>11. CASE request_frame_in_callback
  <2>1. frame_delivering /\ (UNCHANGED frame_delivering \/ running' = FALSE)
    BY <1>11 DEF request_frame_in_callback, Shutdown, StopFrames, SingleDelivery
  <2> QED
    BY <2>1
<1>12. CASE UiPost
  <2>1. UNCHANGED state \/ running' = FALSE
    BY <1>12 DEF UiPost, Shutdown, StopFrames
  <2> QED
    BY <2>1 DEF state
<1>13. CASE Notify
  BY <1>13 DEF Notify, state
<1>14. CASE FrameTaskBegin
  BY <1>14 DEF FrameTaskBegin, state
<1>15. CASE FrameTaskEnd
  BY <1>15 DEF FrameTaskEnd, EndDelivery, ArmFrame, Arms, CanArm, TypeOK, FrameGenerations
<1>16. CASE RunUiShutdown
  BY <1>16 DEF RunUiShutdown, state
<1>17. CASE shutdown
  BY <1>17 DEF shutdown, Shutdown, StopFrames
<1>18. CASE UNCHANGED vars
  BY <1>18 DEF vars, state
<1> QED
  BY <1>1, <1>2, <1>3, <1>4, <1>5, <1>6, <1>7, <1>8, <1>9, <1>10, <1>11, <1>12, <1>13,
     <1>14, <1>15, <1>16, <1>17, <1>18
     DEF Next, Platform, Ui, Driver

(* What Init establishes and every step keeps. *)
FrameInv == TypeOK /\ DeliveryInv /\ NoLostDemand

LEMMA InitFrameInv == Init => FrameInv
<1> SUFFICES ASSUME Init PROVE FrameInv
  OBVIOUS
<1>1. TypeOK
  BY InitTyped
<1>2. FramesIn(uiQ) = {} /\ uiStep.pc # "frame" /\ platStep = NoStep
  BY DEF Init, FramesIn, UiIdle
<1> QED
  BY <1>1, <1>2 DEF Init, FrameInv, DeliveryInv, SingleDelivery, DeliveryPending, FrameTasks,
     FramePosting, AtMostOne, NoLostDemand

LEMMA FrameInvariant == Spec => []FrameInv
<1>1. FrameInv /\ [Next]_vars => FrameInv'
  BY NextTyped, NextDelivery, NextNoLostDemand DEF FrameInv, DeliveryInv
<1> QED
  BY <1>1, InitFrameInv, PTL DEF Spec

(* Demand on a usable window is always armed or being delivered. *)
THEOREM DemandNeverLost == Spec => []NoLostDemand
BY FrameInvariant, PTL DEF FrameInv

(* There is at most one frame task, only while frame_delivering is set,    *)
(* and nothing is armed meanwhile.                                         *)
THEOREM OneFrameAtATime == Spec => []SingleDelivery
BY FrameInvariant, PTL DEF FrameInv, DeliveryInv

(* While the host runs, frame_delivering is only set with its task still   *)
(* to run, so a frame that is skipped or refused cannot wedge the window.  *)
THEOREM DeliveryNeverSticks == Spec => []DeliveryPending
BY FrameInvariant, PTL DEF FrameInv, DeliveryInv
-----------------------------------------------------------------------------
(* A counter found at its limit is reported: whoever raises the exhausted  *)
(* flag still has its own test of the flag ahead.                          *)
LEMMA NextExhaustion ==
  TypeOK /\ ExhaustionNoticed /\ [Next]_vars => ExhaustionNoticed'
<1> SUFFICES ASSUME TypeOK, ExhaustionNoticed, [Next]_vars PROVE ExhaustionNoticed'
  OBVIOUS
<1> USE DEF ExhaustionNoticed
<1>1. CASE set_metrics
  BY <1>1 DEF set_metrics, Posting, NoStep
<1>2. CASE hide
  BY <1>2 DEF hide, Posting, NoStep
<1>3. CASE show
  BY <1>3 DEF show, Posting, NoStep
<1>4. ASSUME NEW s \in HostSurfaceState, set_surface_state(s) PROVE ExhaustionNoticed'
  BY <1>4 DEF set_surface_state, Posting, NoStep
<1>5. ASSUME NEW s \in HostSurfaceState, set_surface_state_exhausted(s)
      PROVE  ExhaustionNoticed'
  BY <1>5 DEF set_surface_state_exhausted, Shutdown, StopFrames
<1>6. ASSUME NEW t \in Timestamps, NativePulse(t) \/ BackwardPulse(t) \/ LatePulse(t)
      PROVE  ExhaustionNoticed'
  <2>1. PICK g \in {ctl, late} : frame_pulse(g, t)
    BY <1>6 DEF NativePulse, BackwardPulse, LatePulse
  <2>2. platStep = NoStep /\ uiStep' = uiStep
    BY <1>6 DEF NativePulse, BackwardPulse, LatePulse, PlatformTurn
  <2> QED
    BY <2>1, <2>2 DEF frame_pulse, Shutdown, StopFrames, state
<1>7. CASE PlatformPost
  <2>1. \/ running' = FALSE
        \/ /\ ~(platStep.check /\ frame_generation_exhausted)
           /\ UNCHANGED <<running, frame_generation_exhausted, uiStep>>
    BY <1>7 DEF PlatformPost, Shutdown, StopFrames, state
  <2> QED
    BY <2>1
<1>8. CASE RunControl
  BY <1>8 DEF RunControl
<1>9. CASE RunPlatformShutdown
  BY <1>9 DEF RunPlatformShutdown
<1>10. CASE request_frame
  BY <1>10 DEF request_frame, RequestStep
<1>11. CASE request_frame_in_callback
  BY <1>11 DEF request_frame_in_callback, Shutdown, StopFrames
<1>12. CASE UiPost
  BY <1>12 DEF UiPost, Shutdown, StopFrames, state
<1>13. CASE Notify
  BY <1>13 DEF Notify, state
<1>14. CASE FrameTaskBegin
  BY <1>14 DEF FrameTaskBegin, state, UiIdle
<1>15. CASE FrameTaskEnd
  BY <1>15 DEF FrameTaskEnd, EndDelivery
<1>16. CASE RunUiShutdown
  BY <1>16 DEF RunUiShutdown, state
<1>17. CASE shutdown
  BY <1>17 DEF shutdown, Shutdown, StopFrames
<1>18. CASE UNCHANGED vars
  BY <1>18 DEF vars, state
<1> QED
  BY <1>1, <1>2, <1>3, <1>4, <1>5, <1>6, <1>7, <1>8, <1>9, <1>10, <1>11, <1>12, <1>13,
     <1>14, <1>15, <1>16, <1>17, <1>18
     DEF Next, Platform, Ui, Driver

(* A frame generation counter at its limit never goes unnoticed. *)
THEOREM ExhaustionAlwaysNoticed == Spec => []ExhaustionNoticed
<1>1. Init => ExhaustionNoticed
  BY DEF Init, ExhaustionNoticed
<1> QED
  BY <1>1, TypeCorrect, NextExhaustion, PTL DEF Spec
-----------------------------------------------------------------------------
(* The UI tasks still to run, with the one the driver entry in progress is *)
(* about to post.                                                          *)
Ahead == IF platStep = NoStep THEN uiQ ELSE Append(uiQ, platStep.task)

(* How the tasks q ahead relate to the metrics t the delegate was told and *)
(* the current ones m: the news are in order and newer than t, the last of *)
(* them is m, and no frame is older than the news before it or newer than  *)
(* the news behind it.                                                     *)
MetricsInOrder(q, t, m) ==
  /\ \A i \in 1 .. Len(q) :
       /\ q[i].kind = "metrics" => t < q[i].gen /\ q[i].gen <= m
       /\ q[i].kind = "frame" => q[i].gen <= m
  /\ \A i, j \in 1 .. Len(q) :
       i < j /\ q[i].kind \in {"metrics", "frame"} /\ q[j].kind = "metrics"
         => q[i].gen < q[j].gen
  /\ t = m \/ \E i \in 1 .. Len(q) : q[i].kind = "metrics" /\ q[i].gen = m

ToldInv ==
  /\ FrameMatchesToldMetrics
  /\ running => MetricsInOrder(Ahead, told, metrics_generation)

LEMMA AppendNews ==
  ASSUME NEW q \in Seq(UiTask), NEW t \in Nat, NEW m \in Nat, MetricsInOrder(q, t, m), t <= m
  PROVE  MetricsInOrder(Append(q, Task("metrics", m + 1)), t, m + 1)
<1> DEFINE u == Task("metrics", m + 1)
           r == Append(q, u)
<1>1. Len(r) = Len(q) + 1 /\ r[Len(q) + 1] = u /\ \A i \in 1 .. Len(q) : r[i] = q[i]
  OBVIOUS
<1>2. u.kind = "metrics" /\ u.gen = m + 1
  BY DEF Task
<1>3. \A i \in 1 .. Len(q) : q[i] \in UiTask /\ q[i].gen \in Nat
  <2> TAKE i \in 1 .. Len(q)
  <2>1. q[i] \in UiTask
    OBVIOUS
  <2> QED
    BY <2>1, FrameConstants DEF UiTask
<1> HIDE DEF u, r
<1>4. \A i \in 1 .. Len(r) : i = Len(q) + 1 \/ (i \in 1 .. Len(q) /\ r[i] = q[i])
  BY <1>1
<1>5. \A i \in 1 .. Len(r) :
        /\ r[i].kind = "metrics" => t < r[i].gen /\ r[i].gen <= m + 1
        /\ r[i].kind = "frame" => r[i].gen <= m + 1
  BY <1>1, <1>2, <1>3, <1>4 DEF MetricsInOrder
<1>6. \A i, j \in 1 .. Len(r) :
        i < j /\ r[i].kind \in {"metrics", "frame"} /\ r[j].kind = "metrics"
          => r[i].gen < r[j].gen
  <2> SUFFICES ASSUME NEW i \in 1 .. Len(r), NEW j \in 1 .. Len(r), i < j,
                      r[i].kind \in {"metrics", "frame"}, r[j].kind = "metrics"
               PROVE  r[i].gen < r[j].gen
    OBVIOUS
  <2>1. i \in 1 .. Len(q) /\ r[i] = q[i]
    BY <1>1, <1>4
  <2>2. r[i].gen <= m
    BY <2>1 DEF MetricsInOrder
  <2>3. CASE j = Len(q) + 1
    BY <1>1, <1>2, <1>3, <2>1, <2>2, <2>3
  <2>4. CASE j \in 1 .. Len(q) /\ r[j] = q[j]
    BY <2>1, <2>4 DEF MetricsInOrder
  <2> QED
    BY <1>4, <2>3, <2>4
<1>7. \E i \in 1 .. Len(r) : r[i].kind = "metrics" /\ r[i].gen = m + 1
  BY <1>1, <1>2
<1>8. MetricsInOrder(r, t, m + 1)
  BY <1>5, <1>6, <1>7 DEF MetricsInOrder
<1> QED
  BY <1>8 DEF r, u

LEMMA AppendOlder ==
  ASSUME NEW q \in Seq(UiTask), NEW t \in Nat, NEW m \in Nat, MetricsInOrder(q, t, m),
         NEW u \in UiTask, u.kind # "metrics", u.kind = "frame" => u.gen = m
  PROVE  MetricsInOrder(Append(q, u), t, m)
<1> DEFINE r == Append(q, u)
<1>1. Len(r) = Len(q) + 1 /\ r[Len(q) + 1] = u /\ \A i \in 1 .. Len(q) : r[i] = q[i]
  OBVIOUS
<1> HIDE DEF r
<1> QED
  BY <1>1 DEF MetricsInOrder

LEMMA TailInOrder ==
  ASSUME NEW q \in Seq(UiTask), NEW t \in Nat, NEW m \in Nat, MetricsInOrder(q, t, m),
         q # <<>>
  PROVE  MetricsInOrder(Tail(q), IF Head(q).kind = "metrics" THEN Head(q).gen ELSE t, m)
<1> DEFINE r == Tail(q)
<1>1. Len(r) = Len(q) - 1 /\ \A i \in 1 .. Len(r) : r[i] = q[i + 1]
  OBVIOUS
<1>2. Head(q) = q[1] /\ Len(q) \in Nat \ {0}
  OBVIOUS
<1>3. \A i \in 1 .. Len(q) : q[i] \in UiTask /\ q[i].gen \in Nat
  <2> TAKE i \in 1 .. Len(q)
  <2>1. q[i] \in UiTask
    OBVIOUS
  <2> QED
    BY <2>1, FrameConstants DEF UiTask
<1>4. \A j \in 1 .. Len(q) : j # 1 => j - 1 \in 1 .. Len(r) /\ r[j - 1] = q[j]
  BY <1>1, <1>2
<1> HIDE DEF r
<1>5. CASE Head(q).kind = "metrics"
  BY <1>1, <1>2, <1>3, <1>4, <1>5 DEF MetricsInOrder
<1>6. CASE Head(q).kind # "metrics"
  BY <1>1, <1>2, <1>3, <1>4, <1>6 DEF MetricsInOrder
<1> QED
  BY <1>5, <1>6

(* What each kind of step does to the tasks ahead. *)
LEMMA AheadPosting ==
  ASSUME TypeOK, platStep = NoStep, NEW u, platStep' # NoStep, platStep'.task = u,
         uiQ' = uiQ
  PROVE  Ahead' = Append(Ahead, u)
BY DEF Ahead

LEMMA AheadTail ==
  ASSUME TypeOK, uiQ # <<>>, uiQ' = Tail(uiQ), platStep' = platStep
  PROVE  Ahead' = Tail(Ahead) /\ Head(Ahead) = Head(uiQ) /\ Ahead # <<>>
<1>1. uiQ \in Seq(UiTask) /\ (platStep # NoStep => platStep.task \in UiTask)
  BY DEF TypeOK, PlatSteps
<1>2. ASSUME NEW u \in UiTask
      PROVE  /\ Tail(Append(uiQ, u)) = Append(Tail(uiQ), u)
             /\ Head(Append(uiQ, u)) = Head(uiQ) /\ Append(uiQ, u) # <<>>
  BY <1>1
<1> QED
  BY <1>1, <1>2 DEF Ahead

LEMMA AheadTyped == TypeOK => Ahead \in Seq(UiTask)
<1> SUFFICES ASSUME TypeOK PROVE Ahead \in Seq(UiTask)
  OBVIOUS
<1>1. uiQ \in Seq(UiTask) /\ (platStep # NoStep => platStep.task \in UiTask)
  BY DEF TypeOK, PlatSteps
<1> QED
  BY <1>1, AppendUi DEF Ahead

LEMMA ToldBounded ==
  ASSUME TypeOK, MetricsInOrder(Ahead, told, metrics_generation)
  PROVE  told <= metrics_generation
BY FrameConstants DEF TypeOK, MetricsInOrder

LEMMA NextTold == TypeOK /\ ToldInv /\ [Next]_vars => ToldInv'
<1> SUFFICES ASSUME TypeOK, ToldInv, [Next]_vars PROVE ToldInv'
  OBVIOUS
<1> USE DEF ToldInv, FrameMatchesToldMetrics
<1>a. Ahead \in Seq(UiTask) /\ told \in Nat /\ metrics_generation \in Nat
  BY AheadTyped, FrameConstants DEF TypeOK
<1>b. ASSUME running, platStep = NoStep, platStep' # NoStep, uiQ' = uiQ, told' = told,
             uiStep' = uiStep,
             \/ /\ platStep'.task = Task("metrics", metrics_generation + 1)
                /\ metrics_generation' = metrics_generation + 1
             \/ /\ platStep'.task \in {Task("event", 0), Task("frame", metrics_generation)}
                /\ metrics_generation' = metrics_generation
      PROVE  ToldInv'
  <2>1. MetricsInOrder(Ahead, told, metrics_generation)
    BY <1>b
  <2>2. Ahead' = Append(Ahead, platStep'.task)
    BY <1>b, AheadPosting
  <2>3. CASE /\ platStep'.task = Task("metrics", metrics_generation + 1)
             /\ metrics_generation' = metrics_generation + 1
    BY <1>a, <1>b, <2>1, <2>2, <2>3, AppendNews, ToldBounded
  <2>4. CASE /\ platStep'.task \in {Task("event", 0), Task("frame", metrics_generation)}
             /\ metrics_generation' = metrics_generation
    <3> DEFINE u == platStep'.task
    <3>1. /\ u \in UiTask /\ u.kind # "metrics"
          /\ u.kind = "frame" => u.gen = metrics_generation
      BY <2>4 DEF Task, UiTask, TypeOK
    <3> HIDE DEF u
    <3>2. MetricsInOrder(Append(Ahead, u), told, metrics_generation)
      BY <1>a, <2>1, <3>1, AppendOlder
    <3> QED
      BY <1>b, <2>2, <2>4, <3>2 DEF u
  <2> QED
    BY <1>b, <2>3, <2>4
<1>c. ASSUME running' = FALSE, told' = told, uiStep' = uiStep \/ uiStep'.metrics = 0
      PROVE  ToldInv'
  BY <1>c
<1>d. ASSUME UNCHANGED <<running, metrics_generation, Ahead, told>>,
             uiStep' = uiStep \/ uiStep'.metrics = 0
      PROVE  ToldInv'
  BY <1>d
<1>1. CASE set_metrics
  BY <1>1, <1>b DEF set_metrics, PlatformTurn, Posting, NoStep
<1>2. CASE hide
  BY <1>2, <1>b DEF hide, PlatformTurn, Posting, NoStep
<1>3. CASE show
  BY <1>3, <1>b DEF show, PlatformTurn, Posting, NoStep
<1>4. ASSUME NEW s \in HostSurfaceState, set_surface_state(s) PROVE ToldInv'
  BY <1>4, <1>b DEF set_surface_state, SurfaceTask, PlatformTurn, Posting, NoStep
<1>5. ASSUME NEW s \in HostSurfaceState, set_surface_state_exhausted(s)
      PROVE  ToldInv'
  BY <1>5, <1>c DEF set_surface_state_exhausted, Shutdown, StopFrames
<1>6. ASSUME NEW t \in Timestamps, NativePulse(t) \/ BackwardPulse(t) \/ LatePulse(t)
      PROVE  ToldInv'
  <2>1. PICK g \in {ctl, late} : frame_pulse(g, t)
    BY <1>6 DEF NativePulse, BackwardPulse, LatePulse
  <2>2. platStep = NoStep /\ uiStep' = uiStep /\ told' = told
    BY <1>6 DEF NativePulse, BackwardPulse, LatePulse, PlatformTurn
  <2>3. CASE UNCHANGED <<state, uiQ, platQ, platStep>>
    BY <1>d, <2>2, <2>3 DEF state, Ahead
  <2>4. CASE Shutdown(uiQ, platQ)
    BY <1>c, <2>2, <2>4 DEF Shutdown, StopFrames
  <2>5. CASE /\ PulseAccepted(g)
             /\ platStep' = Posting(Task("frame", metrics_generation), FALSE, 0, FALSE)
             /\ UNCHANGED <<running, metrics_generation, uiQ>>
    BY <1>b, <2>2, <2>5 DEF PulseAccepted, Posting, NoStep
  <2> QED
    BY <2>1, <2>3, <2>4, <2>5 DEF frame_pulse
<1>7. CASE PlatformPost
  <2>1. \/ running' = FALSE
        \/ /\ UNCHANGED state
           /\ uiQ' = Append(uiQ, platStep.task)
    BY <1>7 DEF PlatformPost, Shutdown, StopFrames
  <2>2. platStep # NoStep /\ platStep' = NoStep /\ uiStep' = uiStep /\ told' = told
    BY <1>7 DEF PlatformPost
  <2> QED
    BY <1>c, <1>d, <2>1, <2>2 DEF Ahead, state
<1>8. CASE RunControl
  BY <1>8, <1>d DEF RunControl, Ahead
<1>9. CASE RunPlatformShutdown
  BY <1>9, <1>d DEF RunPlatformShutdown, Ahead
<1>10. CASE request_frame
  BY <1>10, <1>d DEF request_frame, RequestStep, UiIdle, Ahead
<1>11. CASE request_frame_in_callback
  BY <1>11, <1>c, <1>d DEF request_frame_in_callback, Shutdown, StopFrames, Ahead
<1>12. CASE UiPost
  BY <1>12, <1>c, <1>d DEF UiPost, Shutdown, StopFrames, state, UiIdle, Ahead
<1>13. CASE Notify
  <2>1. /\ Ahead' = Tail(Ahead) /\ Head(Ahead) = Head(uiQ) /\ Ahead # <<>>
        /\ told' = (IF Head(Ahead).kind = "metrics" THEN Head(Ahead).gen ELSE told)
        /\ UNCHANGED <<running, metrics_generation>>
    BY <1>13, AheadTail DEF Notify, state
  <2>2. uiStep'.metrics = 0
    BY <1>13 DEF Notify, UiIdle
  <2> QED
    BY <1>a, <2>1, <2>2, TailInOrder
<1>14. CASE FrameTaskBegin
  <2>1. /\ Ahead' = Tail(Ahead) /\ Head(Ahead) = Head(uiQ) /\ Ahead # <<>>
        /\ Head(Ahead).kind = "frame"
        /\ UNCHANGED <<running, metrics_generation, told>>
    BY <1>14, AheadTail DEF FrameTaskBegin, state
  <2>2. running => MetricsInOrder(Ahead, told, metrics_generation)'
    BY <1>a, <2>1, TailInOrder
  <2>3. uiStep'.metrics # 0 => /\ running
                               /\ uiStep'.metrics = Head(Ahead).gen
                               /\ metrics_generation = Head(Ahead).gen
    BY <1>14, <2>1 DEF FrameTaskBegin, FrameTaskStep, InFrame, FrameCurrent
  <2>4. ASSUME uiStep'.metrics # 0 PROVE told = metrics_generation
    <3>1. Head(Ahead) = Ahead[1] /\ 1 \in 1 .. Len(Ahead)
      BY <1>a, <2>1
    <3> QED
      BY <1>a, <2>1, <2>3, <2>4, <3>1 DEF MetricsInOrder
  <2> QED
    BY <2>1, <2>2, <2>3, <2>4
<1>15. CASE FrameTaskEnd
  BY <1>15, <1>d DEF FrameTaskEnd, EndDelivery, Ahead
<1>16. CASE RunUiShutdown
  <2>1. /\ Ahead' = Tail(Ahead) /\ Head(Ahead) = Head(uiQ) /\ Ahead # <<>>
        /\ Head(Ahead).kind # "metrics"
        /\ UNCHANGED <<running, metrics_generation, told, uiStep>>
    BY <1>16, AheadTail DEF RunUiShutdown, state
  <2> QED
    BY <1>a, <2>1, TailInOrder
<1>17. CASE shutdown
  BY <1>17, <1>c DEF shutdown, Shutdown, StopFrames
<1>18. CASE UNCHANGED vars
  BY <1>18, <1>d DEF vars, state, Ahead
<1> QED
  BY <1>1, <1>2, <1>3, <1>4, <1>5, <1>6, <1>7, <1>8, <1>9, <1>10, <1>11, <1>12, <1>13,
     <1>14, <1>15, <1>16, <1>17, <1>18
     DEF Next, Platform, Ui, Driver

(* The frame the delegate is given carries the metrics it was last told,   *)
(* because news of metrics and frames go through one queue in order and a  *)
(* frame with other metrics than the current ones is skipped.              *)
THEOREM FrameMetricsTold == Spec => []FrameMatchesToldMetrics
<1>1. Init => ToldInv
  BY DEF Init, ToldInv, FrameMatchesToldMetrics, MetricsInOrder, Ahead, UiIdle
<1>2. ToldInv => FrameMatchesToldMetrics
  BY DEF ToldInv
<1> QED
  BY <1>1, <1>2, TypeCorrect, NextTold, PTL DEF Spec

(***************************************************************************)
(* The raster thread: type correctness, no lost wakeup, the ownership of   *)
(* open tickets and the promise to their holders.                          *)
(***************************************************************************)
(* What idle.notify_all leaves of the clients. *)
LEMMA IdleNotifiedTyped ==
  ASSUME NEW cl \in [Clients -> ClientSteps]
  PROVE  /\ IdleNotified(cl) \in [Clients -> ClientSteps]
         /\ \A c \in Clients : IdleNotified(cl)[c] # "waiting"
         /\ \A c \in Clients : cl[c] # "waiting" => IdleNotified(cl)[c] = cl[c]
  BY DEF IdleNotified, ClientSteps

LEMMA CompleteAllTyped ==
  ASSUME RasterTypeOK, NEW ids, NEW o \in Outcomes
  PROVE  /\ CompleteAll(ids, o) \in [FrameIds -> Outcomes \cup {"none", "open"}]
         /\ \A i \in FrameIds : CompleteAll(ids, o)[i] = IF i \in ids THEN o ELSE tickets[i]
  BY DEF RasterTypeOK, CompleteAll

LEMMA StepTyped ==
  ASSUME RasterTypeOK, [RasterNext]_rasterVars
  PROVE  RasterTypeOK'
<1> USE RasterConstants
<1>1. ASSUME NEW c \in Clients, submit(c) PROVE RasterTypeOK'
  <2>1. next_frame \in FrameIds
    BY <1>1 DEF RasterTypeOK, submit, FrameIds
  <2>2. Append(pending, next_frame) \in Seq(FrameIds)
    BY <2>1 DEF RasterTypeOK
  <2>3. tickets' \in [FrameIds -> Outcomes \cup {"none", "open"}]
    BY <1>1, <2>1 DEF RasterTypeOK, submit, TakenId
  <2> QED
    BY <1>1, <2>1, <2>2, <2>3 DEF RasterTypeOK, submit, TakenId, NotifiedBySubmit, FrameIds
<1>2. ASSUME NEW c \in Clients, NEW next \in {"notify", "destroy_notify"}, StopWith(c, next)
      PROVE RasterTypeOK'
  <2>1. WakeOnStop(client) \in [Clients -> ClientSteps]
    BY IdleNotifiedTyped DEF WakeOnStop, RasterTypeOK
  <2>2. client' \in [Clients -> ClientSteps]
    BY <1>2, <2>1 DEF StopWith, ClientSteps
  <2>3. tickets' \in [FrameIds -> Outcomes \cup {"none", "open"}]
    BY <1>2, CompleteAllTyped DEF StopWith, Outcomes
  <2>4. <<>> \in Seq(FrameIds)
    OBVIOUS
  <2> QED
    BY <1>2, <2>2, <2>3, <2>4 DEF StopWith, RasterTypeOK
<1>3. ASSUME FailWorker PROVE RasterTypeOK'
  <2>1. client' \in [Clients -> ClientSteps]
    BY <1>3, IdleNotifiedTyped DEF FailWorker, RasterTypeOK
  <2>2. tickets' \in [FrameIds -> Outcomes \cup {"none", "open"}]
    BY <1>3, CompleteAllTyped DEF FailWorker, Outcomes
  <2>3. <<>> \in Seq(FrameIds) /\ 0 \in 0 .. MaxFrames
    OBVIOUS
  <2> QED
    BY <1>3, <2>1, <2>2, <2>3 DEF FailWorker, RasterTypeOK, WorkerSteps
<1>4. ASSUME NEW c \in Clients, Client(c) PROVE RasterTypeOK'
  <2>1. CASE wait_idle(c) \/ TestIdle(c) \/ SpuriousWake(c) \/ NotifyReady(c) \/ Join(c)
    BY <2>1 DEF RasterTypeOK, wait_idle, TestIdle, SpuriousWake, NotifyReady, Join,
       threadState, ClientSteps, NotifiedByStop
  <2>2. CASE request_stop(c)
    BY <2>2, <1>2 DEF request_stop
  <2>3. CASE Destroy(c)
    BY <2>3, <1>2 DEF Destroy
  <2> QED
    BY <1>1, <1>4, <2>1, <2>2, <2>3 DEF Client
<1>5. CASE Factory \/ Wake \/ SpuriousReady
  BY <1>5 DEF RasterTypeOK, Factory, Wake, SpuriousReady, WorkerState, threadState, WorkerSteps
<1>6. CASE Lock
  <2>1. CASE pending # <<>>
    <3>1. Head(pending) \in FrameIds /\ Tail(pending) \in Seq(FrameIds)
      BY <2>1 DEF RasterTypeOK
    <3>2. pending' \in Seq(FrameIds) /\ current' \in 0 .. MaxFrames
      BY <1>6, <2>1, <3>1 DEF Lock, FrameIds
    <3> QED
      BY <1>6, <2>1, <3>2 DEF RasterTypeOK, Lock, WorkerState, WorkerSteps
  <2>2. CASE pending = <<>>
    BY <1>6, <2>2 DEF RasterTypeOK, Lock, WorkerState, WorkerSteps, threadState
  <2> QED
    BY <2>1, <2>2
<1>7. CASE Acquire
  BY <1>7 DEF RasterTypeOK, Acquire, WorkerState, WorkerSteps, threadState, FrameStates, Rendered
<1>8. CASE Render
  BY <1>8 DEF RasterTypeOK, Render, WorkerState, WorkerSteps, threadState, FrameStates,
     HandedBack, Abandoned
<1>9. CASE Present
  BY <1>9 DEF RasterTypeOK, Present, WorkerState, WorkerSteps, threadState, FrameStates, HandedBack,
     Abandoned, Rendered
<1>10. CASE Finish
  <2>1. client' \in [Clients -> ClientSteps]
    BY <1>10, IdleNotifiedTyped DEF Finish, WakeAfterFrame, RasterTypeOK
  <2>2. tickets' \in [FrameIds -> Outcomes \cup {"none", "open"}]
    BY <1>10 DEF RasterTypeOK, Finish, Outcomes
  <2>3. current' \in 0 .. MaxFrames /\ worker' \in WorkerSteps
    BY <1>10 DEF Finish, WorkerSteps
  <2> QED
    BY <1>10, <2>1, <2>2, <2>3 DEF RasterTypeOK, Finish
<1>11. CASE UNCHANGED rasterVars
  BY <1>11 DEF RasterTypeOK, rasterVars, threadState
<1> QED
  BY <1>3, <1>4, <1>5, <1>6, <1>7, <1>8, <1>9, <1>10, <1>11
  DEF RasterNext, Worker, FactoryFailed, Failed

(* The RasterThread never leaves its types: FrameIds are in range, every   *)
(* ticket has an outcome or is open, and worker and clients are where      *)
(* run(), wait_idle, request_stop and the destructor can put them.         *)
THEOREM RasterTypeCorrect == RasterSpec => []RasterTypeOK
<1>1. RasterInit => RasterTypeOK
  <2> SUFFICES ASSUME RasterInit PROVE RasterTypeOK
    OBVIOUS
  <2>1. <<>> \in Seq(FrameIds) /\ 1 \in 1 .. MaxFrames + 1 /\ 0 \in 0 .. MaxFrames
    BY RasterConstants
  <2>2. /\ tickets \in [FrameIds -> Outcomes \cup {"none", "open"}]
        /\ frame \in [FrameIds -> FrameStates]
        /\ client \in [Clients -> ClientSteps]
        /\ worker \in WorkerSteps
    BY DEF RasterInit, WorkerSteps, FrameStates, ClientSteps
  <2> QED
    BY <2>1, <2>2 DEF RasterInit, RasterTypeOK
<1> QED
  BY <1>1, StepTyped, PTL DEF RasterSpec
-----------------------------------------------------------------------------
(* No step loses a wakeup. *)
LEMMA StepKeepsWakeups ==
  ASSUME RasterTypeOK, NoLostWakeup, [RasterNext]_rasterVars
  PROVE  NoLostWakeup'
<1> DEFINE Notifying(cl) == \E c \in Clients : cl[c] \in {"notify", "destroy_notify"}
<1>1. ASSUME NEW c \in Clients, submit(c) PROVE NoLostWakeup'
  <2>1. pending' # <<>>
    BY <1>1 DEF submit, RasterTypeOK, TakenId, FrameIds
  <2> QED
    BY <1>1, <2>1 DEF submit, NoLostWakeup, NotifiedBySubmit, Idle
<1>2. ASSUME NEW c \in Clients, NEW next \in {"notify", "destroy_notify"}, StopWith(c, next)
      PROVE NoLostWakeup'
  <2>1. /\ WakeOnStop(client) \in [Clients -> ClientSteps]
        /\ \A d \in Clients : WakeOnStop(client)[d] # "waiting"
    BY IdleNotifiedTyped DEF WakeOnStop, RasterTypeOK
  <2>2. client'[c] = next /\ \A d \in Clients : client'[d] # "waiting"
    BY <1>2, <2>1 DEF StopWith
  <2> QED
    BY <2>2 DEF NoLostWakeup
<1>3. ASSUME FailWorker PROVE NoLostWakeup'
  <2>1. \A d \in Clients : client'[d] # "waiting"
    BY <1>3, IdleNotifiedTyped DEF FailWorker, RasterTypeOK
  <2> QED
    BY <1>3, <2>1 DEF FailWorker, NoLostWakeup
<1>4. ASSUME NEW c \in Clients, wait_idle(c) \/ TestIdle(c) \/ SpuriousWake(c) \/ Join(c)
      PROVE NoLostWakeup'
  <2>1. UNCHANGED <<threadState, worker, readyNotified>>
    BY <1>4 DEF wait_idle, TestIdle, SpuriousWake, Join
  <2>2. ASSUME NEW d \in Clients, client[d] \in {"notify", "destroy_notify"}
        PROVE client'[d] = client[d]
    BY <1>4, <2>2 DEF wait_idle, TestIdle, SpuriousWake, Join, RasterTypeOK
  <2>3. Idle => \A d \in Clients : client'[d] # "waiting"
    BY <1>4 DEF wait_idle, TestIdle, SpuriousWake, Join, RasterTypeOK, NoLostWakeup
  <2>4. Idle' = Idle
    BY <2>1 DEF Idle, threadState
  <2> QED
    BY <2>1, <2>2, <2>3, <2>4 DEF NoLostWakeup, threadState
<1>5. ASSUME NEW c \in Clients, NotifyReady(c) PROVE NoLostWakeup'
  BY <1>5 DEF NotifyReady, NoLostWakeup, RasterTypeOK, NotifiedByStop, Idle, threadState
<1>6. ASSUME NEW c \in Clients, Client(c) PROVE NoLostWakeup'
  BY <1>1, <1>2, <1>4, <1>5, <1>6 DEF Client, request_stop, Destroy
<1>7. CASE Factory \/ Wake \/ SpuriousReady \/ Acquire \/ Render \/ Present
  BY <1>7 DEF Factory, Wake, SpuriousReady, Acquire, Render, Present, WorkerState, threadState,
     NoLostWakeup, Idle, Rendered
<1>8. CASE Lock
  BY <1>8 DEF Lock, WorkerState, threadState, NoLostWakeup, Idle
<1>9. CASE Finish
  <2>1. CASE pending = <<>>
    <3>1. \A d \in Clients : client'[d] # "waiting"
      BY <1>9, <2>1, IdleNotifiedTyped DEF Finish, WakeAfterFrame, RasterTypeOK
    <3> QED
      BY <1>9, <3>1 DEF Finish, NoLostWakeup
  <2>2. CASE pending # <<>>
    BY <1>9, <2>2 DEF Finish, NoLostWakeup, Idle
  <2> QED
    BY <2>1, <2>2
<1>10. CASE UNCHANGED rasterVars
  BY <1>10 DEF rasterVars, threadState, NoLostWakeup, Idle
<1> QED
  BY <1>3, <1>6, <1>7, <1>8, <1>9, <1>10 DEF RasterNext, Worker, FactoryFailed, Failed

(* Neither condition variable loses a wakeup, for any number of clients:   *)
(* the worker's wait ends once there is work or a stop, and no client      *)
(* waits on an idle RasterThread, although request_stop notifies `ready`   *)
(* only after it unlocked.                                                 *)
THEOREM WakeupsNeverLost == RasterSpec => []NoLostWakeup
<1>1. RasterInit => NoLostWakeup
  BY DEF RasterInit, NoLostWakeup, Idle
<1>2. RasterTypeOK /\ NoLostWakeup /\ [RasterNext]_rasterVars => NoLostWakeup'
  BY StepKeepsWakeups
<1> QED
  BY <1>1, <1>2, RasterTypeCorrect, PTL DEF RasterSpec
-----------------------------------------------------------------------------
(***************************************************************************)
(* Ownership of open tickets.  OpenTicketsOwned is not inductive: that the *)
(* end of a frame closes a ticket no queue entry refers to needs the queue *)
(* to be in strictly increasing order above the submission in hand, a new  *)
(* ticket to be unused so far, and the worker to have a submission exactly *)
(* in the part of run() that renders it.                                   *)
(***************************************************************************)
Rendering == {"acquire", "render", "present", "failed"} \cup Rendered
QueueOrdered ==
  /\ \A k \in 1 .. Len(pending) : current < pending[k] /\ pending[k] < next_frame
  /\ \A j, k \in 1 .. Len(pending) : j < k => pending[j] < pending[k]
  /\ current < next_frame
WorkerHolds == (current # 0 <=> worker \in Rendering) /\ (rendering <=> current # 0)
UnusedTickets == \A i \in FrameIds : i >= next_frame => tickets[i] = "none"
IsQueued(i) == \E k \in 1 .. Len(pending) : pending[k] = i
OpenOwned == \A i \in FrameIds : tickets[i] = "open" <=> IsQueued(i) \/ i = current
QueueInv == QueueOrdered /\ WorkerHolds /\ UnusedTickets /\ OpenOwned

LEMMA AppendAt ==
  ASSUME NEW S, NEW q \in Seq(S), NEW x \in S
  PROVE  /\ Len(Append(q, x)) = Len(q) + 1
         /\ \A k \in 1 .. Len(q) : Append(q, x)[k] = q[k]
         /\ Append(q, x)[Len(q) + 1] = x
  OBVIOUS

LEMMA TailAt ==
  ASSUME NEW S, NEW q \in Seq(S), q # <<>>
  PROVE  /\ Len(q) \in Nat \ {0} /\ Len(Tail(q)) = Len(q) - 1
         /\ \A k \in 1 .. Len(q) - 1 : Tail(q)[k] = q[k + 1]
         /\ Head(q) = q[1]
  OBVIOUS

LEMMA QueuedTyped ==
  ASSUME RasterTypeOK
  PROVE  /\ Len(pending) \in Nat /\ \A k \in 1 .. Len(pending) : pending[k] \in 1 .. MaxFrames
         /\ current \in Int /\ next_frame \in Int
  BY RasterConstants DEF RasterTypeOK, FrameIds

(* OpenOwned says of each ticket what OpenTicketsOwned says of the set. *)
LEMMA OwnedAsSets ==
  ASSUME RasterTypeOK, OpenOwned
  PROVE  OpenTicketsOwned
<1>1. \A i : i \in Open <=> i \in FrameIds /\ (IsQueued(i) \/ i = current)
  BY DEF Open, OpenOwned
<1>2. \A i : i \in Queued <=> IsQueued(i)
  BY DEF Queued, IsQueued
<1>3. \A i : IsQueued(i) => i \in FrameIds
  BY QueuedTyped DEF IsQueued, FrameIds
<1>4. current \in FrameIds <=> current # 0
  BY RasterConstants DEF RasterTypeOK, FrameIds
<1> QED
  BY <1>1, <1>2, <1>3, <1>4 DEF OpenTicketsOwned

LEMMA StepKeepsQueue ==
  ASSUME RasterTypeOK, QueueInv, [RasterNext]_rasterVars
  PROVE  QueueInv'
<1> USE RasterConstants
<1>0. RasterTypeOK'
  BY StepTyped
<1>1. ASSUME NEW c \in Clients, submit(c) PROVE QueueInv'
  <2>1. next_frame \in FrameIds
    BY <1>1 DEF submit, RasterTypeOK, FrameIds
  <2>2. /\ pending' = Append(pending, next_frame) /\ next_frame' = next_frame + 1
        /\ current' = current /\ worker' = worker /\ rendering' = rendering
        /\ tickets' = [tickets EXCEPT ![next_frame] = "open"]
    BY <1>1 DEF submit, TakenId
  <2>3. /\ Len(pending') = Len(pending) + 1
        /\ \A k \in 1 .. Len(pending) : pending'[k] = pending[k]
        /\ pending'[Len(pending) + 1] = next_frame
    BY <2>1, <2>2, AppendAt DEF RasterTypeOK
  <2>4. QueueOrdered'
    BY <2>2, <2>3, QueuedTyped DEF QueueInv, QueueOrdered
  <2>5. WorkerHolds'
    BY <2>2 DEF QueueInv, WorkerHolds
  <2>6. UnusedTickets'
    BY <2>1, <2>2 DEF QueueInv, UnusedTickets, RasterTypeOK, FrameIds
  <2>7. \A i \in FrameIds : IsQueued(i)' <=> IsQueued(i) \/ i = next_frame
    <3>1. \A k \in 1 .. Len(pending') : k \in 1 .. Len(pending) \/ k = Len(pending) + 1
      BY <2>3, QueuedTyped
    <3>2. \A k \in 1 .. Len(pending) : k \in 1 .. Len(pending')
      BY <2>3, QueuedTyped
    <3>3. Len(pending) + 1 \in 1 .. Len(pending')
      BY <2>3, QueuedTyped
    <3> QED
      BY <2>3, <3>1, <3>2, <3>3 DEF IsQueued
  <2>8. OpenOwned'
    BY <2>1, <2>2, <2>7 DEF QueueInv, OpenOwned, RasterTypeOK
  <2> QED
    BY <2>4, <2>5, <2>6, <2>8 DEF QueueInv
<1>2. ASSUME NEW c \in Clients, NEW next, StopWith(c, next) PROVE QueueInv'
  <2>1. /\ pending' = <<>> /\ next_frame' = next_frame /\ current' = current
        /\ worker' = worker /\ rendering' = rendering
    BY <1>2 DEF StopWith
  <2>2. \A i \in FrameIds : tickets'[i] = IF IsQueued(i) THEN "canceled" ELSE tickets[i]
    BY <1>2, CompleteAllTyped DEF StopWith, Canceled, Queued, IsQueued, Outcomes
  <2>3. \A i \in FrameIds : ~IsQueued(i)'
    BY <2>1 DEF IsQueued
  <2>4. \A i \in FrameIds : IsQueued(i) => i # current /\ i < next_frame
    BY QueuedTyped DEF QueueInv, QueueOrdered, IsQueued
  <2>5. QueueOrdered' /\ WorkerHolds'
    BY <2>1 DEF QueueInv, QueueOrdered, WorkerHolds
  <2>6. UnusedTickets'
    BY <2>1, <2>2, <2>4, QueuedTyped DEF QueueInv, UnusedTickets, FrameIds
  <2>7. OpenOwned'
    BY <2>1, <2>2, <2>3, <2>4 DEF QueueInv, OpenOwned
  <2> QED
    BY <2>5, <2>6, <2>7 DEF QueueInv
<1>3. ASSUME FailWorker PROVE QueueInv'
  <2>1. /\ pending' = <<>> /\ next_frame' = next_frame /\ current' = 0
        /\ worker' = "exited" /\ rendering' = FALSE
    BY <1>3 DEF FailWorker
  <2>2. \A i \in FrameIds :
          tickets'[i] = IF IsQueued(i) \/ i = current THEN "exception" ELSE tickets[i]
    BY <1>3, CompleteAllTyped, QueuedTyped
    DEF FailWorker, FailedTickets, Queued, IsQueued, Outcomes, FrameIds
  <2>3. \A i \in FrameIds : ~IsQueued(i)' /\ i # current'
    BY <2>1 DEF IsQueued, FrameIds
  <2>4. \A i \in FrameIds : IsQueued(i) \/ i = current => i < next_frame
    BY QueuedTyped DEF QueueInv, QueueOrdered, IsQueued
  <2>5. QueueOrdered' /\ WorkerHolds'
    BY <2>1, QueuedTyped DEF QueueInv, QueueOrdered, WorkerHolds, RasterTypeOK, Rendering, Rendered
  <2>6. UnusedTickets'
    BY <2>1, <2>2, <2>4, QueuedTyped DEF QueueInv, UnusedTickets, FrameIds
  <2>7. OpenOwned'
    BY <2>2, <2>3 DEF QueueInv, OpenOwned
  <2> QED
    BY <2>5, <2>6, <2>7 DEF QueueInv
<1>4. ASSUME UNCHANGED threadState, worker' \in Rendering <=> worker \in Rendering PROVE QueueInv'
  BY <1>4 DEF threadState, QueueInv, QueueOrdered, WorkerHolds, UnusedTickets, OpenOwned, IsQueued
<1>5. ASSUME NEW c \in Clients, Client(c) PROVE QueueInv'
  <2>1. CASE wait_idle(c) \/ TestIdle(c) \/ SpuriousWake(c) \/ NotifyReady(c) \/ Join(c)
    BY <2>1, <1>4 DEF wait_idle, TestIdle, SpuriousWake, NotifyReady, Join
  <2> QED
    BY <1>1, <1>2, <1>5, <2>1 DEF Client, request_stop, Destroy
<1>6. CASE Factory \/ Wake \/ SpuriousReady \/ Acquire \/ Render \/ Present
  BY <1>6, <1>4 DEF Factory, Wake, SpuriousReady, Acquire, Render, Present, WorkerState,
     Rendering, Rendered
<1>7. CASE Lock
  <2>1. CASE pending = <<>>
    BY <1>4, <1>7, <2>1 DEF Lock, WorkerState, Rendering, Rendered
  <2>2. CASE pending # <<>>
    <3>1. /\ current' = Head(pending) /\ pending' = Tail(pending) /\ rendering' = TRUE
          /\ worker' = "acquire" /\ next_frame' = next_frame /\ tickets' = tickets
      BY <1>7, <2>2 DEF Lock, WorkerState
    <3>2. /\ Len(pending) \in Nat \ {0} /\ Len(pending') = Len(pending) - 1
          /\ \A k \in 1 .. Len(pending) - 1 : pending'[k] = pending[k + 1]
          /\ current' = pending[1]
      BY <2>2, <3>1, TailAt DEF RasterTypeOK
    <3>3. current = 0
      BY <1>7 DEF Lock, QueueInv, WorkerHolds, Rendering, Rendered
    <3>4. QueueOrdered'
      BY <3>1, <3>2, QueuedTyped DEF QueueInv, QueueOrdered
    <3>5. WorkerHolds'
      BY <3>1, <3>2, QueuedTyped DEF QueueInv, WorkerHolds, Rendering
    <3>6. UnusedTickets'
      BY <3>1 DEF QueueInv, UnusedTickets
    <3>7. \A i \in FrameIds : IsQueued(i) <=> IsQueued(i)' \/ i = current'
      <4>1. \A k \in 1 .. Len(pending') : k + 1 \in 1 .. Len(pending)
        BY <3>2
      <4>2. \A k \in 1 .. Len(pending) : k = 1 \/ k - 1 \in 1 .. Len(pending')
        BY <3>2
      <4>3. \A k \in 1 .. Len(pending) : k # 1 => pending'[k - 1] = pending[k]
        BY <3>2, <4>2
      <4>4. \A k \in 1 .. Len(pending') : pending'[k] = pending[k + 1]
        BY <3>2
      <4>5. 1 \in 1 .. Len(pending)
        BY <3>2
      <4> QED
        BY <3>2, <4>1, <4>2, <4>3, <4>4, <4>5 DEF IsQueued
    <3>8. OpenOwned'
      BY <3>1, <3>3, <3>7 DEF QueueInv, OpenOwned, FrameIds
    <3> QED
      BY <3>4, <3>5, <3>6, <3>8 DEF QueueInv
  <2> QED
    BY <2>1, <2>2
<1>8. CASE Finish
  <2>1. /\ pending' = pending /\ next_frame' = next_frame /\ current' = 0
        /\ worker' = "lock" /\ rendering' = FALSE
        /\ tickets' = [tickets EXCEPT ![current] = worker]
        /\ worker \in Rendered
    BY <1>8 DEF Finish
  <2>2. \A i \in FrameIds : IsQueued(i) => i # current
    BY QueuedTyped DEF QueueInv, QueueOrdered, IsQueued
  <2>3. QueueOrdered'
    BY <2>1, QueuedTyped DEF QueueInv, QueueOrdered, RasterTypeOK
  <2>4. WorkerHolds'
    BY <2>1 DEF WorkerHolds, Rendering, Rendered
  <2>5. UnusedTickets'
    BY <2>1, QueuedTyped DEF QueueInv, QueueOrdered, UnusedTickets, RasterTypeOK, FrameIds
  <2>6. \A i \in FrameIds : i # current'
    BY <2>1 DEF FrameIds
  <2>7. \A i \in FrameIds : tickets'[i] = IF i = current THEN worker ELSE tickets[i]
    BY <2>1 DEF RasterTypeOK
  <2>8. worker # "open"
    BY <2>1 DEF Rendered
  <2>9. \A i \in FrameIds : IsQueued(i)' <=> IsQueued(i)
    BY <2>1 DEF IsQueued
  <2>10. OpenOwned'
    BY <2>2, <2>6, <2>7, <2>8, <2>9 DEF QueueInv, OpenOwned
  <2> QED
    BY <2>3, <2>4, <2>5, <2>10 DEF QueueInv
<1>9. CASE UNCHANGED rasterVars
  BY <1>4, <1>9 DEF rasterVars
<1> QED
  BY <1>3, <1>5, <1>6, <1>7, <1>8, <1>9 DEF RasterNext, Worker, FactoryFailed, Failed

(* Whatever submissions, stops and failures come, a ticket is open exactly *)
(* while its submission is queued or in the worker's hands: no FrameTicket *)
(* is left without an owner that will complete it.                         *)
THEOREM TicketsAlwaysOwned == RasterSpec => []OpenTicketsOwned
<1>1. RasterInit => QueueInv
  BY RasterConstants
  DEF RasterInit, QueueInv, QueueOrdered, WorkerHolds, UnusedTickets, OpenOwned, IsQueued, FrameIds,
      Rendering, Rendered
<1>2. RasterTypeOK /\ QueueInv /\ [RasterNext]_rasterVars => QueueInv'
  BY StepKeepsQueue
<1>3. RasterTypeOK /\ QueueInv => OpenTicketsOwned
  BY OwnedAsSets DEF QueueInv
<1> QED
  BY <1>1, <1>2, <1>3, RasterTypeCorrect, PTL DEF RasterSpec
-----------------------------------------------------------------------------
(***************************************************************************)
(* The promise to ticket holders.  A surface frame is active only while    *)
(* the worker renders or presents it, and the worker that renders has an   *)
(* active one; each step of the thread is one of FrameTickets, or none.    *)
(***************************************************************************)
FramesEnd ==
  /\ \A i \in FrameIds :
       /\ frame[i] # "ended twice"
       /\ frame[i] = "active" => i = current /\ worker \in {"render", "present"}
  /\ worker = "render" => frame[current] = "active"

LEMMA StepKeepsFrames ==
  ASSUME RasterTypeOK, QueueInv, FramesEnd, [RasterNext]_rasterVars
  PROVE  FramesEnd'
<1>1. ASSUME UNCHANGED <<frame, current, worker>> PROVE FramesEnd'
  BY <1>1 DEF FramesEnd
<1>2. worker \in Rendering => current \in FrameIds
  BY RasterConstants DEF QueueInv, WorkerHolds, RasterTypeOK, FrameIds
<1>3. CASE Acquire
  <2>1. current \in FrameIds /\ current' = current /\ \A i \in FrameIds : frame[i] # "active"
    BY <1>2, <1>3 DEF Acquire, Rendering, FramesEnd, threadState
  <2>2. CASE frame' = [frame EXCEPT ![current] = "active"] /\ WorkerState("render")
    <3>1. \A i \in FrameIds : frame'[i] = IF i = current THEN "active" ELSE frame[i]
      BY <2>1, <2>2 DEF RasterTypeOK
    <3>2. worker' = "render"
      BY <2>2 DEF WorkerState
    <3> QED
      BY <2>1, <3>1, <3>2 DEF FramesEnd
  <2>3. CASE frame' = frame /\ \E next \in {"unavailable", "out_of_date", "failed"} : WorkerState(next)
    BY <2>1, <2>3 DEF FramesEnd, WorkerState
  <2> QED
    BY <1>3, <2>2, <2>3 DEF Acquire
<1>4. CASE Render
  <2>1. current \in FrameIds /\ current' = current /\ frame[current] = "active"
    BY <1>2, <1>4 DEF Render, Rendering, FramesEnd, threadState
  <2>2. PICK f \in {frame[current], HandedBack(frame[current], "presented"), Abandoned(frame[current])} :
          \/ WorkerState("present") /\ frame' = [frame EXCEPT ![current] = f]
          \/ WorkerState("failed") /\ frame' = [frame EXCEPT ![current] = Abandoned(f)]
    BY <1>4 DEF Render
  <2>3. f \in {"active", "presented", "abandoned"} /\ Abandoned(f) \in {"presented", "abandoned"}
    BY <2>1 DEF HandedBack, Abandoned
  <2>4. CASE WorkerState("present") /\ frame' = [frame EXCEPT ![current] = f]
    <3>1. \A i \in FrameIds : frame'[i] = IF i = current THEN f ELSE frame[i]
      BY <2>1, <2>4 DEF RasterTypeOK
    <3> QED
      BY <2>1, <2>3, <2>4, <3>1 DEF FramesEnd, WorkerState
  <2>5. CASE WorkerState("failed") /\ frame' = [frame EXCEPT ![current] = Abandoned(f)]
    <3>1. \A i \in FrameIds : frame'[i] = IF i = current THEN Abandoned(f) ELSE frame[i]
      BY <2>1, <2>5 DEF RasterTypeOK
    <3> QED
      BY <2>1, <2>3, <2>5, <3>1 DEF FramesEnd, WorkerState
  <2> QED
    BY <2>2, <2>4, <2>5
<1>5. CASE Present
  <2>1. current \in FrameIds /\ current' = current /\ worker' \notin {"render", "present"}
    BY <1>2, <1>5 DEF Present, Rendering, WorkerState, threadState
  <2>2. PICK f : frame' = [frame EXCEPT ![current] = f] /\ f \notin {"active", "ended twice"}
    <3>1. CASE frame[current] = "active"
      <4>1. Abandoned(HandedBack(frame[current], "presented")) = "presented"
        BY <3>1 DEF HandedBack, Abandoned
      <4> QED
        BY <1>5, <3>1, <4>1 DEF Present
    <3>2. CASE frame[current] # "active"
      <4>1. Abandoned(frame[current]) = frame[current] /\ frame[current] # "ended twice"
        BY <2>1, <3>2 DEF Abandoned, FramesEnd
      <4> QED
        BY <1>5, <3>2, <4>1 DEF Present
    <3> QED
      BY <3>1, <3>2
  <2>3. \A i \in FrameIds : frame'[i] = IF i = current THEN f ELSE frame[i]
    BY <2>1, <2>2 DEF RasterTypeOK
  <2> QED
    BY <2>1, <2>2, <2>3 DEF FramesEnd
<1>6. CASE Finish \/ FactoryFailed \/ Failed \/ Lock \/ Factory \/ Wake \/ SpuriousReady
  <2>1. \A i \in FrameIds : frame[i] # "active"
    BY <1>6 DEF Finish, FactoryFailed, Failed, Lock, Factory, Wake, SpuriousReady, FramesEnd, Rendered
  <2>2. frame' = frame /\ worker' # "render"
    BY <1>6 DEF Finish, FactoryFailed, Failed, FailWorker, Lock, Factory, Wake, SpuriousReady,
       WorkerState
  <2> QED
    BY <2>1, <2>2 DEF FramesEnd
<1>7. ASSUME NEW c \in Clients, Client(c) PROVE UNCHANGED <<frame, current, worker>>
  BY <1>7 DEF Client, submit, wait_idle, TestIdle, SpuriousWake, request_stop, Destroy, StopWith,
     NotifyReady, Join, threadState
<1>8. CASE UNCHANGED rasterVars
  BY <1>1, <1>8 DEF rasterVars, threadState
<1> QED
  BY <1>1, <1>3, <1>4, <1>5, <1>6, <1>7, <1>8 DEF RasterNext, Worker

(* The tickets handed out. *)
Told == [i \in 1 .. next_frame - 1 |-> tickets[i]]

LEMMA ToldTickets ==
  ASSUME RasterTypeOK, QueueInv
  PROVE  /\ DOMAIN Told = 1 .. next_frame - 1 /\ \A i \in DOMAIN Told : i \in FrameIds
         /\ \A i \in DOMAIN Told : Told[i] = tickets[i]
         /\ \A i : i \in Promise!Open <=> i \in FrameIds /\ tickets[i] = "open"
         /\ \A i : i \in Promise!Open <=> i \in FrameIds /\ (IsQueued(i) \/ i = current)
         /\ current # 0 => Promise!First(current)
<1>1. /\ DOMAIN Told = 1 .. next_frame - 1 /\ \A i \in DOMAIN Told : i \in FrameIds
      /\ \A i \in DOMAIN Told : Told[i] = tickets[i]
  BY RasterConstants DEF Told, RasterTypeOK, FrameIds
<1>2. ASSUME NEW i PROVE i \in Promise!Open <=> i \in FrameIds /\ tickets[i] = "open"
  <2>1. i \in Promise!Open <=> i \in DOMAIN Told /\ Told[i] = "open"
    BY DEF Promise!Open, Told
  <2>2. i \in FrameIds /\ tickets[i] = "open" => i \in DOMAIN Told
    BY <1>1, QueuedTyped DEF QueueInv, UnusedTickets, FrameIds
  <2> QED
    BY <1>1, <2>1, <2>2
<1>3. ASSUME NEW i PROVE i \in Promise!Open <=> i \in FrameIds /\ (IsQueued(i) \/ i = current)
  BY <1>2 DEF QueueInv, OpenOwned
<1>4. ASSUME current # 0 PROVE Promise!First(current)
  <2>1. current \in FrameIds
    BY <1>4, RasterConstants DEF RasterTypeOK, FrameIds
  <2>2. ASSUME NEW j \in Promise!Open PROVE current <= j
    BY <1>3, QueuedTyped DEF IsQueued, QueueInv, QueueOrdered
  <2> QED
    BY <1>3, <2>1, <2>2 DEF Promise!First
<1> QED
  BY <1>1, <1>2, <1>3, <1>4

LEMMA ToldAppended ==
  ASSUME NEW n \in Nat, NEW f, NEW g, NEW x,
         \A i \in 1 .. n : g[i] = f[i], g[n + 1] = x
  PROVE  [i \in 1 .. n + 1 |-> g[i]] = Append([i \in 1 .. n |-> f[i]], x)
<1> DEFINE q == [i \in 1 .. n |-> f[i]]
<1>1. q \in Seq({f[i] : i \in 1 .. n} \cup {x}) /\ Len(q) = n
  OBVIOUS
<1>2. Append(q, x) = [i \in 1 .. n + 1 |-> IF i = n + 1 THEN x ELSE q[i]]
  BY <1>1
<1>3. \A i \in 1 .. n + 1 : g[i] = IF i = n + 1 THEN x ELSE q[i]
  OBVIOUS
<1> QED
  BY <1>2, <1>3

(* Every step of the thread is a step of FrameTickets, or changes nothing  *)
(* that a ticket holder sees.                                              *)
LEMMA StepKeepsPromise ==
  ASSUME RasterTypeOK, QueueInv, [RasterNext]_rasterVars
  PROVE  [Promise!Next]_(Promise!ticketVars)
<1>0. RasterTypeOK' /\ QueueInv'
  BY StepTyped, StepKeepsQueue
<1>1. ASSUME UNCHANGED <<tickets, next_frame, stopping>> PROVE UNCHANGED Promise!ticketVars
  BY <1>1 DEF Promise!ticketVars
<1>2. ASSUME NEW c \in Clients, submit(c) PROVE Promise!Submit
  <2>1. /\ next_frame \in FrameIds /\ next_frame' = next_frame + 1 /\ ~stopping /\ stopping' = stopping
        /\ tickets' = [tickets EXCEPT ![next_frame] = "open"]
    BY <1>2 DEF submit, TakenId, Accepts, RasterTypeOK, FrameIds
  <2>2. /\ next_frame - 1 \in Nat /\ next_frame - 1 + 1 = next_frame /\ next_frame' - 1 = next_frame
        /\ next_frame - 1 < MaxFrames
    BY <2>1, RasterConstants DEF FrameIds
  <2>3. tickets'[next_frame] = "open" /\ \A i \in 1 .. next_frame - 1 : tickets'[i] = tickets[i]
    BY <2>1, RasterConstants DEF RasterTypeOK, FrameIds
  <2>4. Told' = Append(Told, "open")
    <3>1. [i \in 1 .. next_frame - 1 + 1 |-> tickets'[i]] = Append(Told, "open")
      BY <2>2, <2>3, ToldAppended DEF Told
    <3> QED
      BY <2>2, <3>1 DEF Told
  <2>5. Len(Told) = next_frame - 1
    BY <2>2 DEF Told
  <2> QED
    BY <2>1, <2>2, <2>4, <2>5 DEF Promise!Submit, Told
<1>3. ASSUME NEW c \in Clients, NEW next, StopWith(c, next) PROVE Promise!Stop
  <2>1. stopping' = TRUE /\ next_frame' = next_frame
    BY <1>3 DEF StopWith
  <2>2. \A i \in FrameIds : tickets'[i] = IF IsQueued(i) THEN "canceled" ELSE tickets[i]
    BY <1>3, CompleteAllTyped DEF StopWith, Canceled, Queued, IsQueued, Outcomes
  <2>3. \A i \in FrameIds : IsQueued(i) => i # current
    BY QueuedTyped DEF QueueInv, QueueOrdered, IsQueued
  <2> DEFINE kept == {current} \ {0}
  <2>4. kept \in {{}} \cup {{i} : i \in {j \in Promise!Open : Promise!First(j)}}
    BY ToldTickets DEF Promise!First
  <2>5. ASSUME NEW i \in DOMAIN Told
        PROVE  tickets'[i] = IF i \in Promise!Open \ kept THEN "canceled" ELSE Told[i]
    <3>1. i \in FrameIds /\ i # 0 /\ Told[i] = tickets[i]
      BY ToldTickets DEF FrameIds
    <3>2. i \in Promise!Open \ kept <=> IsQueued(i)
      BY <2>3, <3>1, ToldTickets
    <3> QED
      BY <2>2, <3>1, <3>2
  <2>6. Told' = [i \in DOMAIN Told |-> IF i \in Promise!Open \ kept THEN "canceled" ELSE Told[i]]
    BY <2>1, <2>5, ToldTickets DEF Told
  <2> QED
    BY <2>1, <2>4, <2>6 DEF Promise!Stop, Told
<1>4. ASSUME FailWorker PROVE Promise!Fail
  <2>1. stopping' = TRUE /\ next_frame' = next_frame
    BY <1>4 DEF FailWorker
  <2>2. \A i \in FrameIds :
          tickets'[i] = IF IsQueued(i) \/ i = current THEN "exception" ELSE tickets[i]
    BY <1>4, CompleteAllTyped, QueuedTyped
    DEF FailWorker, FailedTickets, Queued, IsQueued, Outcomes, FrameIds
  <2>3. Told' = [i \in DOMAIN Told |-> IF i \in Promise!Open THEN "exception" ELSE Told[i]]
    <3>1. \A i \in DOMAIN Told : tickets'[i] = IF i \in Promise!Open THEN "exception" ELSE Told[i]
      BY <2>2, ToldTickets
    <3> QED
      BY <2>1, <3>1, ToldTickets DEF Told
  <2> QED
    BY <2>1, <2>3 DEF Promise!Fail, Told
<1>5. CASE Finish
  <2>1. /\ worker \in Rendered /\ next_frame' = next_frame /\ stopping' = stopping
        /\ tickets' = [tickets EXCEPT ![current] = worker]
    BY <1>5 DEF Finish
  <2>2. current # 0 /\ current \in FrameIds
    BY <2>1, RasterConstants DEF QueueInv, WorkerHolds, Rendering, RasterTypeOK, FrameIds
  <2>3. Promise!First(current) /\ current \in Promise!Open
    BY <2>2, ToldTickets DEF Promise!First
  <2>4. PICK o \in Rendered : o = worker
    BY <2>1
  <2>5. Told' = [Told EXCEPT ![current] = o]
    <3>1. \A i \in DOMAIN Told : tickets'[i] = IF i = current THEN o ELSE Told[i]
      BY <2>1, <2>2, <2>4, ToldTickets DEF RasterTypeOK
    <3> QED
      BY <2>1, <3>1, ToldTickets DEF Told
  <2>6. Promise!Complete(o)
    BY <2>1, <2>3, <2>5 DEF Promise!Complete, Told
  <2> QED
    BY <2>6 DEF Promise!Next, Promise!Rendered, Rendered
<1>6. CASE Factory \/ Wake \/ SpuriousReady \/ Acquire \/ Render \/ Present \/ Lock
  <2>1. UNCHANGED <<tickets, next_frame, stopping>>
    BY <1>6 DEF Factory, Wake, SpuriousReady, Acquire, Render, Present, Lock, threadState
  <2> QED
    BY <1>1, <2>1
<1>7. ASSUME NEW c \in Clients,
             wait_idle(c) \/ TestIdle(c) \/ SpuriousWake(c) \/ NotifyReady(c) \/ Join(c)
      PROVE  UNCHANGED Promise!ticketVars
  BY <1>1, <1>7 DEF wait_idle, TestIdle, SpuriousWake, NotifyReady, Join, threadState
<1>8. ASSUME NEW c \in Clients, Client(c) PROVE [Promise!Next]_(Promise!ticketVars)
  BY <1>2, <1>3, <1>7, <1>8 DEF Client, request_stop, Destroy, Promise!Next
<1>9. CASE UNCHANGED rasterVars
  BY <1>1, <1>9 DEF rasterVars, threadState
<1> QED
  BY <1>4, <1>5, <1>6, <1>8, <1>9 DEF RasterNext, Worker, FactoryFailed, Failed, Promise!Next

(* RasterThread implements FrameTickets: tickets are numbered in order and *)
(* each gets one outcome, in that order; a stop spares at most the active  *)
(* frame, a failure spares none, and nothing is accepted afterwards.  Every *)
(* acquired surface frame ends once, before its ticket completes.          *)
THEOREM PromiseKept == RasterSpec => FramesKept
<1>1. RasterInit => QueueInv /\ FramesEnd /\ Promise!Init
  <2> SUFFICES ASSUME RasterInit PROVE QueueInv /\ FramesEnd /\ Promise!Init
    OBVIOUS
  <2>1. QueueInv
    BY RasterConstants
    DEF RasterInit, QueueInv, QueueOrdered, WorkerHolds, UnusedTickets, OpenOwned, IsQueued, FrameIds,
        Rendering, Rendered
  <2>2. FramesEnd
    BY DEF RasterInit, FramesEnd
  <2>3. next_frame - 1 = 0
    BY DEF RasterInit
  <2>4. [i \in 1 .. next_frame - 1 |-> tickets[i]] = <<>>
    BY <2>3
  <2> QED
    BY <2>1, <2>2, <2>4 DEF RasterInit, Promise!Init
<1>2. RasterTypeOK /\ QueueInv /\ [RasterNext]_rasterVars => QueueInv'
  BY StepKeepsQueue
<1>3. RasterTypeOK /\ QueueInv /\ FramesEnd /\ [RasterNext]_rasterVars => FramesEnd'
  BY StepKeepsFrames
<1>4. RasterTypeOK /\ QueueInv /\ [RasterNext]_rasterVars => [Promise!Next]_(Promise!ticketVars)
  BY StepKeepsPromise
<1>5. RasterTypeOK /\ QueueInv /\ FramesEnd => FrameEndsOnce
  BY DEF QueueInv, OpenOwned, FramesEnd, FrameEndsOnce
<1> QED
  BY <1>1, <1>2, <1>3, <1>4, <1>5, RasterTypeCorrect, PTL DEF RasterSpec, FramesKept, Promise!Spec
=============================================================================
