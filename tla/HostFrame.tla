----------------------------- MODULE HostFrame -----------------------------
(***************************************************************************)
(* Frame scheduling of a host window (src/src/host.cpp).                   *)
(*                                                                         *)
(* Two executors share HostWindowState.  The platform executor runs the    *)
(* HostWindowDriver entries (set_metrics, set_visible, set_surface_state,  *)
(* frame_pulse) and the tasks of platform_runner; the UI executor runs     *)
(* HostWindow::request_frame and the tasks of ui_runner.  Every entry      *)
(* changes the state under state->mutex, UNLOCKS, and only then posts to   *)
(* the other runner, so an entry is two steps here: the locked section,    *)
(* which leaves what it still has to post in platStep or uiStep, and the   *)
(* posting step.  Driver entries and shutdown() are mutually exclusive     *)
(* (dispatch_mutex); request_frame and the UI frame task do not take that  *)
(* mutex.                                                                  *)
(*                                                                         *)
(* The task runners, the native control and the delegate are external:     *)
(* FIFO queues, an object that keeps the last generation asked of it, and  *)
(* the metrics generation the delegate was last told.                      *)
(***************************************************************************)
EXTENDS Integers, Sequences

CONSTANTS
  MaxFrameGeneration,   \* numeric_limits<uint64_t>::max() of frame_generation
  MaxMetricsGeneration, \* the same limit for metrics.generation
  MaxSequence,          \* the same limit for next_frame_sequence
  Timestamps,           \* timestamps a pulse may carry, ordered by <
  CoLocated,            \* TRUE: both executors are one thread
  PostsMayFail,         \* TRUE: TaskRunner::post may throw
  ControlMayFail        \* TRUE: HostWindowControl::request_frame may throw

ASSUME FrameConstants ==
  /\ MaxFrameGeneration \in Nat \ {0}
  /\ MaxMetricsGeneration \in Nat \ {0}
  /\ MaxSequence \in Nat \ {0}
  /\ Timestamps \subseteq Nat
  /\ CoLocated \in BOOLEAN
  /\ PostsMayFail \in BOOLEAN
  /\ ControlMayFail \in BOOLEAN

VARIABLES
  running, visible, surface, metrics_generation,
  frame_demand, frame_armed, frame_delivering, frame_generation_exhausted,
  frame_generation, next_frame_sequence,
  last_frame_timestamp, \* -1 is std::nullopt
  platform_shutdown_complete,
  uiQ, platQ,           \* ui_runner and platform_runner
  platStep,             \* what the driver entry in progress still has to post
  uiStep,               \* where the UI executor is
  ctl,                  \* generation the native control will pulse, or 0
  late,                 \* superseded generation whose pulse may still arrive, or 0
  told                  \* metrics generation the delegate was last told

state == <<running, visible, surface, metrics_generation, frame_demand, frame_armed,
           frame_delivering, frame_generation_exhausted, frame_generation,
           next_frame_sequence, last_frame_timestamp, platform_shutdown_complete>>
native == <<ctl, late>>
vars == <<state, uiQ, platQ, platStep, uiStep, native, told>>

FrameGenerations == 0 .. MaxFrameGeneration
HostSurfaceState == {"available", "unavailable", "out_of_date", "lost"}

(***************************************************************************)
(* Tasks.  A UI task tells the delegate of new metrics ("metrics", also    *)
(* the first half of a surface change), of something this module does not  *)
(* look into ("event"), delivers a frame, or shuts the UI side down.       *)
(***************************************************************************)
UiTask == [kind : {"metrics", "frame"}, gen : 1 .. MaxMetricsGeneration]
            \cup [kind : {"event", "shutdown"}, gen : {0}]
ControlTask == [kind : {"control"}, cancel : BOOLEAN, gen : FrameGenerations]
ShutdownControl == [kind |-> "shutdown", cancel |-> TRUE, gen |-> 0]
PlatformTask == ControlTask \cup {ShutdownControl}
Task(k, g) == [kind |-> k, gen |-> g]

(* A driver entry past its locked section: the UI task and the control     *)
(* command it posts, and whether it ends by testing the exhausted flag.    *)
NoStep == [pc |-> "idle"]
Posting(task, cancel, gen, check) ==
  [pc |-> "posting", task |-> task, cancel |-> cancel, gen |-> gen, check |-> check]
PlatSteps == {NoStep} \cup [pc : {"posting"}, task : UiTask, cancel : BOOLEAN,
                            gen : FrameGenerations, check : BOOLEAN]

(* The UI executor: idle; inside delegate.frame_requested or its skipped   *)
(* form ("frame", metrics # 0 iff delivered); or with a generation armed   *)
(* by request_frame or by the end of the frame task and not posted yet.    *)
UiIdle == [pc |-> "idle", gen |-> 0, metrics |-> 0]
InFrame(m) == [pc |-> "frame", gen |-> 0, metrics |-> m]
UiSteps == [pc : {"idle", "frame", "request", "rearm"}, gen : FrameGenerations,
            metrics : 0 .. MaxMetricsGeneration]

Usable == visible /\ surface = "available"

TypeOK ==
  /\ running \in BOOLEAN /\ visible \in BOOLEAN
  /\ surface \in HostSurfaceState
  /\ metrics_generation \in 1 .. MaxMetricsGeneration
  /\ frame_demand \in BOOLEAN /\ frame_armed \in BOOLEAN /\ frame_delivering \in BOOLEAN
  /\ frame_generation_exhausted \in BOOLEAN
  /\ frame_generation \in FrameGenerations
  /\ next_frame_sequence \in 1 .. MaxSequence
  /\ last_frame_timestamp \in Timestamps \cup {-1}
  /\ platform_shutdown_complete \in BOOLEAN
  /\ uiQ \in Seq(UiTask)
  /\ platQ \in Seq(PlatformTask)
  /\ platStep \in PlatSteps
  /\ uiStep \in UiSteps
  /\ ctl \in FrameGenerations /\ late \in FrameGenerations
  /\ told \in 1 .. MaxMetricsGeneration

Init ==
  /\ running = TRUE /\ visible \in BOOLEAN /\ surface = "available"
  /\ metrics_generation = 1
  /\ frame_demand = FALSE /\ frame_armed = FALSE /\ frame_delivering = FALSE
  /\ frame_generation_exhausted = FALSE
  /\ frame_generation = 0 /\ next_frame_sequence = 1
  /\ last_frame_timestamp = -1
  /\ platform_shutdown_complete = FALSE
  /\ uiQ = <<>> /\ platQ = <<>>
  /\ platStep = NoStep /\ uiStep = UiIdle
  /\ ctl = 0 /\ late = 0 /\ told = 1
-----------------------------------------------------------------------------
(* Which executor may take a step: one thread cannot leave a step of the   *)
(* other executor half done.                                               *)
PlatformTurn == platStep = NoStep /\ (CoLocated => uiStep = UiIdle)
UiTurn == CoLocated => platStep = NoStep

(* arm_frame_locked, on the frame fields as the caller has left them:      *)
(* whether it arms, whether it finds the generation counter exhausted, and *)
(* the fields it leaves.                                                   *)
CanArmWhileDelivering(usable, armed, delivering, demand) ==
  running /\ usable /\ ~armed /\ demand
CanArm(usable, armed, delivering, demand) ==
  running /\ usable /\ ~armed /\ ~delivering /\ demand
Arms(usable, armed, delivering, demand, gen) ==
  CanArm(usable, armed, delivering, demand) /\ gen # MaxFrameGeneration
ArmExhausts(usable, armed, delivering, demand, gen) ==
  CanArm(usable, armed, delivering, demand) /\ gen = MaxFrameGeneration
ArmFrame(usable, armed, delivering, demand, gen, exhausted) ==
  LET arms == Arms(usable, armed, delivering, demand, gen)
  IN  /\ frame_armed' = (armed \/ arms)
      /\ frame_generation' = (IF arms THEN gen + 1 ELSE gen)
      /\ frame_generation_exhausted' =
           (exhausted \/ ArmExhausts(usable, armed, delivering, demand, gen))

(* invalidate_frame_locked: the demand an armed or delivering frame stood  *)
(* for is kept, and the generation moves on.                               *)
InvalidatedDemandOfArmed == frame_demand \/ frame_armed
InvalidatedDemand == frame_demand \/ frame_armed \/ frame_delivering
InvalidatedGenerationUnbounded == frame_generation + 1
InvalidatedGeneration ==
  IF frame_generation # MaxFrameGeneration THEN frame_generation + 1 ELSE frame_generation
InvalidateExhausts ==
  frame_generation_exhausted \/ frame_generation = MaxFrameGeneration

(* HostWindow::shutdown() as far as frames go.  Its UI task, or the        *)
(* platform task it schedules when that cannot be posted, may fail to be   *)
(* posted; HostLifecycle models that protocol.                             *)
StopFrames ==
  /\ running' = FALSE
  /\ frame_demand' = (IF running THEN FALSE ELSE frame_demand)
  /\ frame_armed' = (IF running THEN FALSE ELSE frame_armed)
  /\ frame_generation' =
       (IF running /\ frame_generation # MaxFrameGeneration
          THEN frame_generation + 1 ELSE frame_generation)
  /\ UNCHANGED <<visible, surface, metrics_generation, frame_delivering,
                 next_frame_sequence, last_frame_timestamp, platform_shutdown_complete>>

ShutdownPosts(ui, plat) ==
  IF ~running THEN uiQ' = ui /\ platQ' = plat
  ELSE \/ uiQ' = Append(ui, Task("shutdown", 0)) /\ platQ' = plat
       \/ PostsMayFail /\ uiQ' = ui /\ platQ' = Append(plat, ShutdownControl)
       \/ PostsMayFail /\ uiQ' = ui /\ platQ' = plat

Shutdown(ui, plat) == StopFrames /\ ShutdownPosts(ui, plat)
-----------------------------------------------------------------------------
(* HostWindowDriver::set_metrics with metrics that differ from the current *)
(* ones; at the last metrics generation the update is refused and only     *)
(* reported.                                                               *)
set_metrics ==
  /\ PlatformTurn /\ running
  /\ metrics_generation # MaxMetricsGeneration
  /\ metrics_generation' = metrics_generation + 1
  /\ frame_demand' = InvalidatedDemand
  /\ ArmFrame(Usable, FALSE, frame_delivering, InvalidatedDemand, InvalidatedGeneration,
              InvalidateExhausts)
  /\ platStep' = Posting(Task("metrics", metrics_generation + 1), frame_armed,
                         IF Arms(Usable, FALSE, frame_delivering, InvalidatedDemand,
                                 InvalidatedGeneration)
                           THEN InvalidatedGeneration + 1 ELSE 0,
                         TRUE)
  /\ UNCHANGED <<running, visible, surface, frame_delivering, next_frame_sequence,
                 last_frame_timestamp, platform_shutdown_complete, uiQ, platQ, uiStep,
                 native, told>>

(* HostWindowDriver::set_visible(FALSE). *)
hide ==
  /\ PlatformTurn /\ running /\ visible
  /\ visible' = FALSE
  /\ frame_demand' = InvalidatedDemand
  /\ frame_armed' = FALSE
  /\ frame_generation' = InvalidatedGeneration
  /\ frame_generation_exhausted' = InvalidateExhausts
  /\ platStep' = Posting(Task("event", 0), frame_armed, 0, TRUE)
  /\ UNCHANGED <<running, surface, metrics_generation, frame_delivering,
                 next_frame_sequence, last_frame_timestamp, platform_shutdown_complete,
                 uiQ, platQ, uiStep, native, told>>

(* HostWindowDriver::set_visible(TRUE). *)
show ==
  /\ PlatformTurn /\ running /\ ~visible
  /\ visible' = TRUE
  /\ ArmFrame(surface = "available", frame_armed, frame_delivering, frame_demand,
              frame_generation, frame_generation_exhausted)
  /\ platStep' = Posting(Task("event", 0), FALSE,
                         IF Arms(surface = "available", frame_armed, frame_delivering,
                                 frame_demand, frame_generation)
                           THEN frame_generation + 1 ELSE 0,
                         TRUE)
  /\ UNCHANGED <<running, surface, metrics_generation, frame_demand, frame_delivering,
                 next_frame_sequence, last_frame_timestamp, platform_shutdown_complete,
                 uiQ, platQ, uiStep, native, told>>

(* HostWindowDriver::set_surface_state: out_of_date and the return to      *)
(* available start a new metrics generation; running out of them stops the *)
(* host before anything else changes.                                      *)
RefreshesMetrics(s) == s \in {"out_of_date", "available"}
SurfaceTaskOutOfDateOnly(s) ==
  IF s = "out_of_date" THEN Task("metrics", metrics_generation + 1) ELSE Task("event", 0)
SurfaceTask(s) ==
  IF RefreshesMetrics(s) THEN Task("metrics", metrics_generation + 1) ELSE Task("event", 0)

set_surface_state(s) ==
  /\ PlatformTurn /\ running /\ surface # s
  /\ ~(RefreshesMetrics(s) /\ metrics_generation = MaxMetricsGeneration)
  /\ surface' = s
  /\ metrics_generation' = (IF RefreshesMetrics(s) THEN metrics_generation + 1
                                                   ELSE metrics_generation)
  /\ IF s = "available"
       THEN /\ frame_demand' = frame_demand
            /\ ArmFrame(visible, frame_armed, frame_delivering, frame_demand,
                        frame_generation, frame_generation_exhausted)
       ELSE /\ frame_demand' = InvalidatedDemand
            /\ frame_armed' = FALSE
            /\ frame_generation' = InvalidatedGeneration
            /\ frame_generation_exhausted' = InvalidateExhausts
  /\ platStep' =
       Posting(SurfaceTask(s),
               s # "available" /\ frame_armed,
               IF s = "available" /\ Arms(visible, frame_armed, frame_delivering,
                                          frame_demand, frame_generation)
                 THEN frame_generation + 1 ELSE 0,
               TRUE)
  /\ UNCHANGED <<running, visible, frame_delivering, next_frame_sequence,
                 last_frame_timestamp, platform_shutdown_complete, uiQ, platQ, uiStep,
                 native, told>>

set_surface_state_exhausted(s) ==
  /\ PlatformTurn /\ running /\ surface # s
  /\ RefreshesMetrics(s) /\ metrics_generation = MaxMetricsGeneration
  /\ Shutdown(uiQ, platQ)
  /\ UNCHANGED <<frame_generation_exhausted, platStep, uiStep, native, told>>

(* HostWindowDriver::frame_pulse for generation g: ignored unless g is the *)
(* armed generation of a usable window, refused with the frame still armed *)
(* when time runs backwards, else turned into a UI task.                   *)
PulseAccepted(g) == running /\ frame_armed /\ frame_generation = g /\ Usable

Backwards(t) == t < last_frame_timestamp

frame_pulse(g, t) ==
  IF ~PulseAccepted(g) \/ Backwards(t)
  THEN UNCHANGED <<state, uiQ, platQ, platStep>>
  ELSE IF next_frame_sequence = MaxSequence
  THEN Shutdown(uiQ, platQ) /\ UNCHANGED <<frame_generation_exhausted, platStep>>
  ELSE /\ frame_armed' = FALSE
       /\ frame_delivering' = TRUE
       /\ frame_demand' = FALSE
       /\ last_frame_timestamp' = t
       /\ next_frame_sequence' = next_frame_sequence + 1
       /\ platStep' = Posting(Task("frame", metrics_generation), FALSE, 0, FALSE)
       /\ UNCHANGED <<running, visible, surface, metrics_generation,
                      frame_generation_exhausted, frame_generation,
                      platform_shutdown_complete, uiQ, platQ>>

(* The native side fires the request it holds, or a callback it had queued *)
(* for a request it no longer holds.  A pulse refused for its timestamp    *)
(* leaves the request with the control.                                    *)
NativePulse(t) ==
  /\ PlatformTurn /\ ctl # 0
  /\ t >= last_frame_timestamp
  /\ frame_pulse(ctl, t)
  /\ ctl' = 0
  /\ UNCHANGED <<uiStep, late, told>>

BackwardPulse(t) ==
  /\ PlatformTurn /\ ctl # 0
  /\ t < last_frame_timestamp
  /\ frame_pulse(ctl, t)
  /\ UNCHANGED <<uiStep, native, told>>

LatePulse(t) ==
  /\ PlatformTurn /\ late # 0
  /\ frame_pulse(late, t)
  /\ late' = 0
  /\ UNCHANGED <<uiStep, ctl, told>>

(* The posts that end a driver entry, still under dispatch_mutex: the UI   *)
(* task, then the frame control; a failed post or an exhausted generation  *)
(* counter stops the host.                                                 *)
NeedsControl(st) == st.cancel \/ st.gen # 0
Control(cancel, gen) == [kind |-> "control", cancel |-> cancel, gen |-> gen]

PlatformPost ==
  /\ platStep # NoStep
  /\ platStep' = NoStep
  /\ LET ui == Append(uiQ, platStep.task)
         plat == IF NeedsControl(platStep)
                   THEN Append(platQ, Control(platStep.cancel, platStep.gen)) ELSE platQ
         exhausted == platStep.check /\ frame_generation_exhausted
     IN  \/ /\ ~exhausted
            /\ uiQ' = ui /\ platQ' = plat
            /\ UNCHANGED state
         \/ /\ exhausted
            /\ frame_generation_exhausted' = FALSE
            /\ Shutdown(ui, plat)
         \/ /\ PostsMayFail
            /\ Shutdown(uiQ, platQ) /\ UNCHANGED frame_generation_exhausted
         \/ /\ PostsMayFail /\ NeedsControl(platStep)
            /\ Shutdown(ui, platQ) /\ UNCHANGED frame_generation_exhausted
  /\ UNCHANGED <<uiStep, native, told>>

(* The task post_frame_control posted: inert once the host stopped, else   *)
(* cancel_frame, then request_frame, whose failure releases the demand if  *)
(* that generation is still the armed one.                                 *)
ControlLive == running
HeldAfter(task) ==
  IF task.gen # 0 THEN task.gen ELSE IF task.cancel THEN 0 ELSE ctl

RunControl ==
  /\ PlatformTurn
  /\ platQ # <<>> /\ Head(platQ).kind = "control"
  /\ platQ' = Tail(platQ)
  /\ LET task == Head(platQ)
         held == IF task.cancel THEN 0 ELSE ctl
     IN  \/ /\ ~ControlLive
            /\ UNCHANGED <<native, frame_armed, frame_demand>>
         \/ /\ ControlLive
            /\ ctl' = HeldAfter(task)
            /\ late' = (IF ctl # 0 THEN ctl ELSE late)
            /\ UNCHANGED <<frame_armed, frame_demand>>
         \/ /\ ControlLive /\ task.gen # 0 /\ ControlMayFail
            /\ ctl' = held
            /\ late' = (IF ctl # held THEN ctl ELSE late)
            /\ IF frame_armed /\ frame_generation = task.gen
                 THEN frame_armed' = FALSE /\ frame_demand' = FALSE
                 ELSE UNCHANGED <<frame_armed, frame_demand>>
  /\ UNCHANGED <<running, visible, surface, metrics_generation, frame_delivering,
                 frame_generation_exhausted, frame_generation, next_frame_sequence,
                 last_frame_timestamp, platform_shutdown_complete, uiQ, platStep, uiStep,
                 told>>

(* complete_platform_shutdown, from the platform queue. *)
RunPlatformShutdown ==
  /\ PlatformTurn
  /\ platQ # <<>> /\ Head(platQ).kind = "shutdown"
  /\ platQ' = Tail(platQ)
  /\ platform_shutdown_complete' = TRUE
  /\ ctl' = 0
  /\ UNCHANGED <<running, visible, surface, metrics_generation, frame_demand, frame_armed,
                 frame_delivering, frame_generation_exhausted, frame_generation,
                 next_frame_sequence, last_frame_timestamp, uiQ, platStep, uiStep, late,
                 told>>
-----------------------------------------------------------------------------
(* HostWindow::request_frame called by UI code outside a frame: the locked *)
(* section.  Called from inside frame_requested, frame_delivering keeps it *)
(* from arming, and only the demand is left behind.  A call with nothing   *)
(* to post and no exhausted counter to report ends with its locked section. *)
RequestStepUnchecked(arms, exhausted) ==
  IF arms THEN [pc |-> "request", metrics |-> 0, gen |-> frame_generation + 1] ELSE UiIdle
RequestStep(arms, exhausted) ==
  IF arms \/ exhausted
    THEN [pc |-> "request", metrics |-> 0, gen |-> IF arms THEN frame_generation + 1 ELSE 0]
    ELSE UiIdle

request_frame ==
  /\ UiTurn /\ running /\ uiStep = UiIdle
  /\ frame_demand' = TRUE
  /\ ArmFrame(Usable, frame_armed, frame_delivering, TRUE, frame_generation,
              frame_generation_exhausted)
  /\ uiStep' = RequestStep(Arms(Usable, frame_armed, frame_delivering, TRUE,
                                frame_generation),
                           frame_generation_exhausted')
  /\ UNCHANGED <<running, visible, surface, metrics_generation, frame_delivering,
                 next_frame_sequence, last_frame_timestamp, platform_shutdown_complete,
                 uiQ, platQ, platStep, native, told>>

request_frame_in_callback ==
  /\ UiTurn /\ running /\ uiStep.pc = "frame" /\ uiStep.metrics # 0
  /\ \/ /\ ~frame_generation_exhausted
        /\ frame_demand' = TRUE
        /\ UNCHANGED <<running, visible, surface, metrics_generation, frame_armed,
                       frame_delivering, frame_generation_exhausted, frame_generation,
                       next_frame_sequence, last_frame_timestamp,
                       platform_shutdown_complete, uiQ, platQ>>
     \/ /\ frame_generation_exhausted /\ platStep = NoStep
        /\ frame_generation_exhausted' = FALSE
        /\ Shutdown(uiQ, platQ)
  /\ UNCHANGED <<platStep, uiStep, native, told>>

(* The posting half of request_frame and of the frame task.  request_frame *)
(* tests the exhausted flag before it posts, the frame task afterwards.    *)
(* Stopping the host waits for a driver entry in progress (dispatch_mutex). *)
UiPost ==
  /\ UiTurn /\ uiStep.pc \in {"request", "rearm"}
  /\ uiStep' = UiIdle
  /\ LET plat == IF uiStep.gen # 0 THEN Append(platQ, Control(FALSE, uiStep.gen))
                                   ELSE platQ
     IN  \/ /\ ~frame_generation_exhausted
            /\ platQ' = plat
            /\ UNCHANGED <<state, uiQ>>
         \/ /\ frame_generation_exhausted /\ platStep = NoStep
            /\ frame_generation_exhausted' = FALSE
            /\ Shutdown(uiQ, IF uiStep.pc = "request" THEN platQ ELSE plat)
         \/ /\ PostsMayFail /\ uiStep.gen # 0 /\ platStep = NoStep
            /\ uiStep.pc = "request" => ~frame_generation_exhausted
            /\ Shutdown(uiQ, platQ) /\ UNCHANGED frame_generation_exhausted
  /\ UNCHANGED <<platStep, native, told>>

(* A queued notification other than a frame reaches the delegate. *)
Notify ==
  /\ UiTurn /\ uiStep = UiIdle
  /\ uiQ # <<>> /\ Head(uiQ).kind \in {"metrics", "event"}
  /\ uiQ' = Tail(uiQ)
  /\ told' = (IF Head(uiQ).kind = "metrics" THEN Head(uiQ).gen ELSE told)
  /\ UNCHANGED <<state, platQ, platStep, uiStep, native>>

(* The UI task frame_pulse posted, first locked section: the frame is      *)
(* handed to the delegate only if it is still current.                     *)
FrameCurrent(m) == running /\ frame_delivering /\ Usable /\ metrics_generation = m

FrameTaskStepEarlyReturn(m) == IF FrameCurrent(m) THEN InFrame(m) ELSE UiIdle
FrameTaskStep(m) == InFrame(IF FrameCurrent(m) THEN m ELSE 0)

FrameTaskBegin ==
  /\ UiTurn /\ uiStep = UiIdle
  /\ uiQ # <<>> /\ Head(uiQ).kind = "frame"
  /\ uiQ' = Tail(uiQ)
  /\ uiStep' = FrameTaskStep(Head(uiQ).gen)
  /\ UNCHANGED <<state, platQ, platStep, native, told>>

(* Second locked section, after the callback: delivery is over and what    *)
(* was demanded meanwhile is armed.                                        *)
EndDelivery(delivering) ==
  /\ UiTurn /\ uiStep.pc = "frame"
  /\ frame_delivering' = FALSE
  /\ ArmFrame(Usable, frame_armed, delivering, frame_demand, frame_generation,
              frame_generation_exhausted)
  /\ uiStep' = [pc |-> "rearm", metrics |-> 0,
                gen |-> IF Arms(Usable, frame_armed, delivering, frame_demand,
                                frame_generation)
                          THEN frame_generation + 1 ELSE 0]
  /\ UNCHANGED <<running, visible, surface, metrics_generation, frame_demand,
                 next_frame_sequence, last_frame_timestamp, platform_shutdown_complete,
                 uiQ, platQ, platStep, native, told>>

FrameTaskEndArmsTooSoon == EndDelivery(frame_delivering)
FrameTaskEnd == EndDelivery(FALSE)

(* The UI task of shutdown(): it schedules the platform's part. *)
RunUiShutdown ==
  /\ UiTurn /\ uiStep = UiIdle
  /\ uiQ # <<>> /\ Head(uiQ).kind = "shutdown"
  /\ uiQ' = Tail(uiQ)
  /\ \/ platQ' = Append(platQ, ShutdownControl)
     \/ PostsMayFail /\ platQ' = platQ
  /\ UNCHANGED <<state, platStep, uiStep, native, told>>

(* HostWindow::shutdown or HostWindowDriver::shutdown called from outside. *)
shutdown ==
  /\ running /\ platStep = NoStep
  /\ Shutdown(uiQ, platQ)
  /\ UNCHANGED <<frame_generation_exhausted, platStep, uiStep, native, told>>
-----------------------------------------------------------------------------
Driver ==
  \/ set_metrics \/ hide \/ show
  \/ \E s \in HostSurfaceState : set_surface_state(s) \/ set_surface_state_exhausted(s)
  \/ \E t \in Timestamps : NativePulse(t) \/ BackwardPulse(t) \/ LatePulse(t)
Platform == Driver \/ PlatformPost \/ RunControl \/ RunPlatformShutdown
Ui ==
  \/ request_frame \/ request_frame_in_callback \/ UiPost \/ Notify
  \/ FrameTaskBegin \/ FrameTaskEnd \/ RunUiShutdown

Next == Platform \/ Ui \/ shutdown

(* The runners run what is queued, a thread that left a locked section     *)
(* goes on to its posts, and the native side pulses the request it holds.  *)
Fairness ==
  /\ WF_vars(PlatformPost) /\ WF_vars(RunControl) /\ WF_vars(RunPlatformShutdown)
  /\ WF_vars(UiPost) /\ WF_vars(Notify) /\ WF_vars(FrameTaskBegin)
  /\ WF_vars(FrameTaskEnd) /\ WF_vars(RunUiShutdown)
  /\ WF_vars(\E t \in Timestamps : NativePulse(t))

Spec == Init /\ [][Next]_vars
FairSpec == Spec /\ Fairness
-----------------------------------------------------------------------------
(* Demand is never lost while the window can draw: a running, visible      *)
(* window with an available surface whose frame_demand is set has a frame  *)
(* armed or in delivery, whatever hide, show, metrics and surface changes  *)
(* came between (arm_frame_locked is called on every path that could need  *)
(* it), unless the generation counter is at its end.                       *)
NoLostDemand ==
  running /\ Usable /\ frame_demand /\ frame_generation # MaxFrameGeneration
    => frame_armed \/ frame_delivering

(* One frame at a time: at most one frame task is queued or running or     *)
(* about to be posted, only while frame_delivering is set, and nothing is  *)
(* armed meanwhile.                                                        *)
FramesIn(q) == {i \in 1 .. Len(q) : q[i].kind = "frame"}
FrameTasks == FramesIn(uiQ)
AtMostOne(S) == \A i, j \in S : i = j
FramePosting == platStep # NoStep /\ platStep.task.kind = "frame"
SingleDelivery ==
  /\ frame_delivering => ~frame_armed
  /\ AtMostOne(FrameTasks)
  /\ FrameTasks # {} => frame_delivering /\ uiStep.pc # "frame" /\ ~FramePosting
  /\ uiStep.pc = "frame" => frame_delivering /\ ~FramePosting
  /\ FramePosting => frame_delivering

(* frame_delivering never sticks: while the host runs it means that the    *)
(* task that will clear it is on its way.                                  *)
DeliveryPending ==
  running /\ frame_delivering => FrameTasks # {} \/ uiStep.pc = "frame" \/ FramePosting

(* The frame the delegate is given carries the metrics it was last told:   *)
(* metrics_changed overtakes no frame and no frame overtakes it.           *)
FrameMatchesToldMetrics == uiStep.metrics # 0 => uiStep.metrics = told

(* A counter at its limit never goes unnoticed: while the flag is up, the  *)
(* host has stopped or some thread still has its test ahead.               *)
ExhaustionNoticed ==
  frame_generation_exhausted =>
    \/ ~running
    \/ platStep # NoStep /\ platStep.check
    \/ uiStep.pc \in {"request", "rearm"}

(* Demand on a usable window, or a frame accepted for it, leads to a frame *)
(* callback, unless the window becomes unusable or the host stops: frame   *)
(* demand "parks while hidden or while the surface is unavailable/         *)
(* out-of-date/lost, resumes once when usable" (RFC 0002).                 *)
FrameProgress ==
  (running /\ Usable /\ (frame_demand \/ frame_delivering))
    ~> (uiStep.metrics # 0 \/ ~Usable \/ ~running)
=============================================================================
