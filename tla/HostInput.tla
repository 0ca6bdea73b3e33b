----------------------------- MODULE HostInput -----------------------------
(***************************************************************************)
(* Delegate binding, visibility, focus, pointers and keys of a host window *)
(* (src/src/host.cpp).                                                     *)
(*                                                                         *)
(* Driver entries, bind_delegate and shutdown() hold dispatch_mutex from   *)
(* their locked section to their post (`poster`); send_pointer releases it *)
(* before it reports a failed post and shuts down (`stopping`).            *)
(* DelegateBinding::reset and the UI tasks run in between.  A UI task      *)
(* makes several callbacks, each after its own look at the delegate        *)
(* generation (invoke_delegate).  `view` is what the current delegate has  *)
(* been told, and whether a callback ever made no sense to it.             *)
(***************************************************************************)
EXTENDS HostLife, Integers, Sequences, FiniteSets, SequencesExt

CONSTANTS
  Pointers,      \* pointer ids, numbers
  MaxDelegate,   \* limit of delegate_generation
  MaxEvents      \* bound: driver events considered

ASSUME InputConstants ==
  /\ Pointers \subseteq Nat /\ IsFiniteSet(Pointers)
  /\ MaxDelegate \in Nat \ {0} /\ MaxEvents \in Nat

VARIABLES
  deliver_queued_events, visible, focused,
  delegate_generation,
  bound,            \* the delegate is set and alive
  active_pointers,
  poster,           \* what the owner of dispatch_mutex still has to post
  stopping,         \* a send_pointer that failed is about to call shutdown()
  evQ,              \* ui_runner
  view,             \* what the delegate bound last knows
  events,           \* driver events so far, for the bound
  uiRefused         \* the UI post of shutdown() failed

state == <<running, deliver_queued_events, visible, focused, delegate_generation, bound,
           active_pointers>>

Phases == {"down", "move", "up", "cancel"}
PointerEvent == [kind : Phases, pointer : Pointers]
WindowEvent == [kind : {"created", "shown", "hidden", "focus", "blur", "key", "shutting_down"},
                pointer : {0}]
Event == PointerEvent \cup WindowEvent
Ev(k) == [kind |-> k, pointer |-> 0]
Pointer(k, p) == [kind |-> k, pointer |-> p]

Generations == 0 .. MaxDelegate
CallbackTask == [gen : Generations, calls : Seq(Event), last : BOOLEAN]

(* The owner of dispatch_mutex: the callbacks it is about to post, the     *)
(* pointers it puts back or takes out again if that fails, and whether it  *)
(* gives the mutex up before it shuts down.                                *)
Free == [pc |-> "free"]
Posting(calls, insert, erase, unlocks) ==
  [pc |-> "post", gen |-> delegate_generation, calls |-> calls, insert |-> insert,
   erase |-> erase, unlocks |-> unlocks]
Holders ==
  {Free} \cup [pc : {"post", "shutdown"}, gen : Generations, calls : Seq(Event),
               insert : SUBSET Pointers, erase : SUBSET Pointers, unlocks : BOOLEAN]

Views == [created : BOOLEAN, visible : BOOLEAN, focused : BOOLEAN, closed : BOOLEAN,
          down : SUBSET Pointers, sane : BOOLEAN]
NewView == [created |-> FALSE, visible |-> FALSE, focused |-> FALSE, closed |-> FALSE,
            down |-> {}, sane |-> TRUE]

DelegateTypeOK ==
  /\ running \in BOOLEAN /\ deliver_queued_events \in BOOLEAN
  /\ visible \in BOOLEAN /\ focused \in BOOLEAN
  /\ delegate_generation \in Generations /\ bound \in BOOLEAN
  /\ active_pointers \in SUBSET Pointers
  /\ poster \in Holders /\ stopping \in BOOLEAN
  /\ evQ \in Seq(CallbackTask) /\ view \in Views
  /\ events \in 0 .. MaxEvents /\ uiRefused \in BOOLEAN

DelegateInit ==
  /\ running = TRUE /\ deliver_queued_events = TRUE
  /\ visible \in BOOLEAN /\ focused = FALSE
  /\ delegate_generation = 0 /\ bound = FALSE /\ active_pointers = {}
  /\ poster = Free /\ stopping = FALSE /\ evQ = <<>>
  /\ view = NewView /\ events = 0 /\ uiRefused = FALSE
-----------------------------------------------------------------------------
(* take_active_pointers_locked: what is cancelled, in order of pointer id. *)
Nth(S, i) == CHOOSE p \in S : Cardinality({q \in S : q <= p}) = i
Cancels(S) == [i \in 1 .. Cardinality(S) |-> Pointer("cancel", Nth(S, i))]

(* The locked section of shutdown(), with the pointers active then. *)
StopWith(active) ==
  /\ running' = FALSE /\ active_pointers' = {}
  /\ poster' = [pc |-> "shutdown", gen |-> delegate_generation,
                calls |-> Append(Cancels(active), Ev("shutting_down")),
                insert |-> {}, erase |-> {}, unlocks |-> FALSE]

shutdown_window ==
  /\ poster = Free /\ running
  /\ StopWith(active_pointers)
  /\ stopping' = FALSE
  /\ UNCHANGED <<deliver_queued_events, visible, focused, delegate_generation, bound,
                 evQ, view, events, uiRefused>>

(* A failed send_pointer finds the host stopped already. *)
StopAgain ==
  /\ poster = Free /\ stopping /\ ~running
  /\ stopping' = FALSE
  /\ UNCHANGED <<state, poster, evQ, view, events, uiRefused>>

(* A detached delegate's generation is retired, as far as the counter goes. *)
NextDelegateUnchecked == delegate_generation + 1
NextDelegate ==
  IF delegate_generation # MaxDelegate THEN delegate_generation + 1 ELSE delegate_generation

(* The end of shutdown()'s UI task, or of its failed post. *)
EndDelivery(gen) ==
  /\ deliver_queued_events' = FALSE
  /\ bound' = (bound /\ delegate_generation # gen)
  /\ delegate_generation' =
       (IF delegate_generation = gen THEN NextDelegate ELSE delegate_generation)

PostShutdown ==
  /\ poster.pc = "shutdown"
  /\ poster' = Free
  /\ \/ /\ evQ' = Append(evQ, [gen |-> poster.gen, calls |-> poster.calls, last |-> TRUE])
        /\ UNCHANGED <<deliver_queued_events, bound, delegate_generation, uiRefused>>
     \/ /\ PostsMayFail /\ evQ' = evQ /\ uiRefused' = TRUE
        /\ EndDelivery(poster.gen)
  /\ UNCHANGED <<running, visible, focused, active_pointers, stopping, view, events>>
-----------------------------------------------------------------------------
(* A post that fails undoes the change of active_pointers, unless the      *)
(* delegate it was for is gone, and shuts the host down.                   *)
NotRolledBack(h) == active_pointers
RolledBack(h) ==
  IF running /\ delegate_generation = h.gen
    THEN (active_pointers \cup h.insert) \ h.erase ELSE active_pointers

Post ==
  /\ poster.pc = "post"
  /\ \/ /\ evQ' = Append(evQ, [gen |-> poster.gen, calls |-> poster.calls, last |-> FALSE])
        /\ poster' = Free
        /\ UNCHANGED <<running, active_pointers, stopping>>
     \/ /\ PostsMayFail /\ poster.unlocks /\ evQ' = evQ
        /\ active_pointers' = RolledBack(poster)
        /\ poster' = Free /\ stopping' = TRUE
        /\ UNCHANGED running
     \/ /\ PostsMayFail /\ ~poster.unlocks /\ evQ' = evQ
        /\ StopWith(RolledBack(poster))
        /\ UNCHANGED stopping
  /\ UNCHANGED <<deliver_queued_events, visible, focused, delegate_generation, bound,
                 view, events, uiRefused>>

(* What every driver entry shares. *)
Enters == running /\ poster = Free /\ events < MaxEvents /\ events' = events + 1
DriverUnchanged ==
  UNCHANGED <<running, deliver_queued_events, delegate_generation, bound, stopping, evQ,
              view, uiRefused>>

hide ==
  /\ Enters /\ visible
  /\ visible' = FALSE /\ focused' = FALSE /\ active_pointers' = {}
  /\ poster' = Posting(Cancels(active_pointers)
                         \o (IF focused THEN <<Ev("blur")>> ELSE <<>>) \o <<Ev("hidden")>>,
                       active_pointers, {}, FALSE)
  /\ DriverUnchanged

show ==
  /\ Enters /\ ~visible
  /\ visible' = TRUE
  /\ poster' = Posting(<<Ev("shown")>>, {}, {}, FALSE)
  /\ UNCHANGED <<focused, active_pointers>> /\ DriverUnchanged

set_focused(f) ==
  /\ Enters /\ focused # f /\ (f => visible)
  /\ focused' = f
  /\ active_pointers' = (IF f THEN active_pointers ELSE {})
  /\ poster' = (IF f THEN Posting(<<Ev("focus")>>, {}, {}, FALSE)
                ELSE Posting(Append(Cancels(active_pointers), Ev("blur")),
                             active_pointers, {}, FALSE))
  /\ UNCHANGED visible /\ DriverUnchanged

(* Only a well-formed sequence of phases is accepted. *)
send_pointer(p, phase) ==
  /\ Enters /\ visible
  /\ (phase = "down") <=> (p \notin active_pointers)
  /\ active_pointers' = CASE phase = "down" -> active_pointers \cup {p}
                          [] phase = "move" -> active_pointers
                          [] OTHER -> active_pointers \ {p}
  /\ poster' = Posting(<<Pointer(phase, p)>>, active_pointers \ active_pointers',
                       active_pointers' \ active_pointers, TRUE)
  /\ UNCHANGED <<visible, focused>> /\ DriverUnchanged

send_key ==
  /\ Enters /\ visible
  /\ poster' = Posting(<<Ev("key")>>, {}, {}, FALSE)
  /\ UNCHANGED <<visible, focused, active_pointers>> /\ DriverUnchanged
-----------------------------------------------------------------------------
(* Replacing or detaching the delegate ends its pointer streams. *)
PointersInherited == active_pointers
PointersAfterDetach == {}

bind_delegate ==
  /\ running /\ poster = Free /\ delegate_generation # MaxDelegate
  /\ delegate_generation' = delegate_generation + 1 /\ bound' = TRUE
  /\ active_pointers' = PointersAfterDetach
  /\ poster' = [Posting(<<Ev("created")>> \o (IF visible THEN <<Ev("shown")>> ELSE <<>>),
                        {}, {}, FALSE) EXCEPT !.gen = delegate_generation + 1]
  /\ view' = NewView
  /\ UNCHANGED <<running, deliver_queued_events, visible, focused, stopping, evQ, events,
                 uiRefused>>

(* DelegateBinding::reset, from any thread. *)
reset_delegate ==
  /\ bound /\ bound' = FALSE
  /\ active_pointers' = PointersAfterDetach
  /\ delegate_generation' = NextDelegate
  /\ UNCHANGED <<running, deliver_queued_events, visible, focused, poster, stopping, evQ,
                 view, events, uiRefused>>
-----------------------------------------------------------------------------
(* The delegate's side: which callback makes sense to it, and what it      *)
(* knows afterwards.                                                       *)
Sensible(v, e) ==
  /\ ~v.closed
  /\ e.kind # "shutting_down" => (e.kind = "created" <=> ~v.created)
  /\ e.kind \in {"down", "move", "up", "cancel", "key", "focus"} => v.visible
  /\ e.kind = "down" => e.pointer \notin v.down
  /\ e.kind \in {"move", "up", "cancel"} => e.pointer \in v.down
  /\ e.kind \in {"hidden", "shutting_down"} => v.down = {}
  /\ e.kind = "hidden" => ~v.focused
  /\ e.kind = "blur" => v.down = {}

After(v, e) ==
  [created |-> v.created \/ e.kind = "created",
   visible |-> (v.visible \/ e.kind = "shown") /\ e.kind # "hidden",
   focused |-> (v.focused \/ e.kind = "focus") /\ e.kind # "blur",
   closed |-> v.closed \/ e.kind = "shutting_down",
   down |-> CASE e.kind = "down" -> v.down \cup {e.pointer}
              [] e.kind \in {"up", "cancel"} -> v.down \ {e.pointer}
              [] OTHER -> v.down,
   sane |-> v.sane /\ Sensible(v, e)]

(* invoke_delegate for the next callback of the UI task in progress. *)
Reaches(task) ==
  /\ running \/ deliver_queued_events \/ task.last
  /\ delegate_generation = task.gen
  /\ bound

Callback ==
  /\ evQ # <<>> /\ Head(evQ).calls # <<>>
  /\ LET task == Head(evQ)
     IN  /\ evQ' = <<[task EXCEPT !.calls = Tail(@)]>> \o Tail(evQ)
         /\ view' = (IF Reaches(task) THEN After(view, Head(task.calls)) ELSE view)
  /\ UNCHANGED <<state, poster, stopping, events, uiRefused>>

FinishUiTask ==
  /\ evQ # <<>> /\ Head(evQ).calls = <<>>
  /\ evQ' = Tail(evQ)
  /\ IF Head(evQ).last THEN EndDelivery(Head(evQ).gen)
     ELSE UNCHANGED <<deliver_queued_events, bound, delegate_generation>>
  /\ UNCHANGED <<running, visible, focused, active_pointers, poster, stopping, view,
                 events, uiRefused>>

DelegateNext ==
  \/ Post \/ PostShutdown \/ shutdown_window \/ StopAgain \/ Callback \/ FinishUiTask
  \/ hide \/ show \/ send_key \/ bind_delegate \/ reset_delegate
  \/ \E f \in BOOLEAN : set_focused(f)
  \/ \E p \in Pointers, phase \in Phases : send_pointer(p, phase)

delegateVars == <<state, poster, stopping, evQ, view, events, uiRefused>>
DelegateSpec == DelegateInit /\ [][DelegateNext]_delegateVars
-----------------------------------------------------------------------------
(* Every delegate sees a sensible story, whatever was queued when it was   *)
(* bound: created first (but for the shutdown that follows a failure to    *)
(* announce it), a down before each move, up and cancel, input and         *)
(* focus only while visible, every pointer ended before focus or           *)
(* visibility is lost and before window_shutting_down, nothing afterwards. *)
DelegateStory == view.sane

(* When nothing is under way, the delegate's idea of the window is the     *)
(* host's: pressed pointers and visibility agree, and it does not believe  *)
(* in a focus the window has lost.                                         *)
DelegateUpToDate ==
  running /\ bound /\ poster = Free /\ ~stopping /\ evQ = <<>> =>
    /\ view.created
    /\ view.down = active_pointers
    /\ view.visible = visible
    /\ view.focused => focused

(* A delegate sees a sensible story and ends up knowing the window as it   *)
(* is.                                                                     *)
DelegateInformed == DelegateStory /\ DelegateUpToDate
=============================================================================
