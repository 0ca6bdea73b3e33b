--------------------------- MODULE HostClipboard ---------------------------
(***************************************************************************)
(* The clipboard service of a host window (src/src/host.cpp).              *)
(*                                                                         *)
(* The UI executor starts reads and writes; a task on the platform         *)
(* executor hands each to the backend, which answers through               *)
(* HostWindowDriver::complete_clipboard, from inside the call, later, more *)
(* than once or never; the completion reaches the delegate by a UI task.   *)
(*                                                                         *)
(* Starting a request, completing one, replacing the backend, binding a    *)
(* delegate and shutdown() hold dispatch_mutex throughout: `holder` is     *)
(* where its owner is after a locked section.  The queued tasks and        *)
(* DelegateBinding::reset do not take it and run in between.               *)
(*                                                                         *)
(* Reads and writes differ in their payload and in the answers             *)
(* complete_clipboard_request rejects as malformed, which change nothing;  *)
(* both are a request here.                                                *)
(***************************************************************************)
EXTENDS Integers, Sequences

CONSTANTS
  MaxService,    \* limit of clipboard_service_generation
  MaxSequence,   \* limit of clipboard_next_sequence
  MaxDelegate,   \* limit of delegate_generation
  PostsMayFail   \* TRUE: TaskRunner::post may throw

ASSUME ClipboardConstants ==
  /\ MaxService \in Nat \ {0} /\ MaxSequence \in Nat \ {0}
  /\ MaxDelegate \in Nat \ {0} /\ PostsMayFail \in BOOLEAN

VARIABLES
  running, deliver_queued_events,
  delegate_generation,
  bound,                \* the delegate is set and alive
  clipboard_backend,    \* TRUE unless null
  clipboard_service_generation, clipboard_next_sequence,
  clipboard_requests,
  holder,               \* what the owner of dispatch_mutex still has to do
  platQ, uiQ,           \* platform_runner and ui_runner
  calling,              \* the request the backend is being called with
  given,                \* requests the backend has been called with
  accepted,             \* requests whose id was returned to the caller
  completed,            \* clipboard_completed calls for each request
  dropped,              \* completions invoke_delegate did not deliver
  uiRefused             \* a UI post of shutdown() failed

state == <<running, deliver_queued_events, delegate_generation, bound, clipboard_backend,
           clipboard_service_generation, clipboard_next_sequence, clipboard_requests>>
tasks == <<platQ, uiQ, calling>>
ghosts == <<given, accepted, completed, dropped, uiRefused>>
vars == <<state, holder, tasks, ghosts>>

Sequences == 1 .. MaxSequence - 1
Request == [service : 1 .. MaxService, sequence : Sequences]
Services == 0 .. MaxService
Generations == 0 .. MaxDelegate

(* A UI task calls clipboard_completed for each of its requests, for the   *)
(* delegate generation it was posted with.                                 *)
UiTask == [kind : {"completed", "canceled", "shutdown"}, gen : Generations, reqs : Seq(Request)]
UiTaskOf(k, g, q) == [kind |-> k, gen |-> g, reqs |-> q]

Free == [pc |-> "free"]
Holding(pc, q, g) == [pc |-> pc, reqs |-> q, gen |-> g]
Holders == {Free} \cup [pc : {"request", "complete", "erase", "replace", "shutdown"},
                        reqs : Seq(Request), gen : Generations]

TypeOK ==
  /\ running \in BOOLEAN /\ deliver_queued_events \in BOOLEAN
  /\ delegate_generation \in Generations /\ bound \in BOOLEAN
  /\ clipboard_backend \in BOOLEAN
  /\ clipboard_service_generation \in Services
  /\ clipboard_next_sequence \in 1 .. MaxSequence
  /\ clipboard_requests \in Seq(Request)
  /\ holder \in Holders
  /\ platQ \in Seq(Request) /\ uiQ \in Seq(UiTask)
  /\ calling \in SUBSET Request
  /\ given \in SUBSET Request /\ accepted \in SUBSET Request /\ dropped \in SUBSET Request
  /\ completed \in [Request -> Nat]
  /\ uiRefused \in BOOLEAN

Init ==
  /\ running = TRUE /\ deliver_queued_events = TRUE
  /\ delegate_generation = 0 /\ bound = FALSE
  /\ clipboard_backend = FALSE
  /\ clipboard_service_generation = 0 /\ clipboard_next_sequence = 1
  /\ clipboard_requests = <<>>
  /\ holder = Free /\ platQ = <<>> /\ uiQ = <<>> /\ calling = {}
  /\ given = {} /\ accepted = {} /\ dropped = {}
  /\ completed = [r \in Request |-> 0]
  /\ uiRefused = FALSE

(* std::erase_if of the requests in S. *)
Erase(q, S) ==
  LET kept[i \in 0 .. Len(q)] ==
        IF i = 0 THEN <<>> ELSE IF q[i] \in S THEN kept[i - 1] ELSE Append(kept[i - 1], q[i])
  IN  kept[Len(q)]
-----------------------------------------------------------------------------
(* The locked section of shutdown(), with the requests still pending then; *)
(* what it took is posted in the next step.                                *)
DeliverNothingQueued == FALSE
DeliverQueuedAfterStop == deliver_queued_events
StopWith(pending) ==
  /\ running' = FALSE
  /\ deliver_queued_events' = DeliverQueuedAfterStop
  /\ clipboard_requests' = <<>>
  /\ holder' = Holding("shutdown", pending, delegate_generation)

shutdown ==
  /\ running /\ holder = Free
  /\ StopWith(clipboard_requests)
  /\ UNCHANGED <<delegate_generation, bound, clipboard_backend,
                 clipboard_service_generation, clipboard_next_sequence, tasks, ghosts>>

(* Shared by the UI task of shutdown() and by the failure to post it: the  *)
(* delegate it was posted for is detached and queued events are dropped.   *)
EndDelivery(gen) ==
  /\ deliver_queued_events' = FALSE
  /\ bound' = (bound /\ delegate_generation # gen)
  /\ delegate_generation' =
       (IF delegate_generation = gen /\ delegate_generation # MaxDelegate
          THEN delegate_generation + 1 ELSE delegate_generation)

PostShutdown ==
  /\ holder.pc = "shutdown"
  /\ holder' = Free
  /\ \/ /\ uiQ' = Append(uiQ, UiTaskOf("shutdown", holder.gen, holder.reqs))
        /\ UNCHANGED <<deliver_queued_events, bound, delegate_generation, uiRefused>>
     \/ /\ PostsMayFail
        /\ uiQ' = uiQ /\ uiRefused' = TRUE
        /\ EndDelivery(holder.gen)
  /\ UNCHANGED <<running, clipboard_backend, clipboard_service_generation,
                 clipboard_next_sequence, clipboard_requests, platQ, calling,
                 given, accepted, completed, dropped>>
-----------------------------------------------------------------------------
(* read_clipboard_text and write_clipboard_text. *)
NeverExhausted == FALSE
SequenceExhausted == clipboard_next_sequence = MaxSequence
StartRequest ==
  /\ running /\ holder = Free /\ clipboard_backend
  /\ \/ /\ SequenceExhausted
        /\ StopWith(clipboard_requests)
        /\ UNCHANGED clipboard_next_sequence
     \/ /\ ~SequenceExhausted
        /\ LET r == [service |-> clipboard_service_generation,
                     sequence |-> clipboard_next_sequence]
           IN  /\ clipboard_requests' = Append(clipboard_requests, r)
               /\ holder' = Holding("request", <<r>>, 0)
        /\ clipboard_next_sequence' = clipboard_next_sequence + 1
        /\ UNCHANGED <<running, deliver_queued_events>>
  /\ UNCHANGED <<delegate_generation, bound, clipboard_backend,
                 clipboard_service_generation, tasks, ghosts>>

(* What a failed post leaves pending for the shutdown() that follows. *)
WithoutRefused(r) == Erase(clipboard_requests, {r})

PostRequest ==
  /\ holder.pc = "request"
  /\ LET r == Head(holder.reqs)
     IN  \/ /\ platQ' = Append(platQ, r)
            /\ accepted' = accepted \cup {r}
            /\ holder' = Free
            /\ UNCHANGED <<running, deliver_queued_events, clipboard_requests>>
         \/ /\ PostsMayFail
            /\ StopWith(WithoutRefused(r))
            /\ UNCHANGED <<platQ, accepted>>
  /\ UNCHANGED <<delegate_generation, bound, clipboard_backend,
                 clipboard_service_generation, clipboard_next_sequence, uiQ, calling,
                 given, completed, dropped, uiRefused>>

(* The platform task: the backend is called unless the request is stale. *)
Current(r) ==
  /\ running /\ clipboard_backend
  /\ clipboard_service_generation = r.service
  /\ \E i \in 1 .. Len(clipboard_requests) : clipboard_requests[i] = r

RunRequest ==
  /\ platQ # <<>> /\ calling = {}
  /\ platQ' = Tail(platQ)
  /\ calling' = {r \in {Head(platQ)} : Current(r)}
  /\ given' = given \cup calling'
  /\ UNCHANGED <<state, holder, uiQ, accepted, completed, dropped, uiRefused>>

BackendReturns ==
  /\ calling # {}
  /\ calling' = {}
  /\ UNCHANGED <<state, holder, platQ, uiQ, ghosts>>
-----------------------------------------------------------------------------
(* complete_clipboard_request, first locked section: the answer must match *)
(* a pending request of the current service.                               *)
Matches(r) ==
  /\ running /\ clipboard_service_generation = r.service
  /\ \E i \in 1 .. Len(clipboard_requests) : clipboard_requests[i] = r

Completing(r) == Holding("complete", <<r>>, delegate_generation)

complete_clipboard(r) ==
  /\ holder = Free /\ Matches(r)
  /\ holder' = Completing(r)
  /\ UNCHANGED <<state, tasks, ghosts>>

(* The backend throws, and the request is completed as failed unless it    *)
(* was answered before the exception.                                      *)
BackendThrows ==
  /\ holder = Free
  /\ \E r \in calling : holder' = (IF Matches(r) THEN Completing(r) ELSE Free)
  /\ calling' = {}
  /\ UNCHANGED <<state, platQ, uiQ, ghosts>>

(* The completion is posted first and the request erased afterwards: a     *)
(* failed post leaves it to be cancelled by shutdown().                    *)
PendingIfUnposted(r) == clipboard_requests
PostCompletion ==
  /\ holder.pc = "complete"
  /\ \/ /\ uiQ' = Append(uiQ, UiTaskOf("completed", holder.gen, holder.reqs))
        /\ holder' = [holder EXCEPT !.pc = "erase"]
        /\ UNCHANGED <<running, deliver_queued_events, clipboard_requests>>
     \/ /\ PostsMayFail /\ uiQ' = uiQ
        /\ StopWith(PendingIfUnposted(Head(holder.reqs)))
  /\ UNCHANGED <<delegate_generation, bound, clipboard_backend,
                 clipboard_service_generation, clipboard_next_sequence, platQ, calling,
                 ghosts>>

AnswersStayPending(q, r) == q
StillPending(q, r) == Erase(q, {r})
EraseCompleted ==
  /\ holder.pc = "erase"
  /\ clipboard_requests' = StillPending(clipboard_requests, Head(holder.reqs))
  /\ holder' = Free
  /\ UNCHANGED <<running, deliver_queued_events, delegate_generation, bound,
                 clipboard_backend, clipboard_service_generation, clipboard_next_sequence,
                 tasks, ghosts>>
-----------------------------------------------------------------------------
(* set_clipboard_backend, with a backend or with null. *)
CanceledUnlessNull(b) ==
  IF clipboard_requests = <<>> \/ ~b THEN Free
  ELSE Holding("replace", clipboard_requests, delegate_generation)
CanceledBy(b) ==
  IF clipboard_requests = <<>> THEN Free
  ELSE Holding("replace", clipboard_requests, delegate_generation)

set_clipboard_backend(b) ==
  /\ running /\ holder = Free
  /\ \/ /\ clipboard_service_generation = MaxService
        /\ StopWith(clipboard_requests)
        /\ UNCHANGED <<clipboard_backend, clipboard_service_generation>>
     \/ /\ clipboard_service_generation # MaxService
        /\ clipboard_service_generation' = clipboard_service_generation + 1
        /\ clipboard_backend' = b
        /\ clipboard_requests' = <<>>
        /\ holder' = CanceledBy(b)
        /\ UNCHANGED <<running, deliver_queued_events>>
  /\ UNCHANGED <<delegate_generation, bound,
                 clipboard_next_sequence, tasks, ghosts>>

(* Cancelled requests are put back when their UI task cannot be posted. *)
PostCanceled ==
  /\ holder.pc = "replace"
  /\ \/ /\ uiQ' = Append(uiQ, UiTaskOf("canceled", holder.gen, holder.reqs))
        /\ holder' = Free
        /\ UNCHANGED <<running, deliver_queued_events, clipboard_requests>>
     \/ /\ PostsMayFail /\ uiQ' = uiQ
        /\ StopWith(holder.reqs)
  /\ UNCHANGED <<delegate_generation, bound, clipboard_backend,
                 clipboard_service_generation, clipboard_next_sequence, platQ, calling,
                 ghosts>>
-----------------------------------------------------------------------------
(* bind_delegate: its own UI task carries no completion, and a failure to  *)
(* post it stops the host.                                                 *)
bind_delegate ==
  /\ running /\ holder = Free /\ delegate_generation # MaxDelegate
  /\ delegate_generation' = delegate_generation + 1
  /\ bound' = TRUE
  /\ \/ UNCHANGED <<running, clipboard_requests, holder>>
     \/ /\ PostsMayFail
        /\ running' = FALSE /\ clipboard_requests' = <<>>
        /\ holder' = Holding("shutdown", clipboard_requests, delegate_generation + 1)
  /\ UNCHANGED <<deliver_queued_events, clipboard_backend, clipboard_service_generation,
                 clipboard_next_sequence, tasks, ghosts>>

(* DelegateBinding::reset, or the delegate dies and its binding stays. *)
reset_delegate ==
  /\ bound /\ bound' = FALSE
  /\ delegate_generation' \in {delegate_generation} \cup
       ({delegate_generation + 1} \cap Generations)
  /\ UNCHANGED <<running, deliver_queued_events, clipboard_backend,
                 clipboard_service_generation, clipboard_next_sequence, clipboard_requests,
                 holder, tasks, ghosts>>

(* invoke_delegate for the next request of the UI task at the head of the  *)
(* queue.  The UI task of shutdown() delivers whatever the flags say.      *)
Reaches(task) ==
  /\ running \/ deliver_queued_events \/ task.kind = "shutdown"
  /\ delegate_generation = task.gen
  /\ bound

DeliverCompletion ==
  /\ uiQ # <<>> /\ Head(uiQ).reqs # <<>>
  /\ LET task == Head(uiQ)
         r == Head(task.reqs)
     IN  /\ uiQ' = <<[task EXCEPT !.reqs = Tail(@)]>> \o Tail(uiQ)
         /\ IF Reaches(task)
              THEN /\ completed' = [completed EXCEPT ![r] = @ + 1]
                   /\ UNCHANGED dropped
              ELSE dropped' = dropped \cup {r} /\ UNCHANGED completed
  /\ UNCHANGED <<state, holder, platQ, calling, given, accepted, uiRefused>>

FinishUiTask ==
  /\ uiQ # <<>> /\ Head(uiQ).reqs = <<>>
  /\ uiQ' = Tail(uiQ)
  /\ IF Head(uiQ).kind = "shutdown" THEN EndDelivery(Head(uiQ).gen)
     ELSE UNCHANGED <<deliver_queued_events, bound, delegate_generation>>
  /\ UNCHANGED <<running, clipboard_backend, clipboard_service_generation,
                 clipboard_next_sequence, clipboard_requests, holder, platQ, calling,
                 ghosts>>

(* complete_platform_shutdown, which the UI task of shutdown() or its      *)
(* failed post schedules, releases the backend on the platform executor.   *)
ReleaseBackend ==
  /\ ~running /\ ~deliver_queued_events /\ clipboard_backend /\ calling = {}
  /\ clipboard_backend' = FALSE
  /\ UNCHANGED <<running, deliver_queued_events, delegate_generation, bound,
                 clipboard_service_generation, clipboard_next_sequence, clipboard_requests,
                 holder, tasks, ghosts>>
-----------------------------------------------------------------------------
Holder == PostShutdown \/ PostRequest \/ PostCompletion \/ EraseCompleted \/ PostCanceled
Backend == BackendReturns \/ BackendThrows \/ \E r \in given : complete_clipboard(r)
Next ==
  \/ Holder \/ Backend \/ RunRequest \/ DeliverCompletion \/ FinishUiTask
  \/ shutdown \/ ReleaseBackend \/ StartRequest \/ bind_delegate \/ reset_delegate
  \/ \E b \in BOOLEAN : set_clipboard_backend(b)

Spec == Init /\ [][Next]_vars

(* The runners run their tasks, the owner of the mutex goes on, and the    *)
(* backend answers every request it is called with.                        *)
Fairness ==
  /\ WF_vars(Holder) /\ WF_vars(RunRequest)
  /\ WF_vars(DeliverCompletion \/ FinishUiTask)
  /\ WF_vars(BackendReturns)
  /\ \A r \in Request : SF_vars(r \in given /\ complete_clipboard(r))
FairSpec == Spec /\ Fairness
-----------------------------------------------------------------------------
Queued(r) == \E i \in 1 .. Len(uiQ) : \E j \in 1 .. Len(uiQ[i].reqs) : uiQ[i].reqs[j] = r
Pending(r) == \E i \in 1 .. Len(clipboard_requests) : clipboard_requests[i] = r
Held(r) == /\ holder.pc \in {"complete", "replace", "shutdown"}
           /\ \E i \in 1 .. Len(holder.reqs) : holder.reqs[i] = r
Done(r) == completed[r] > 0 \/ r \in dropped

(* A request is completed at most once: answers that are repeated, late,   *)
(* given and followed by an exception, or overtaken by the cancellation of *)
(* a replacement or of shutdown() find it gone.                            *)
CompletedOnce ==
  /\ \A r \in Request : completed[r] <= 1
  /\ \A i, j \in 1 .. Len(uiQ) : \A k \in 1 .. Len(uiQ[i].reqs), l \in 1 .. Len(uiQ[j].reqs) :
       uiQ[i].reqs[k] = uiQ[j].reqs[l] => i = j /\ k = l
  /\ \A r \in Request : Queued(r) => ~Done(r)

(* No accepted request is forgotten: until its completion was run it is    *)
(* pending, taken by the owner of dispatch_mutex or in a queued UI task.   *)
(* Only a UI runner that refuses the task of shutdown() loses requests.    *)
NoRequestLost ==
  \A r \in accepted : ~Done(r) => Pending(r) \/ Held(r) \/ Queued(r) \/ uiRefused

(* A completion is dropped only because the delegate changed: those queued *)
(* before shutdown() are delivered before its task ends delivery.          *)
DeliveredBeforeShutdown ==
  ~deliver_queued_events /\ ~uiRefused => \A r \in Request : ~Queued(r)

(* Every accepted request is completed, or dropped because its delegate was *)
(* replaced or reset, unless the UI executor refuses the shutdown task.     *)
RequestsComplete ==
  \A r \in Request : r \in accepted ~> Done(r) \/ uiRefused
=============================================================================
