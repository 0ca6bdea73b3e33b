---------------------------- MODULE RasterThread ----------------------------
(***************************************************************************)
(* RasterThread (src/src/backend.cpp): a worker thread that renders        *)
(* submitted layer trees in order, client threads that submit, wait for    *)
(* idleness and ask for a stop.  One mutex guards the state, so each       *)
(* locked section is one step; `ready` wakes the worker and `idle` the     *)
(* waiting clients, modelled by who waits on them (wait sets).  Calls made *)
(* from inside the renderer take the same locked sections as a client's.   *)
(***************************************************************************)
EXTENDS Integers, Sequences, FiniteSets

CONSTANTS Clients,     \* threads using the RasterThread
          MaxFrames    \* bound on accepted submissions (FrameId is 64 bits wide)

ASSUME RasterConstants == MaxFrames \in Nat

VARIABLES
  pending,       \* queued FrameIds
  next_frame,
  rendering, stopping, failure,
  current,       \* FrameId of the worker's submission, 0 when it has none
  tickets,       \* outcome of each FrameTicket, "open" until set
  worker,        \* where the worker is
  frame,         \* SurfaceFrame of each submission: how it ended
  client,        \* where each client is
  readyNotified  \* ready was notified since the worker began to wait on it

threadState == <<pending, next_frame, rendering, stopping, failure, current, tickets>>
rasterVars == <<threadState, worker, frame, client, readyNotified>>

FrameIds == 1 .. MaxFrames
Rendered == {"presented", "unavailable", "out_of_date"}
Outcomes == Rendered \cup {"canceled", "exception"}
WorkerSteps == {"factory", "factory_failed", "lock", "wait", "acquire", "render", "present",
                "failed", "exited"} \cup Rendered
FrameStates == {"none", "active", "presented", "abandoned", "ended twice"}
ClientSteps == {"running", "waiting", "woken", "notify", "destroy_notify", "joining", "joined"}

(* Type invariant. *)
RasterTypeOK ==
  /\ pending \in Seq(FrameIds)
  /\ next_frame \in 1 .. MaxFrames + 1
  /\ rendering \in BOOLEAN /\ stopping \in BOOLEAN /\ failure \in BOOLEAN
  /\ current \in 0 .. MaxFrames
  /\ tickets \in [FrameIds -> Outcomes \cup {"none", "open"}]
  /\ worker \in WorkerSteps
  /\ frame \in [FrameIds -> FrameStates]
  /\ client \in [Clients -> ClientSteps]
  /\ readyNotified \in BOOLEAN

RasterInit ==
  /\ pending = <<>> /\ next_frame = 1
  /\ rendering = FALSE /\ stopping = FALSE /\ failure = FALSE
  /\ current = 0
  /\ tickets = [i \in FrameIds |-> "none"]
  /\ worker = "factory"
  /\ frame = [i \in FrameIds |-> "none"]
  /\ client = [c \in Clients |-> "running"]
  /\ readyNotified = FALSE

Queued == {pending[k] : k \in 1 .. Len(pending)}
Idle == pending = <<>> /\ ~rendering


(* Destruction is serialized by the caller with every other use. *)
Destroying == \E c \in Clients : client[c] \in {"destroy_notify", "joining", "joined"}
-----------------------------------------------------------------------------
(* idle.notify_all: every waiting client gets to test the predicate again. *)
IdleNotified(cl) == [c \in Clients |-> IF cl[c] = "waiting" THEN "woken" ELSE cl[c]]

(* cancel_pending and fail_pending on the ticket table. *)
CompleteAll(ids, outcome) ==
  [i \in FrameIds |-> IF i \in ids THEN outcome ELSE tickets[i]]

(* SurfaceFrame::present of an active frame and SurfaceFrame::abandon,     *)
(* which its destructor calls: each hands the frame back to the delegate,  *)
(* and abandon does nothing to a frame that is no longer active.           *)
HandedBack(f, how) == IF f = "active" THEN how ELSE "ended twice"
AbandonedUnguarded(f) == HandedBack(f, "abandoned")
Abandoned(f) == IF f = "active" THEN HandedBack(f, "abandoned") ELSE f
-----------------------------------------------------------------------------
(* RasterThread::submit of a valid request; refused after a stop or a      *)
(* failure.                                                                *)
AcceptsUnlessFailed == ~failure
Accepts == ~failure /\ ~stopping
SkippedId == next_frame + 1
TakenId == next_frame
NotNotified == readyNotified
NotifiedBySubmit == TRUE

submit(c) ==
  /\ client[c] = "running" /\ ~Destroying
  /\ Accepts
  /\ next_frame <= MaxFrames
  /\ next_frame' = TakenId + 1
  /\ tickets' = [tickets EXCEPT ![TakenId] = "open"]
  /\ pending' = Append(pending, TakenId)
  /\ readyNotified' = NotifiedBySubmit
  /\ UNCHANGED <<rendering, stopping, failure, current, worker, frame, client>>

(* RasterThread::wait_idle: returns (or rethrows the failure) if the       *)
(* predicate holds, else waits; a waiter also wakes spuriously.            *)
wait_idle(c) ==
  /\ client[c] = "running" /\ ~Destroying
  /\ client' = [client EXCEPT ![c] = IF Idle THEN "running" ELSE "waiting"]
  /\ UNCHANGED <<threadState, worker, frame, readyNotified>>

TestIdle(c) ==
  /\ client[c] = "woken"
  /\ client' = [client EXCEPT ![c] = IF Idle THEN "running" ELSE "waiting"]
  /\ UNCHANGED <<threadState, worker, frame, readyNotified>>

SpuriousWake(c) ==
  /\ client[c] = "waiting"
  /\ client' = [client EXCEPT ![c] = "woken"]
  /\ UNCHANGED <<threadState, worker, frame, readyNotified>>

(* RasterThread::request_stop, the locked section: cancel what is queued   *)
(* and wake the waiting clients; ready is notified after unlocking.        *)
NoWake(cl) == cl
WakeOnStop(cl) == IdleNotified(cl)
CanceledIncludingCurrent == Queued \cup ({current} \ {0})
Canceled == Queued

StopWith(c, next) ==
  /\ client[c] = "running" /\ ~Destroying
  /\ stopping' = TRUE
  /\ tickets' = CompleteAll(Canceled, "canceled")
  /\ pending' = <<>>
  /\ client' = [WakeOnStop(client) EXCEPT ![c] = next]
  /\ UNCHANGED <<next_frame, rendering, failure, current, worker, frame, readyNotified>>

request_stop(c) == StopWith(c, "notify")

(* ready.notify_one after the unlock, in request_stop itself or in the     *)
(* destructor's call of it.                                                *)
NotifiedByStop == TRUE
NotifyReady(c) ==
  /\ client[c] \in {"notify", "destroy_notify"}
  /\ readyNotified' = NotifiedByStop
  /\ client' = [client EXCEPT ![c] = IF @ = "notify" THEN "running" ELSE "joining"]
  /\ UNCHANGED <<threadState, worker, frame>>

(* ~RasterThread: request_stop, then join. *)
Destroy(c) ==
  /\ \A d \in Clients : client[d] = "running"
  /\ StopWith(c, "destroy_notify")

Join(c) ==
  /\ client[c] = "joining"
  /\ worker = "exited"
  /\ client' = [client EXCEPT ![c] = "joined"]
  /\ UNCHANGED <<threadState, worker, frame, readyNotified>>
-----------------------------------------------------------------------------
(* The worker: run(). *)
WorkerState(next) == worker' = next /\ UNCHANGED <<client, readyNotified>>

Factory ==
  /\ worker = "factory"
  /\ \E next \in {"lock", "factory_failed"} : WorkerState(next)
  /\ UNCHANGED <<threadState, frame>>

(* The failure that ends the worker completes the active ticket, if any,   *)
(* and every queued one.                                                   *)
FailedTicketsActiveOnly == {current} \ {0}
FailedTickets == Queued \cup ({current} \ {0})
FailWorker ==
  /\ failure' = TRUE /\ stopping' = TRUE /\ rendering' = FALSE
  /\ tickets' = CompleteAll(FailedTickets, "exception")
  /\ pending' = <<>> /\ current' = 0
  /\ client' = IdleNotified(client)
  /\ worker' = "exited"
  /\ UNCHANGED <<next_frame, frame, readyNotified>>

FactoryFailed == worker = "factory_failed" /\ FailWorker

(* The head of the loop, under the mutex: wait, leave, or take the oldest  *)
(* submission.                                                             *)
Lock ==
  /\ worker = "lock"
  /\ IF pending # <<>>
     THEN /\ current' = Head(pending)
          /\ pending' = Tail(pending)
          /\ rendering' = TRUE
          /\ WorkerState("acquire")
          /\ UNCHANGED <<next_frame, stopping, failure, tickets>>
     ELSE IF stopping
     THEN WorkerState("exited") /\ UNCHANGED threadState
     ELSE /\ worker' = "wait"
          /\ readyNotified' = FALSE
          /\ UNCHANGED <<threadState, client>>
  /\ UNCHANGED frame

(* ready.wait returns to its predicate when notified, or spuriously. *)
Wake ==
  /\ worker = "wait" /\ readyNotified
  /\ worker' = "lock"
  /\ UNCHANGED <<threadState, frame, client, readyNotified>>

SpuriousReady ==
  /\ worker = "wait" /\ ~readyNotified
  /\ worker' = "lock"
  /\ UNCHANGED <<threadState, frame, client, readyNotified>>

(* RasterSurface::acquire: a frame, a refusal that is the outcome, a lost  *)
(* surface or an exception.                                                *)
Acquire ==
  /\ worker = "acquire"
  /\ \/ frame' = [frame EXCEPT ![current] = "active"] /\ WorkerState("render")
     \/ UNCHANGED frame
        /\ \E next \in {"unavailable", "out_of_date", "failed"} : WorkerState(next)
  /\ UNCHANGED threadState

(* SurfaceRenderer::render, which may itself end the frame it is handed;   *)
(* leaving by exception destroys the frame before the catch block.         *)
Render ==
  /\ worker = "render"
  /\ \E f \in {frame[current], HandedBack(frame[current], "presented"), Abandoned(frame[current])} :
       \/ WorkerState("present") /\ frame' = [frame EXCEPT ![current] = f]
       \/ WorkerState("failed") /\ frame' = [frame EXCEPT ![current] = Abandoned(f)]
  /\ UNCHANGED threadState

(* SurfaceFrame::present throws on a frame that is not active and else     *)
(* ends it, whatever the delegate returns or throws; then the destructor.  *)
Present ==
  /\ worker = "present"
  /\ \/ /\ frame[current] = "active"
        /\ frame' = [frame EXCEPT ![current] = Abandoned(HandedBack(@, "presented"))]
        /\ \E next \in {"presented", "out_of_date", "failed"} : WorkerState(next)
     \/ /\ frame[current] # "active"
        /\ frame' = [frame EXCEPT ![current] = Abandoned(@)]
        /\ WorkerState("failed")
  /\ UNCHANGED threadState

(* The catch block. *)
Failed == worker = "failed" /\ FailWorker

(* The frame's outcome becomes the ticket's; waiters are woken if that     *)
(* leaves nothing queued.                                                  *)
WakeAfterFrame(cl) == IF pending = <<>> THEN IdleNotified(cl) ELSE cl

Finish ==
  /\ worker \in Rendered
  /\ tickets' = [tickets EXCEPT ![current] = worker]
  /\ rendering' = FALSE
  /\ current' = 0
  /\ client' = WakeAfterFrame(client)
  /\ worker' = "lock"
  /\ UNCHANGED <<pending, next_frame, stopping, failure, frame, readyNotified>>

Worker ==
  \/ Factory \/ FactoryFailed \/ Lock \/ Wake \/ Acquire \/ Render \/ Present
  \/ Failed \/ Finish
Client(c) ==
  \/ submit(c) \/ wait_idle(c) \/ TestIdle(c) \/ SpuriousWake(c) \/ request_stop(c)
  \/ NotifyReady(c) \/ Destroy(c) \/ Join(c)
RasterNext == Worker \/ SpuriousReady \/ \E c \in Clients : Client(c)

(* The worker runs on a thread of its own and its renderer and surface     *)
(* return; a client finishes the call it is in, but need not make another. *)
RasterFairness ==
  /\ WF_rasterVars(Worker)
  /\ \A c \in Clients : WF_rasterVars(TestIdle(c) \/ NotifyReady(c) \/ Join(c))

RasterSpec == RasterInit /\ [][RasterNext]_rasterVars
RasterFairSpec == RasterSpec /\ RasterFairness
-----------------------------------------------------------------------------
(* A ticket is open exactly while its submission is queued or held by the  *)
(* worker: submit, request_stop, a failure and the end of a frame each     *)
(* move both sides together, so no ticket is dropped with an unset promise *)
(* and none is set while its submission is still to be run.                *)
Open == {i \in FrameIds : tickets[i] = "open"}
OpenTicketsOwned == Open = Queued \cup ({current} \ {0})

(* The condition variables lose no wakeup: a worker that waits without a   *)
(* notification has nothing to do unless the client that made it so is     *)
(* still about to notify (request_stop notifies after its unlock), and a   *)
(* client never waits on `idle` once the worker has exited.                *)
NoLostWakeup ==
  /\ worker = "wait" /\ ~readyNotified /\ (stopping \/ pending # <<>>) =>
       \E c \in Clients : client[c] \in {"notify", "destroy_notify"}
  /\ Idle => \A c \in Clients : client[c] # "waiting"

(* Every acquired SurfaceFrame is presented or abandoned exactly once, by  *)
(* the renderer, by present or by its destructor, before the submission's  *)
(* ticket completes.                                                       *)
FrameEndsOnce ==
  \A i \in FrameIds :
    /\ frame[i] # "ended twice"
    /\ frame[i] = "active" => i = current /\ tickets[i] = "open"

(* RasterThread keeps the promise made to ticket holders (FrameTickets),   *)
(* and ends every acquired surface frame once while doing so.              *)
Promise == INSTANCE FrameTickets
             WITH tickets <- [i \in 1 .. next_frame - 1 |-> tickets[i]], closed <- stopping
FramesKept == Promise!Spec /\ []FrameEndsOnce

(* Every accepted ticket eventually completes: a FrameTicket::wait cannot  *)
(* block for ever.                                                         *)
TicketsComplete == \A i \in FrameIds : tickets[i] = "open" ~> tickets[i] \in Outcomes

(* wait_idle returns once submissions cease (they are bounded here), and   *)
(* the destructor's join returns, wherever the stop caught the worker.     *)
ClientsReturn ==
  \A c \in Clients :
    /\ client[c] = "waiting" ~> client[c] = "running"
    /\ client[c] = "destroy_notify" ~> client[c] = "joined"

(* Nobody waits for ever: TicketsComplete and ClientsReturn.               *)
EverybodyReturns == TicketsComplete /\ ClientsReturn
=============================================================================
