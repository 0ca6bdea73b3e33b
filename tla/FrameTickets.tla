---------------------------- MODULE FrameTickets ----------------------------
(***************************************************************************)
(* What RasterThread promises the holders of its FrameTickets              *)
(* (include/dui/backend.hpp): tickets are numbered in submission order,    *)
(* each gets exactly one outcome, in that order; request_stop cancels what *)
(* is queued while the active frame may finish; a renderer failure is      *)
(* terminal for every ticket still open; nothing is accepted afterwards.   *)
(***************************************************************************)
EXTENDS Integers, Sequences

CONSTANT MaxFrames   \* bound on the submissions considered

VARIABLES tickets,   \* outcome of each accepted ticket, "open" until it has one
          closed     \* no further submission is accepted
ticketVars == <<tickets, closed>>

Rendered == {"presented", "unavailable", "out_of_date"}
Outcome == Rendered \cup {"canceled", "exception"}
Open == {i \in DOMAIN tickets : tickets[i] = "open"}
First(i) == i \in Open /\ \A j \in Open : i <= j

Init == tickets = <<>> /\ closed = FALSE

Submit ==
  /\ ~closed /\ Len(tickets) < MaxFrames
  /\ tickets' = Append(tickets, "open")
  /\ UNCHANGED closed

(* The oldest open ticket gets the outcome of its frame. *)
Complete(o) ==
  /\ \E i \in Open : First(i) /\ tickets' = [tickets EXCEPT ![i] = o]
  /\ UNCHANGED closed

(* request_stop: every open ticket is canceled except the active one, which *)
(* is the oldest, if there is one.                                          *)
Stop ==
  /\ closed' = TRUE
  /\ \E kept \in {{}} \cup {{i} : i \in {j \in Open : First(j)}} :
       tickets' = [i \in DOMAIN tickets |->
                     IF i \in Open \ kept THEN "canceled" ELSE tickets[i]]

(* A failure of the renderer, of its factory or of the surface. *)
Fail ==
  /\ closed' = TRUE
  /\ tickets' = [i \in DOMAIN tickets |-> IF i \in Open THEN "exception" ELSE tickets[i]]

Next == Submit \/ (\E o \in Rendered : Complete(o)) \/ Stop \/ Fail
Spec == Init /\ [][Next]_ticketVars
=============================================================================
