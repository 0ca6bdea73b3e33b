---------------------------- MODULE GestureArena ----------------------------
(***************************************************************************)
(* GestureArena of src/src/input.cpp and BuildOwner::dispatch_pointer of   *)
(* src/src/ui.cpp, whose tap routes are members of it.  Verdicts are user  *)
(* callbacks: they may call any operation again, for the same or another   *)
(* pointer, and may throw.  `calls' is the stack of operations under way;  *)
(* user code runs when it is empty or its top is in a callback.  A member  *)
(* is added once.  What dispatch_pointer hits is an input; the frame it    *)
(* produces first is not modelled here.                                    *)
(***************************************************************************)
EXTENDS Integers, Sequences, FiniteSets, SequencesExt

CONSTANTS
  Pointers, Members, NoMember,
  MaxCalls   \* bound on the depth of calls

ASSUME ArenaConstants == NoMember \notin Members /\ MaxCalls \in Nat \ {0}

VARIABLES
  arenas,    \* storage->arenas, an arena without members where there is none
  resolving, \* storage->resolving
  routes,    \* pointer_tap_routes_
  verdict,   \* of each member, "new" before it is added
  activated, \* routes that activated their targets
  calls

arenaVars == <<arenas, resolving, routes, verdict, activated, calls>>

NoArena == [members |-> <<>>, closed |-> FALSE, eager |-> NoMember, founder |-> NoMember]

(* Type invariant.  An arena is named by its first member. *)
ArenaTypeOK ==
  /\ \A p \in Pointers :
       /\ arenas[p].members \in Seq(Members) /\ IsInjective(arenas[p].members)
       /\ arenas[p].closed \in BOOLEAN
       /\ {arenas[p].eager, arenas[p].founder} \subseteq Members \cup {NoMember}
  /\ resolving \subseteq Pointers
  /\ routes \in [Pointers -> Members \cup {NoMember}]
  /\ verdict \in [Members -> [is : {"new", "waiting", "accepted", "rejected", "twice"},
                              arena : Members \cup {NoMember}]]
  /\ activated \subseteq Members
  /\ \A i \in DOMAIN calls : calls[i].op \in {"resolve", "down", "up", "activate"}

ArenaInit ==
  /\ arenas = [p \in Pointers |-> NoArena]
  /\ resolving = {} /\ routes = [p \in Pointers |-> NoMember]
  /\ verdict = [m \in Members |-> [is |-> "new", arena |-> NoMember]]
  /\ activated = {} /\ calls = <<>>
-----------------------------------------------------------------------------
(* An operation's effect: the arena it leaves, and the verdicts it calls.  *)
Nothing(a) == [arena |-> a, todo |-> <<>>]
Rejections(ms) == [i \in DOMAIN ms |-> <<ms[i], "rejected">>]

(* resolve_winner: the winner first, then the others; add refuses a member *)
(* that is there already.                                                  *)
Resolve(a, w) ==
  [arena |-> NoArena, todo |-> <<<<w, "accepted">>>> \o Rejections(RemoveFirst(a.members, w))]

Close(a) ==
  IF a.members = <<>> THEN Nothing(a)
  ELSE IF a.eager # NoMember THEN Resolve(a, a.eager)
  ELSE IF Len(a.members) = 1 THEN Resolve(a, Head(a.members))
  ELSE Nothing([a EXCEPT !.closed = TRUE])

Accept(a, m) ==
  IF ~Contains(a.members, m) THEN Nothing(a)
  ELSE IF a.closed THEN Resolve(a, m)
  ELSE Nothing([a EXCEPT !.eager = IF @ = NoMember THEN m ELSE @])

(* reject: the rest goes on without the member; a closed arena with one    *)
(* left is won by it.                                                      *)
Without(a, m) ==
  [a EXCEPT !.members = RemoveFirst(@, m),
            !.eager = IF @ = m THEN NoMember ELSE @]
RejectKeepsArena(a, m) ==
  LET rest == Without(a, m)
  IN  IF ~Contains(a.members, m) THEN Nothing(a)
      ELSE IF a.closed /\ Len(rest.members) = 1
             THEN [arena |-> rest, todo |-> <<<<m, "rejected">>, <<Head(rest.members), "accepted">>>>]
      ELSE [arena |-> IF rest.members = <<>> THEN NoArena ELSE rest, todo |-> <<<<m, "rejected">>>>]
Reject(a, m) ==
  LET rest == Without(a, m)
  IN  IF ~Contains(a.members, m) THEN Nothing(a)
      ELSE IF a.closed /\ Len(rest.members) = 1
             THEN [arena |-> NoArena, todo |-> <<<<m, "rejected">>, <<Head(rest.members), "accepted">>>>]
      ELSE [arena |-> IF rest.members = <<>> THEN NoArena ELSE rest, todo |-> <<<<m, "rejected">>>>]

Sweep(a) == IF a.members = <<>> THEN Nothing(a) ELSE Resolve(a, Head(a.members))
Cancel(a) == [arena |-> NoArena, todo |-> Rejections(a.members)]

(* A verdict reaches its member. *)
Told(t) == [verdict EXCEPT ![t[1]].is = IF @ = "waiting" THEN t[2] ELSE "twice"]

(* Performs effect e for pointer p, on top of the calls cs: the callbacks  *)
(* run with the pointer marked as resolving, and while it is every         *)
(* operation on it returns at once.                                        *)
Perform(p, e, cs) ==
  IF p \in resolving \/ e.todo = <<>>
    THEN /\ calls' = cs
         /\ arenas' = IF p \in resolving THEN arenas ELSE [arenas EXCEPT ![p] = e.arena]
         /\ UNCHANGED <<resolving, verdict>>
    ELSE /\ calls' = Append(cs, [op |-> "resolve", pointer |-> p, todo |-> Tail(e.todo),
                                 failed |-> FALSE])
         /\ arenas' = [arenas EXCEPT ![p] = e.arena]
         /\ resolving' = resolving \cup {p}
         /\ verdict' = Told(Head(e.todo))
-----------------------------------------------------------------------------
UserRuns == IF calls = <<>> THEN TRUE
            ELSE Last(calls).op \in {"resolve", "activate"} /\ Len(calls) < MaxCalls

(* add refuses a pointer being resolved and a closed arena. *)
CanAdd(p) == p \notin resolving /\ ~arenas[p].closed
Add(p, m) ==
  LET founder == IF arenas[p].members = <<>> THEN m ELSE arenas[p].founder
  IN  /\ arenas' = [arenas EXCEPT ![p].members = Append(@, m), ![p].founder = founder]
      /\ verdict' = [verdict EXCEPT ![m] = [is |-> "waiting", arena |-> founder]]
Fresh(m) == verdict[m].is = "new"

add_member(p, m) ==
  /\ UserRuns /\ Fresh(m) /\ CanAdd(p)
  /\ Add(p, m)
  /\ UNCHANGED <<resolving, routes, activated, calls>>

(* The operations on the arena that user code may call. *)
Effects(p) ==
  {Close(arenas[p]), Sweep(arenas[p]), Cancel(arenas[p])}
    \cup {Accept(arenas[p], m) : m \in Members} \cup {Reject(arenas[p], m) : m \in Members}

call_arena(p) ==
  /\ UserRuns
  /\ \E e \in Effects(p) : Perform(p, e, calls)
  /\ UNCHANGED <<routes, activated>>
-----------------------------------------------------------------------------
(* dispatch_pointer.  A press cancels what an earlier press left, then     *)
(* adds a route when it hits something that can be activated.              *)
pointer_down(p, hit) ==
  /\ UserRuns
  /\ routes' = [routes EXCEPT ![p] = NoMember]
  /\ LET cs == Append(calls, [op |-> "down", pointer |-> p, hit |-> hit])
     IN  IF routes[p] # NoMember THEN Perform(p, Cancel(arenas[p]), cs)
         ELSE calls' = cs /\ UNCHANGED <<arenas, resolving, verdict>>
  /\ UNCHANGED activated

finish_down(m) ==
  /\ calls # <<>> /\ Last(calls).op = "down"
  /\ LET p == Last(calls).pointer
     IN  \/ /\ Last(calls).hit /\ Fresh(m) /\ CanAdd(p)
            /\ Add(p, m)
            /\ routes' = [routes EXCEPT ![p] = m]
            /\ calls' = Front(calls) /\ UNCHANGED resolving
         \/ /\ Last(calls).hit /\ ~CanAdd(p)  \* add throws: the arena is cancelled
            /\ routes' = [routes EXCEPT ![p] = NoMember]
            /\ Perform(p, Cancel(arenas[p]), Front(calls))
         \/ /\ ~Last(calls).hit
            /\ calls' = Front(calls)
            /\ UNCHANGED <<arenas, resolving, routes, verdict>>
  /\ UNCHANGED activated

(* A release over its targets accepts the route and closes the arena;      *)
(* elsewhere it rejects the route.                                         *)
pointer_up(p, inside) ==
  /\ UserRuns
  /\ routes' = [routes EXCEPT ![p] = NoMember]
  /\ LET m == routes[p]
         up(stage) == Append(calls, [op |-> "up", pointer |-> p, member |-> m, stage |-> stage])
     IN  IF m = NoMember THEN Perform(p, Cancel(arenas[p]), calls)
         ELSE IF inside THEN Perform(p, Accept(arenas[p], m), up("close"))
         ELSE Perform(p, Reject(arenas[p], m), up("end"))
  /\ UNCHANGED activated

finish_up ==
  /\ calls # <<>> /\ Last(calls).op = "up"
  /\ LET f == Last(calls)
     IN  \/ /\ f.stage = "close"
            /\ Perform(f.pointer, Close(arenas[f.pointer]),
                       Append(Front(calls), [f EXCEPT !.stage = "activate"]))
            /\ UNCHANGED activated
         \/ /\ f.stage = "activate" /\ verdict[f.member].is = "accepted"
            /\ calls' = Append(Front(calls), [op |-> "activate", member |-> f.member])
            /\ activated' = activated \cup {f.member}
            /\ UNCHANGED <<arenas, resolving, verdict>>
         \/ /\ f.stage = "end" \/ (f.stage = "activate" /\ verdict[f.member].is # "accepted")
            /\ calls' = Front(calls)
            /\ UNCHANGED <<arenas, resolving, verdict, activated>>
  /\ UNCHANGED routes

pointer_cancel(p) ==
  /\ UserRuns
  /\ routes' = [routes EXCEPT ![p] = NoMember]
  /\ Perform(p, Cancel(arenas[p]), calls)
  /\ UNCHANGED activated

(* A callback returns or throws; the next verdict follows, and after the   *)
(* last a failure is rethrown, which also ends the dispatch_pointer that   *)
(* made the call.                                                          *)
callback_returns(throws) ==
  /\ calls # <<>> /\ Last(calls).op = "resolve"
  /\ LET f == Last(calls)
         below == Front(calls)
         failed == f.failed \/ throws
     IN  IF f.todo # <<>>
           THEN /\ calls' = Append(below, [f EXCEPT !.todo = Tail(@), !.failed = failed])
                /\ verdict' = Told(Head(f.todo))
                /\ UNCHANGED resolving
           ELSE /\ resolving' = resolving \ {f.pointer}
                /\ calls' = IF failed /\ below # <<>> /\ Last(below).op \in {"down", "up"}
                              THEN Front(below) ELSE below
                /\ UNCHANGED verdict
  /\ UNCHANGED <<arenas, routes, activated>>

activation_returns ==
  /\ calls # <<>> /\ Last(calls).op = "activate"
  /\ calls' = Front(calls)
  /\ UNCHANGED <<arenas, resolving, routes, verdict, activated>>

ArenaNext ==
  \/ finish_up \/ activation_returns
  \/ \E m \in Members : finish_down(m)
  \/ \E p \in Pointers :
       \/ call_arena(p) \/ pointer_cancel(p)
       \/ \E m \in Members : add_member(p, m)
       \/ \E b \in BOOLEAN : pointer_down(p, b) \/ pointer_up(p, b)
  \/ \E b \in BOOLEAN : callback_returns(b)

ArenaSpec == ArenaInit /\ [][ArenaNext]_arenaVars
-----------------------------------------------------------------------------
Pending(m) == \E i \in DOMAIN calls : calls[i].op = "resolve"
                                      /\ \E j \in DOMAIN calls[i].todo : calls[i].todo[j][1] = m

(* A route stands for a press that was taken: its member joined the arena  *)
(* of the route's pointer and of no other, and is no other pointer's       *)
(* route.  A press that add refused, for a closed arena or one being       *)
(* resolved, leaves no route behind, whatever its callbacks called.        *)
RoutesTaken ==
  \A p \in Pointers : routes[p] # NoMember =>
    /\ ~Fresh(routes[p])
    /\ \A q \in Pointers \ {p} : /\ routes[q] # routes[p]
                                 /\ ~Contains(arenas[q].members, routes[p])

(* Every member gets exactly one verdict: until then it is in its arena or *)
(* in a resolution under way, at most one member of an arena is accepted,  *)
(* a closed arena never waits on a single member, a route activates only   *)
(* when accepted, no pointer stays marked as resolving, and the routes are *)
(* those of presses that were taken.                                       *)
VerdictsFit ==
  /\ \A m \in Members :
       /\ verdict[m].is # "twice"
       /\ verdict[m].is = "waiting" =>
            Pending(m) \/ \E p \in Pointers : Contains(arenas[p].members, m)
       /\ \A n \in Members \ {m} : verdict[m].arena = verdict[n].arena =>
            ~(verdict[m].is = "accepted" /\ verdict[n].is = "accepted")
  /\ \A p \in Pointers :
       /\ arenas[p].closed /\ p \notin resolving => Len(arenas[p].members) > 1
       /\ p \in resolving <=> \E i \in DOMAIN calls : calls[i].op = "resolve" /\ calls[i].pointer = p
  /\ \A m \in activated : verdict[m].is = "accepted"
  /\ RoutesTaken
=============================================================================
