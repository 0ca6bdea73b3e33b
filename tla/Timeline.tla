------------------------------ MODULE Timeline ------------------------------
(***************************************************************************)
(* TimelineRecorder of src/src/ui.cpp: spans are begun and finished by the *)
(* UI and the raster thread, finished events go into a ring of fixed       *)
(* capacity, and readers follow the completions with a cursor.  Each call  *)
(* holds the recorder's mutex.  An event is its completion position;       *)
(* times, lanes and phases are left out.                                   *)
(***************************************************************************)
EXTENDS Integers, FiniteSets

CONSTANTS
  Capacity,     \* of the ring
  MaxPosition,  \* numeric_limits<uint64_t>::max() of completion positions
  MaxOpen,      \* bound on the spans open at once
  Readers,
  ReadLimits    \* max_events of a read

ASSUME TimelineConstants ==
  /\ Capacity \in Nat \ {0} /\ MaxPosition \in Nat \ {0} /\ MaxOpen \in Nat
  /\ Capacity <= MaxPosition   \* a size_t, for a vector of events
  /\ ReadLimits \subseteq Nat \ {0}

VARIABLES
  ring,    \* the recorder
  spans,   \* spans begun and not finished
  cursors  \* each reader: its cursor, and what it was given so far

timelineVars == <<ring, spans, cursors>>

Slots == 0 .. Capacity - 1
Positions == 0 .. MaxPosition

(* Type invariant. *)
TimelineTypeOK ==
  /\ ring \in [position : [Slots -> Positions], first : Slots, count : 0 .. Capacity,
               next : Positions, floor : Positions, exhausted : BOOLEAN]
  /\ spans \in 0 .. MaxOpen
  /\ cursors \in [Readers -> [next : 0 .. MaxPosition, got : SUBSET Positions, missed : Nat]]

TimelineInit ==
  /\ ring = [position |-> [s \in Slots |-> 0], first |-> 0, count |-> 0,
             next |-> 1, floor |-> 1, exhausted |-> FALSE]
  /\ spans = 0
  /\ cursors = [r \in Readers |-> [next |-> 0, got |-> {}, missed |-> 0]]
-----------------------------------------------------------------------------
(* begin_timeline opens a span; it is finished once, by complete, by fail  *)
(* or by its destructor.                                                   *)
begin ==
  /\ spans < MaxOpen
  /\ spans' = spans + 1
  /\ UNCHANGED <<ring, cursors>>

(* The position after p, which stays at the limit of the counter. *)
NextUnchecked(p) == p + 1
NextAfter(p) == IF p = MaxPosition THEN p ELSE p + 1

(* The floor after an overwrite: the oldest position retained. *)
FloorAtDropped(p) == p - ring.count
FloorAfter(p) == p - ring.count + 1

finish ==
  LET p == ring.next
      full == ring.count = Capacity
      slot == IF full THEN ring.first ELSE (ring.first + ring.count) % Capacity
  IN  /\ spans > 0
      /\ spans' = spans - 1
      /\ ring' = [position |-> [ring.position EXCEPT ![slot] = p],
                  first |-> IF full THEN (ring.first + 1) % Capacity ELSE ring.first,
                  count |-> IF full THEN ring.count ELSE ring.count + 1,
                  next |-> NextAfter(p),
                  floor |-> IF full THEN FloorAfter(p) ELSE ring.floor,
                  exhausted |-> ring.exhausted \/ p = MaxPosition]
      /\ UNCHANGED cursors

clear_timeline ==
  /\ ring' = [ring EXCEPT !.first = 0, !.count = 0, !.floor = ring.next]
  /\ UNCHANGED <<spans, cursors>>

(* read_completed, which refuses an exhausted recorder: the first `limit'  *)
(* retained positions from the cursor, in ring order.                      *)
Retained(i) == ring.position[(ring.first + i) % Capacity]

read_completed(r, limit) ==
  LET from == IF cursors[r].next = 0 THEN 1 ELSE cursors[r].next
      available == IF from > ring.floor THEN from ELSE ring.floor
      wanted == {i \in 0 .. ring.count - 1 : Retained(i) >= available}
      batch == {i \in wanted : Cardinality({j \in wanted : j < i}) < limit}
      next == IF batch = {} THEN available
              ELSE Retained(CHOOSE i \in batch : \A j \in batch : j <= i) + 1
  IN  /\ ~ring.exhausted
      /\ cursors' = [cursors EXCEPT ![r] =
                       [next |-> next, got |-> @.got \cup {Retained(i) : i \in batch},
                        missed |-> @.missed + available - from]]
      /\ UNCHANGED <<ring, spans>>

TimelineNext ==
  \/ begin \/ finish \/ clear_timeline
  \/ \E r \in Readers, limit \in ReadLimits : read_completed(r, limit)

TimelineSpec == TimelineInit /\ [][TimelineNext]_timelineVars
-----------------------------------------------------------------------------
(* A reader accounts for every completion up to its cursor exactly once:   *)
(* as an event it was given or in a missed count; it never skips an event  *)
(* that is still retained, and the retained positions are the ones from    *)
(* the floor on, however finishes, overwrites and clears interleave with   *)
(* partial reads.                                                          *)
ReadsExact ==
  ~ring.exhausted =>
    /\ {Retained(i) : i \in 0 .. ring.count - 1} = ring.floor .. ring.next - 1
    /\ \A i, j \in 0 .. ring.count - 1 : i < j => Retained(i) < Retained(j)
    /\ \A r \in Readers :
         LET c == cursors[r]
         IN  c.next # 0 =>
               /\ c.next - 1 = Cardinality(c.got) + c.missed
               /\ c.got \subseteq 1 .. c.next - 1
               /\ \A i \in 0 .. ring.count - 1 : Retained(i) < c.next => Retained(i) \in c.got
=============================================================================
