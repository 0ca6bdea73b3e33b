------------------------------- MODULE UiProofs -------------------------------
(***************************************************************************)
(* Proofs about the parts of the UI runtime whose correctness is a matter  *)
(* of bookkeeping over a long run: the timeline's ring and its readers,    *)
(* for any capacity, any position counter and any number of readers,       *)
(* restoration, for any ids, slots, values and number of restarts, the     *)
(* gesture arenas, for any pointers and members and any depth of reentrant *)
(* calls, the lazy list, for any extents and models, the element tree, for *)
(* any tree of components and any signals, and the focus manager, for any  *)
(* tree of views and any depth of nested dispatches.                       *)
(***************************************************************************)
EXTENDS Timeline, Restoration, GestureArena, LazyList, UiBuild, FocusManager,
        FiniteSetTheorems, SequenceTheorems, WellFoundedInduction, TLAPS

(* Indices of the ring. *)
LEMMA RingIndex ==
  ASSUME NEW x \in 0 .. 2 * Capacity - 1
  PROVE  x % Capacity = IF x < Capacity THEN x ELSE x - Capacity
<1>1. Capacity \in Nat \ {0}
  BY TimelineConstants
<1>2. ASSUME NEW k \in Nat \ {0}, NEW y \in Nat, y < k PROVE y % k = y
  BY <1>2
<1>3. ASSUME NEW k \in Nat \ {0}, NEW y \in Nat, y < k PROVE (y + k) % k = y
  BY <1>3
<1>4. CASE x < Capacity
  BY <1>1, <1>2, <1>4
<1>5. CASE ~(x < Capacity)
  <2>1. x - Capacity \in Nat /\ x - Capacity < Capacity /\ (x - Capacity) + Capacity = x
    BY <1>1, <1>5
  <2> QED
    BY <1>1, <1>3, <1>5, <2>1
<1> QED
  BY <1>4, <1>5

(* The inductive invariant: the ring holds the positions from the floor    *)
(* on in its order, and a reader c has been given all of them below its    *)
(* cursor.                                                                 *)
Ring == [position : [Slots -> Positions], first : Slots, count : 0 .. Capacity,
         next : Positions, floor : Positions, exhausted : BOOLEAN]
Reader == [next : 0 .. MaxPosition, got : SUBSET Positions, missed : Nat]

RingHolds(g) ==
  /\ 1 <= g.floor /\ g.floor <= g.next /\ g.count = g.next - g.floor
  /\ \A i \in 0 .. g.count - 1 : g.position[(g.first + i) % Capacity] = g.floor + i

ReaderFits(c, g) ==
  /\ c.next <= g.next
  /\ IsFiniteSet(c.got)
  /\ c.next = 0 => c.got = {} /\ c.missed = 0
  /\ c.next # 0 => /\ c.next - 1 = Cardinality(c.got) + c.missed
                   /\ c.got \subseteq 1 .. c.next - 1
                   /\ \A p \in g.floor .. g.next - 1 : p < c.next => p \in c.got

TimelineInv ==
  /\ TimelineTypeOK
  /\ ring.exhausted => ring.next = MaxPosition
  /\ ~ring.exhausted => RingHolds(ring) /\ \A r \in Readers : ReaderFits(cursors[r], ring)

LEMMA InitTimeline == TimelineInit => TimelineInv
<1> SUFFICES ASSUME TimelineInit PROVE TimelineInv
  OBVIOUS
<1>1. 0 \in Slots /\ 0 \in 0 .. Capacity /\ 0 \in Positions /\ 1 \in Positions /\ 0 \in 0 .. MaxOpen
  BY TimelineConstants DEF Slots, Positions
<1>2. TimelineTypeOK
  BY <1>1 DEF TimelineInit, TimelineTypeOK, Positions
<1>3. RingHolds(ring)
  BY DEF TimelineInit, RingHolds
<1>4. ASSUME NEW r \in Readers PROVE ReaderFits(cursors[r], ring)
  BY FS_EmptySet DEF TimelineInit, ReaderFits
<1>5. ring.exhausted = FALSE
  BY DEF TimelineInit
<1> QED
  BY <1>2, <1>3, <1>4, <1>5 DEF TimelineInv

LEMMA ClearNext ==
  ASSUME TimelineInv, clear_timeline
  PROVE  TimelineInv'
<1>1. ring \in Ring
  BY DEF TimelineInv, TimelineTypeOK, Ring
<1>2. 0 \in Slots /\ 0 \in 0 .. Capacity
  BY TimelineConstants DEF Slots
<1>3. /\ ring' \in Ring /\ ring'.first = 0 /\ ring'.count = 0 /\ ring'.floor = ring.next
      /\ ring'.next = ring.next /\ ring'.exhausted = ring.exhausted
      /\ UNCHANGED <<spans, cursors>>
  BY <1>1, <1>2 DEF clear_timeline, Ring
<1>4. TimelineTypeOK'
  BY <1>3 DEF TimelineInv, TimelineTypeOK, Ring
<1>5. ring.next \in Nat /\ ring.floor \in Nat
  BY <1>1, TimelineConstants DEF Ring, Positions
<1>6. ASSUME ~ring.exhausted
      PROVE  RingHolds(ring') /\ \A r \in Readers : ReaderFits(cursors'[r], ring')
  <2>1. RingHolds(ring')
    BY <1>3, <1>5, <1>6 DEF TimelineInv, RingHolds
  <2>2. ASSUME NEW r \in Readers PROVE ReaderFits(cursors'[r], ring')
    BY <1>3, <1>5, <1>6 DEF TimelineInv, ReaderFits
  <2> QED
    BY <2>1, <2>2
<1> QED
  BY <1>3, <1>4, <1>6 DEF TimelineInv

(* A reader keeps fitting when positions are added and the oldest dropped. *)
LEMMA ReaderKeeps ==
  ASSUME NEW c \in Reader, NEW g \in Ring, NEW h \in Ring, ReaderFits(c, g),
         g.floor <= h.floor, g.next <= h.next
  PROVE  ReaderFits(c, h)
<1>1. /\ c.next \in Nat /\ g.floor \in Nat /\ h.floor \in Nat /\ g.next \in Nat /\ h.next \in Nat
  BY TimelineConstants DEF Reader, Ring, Positions
<1>2. ASSUME c.next # 0, NEW p \in h.floor .. h.next - 1, p < c.next PROVE p \in c.got
  <2>1. p \in g.floor .. g.next - 1
    BY <1>1, <1>2 DEF ReaderFits
  <2> QED
    BY <1>2, <2>1 DEF ReaderFits
<1>3. c.next <= h.next
  BY <1>1 DEF ReaderFits
<1> QED
  BY <1>2, <1>3 DEF ReaderFits

LEMMA FinishNext ==
  ASSUME TimelineInv, finish
  PROVE  TimelineInv'
<1> DEFINE full == ring.count = Capacity
<1> DEFINE slot == IF full THEN ring.first ELSE (ring.first + ring.count) % Capacity
<1>1. ring \in Ring /\ spans \in 0 .. MaxOpen
  BY DEF TimelineInv, TimelineTypeOK, Ring
<1>2. /\ Capacity \in Nat \ {0} /\ MaxPosition \in Nat \ {0} /\ Capacity <= MaxPosition
      /\ MaxOpen \in Nat
  BY TimelineConstants
<1>3. /\ ring.next \in Nat /\ ring.next <= MaxPosition /\ ring.floor \in Nat
      /\ ring.floor <= MaxPosition /\ ring.first \in Nat /\ ring.first < Capacity
      /\ ring.count \in Nat /\ ring.count <= Capacity /\ ring.next \in Positions
      /\ ring.position \in [Slots -> Positions]
  BY <1>1, <1>2 DEF Ring, Positions, Slots
<1>4. (ring.exhausted => ring.next = MaxPosition) /\ (~ring.exhausted => RingHolds(ring))
  BY DEF TimelineInv
<1>5. ASSUME NEW x \in Nat, x < 2 * Capacity
      PROVE  /\ x < Capacity => x % Capacity = x
             /\ x >= Capacity => x % Capacity = x - Capacity
             /\ x % Capacity \in Slots
  <2>1. x \in 0 .. 2 * Capacity - 1
    BY <1>2, <1>5
  <2>2. x % Capacity = IF x < Capacity THEN x ELSE x - Capacity
    BY <2>1, RingIndex
  <2> QED
    BY <1>2, <1>5, <2>2 DEF Slots
<1>6. slot \in Slots
  <2>1. CASE full
    BY <1>2, <1>3, <2>1 DEF Slots
  <2>2. CASE ~full
    <3>1. ring.first + ring.count \in Nat /\ ring.first + ring.count < 2 * Capacity
      BY <1>2, <1>3
    <3> HIDE DEF full
    <3> QED
      BY <1>5, <2>2, <3>1
  <2> QED
    BY <2>1, <2>2
<1>7. /\ ring'.position = [ring.position EXCEPT ![slot] = ring.next]
      /\ ring'.first = (IF full THEN (ring.first + 1) % Capacity ELSE ring.first)
      /\ ring'.count = (IF full THEN ring.count ELSE ring.count + 1)
      /\ ring'.next = NextAfter(ring.next)
      /\ ring'.floor = (IF full THEN FloorAfter(ring.next) ELSE ring.floor)
      /\ ring'.exhausted = (ring.exhausted \/ ring.next = MaxPosition)
      /\ ring' = [position |-> ring'.position, first |-> ring'.first, count |-> ring'.count,
                  next |-> ring'.next, floor |-> ring'.floor, exhausted |-> ring'.exhausted]
      /\ spans > 0 /\ spans' = spans - 1 /\ cursors' = cursors
  BY DEF finish
<1>8. ring'.position \in [Slots -> Positions]
  BY <1>3, <1>6, <1>7
<1>9. ring'.first \in Slots
  <2>1. ring.first + 1 \in Nat /\ ring.first + 1 < 2 * Capacity
    BY <1>2, <1>3
  <2>2. (ring.first + 1) % Capacity \in Slots
    BY <1>5, <2>1
  <2>3. ring.first \in Slots
    BY <1>2, <1>3 DEF Slots
  <2> QED
    BY <1>7, <2>2, <2>3
<1>10. ring'.count \in 0 .. Capacity
  BY <1>2, <1>3, <1>7
<1>11. ring'.next \in Positions
  BY <1>2, <1>3, <1>7 DEF NextAfter, Positions
<1>12. ring'.floor \in Positions
  BY <1>2, <1>3, <1>4, <1>7 DEF FloorAfter, Positions, RingHolds
<1>13. ring'.exhausted \in BOOLEAN
  BY <1>7
<1>14. ring' \in Ring
  BY <1>7, <1>8, <1>9, <1>10, <1>11, <1>12, <1>13 DEF Ring
<1>15. TimelineTypeOK'
  BY <1>1, <1>2, <1>7, <1>14 DEF TimelineInv, TimelineTypeOK, Ring
<1>16. ring'.exhausted => ring'.next = MaxPosition
  BY <1>4, <1>7 DEF NextAfter
<1>17. ASSUME ring.exhausted = FALSE, ring.next <= ring'.next, ring.floor <= ring'.floor
       PROVE  \A r \in Readers : ReaderFits(cursors'[r], ring')
  <2> TAKE r \in Readers
  <2>1. ReaderFits(cursors[r], ring) /\ cursors[r] \in Reader
    BY <1>17 DEF TimelineInv, TimelineTypeOK, Reader
  <2> QED
    BY <1>1, <1>7, <1>14, <1>17, <2>1, ReaderKeeps
<1>18. ASSUME ~ring'.exhausted
       PROVE  RingHolds(ring') /\ \A r \in Readers : ReaderFits(cursors'[r], ring')
  <2>1. ring.exhausted = FALSE /\ ring.next # MaxPosition /\ ring'.next = ring.next + 1
    BY <1>7, <1>1, <1>18 DEF NextAfter, Ring
  <2>2. /\ 1 <= ring.floor /\ ring.floor <= ring.next /\ ring.count = ring.next - ring.floor
        /\ \A i \in 0 .. ring.count - 1 :
              ring.position[(ring.first + i) % Capacity] = ring.floor + i
    BY <1>4, <2>1 DEF RingHolds
  <2>3. CASE ~full
    <3>1. /\ ring'.first = ring.first /\ ring'.count = ring.count + 1 /\ ring'.floor = ring.floor
          /\ ring'.position = [ring.position EXCEPT ![(ring.first + ring.count) % Capacity] = ring.next]
      BY <1>7, <2>3
    <3>2. ASSUME NEW i \in 0 .. ring.count
          PROVE  ring'.position[(ring.first + i) % Capacity] = ring.floor + i
      <4>1. /\ i \in Nat /\ ring.first + i \in Nat /\ ring.first + i < 2 * Capacity
            /\ ring.first + ring.count \in Nat /\ ring.first + ring.count < 2 * Capacity
        BY <1>2, <1>3, <2>3, <3>2
      <4>2. (ring.first + i) % Capacity \in Slots
        BY <1>5, <4>1
      <4>3. CASE i = ring.count
        BY <1>3, <2>2, <3>1, <4>2, <4>3
      <4>4. CASE i # ring.count
        <5>1. /\ ring.first + i < Capacity => (ring.first + i) % Capacity = ring.first + i
              /\ ring.first + i >= Capacity =>
                    (ring.first + i) % Capacity = (ring.first + i) - Capacity
          BY <1>5, <4>1
        <5>2. /\ ring.first + ring.count < Capacity =>
                    (ring.first + ring.count) % Capacity = ring.first + ring.count
              /\ ring.first + ring.count >= Capacity =>
                    (ring.first + ring.count) % Capacity = (ring.first + ring.count) - Capacity
          BY <1>5, <4>1
        <5>3. i \in 0 .. ring.count - 1 /\ i < ring.count /\ ring.count < Capacity
          BY <1>2, <1>3, <2>3, <3>2, <4>4
        <5>4. (ring.first + i) % Capacity # (ring.first + ring.count) % Capacity
          BY <1>2, <1>3, <4>1, <5>1, <5>2, <5>3
        <5> QED
          BY <1>3, <2>2, <3>1, <4>2, <5>3, <5>4
      <4> QED
        BY <4>3, <4>4
    <3>3. RingHolds(ring')
      <4>1. /\ 1 <= ring'.floor /\ ring'.floor <= ring'.next
            /\ ring'.count = ring'.next - ring'.floor /\ ring'.count - 1 = ring.count
        BY <1>3, <2>1, <2>2, <3>1
      <4> QED
        BY <3>1, <3>2, <4>1 DEF RingHolds
    <3>4. ring.next <= ring'.next /\ ring.floor <= ring'.floor
      BY <1>3, <2>1, <3>1
    <3> QED
      BY <1>17, <2>1, <3>3, <3>4
  <2>4. CASE full
    <3>1. /\ ring'.first = (ring.first + 1) % Capacity /\ ring'.count = Capacity
          /\ ring'.floor = ring.floor + 1
          /\ ring'.position = [ring.position EXCEPT ![ring.first] = ring.next]
      BY <1>2, <1>3, <1>7, <2>2, <2>4 DEF FloorAfter
    <3>2. /\ ring.first + 1 < Capacity => (ring.first + 1) % Capacity = ring.first + 1
          /\ ring.first + 1 >= Capacity => (ring.first + 1) % Capacity = (ring.first + 1) - Capacity
      BY <1>2, <1>3, <1>5
    <3>3. ASSUME NEW i \in 0 .. Capacity - 1
          PROVE  ring'.position[(ring'.first + i) % Capacity] = ring.floor + 1 + i
      <4>1. /\ i \in Nat /\ i < Capacity /\ ring'.first + i \in Nat
            /\ ring'.first + i < 2 * Capacity
        BY <1>2, <1>3, <3>1, <3>2
      <4>2. /\ (ring'.first + i) % Capacity \in Slots
            /\ ring'.first + i < Capacity => (ring'.first + i) % Capacity = ring'.first + i
            /\ ring'.first + i >= Capacity =>
                  (ring'.first + i) % Capacity = (ring'.first + i) - Capacity
        BY <1>5, <4>1
      <4>3. CASE i = Capacity - 1
        <5>1. (ring'.first + i) % Capacity = ring.first
          <6>1. CASE ring.first + 1 < Capacity
            <7>1. ring'.first = ring.first + 1
              BY <3>1, <3>2, <6>1
            <7>2. ring'.first + i >= Capacity /\ (ring'.first + i) - Capacity = ring.first
              BY <1>2, <1>3, <4>3, <7>1
            <7> QED
              BY <4>2, <7>2
          <6>2. CASE ~(ring.first + 1 < Capacity)
            <7>1. ring.first + 1 >= Capacity /\ (ring.first + 1) - Capacity = 0
              BY <1>2, <1>3, <6>2
            <7>2. ring'.first = 0
              BY <3>1, <3>2, <7>1
            <7>3. ring'.first + i < Capacity /\ ring'.first + i = ring.first
              BY <1>2, <1>3, <4>3, <6>2, <7>2
            <7> QED
              BY <4>2, <7>3
          <6> QED
            BY <6>1, <6>2
        <5>2. ring'.position[ring.first] = ring.next
          BY <1>3, <3>1, <4>2, <5>1
        <5>3. ring.next = ring.floor + 1 + i
          <6>1. ring.count = ring.next - ring.floor
            BY <2>2
          <6> QED
            BY <1>2, <1>3, <2>4, <4>3, <6>1
        <5> QED
          BY <5>1, <5>2, <5>3
      <4>4. CASE i # Capacity - 1
        <5>1. /\ i + 1 \in Nat /\ i + 1 < Capacity /\ i + 1 \in 0 .. ring.count - 1
              /\ ring.first + (i + 1) \in Nat /\ ring.first + (i + 1) < 2 * Capacity
          BY <1>2, <1>3, <2>4, <4>1, <4>4
        <5>2. /\ ring.first + (i + 1) < Capacity =>
                    (ring.first + (i + 1)) % Capacity = ring.first + (i + 1)
              /\ ring.first + (i + 1) >= Capacity =>
                    (ring.first + (i + 1)) % Capacity = (ring.first + (i + 1)) - Capacity
          BY <1>5, <5>1
        <5>3. (ring'.first + i) % Capacity = (ring.first + (i + 1)) % Capacity
          BY <1>2, <1>3, <3>1, <3>2, <4>1, <4>2, <5>1, <5>2
        <5>4. (ring.first + (i + 1)) % Capacity # ring.first
          BY <1>2, <1>3, <5>1, <5>2
        <5>5. ring.position[(ring.first + (i + 1)) % Capacity] = ring.floor + (i + 1)
          BY <2>2, <5>1
        <5> QED
          BY <1>3, <3>1, <4>1, <4>2, <5>3, <5>4, <5>5
      <4> QED
        BY <4>3, <4>4
    <3>4. RingHolds(ring')
      <4>1. /\ 1 <= ring'.floor /\ ring'.floor <= ring'.next
            /\ ring'.count = ring'.next - ring'.floor
        BY <1>2, <1>3, <2>1, <2>2, <2>4, <3>1
      <4> QED
        BY <3>1, <3>3, <4>1 DEF RingHolds
    <3>5. ring.next <= ring'.next /\ ring.floor <= ring'.floor
      BY <1>3, <2>1, <3>1
    <3> QED
      BY <1>17, <2>1, <3>4, <3>5
  <2> QED
    BY <2>3, <2>4
<1> QED
  BY <1>15, <1>16, <1>18 DEF TimelineInv

(* What a read takes from the ring: the positions from available on.       *)
FirstOf(a, n, limit) == {i \in a .. n - 1 : Cardinality({j \in a .. n - 1 : j < i}) < limit}
EndOf(a, n, limit) == IF a + limit <= n THEN a + limit ELSE n

LEMMA EndOfBatch ==
  ASSUME NEW n \in Nat, NEW m \in Nat, m <= n, NEW k \in Nat, k # 0
  PROVE  /\ EndOf(m, n, k) \in Nat /\ m <= EndOf(m, n, k) /\ EndOf(m, n, k) <= n
         /\ EndOf(m, n, k) = m => m = n
BY DEF EndOf

LEMMA BatchTaken ==
  ASSUME NEW n \in Nat, NEW m \in Nat, m <= n, NEW k \in Nat, k # 0
  PROVE  FirstOf(m, n, k) = m .. EndOf(m, n, k) - 1
<1>1. ASSUME NEW i \in m .. n - 1
      PROVE  Cardinality({j \in m .. n - 1 : j < i}) = i - m
  <2>1. {j \in m .. n - 1 : j < i} = m .. i - 1
    BY <1>1
  <2>2. i \in Int /\ m \in Int /\ i - 1 \in Int /\ m <= i
    BY <1>1
  <2>3. Cardinality(m .. i - 1) = IF m > i - 1 THEN 0 ELSE (i - 1) - m + 1
    BY <2>2, FS_Interval
  <2>4. Cardinality(m .. i - 1) = i - m
    BY <2>2, <2>3
  <2> QED
    BY <2>1, <2>4
<1>2. FirstOf(m, n, k) = {i \in m .. n - 1 : i - m < k}
  BY <1>1 DEF FirstOf
<1>3. {i \in m .. n - 1 : i - m < k} = m .. EndOf(m, n, k) - 1
  BY DEF EndOf
<1> QED
  BY <1>2, <1>3

LEMMA ReadNext ==
  ASSUME TimelineInv, NEW r \in Readers, NEW limit \in ReadLimits, read_completed(r, limit)
  PROVE  TimelineInv'
<1> DEFINE c == cursors[r]
<1> DEFINE from == IF cursors[r].next = 0 THEN 1 ELSE cursors[r].next
<1> DEFINE available == IF from > ring.floor THEN from ELSE ring.floor
<1> DEFINE wanted == {i \in 0 .. ring.count - 1 : Retained(i) >= available}
<1> DEFINE picked == {i \in wanted : Cardinality({j \in wanted : j < i}) < limit}
<1> DEFINE next == IF picked = {} THEN available
                   ELSE Retained(CHOOSE i \in picked : \A j \in picked : j <= i) + 1
<1> DEFINE a == available - ring.floor
<1> DEFINE new == [next |-> next, got |-> cursors[r].got \cup {Retained(i) : i \in picked},
                   missed |-> cursors[r].missed + available - from]
<1>1. /\ ring \in Ring /\ c \in Reader /\ cursors \in [Readers -> Reader]
  BY DEF TimelineInv, TimelineTypeOK, Ring, Reader
<1>2. ring.exhausted = FALSE /\ RingHolds(ring) /\ ReaderFits(c, ring) /\ UNCHANGED <<ring, spans>>
  BY <1>1 DEF TimelineInv, read_completed, Ring
<1>3. cursors' = [cursors EXCEPT ![r] = new]
  BY DEF read_completed
<1>4. /\ ring.next \in Nat /\ ring.floor \in Nat /\ ring.count \in Nat /\ c.next \in Nat
      /\ c.missed \in Nat /\ MaxPosition \in Nat /\ ring.next <= MaxPosition
      /\ limit \in Nat \ {0} /\ c.got \subseteq Positions
  BY <1>1, TimelineConstants DEF Ring, Reader, Positions
<1>5. /\ 1 <= ring.floor /\ ring.floor <= ring.next /\ ring.count = ring.next - ring.floor
      /\ c.next <= ring.next
  BY <1>2 DEF RingHolds, ReaderFits
<1>6. ASSUME NEW i \in 0 .. ring.count - 1 PROVE Retained(i) = ring.floor + i
  BY <1>2 DEF Retained, RingHolds
<1>7. from \in Nat /\ 1 <= from /\ from <= ring.next /\ (c.next # 0 => from = c.next)
      /\ (c.next = 0 => from = 1)
  BY <1>4, <1>5
<1>8. /\ available \in Nat /\ from <= available /\ ring.floor <= available
      /\ available <= ring.next /\ (available # ring.floor => available = from)
  <2> HIDE DEF from, c
  <2> QED
    BY <1>4, <1>5, <1>7
<1> HIDE DEF from, available
<1>9. a \in Nat /\ a <= ring.count /\ ring.floor + a = available
  BY <1>4, <1>5, <1>8
<1>10. wanted = a .. ring.count - 1
  <2>1. ASSUME NEW i \in 0 .. ring.count - 1 PROVE Retained(i) >= available <=> a <= i
    BY <1>4, <1>6, <1>8, <2>1
  <2>2. a .. ring.count - 1 \subseteq 0 .. ring.count - 1
    BY <1>4, <1>9
  <2>3. ASSUME NEW i \in 0 .. ring.count - 1 PROVE a <= i <=> i \in a .. ring.count - 1
    BY <1>4, <1>9
  <2> HIDE DEF a
  <2> QED
    BY <2>1, <2>2, <2>3
<1> HIDE DEF a
<1>11. PICK e \in Nat : /\ a <= e /\ e <= ring.count /\ (e = a => a = ring.count)
                        /\ picked = a .. e - 1
  <2> HIDE DEF wanted
  <2>1. picked = FirstOf(a, ring.count, limit)
    BY <1>10 DEF FirstOf
  <2> HIDE DEF picked
  <2>2. ring.count \in Nat /\ a \in Nat /\ a <= ring.count /\ limit \in Nat /\ limit # 0
    BY <1>4, <1>9
  <2> DEFINE end == EndOf(a, ring.count, limit)
  <2>3. end \in Nat /\ a <= end /\ end <= ring.count /\ (end = a => a = ring.count)
    BY <2>2, EndOfBatch
  <2>4. FirstOf(a, ring.count, limit) = a .. end - 1
    BY <2>2, BatchTaken
  <2> HIDE DEF end
  <2> QED
    BY <2>1, <2>3, <2>4
<1> HIDE DEF wanted, picked
<1>12. next = ring.floor + e
  <2>1. CASE e = a
    <3>1. picked = {}
      BY <1>9, <1>11, <2>1
    <3> QED
      BY <1>9, <2>1, <3>1
  <2>2. CASE e # a
    <3>1. /\ e - 1 \in picked /\ (\A j \in picked : j <= e - 1) /\ (\A j \in picked : j \in Int)
          /\ picked # {}
      <4>1. e - 1 \in a .. e - 1 /\ (\A j \in a .. e - 1 : j <= e - 1 /\ j \in Int)
        BY <1>9, <1>11, <2>2
      <4> QED
        BY <1>11, <4>1
    <3> DEFINE last == CHOOSE i \in picked : \A j \in picked : j <= i
    <3>2. last \in picked /\ \A j \in picked : j <= last
      BY <3>1
    <3>3. last = e - 1
      BY <3>1, <3>2, <1>9, <1>11
    <3>4. e - 1 \in 0 .. ring.count - 1
      BY <1>4, <1>9, <1>11, <2>2
    <3>5. Retained(last) = ring.floor + (e - 1)
      BY <1>6, <3>3, <3>4
    <3>6. next = Retained(last) + 1
      BY <3>1
    <3> HIDE DEF next, last
    <3> QED
      BY <1>4, <3>5, <3>6
  <2> QED
    BY <2>1, <2>2
<1>13. {Retained(i) : i \in picked} = available .. next - 1
  <2>1. ASSUME NEW i \in picked PROVE Retained(i) = ring.floor + i
    BY <1>4, <1>6, <1>9, <1>11
  <2>2. ASSUME NEW i \in picked PROVE ring.floor + i \in available .. (ring.floor + e) - 1
    <3>1. i \in Int /\ a <= i /\ i <= e - 1
      BY <1>9, <1>11
    <3> QED
      BY <1>4, <1>8, <1>9, <3>1
  <2>3. ASSUME NEW p \in available .. (ring.floor + e) - 1
        PROVE  p - ring.floor \in picked /\ ring.floor + (p - ring.floor) = p
    <3>1. p \in Int /\ p >= ring.floor + a /\ p <= (ring.floor + e) - 1
      BY <1>4, <1>8, <1>9, <2>3
    <3>2. p - ring.floor \in a .. e - 1 /\ ring.floor + (p - ring.floor) = p
      BY <1>4, <1>9, <3>1
    <3> QED
      BY <1>11, <3>2
  <2> HIDE DEF next
  <2> QED
    BY <1>12, <2>1, <2>2, <2>3
<1>14. next \in Nat /\ 1 <= next /\ available <= next /\ next <= ring.next
  <2> HIDE DEF next
  <2>1. next \in Nat /\ available <= next
    BY <1>4, <1>9, <1>11, <1>12
  <2>2. next <= ring.next
    BY <1>4, <1>5, <1>11, <1>12
  <2> QED
    BY <1>7, <1>8, <2>1, <2>2
<1> HIDE DEF next
<1> DEFINE taken == available .. next - 1
<1>15. IsFiniteSet(taken) /\ Cardinality(taken) = next - available
  <2>1. available \in Int /\ next - 1 \in Int
    BY <1>8, <1>14
  <2>2. /\ IsFiniteSet(taken)
        /\ Cardinality(taken) = IF available > next - 1 THEN 0 ELSE (next - 1) - available + 1
    BY <2>1, FS_Interval
  <2> QED
    BY <1>8, <1>14, <2>2
<1>16. IsFiniteSet(c.got) /\ Cardinality(c.got) \in Nat
  BY <1>2, FS_CardinalityType DEF ReaderFits
<1>17. /\ from - 1 = Cardinality(c.got) + c.missed /\ c.got \subseteq 1 .. from - 1
       /\ \A p \in ring.floor .. ring.next - 1 : p < from => p \in c.got
  <2>1. CASE c.next = 0
    <3>1. c.got = {} /\ c.missed = 0 /\ from = 1 /\ Cardinality(c.got) = 0
      BY <1>2, <1>7, <2>1, FS_EmptySet DEF ReaderFits
    <3> HIDE DEF c
    <3> QED
      BY <1>4, <1>5, <3>1
  <2>2. CASE c.next # 0
    BY <1>2, <1>7, <2>2 DEF ReaderFits
  <2> QED
    BY <2>1, <2>2
<1>18. new.next = next /\ new.got = c.got \cup taken /\ new.missed = c.missed + available - from
  BY <1>13
<1>19. IsFiniteSet(new.got) /\ Cardinality(new.got) = Cardinality(c.got) + (next - available)
  <2>1. c.got \cap taken = {}
    BY <1>7, <1>8, <1>14, <1>17
  <2>2. Cardinality(c.got \cap taken) = 0
    BY <2>1, FS_EmptySet
  <2> HIDE DEF c, new, taken
  <2>3. IsFiniteSet(c.got \cup taken)
    BY <1>15, <1>16, FS_Union
  <2>4. Cardinality(c.got \cup taken)
          = Cardinality(c.got) + Cardinality(taken) - Cardinality(c.got \cap taken)
    BY <1>15, <1>16, FS_Union
  <2> QED
    BY <1>8, <1>14, <1>15, <1>16, <1>18, <2>2, <2>3, <2>4
<1>20. new.missed \in Nat
  <2> HIDE DEF new, c
  <2> QED
    BY <1>4, <1>7, <1>8, <1>18
<1>21. ReaderFits(new, ring)
  <2>1. new.next <= ring.next /\ new.next # 0
    BY <1>14, <1>18
  <2>2. new.next - 1 = Cardinality(new.got) + new.missed
    <3> HIDE DEF new, c
    <3> QED
      BY <1>4, <1>7, <1>8, <1>14, <1>16, <1>17, <1>18, <1>19
  <2>3. new.got \subseteq 1 .. new.next - 1
    <3>1. c.got \subseteq 1 .. next - 1
      BY <1>7, <1>8, <1>14, <1>17
    <3>2. taken \subseteq 1 .. next - 1
      BY <1>7, <1>8, <1>14
    <3> HIDE DEF new, c, taken
    <3> QED
      BY <1>18, <3>1, <3>2
  <2>4. ASSUME NEW p \in ring.floor .. ring.next - 1, p < new.next PROVE p \in new.got
    <3>1. p \in Nat /\ p < next
      BY <1>4, <1>18, <2>4
    <3>2. CASE p < available
      <4>1. available = from
        BY <1>4, <1>8, <2>4, <3>2
      <4> QED
        BY <1>17, <1>18, <2>4, <3>2, <4>1
    <3>3. CASE ~(p < available)
      <4>1. p \in taken
        BY <1>8, <1>14, <3>1, <3>3
      <4> HIDE DEF new, taken, c
      <4> QED
        BY <1>18, <4>1
    <3> QED
      BY <3>2, <3>3
  <2> HIDE DEF new
  <2> QED
    BY <1>19, <2>1, <2>2, <2>3, <2>4 DEF ReaderFits
<1>22. new \in Reader
  <2>1. new.next \in 0 .. MaxPosition
    BY <1>4, <1>14, <1>18
  <2>2. taken \subseteq Positions
    BY <1>4, <1>8, <1>14 DEF Positions
  <2>3. new.got \subseteq Positions
    <3> HIDE DEF new, c, taken
    <3> QED
      BY <1>4, <1>18, <2>2
  <2>4. new = [next |-> new.next, got |-> new.got, missed |-> new.missed]
    OBVIOUS
  <2> HIDE DEF new
  <2> QED
    BY <1>20, <2>1, <2>3, <2>4 DEF Reader
<1> HIDE DEF new, c
<1>23. TimelineTypeOK'
  <2>1. cursors' \in [Readers -> Reader]
    BY <1>1, <1>3, <1>22
  <2> QED
    BY <1>2, <2>1 DEF TimelineInv, TimelineTypeOK, Reader, Slots, Positions
<1>24. ASSUME NEW q \in Readers PROVE ReaderFits(cursors'[q], ring')
  BY <1>1, <1>2, <1>3, <1>21 DEF TimelineInv
<1> QED
  BY <1>2, <1>23, <1>24 DEF TimelineInv

LEMMA NextTimeline == TimelineInv /\ [TimelineNext]_timelineVars => TimelineInv'
<1> SUFFICES ASSUME TimelineInv, [TimelineNext]_timelineVars PROVE TimelineInv'
  OBVIOUS
<1>1. CASE begin
  <2>1. spans' \in 0 .. MaxOpen
    BY <1>1, TimelineConstants DEF begin, TimelineInv, TimelineTypeOK
  <2> QED
    BY <1>1, <2>1 DEF begin, TimelineInv, TimelineTypeOK, RingHolds, ReaderFits, Slots, Positions
<1>2. CASE finish
  BY <1>2, FinishNext
<1>3. CASE clear_timeline
  BY <1>3, ClearNext
<1>4. CASE \E r \in Readers, limit \in ReadLimits : read_completed(r, limit)
  BY <1>4, ReadNext
<1>5. CASE UNCHANGED timelineVars
  BY <1>5 DEF timelineVars, TimelineInv, TimelineTypeOK, RingHolds, ReaderFits, Slots, Positions
<1> QED
  BY <1>1, <1>2, <1>3, <1>4, <1>5 DEF TimelineNext

(* The recorder keeps its types: no position passes the limit of its       *)
(* counter, however many spans finish, and no index leaves the ring.       *)
THEOREM TimelineTypeCorrect == TimelineSpec => []TimelineTypeOK
<1>1. TimelineInv => TimelineTypeOK
  BY DEF TimelineInv
<1> QED
  BY <1>1, InitTimeline, NextTimeline, PTL DEF TimelineSpec

(* Every reader accounts for every completion exactly once, for any        *)
(* capacity of the ring, any limit of the position counter and any number  *)
(* of readers.                                                             *)
THEOREM ReadsAlwaysExact == TimelineSpec => []ReadsExact
<1>1. ASSUME TimelineInv PROVE ReadsExact
  <2> SUFFICES ASSUME ~ring.exhausted
               PROVE  /\ {Retained(i) : i \in 0 .. ring.count - 1} = ring.floor .. ring.next - 1
                      /\ \A i, j \in 0 .. ring.count - 1 : i < j => Retained(i) < Retained(j)
                      /\ \A r \in Readers :
                           cursors[r].next # 0 =>
                             /\ cursors[r].next - 1 = Cardinality(cursors[r].got) + cursors[r].missed
                             /\ cursors[r].got \subseteq 1 .. cursors[r].next - 1
                             /\ \A i \in 0 .. ring.count - 1 :
                                  Retained(i) < cursors[r].next => Retained(i) \in cursors[r].got
    BY DEF ReadsExact
  <2>1. RingHolds(ring) /\ \A r \in Readers : ReaderFits(cursors[r], ring)
    BY <1>1 DEF TimelineInv
  <2>2. ring.floor \in Nat /\ ring.next \in Nat /\ ring.count \in Nat
    BY <1>1, TimelineConstants DEF TimelineInv, TimelineTypeOK, Positions
  <2>3. ring.floor <= ring.next /\ ring.count = ring.next - ring.floor
    BY <2>1 DEF RingHolds
  <2>4. ASSUME NEW i \in 0 .. ring.count - 1
        PROVE  Retained(i) = ring.floor + i /\ ring.floor + i \in ring.floor .. ring.next - 1
    BY <2>1, <2>2, <2>3 DEF RingHolds, Retained
  <2>5. ASSUME NEW p \in ring.floor .. ring.next - 1
        PROVE  p - ring.floor \in 0 .. ring.count - 1 /\ ring.floor + (p - ring.floor) = p
    BY <2>2, <2>3
  <2>6. {Retained(i) : i \in 0 .. ring.count - 1} = ring.floor .. ring.next - 1
    BY <2>4, <2>5
  <2>7. ASSUME NEW i \in 0 .. ring.count - 1, NEW j \in 0 .. ring.count - 1, i < j
        PROVE  Retained(i) < Retained(j)
    BY <2>2, <2>4, <2>7
  <2>8. ASSUME NEW r \in Readers, cursors[r].next # 0
        PROVE  /\ cursors[r].next - 1 = Cardinality(cursors[r].got) + cursors[r].missed
               /\ cursors[r].got \subseteq 1 .. cursors[r].next - 1
               /\ \A i \in 0 .. ring.count - 1 :
                    Retained(i) < cursors[r].next => Retained(i) \in cursors[r].got
    BY <2>1, <2>4, <2>8 DEF ReaderFits
  <2> QED
    BY <2>6, <2>7, <2>8
<1> QED
  BY <1>1, InitTimeline, NextTimeline, PTL DEF TimelineSpec
-----------------------------------------------------------------------------
(***************************************************************************)
(* Restoration.  RestorationKept speaks of save_restoration_state, which   *)
(* chooses a slot; the inductive invariant says the same slot by slot and  *)
(* id by id, and that what is not mounted has no state, which a restore    *)
(* relies on.                                                              *)
(***************************************************************************)
Slot == [value : Values \cup {NoValue}, id : RestorationIds \cup {NoId},
         cached : Values \cup {NoValue}]

IdsUnique == \A s, t \in AllSlots : s # t /\ Live(s) => slots[s].id # slots[t].id
ClaimedSaved ==
  \A s \in AllSlots : Live(s) => /\ waiting[slots[s].id] = NoValue /\ slots[s].cached # NoValue
                                 /\ expected[slots[s].id] = slots[s].cached
UnclaimedSaved == \A i \in RestorationIds : (\A s \in AllSlots : slots[s].id # i) => expected[i] = waiting[i]

RestorationInv ==
  /\ RestorationTypeOK /\ IdsUnique /\ ClaimedSaved /\ UnclaimedSaved
  /\ \A s \in AllSlots : s[1] \notin present => slots[s] = Undeclared
  /\ pristine => present = {}

LEMMA RestorationTyped ==
  ASSUME RestorationTypeOK
  PROVE  /\ slots \in [AllSlots -> Slot] /\ \A s \in AllSlots : slots[s] \in Slot
         /\ waiting \in Records /\ expected \in Records /\ Undeclared \in Slot
BY DEF RestorationTypeOK, Slot, Undeclared

(* What is saved. *)
LEMMA SavedIsExpected ==
  ASSUME RestorationInv
  PROVE  save_restoration_state = expected
<1>1. ASSUME NEW i \in RestorationIds PROVE save_restoration_state[i] = expected[i]
  <2>1. CASE \E s \in AllSlots : slots[s].id = i
    <3> DEFINE t == CHOOSE s \in AllSlots : slots[s].id = i
    <3>1. t \in AllSlots /\ slots[t].id = i
      BY <2>1
    <3>2. save_restoration_state[i] = slots[t].cached
      BY <2>1 DEF save_restoration_state
    <3> HIDE DEF t
    <3>3. Live(t)
      BY <3>1, RestorationConstants DEF Live
    <3> QED
      BY <3>1, <3>2, <3>3 DEF RestorationInv, ClaimedSaved
  <2>2. CASE ~(\E s \in AllSlots : slots[s].id = i)
    <3>1. save_restoration_state[i] = waiting[i]
      BY <2>2 DEF save_restoration_state
    <3> QED
      BY <2>2, <3>1 DEF RestorationInv, UnclaimedSaved
  <2> QED
    BY <2>1, <2>2
<1>2. expected \in Records
  BY DEF RestorationInv, RestorationTypeOK
<1> DEFINE saved == save_restoration_state
<1>3. saved = [i \in RestorationIds |-> saved[i]]
  BY DEF save_restoration_state
<1> HIDE DEF saved
<1>4. expected = [i \in RestorationIds |-> expected[i]]
  BY <1>2 DEF Records
<1> QED
  BY <1>1, <1>3, <1>4 DEF saved

LEMMA RestorationInvKept == RestorationInv => RestorationKept
BY SavedIsExpected DEF RestorationInv, RestorationKept, IdsUnique, ClaimedSaved

LEMMA InitRestoration == RestorationInit => RestorationInv
<1> SUFFICES ASSUME RestorationInit PROVE RestorationInv
  OBVIOUS
<1>1. None \in Records
  BY DEF None, Records
<1>2. ASSUME NEW s \in AllSlots PROVE slots[s] = Undeclared /\ slots[s].id = NoId
  BY DEF RestorationInit, Undeclared
<1>3. RestorationTypeOK
  BY <1>1 DEF RestorationInit, RestorationTypeOK, Undeclared
<1> QED
  BY <1>2, <1>3 DEF RestorationInit, RestorationInv, IdsUnique, ClaimedSaved, UnclaimedSaved, Live

(* Steps that leave the slots alone, or all undeclared. *)
LEMMA QuietRestorationNext ==
  ASSUME RestorationInv,
         \/ \E records \in Records : restore_state(records)
         \/ discard_pending_restoration \/ Restart
         \/ \E e \in Elements : make_element(e)
         \/ UNCHANGED restorationVars
  PROVE  RestorationInv'
<1>1. /\ slots \in [AllSlots -> Slot] /\ (\A s \in AllSlots : slots[s] \in Slot)
      /\ waiting \in Records /\ expected \in Records /\ Undeclared \in Slot
      /\ present \subseteq Elements /\ pristine \in BOOLEAN
  BY RestorationTyped DEF RestorationInv, RestorationTypeOK
<1>2. \A s \in AllSlots : s[1] \in Elements
  BY DEF AllSlots
<1>3. Undeclared.id = NoId
  BY DEF Undeclared
<1>4. ASSUME NEW records \in Records, restore_state(records) PROVE RestorationInv'
  <2>1. waiting' = records /\ expected' = records /\ UNCHANGED <<slots, present, pristine>> /\ pristine
    BY <1>4 DEF restore_state
  <2>2. ASSUME NEW s \in AllSlots PROVE slots[s] = Undeclared /\ slots'[s] = slots[s]
    BY <2>1 DEF RestorationInv
  <2>3. RestorationTypeOK'
    BY <1>1, <2>1 DEF RestorationTypeOK, Slot
  <2> QED
    BY <1>3, <2>1, <2>2, <2>3
       DEF RestorationInv, IdsUnique, ClaimedSaved, UnclaimedSaved, Live
<1>5. CASE discard_pending_restoration
  <2>1. /\ waiting' = None /\ UNCHANGED <<slots, present, pristine>>
        /\ expected' = [i \in RestorationIds |-> IF waiting[i] = NoValue THEN expected[i] ELSE NoValue]
    BY <1>5 DEF discard_pending_restoration
  <2>2. None \in Records /\ \A i \in RestorationIds : None[i] = NoValue
    BY DEF None, Records
  <2>3. expected' \in Records
    BY <1>1, <2>1 DEF Records
  <2>4. RestorationTypeOK'
    BY <1>1, <2>1, <2>2, <2>3 DEF RestorationTypeOK, Slot
  <2>5. IdsUnique'
    BY <2>1 DEF RestorationInv, IdsUnique, Live
  <2>6. ClaimedSaved'
    <3> SUFFICES ASSUME NEW s \in AllSlots, slots[s].id # NoId
                 PROVE  /\ waiting'[slots[s].id] = NoValue /\ slots[s].cached # NoValue
                        /\ expected'[slots[s].id] = slots[s].cached
      BY <2>1 DEF ClaimedSaved, Live
    <3>1. slots[s].id \in RestorationIds
      BY <1>1 DEF Slot
    <3>2. waiting[slots[s].id] = NoValue /\ slots[s].cached # NoValue
          /\ expected[slots[s].id] = slots[s].cached
      BY DEF RestorationInv, ClaimedSaved, Live
    <3> QED
      BY <2>1, <2>2, <3>1, <3>2
  <2>7. UnclaimedSaved'
    <3> SUFFICES ASSUME NEW i \in RestorationIds, \A s \in AllSlots : slots[s].id # i
                 PROVE  expected'[i] = waiting'[i]
      BY <2>1 DEF UnclaimedSaved
    <3>1. expected[i] = waiting[i]
      BY DEF RestorationInv, UnclaimedSaved
    <3> QED
      BY <2>1, <2>2, <3>1
  <2> QED
    BY <2>1, <2>4, <2>5, <2>6, <2>7 DEF RestorationInv
<1>6. CASE Restart
  <2>1. /\ waiting' = expected /\ expected' = expected /\ present' = {} /\ pristine' = TRUE
        /\ slots' = [s \in AllSlots |-> Undeclared]
    BY <1>6, SavedIsExpected DEF Restart
  <2>2. ASSUME NEW s \in AllSlots PROVE slots'[s] = Undeclared
    BY <2>1
  <2>3. RestorationTypeOK'
    BY <1>1, <2>1 DEF RestorationTypeOK, Slot
  <2> QED
    BY <1>3, <2>1, <2>2, <2>3
       DEF RestorationInv, IdsUnique, ClaimedSaved, UnclaimedSaved, Live
<1>7. ASSUME NEW e \in Elements, make_element(e) PROVE RestorationInv'
  <2>1. present' = present \cup {e} /\ pristine' = FALSE /\ UNCHANGED <<waiting, slots, expected>>
    BY <1>7 DEF make_element
  <2>2. RestorationTypeOK'
    BY <1>1, <2>1 DEF RestorationTypeOK, Slot
  <2> QED
    BY <2>1, <2>2 DEF RestorationInv, IdsUnique, ClaimedSaved, UnclaimedSaved, Live
<1>8. CASE UNCHANGED restorationVars
  BY <1>8 DEF restorationVars, RestorationInv, RestorationTypeOK, IdsUnique, ClaimedSaved,
              UnclaimedSaved, Live
<1> QED
  BY <1>4, <1>5, <1>6, <1>7, <1>8

LEMMA UnmountNext ==
  ASSUME RestorationInv, NEW e \in Elements, unmount_element(e)
  PROVE  RestorationInv'
<1>1. /\ slots \in [AllSlots -> Slot] /\ (\A s \in AllSlots : slots[s] \in Slot)
      /\ waiting \in Records /\ expected \in Records /\ Undeclared \in Slot
      /\ present \subseteq Elements /\ pristine \in BOOLEAN
  BY RestorationTyped DEF RestorationInv, RestorationTypeOK
<1>2. /\ present' = present \ {e} /\ waiting' = waiting /\ pristine' = pristine
      /\ slots' = [s \in AllSlots |-> IF s[1] = e THEN Undeclared ELSE slots[s]]
      /\ expected' = [i \in RestorationIds |->
                        IF \E n \in SlotNames : slots[<<e, n>>].id = i THEN NoValue ELSE expected[i]]
  BY DEF unmount_element
<1>3. ASSUME NEW s \in AllSlots
      PROVE  /\ s[1] = e => slots'[s] = Undeclared /\ slots'[s].id = NoId
             /\ s[1] # e => slots'[s] = slots[s]
             /\ slots'[s] \in Slot
  BY <1>1, <1>2 DEF Undeclared
<1>4. slots' \in [AllSlots -> Slot]
  <2> DEFINE f == [s \in AllSlots |-> IF s[1] = e THEN Undeclared ELSE slots[s]]
  <2>1. \A s \in AllSlots : f[s] \in Slot
    BY <1>1
  <2> QED
    BY <1>2, <2>1
<1>5. expected' \in Records
  BY <1>1, <1>2 DEF Records
<1>6. RestorationTypeOK'
  BY <1>1, <1>2, <1>4, <1>5 DEF RestorationTypeOK, Slot
<1>7. IdsUnique'
  <2> SUFFICES ASSUME NEW s \in AllSlots, NEW t \in AllSlots, s # t, slots'[s].id # NoId
               PROVE  slots'[s].id # slots'[t].id
    BY DEF IdsUnique, Live
  <2>1. slots'[s] = slots[s]
    BY <1>3
  <2> QED
    BY <1>3, <2>1 DEF RestorationInv, IdsUnique, Live
<1>8. ClaimedSaved'
  <2> SUFFICES ASSUME NEW s \in AllSlots, slots'[s].id # NoId
               PROVE  /\ waiting'[slots'[s].id] = NoValue /\ slots'[s].cached # NoValue
                      /\ expected'[slots'[s].id] = slots'[s].cached
    BY DEF ClaimedSaved, Live
  <2>1. slots'[s] = slots[s] /\ s[1] # e
    BY <1>3
  <2>2. slots[s].id \in RestorationIds
    BY <1>1, <2>1 DEF Slot
  <2>3. ASSUME NEW n \in SlotNames PROVE slots[<<e, n>>].id # slots[s].id
    <3>1. <<e, n>> \in AllSlots /\ <<e, n>> # s
      BY <2>1 DEF AllSlots
    <3> QED
      BY <2>1, <3>1 DEF RestorationInv, IdsUnique, Live
  <2>4. expected'[slots[s].id] = expected[slots[s].id]
    BY <1>2, <2>2, <2>3
  <2> QED
    BY <1>2, <2>1, <2>4 DEF RestorationInv, ClaimedSaved, Live
<1>9. UnclaimedSaved'
  <2> SUFFICES ASSUME NEW i \in RestorationIds, \A s \in AllSlots : slots'[s].id # i
               PROVE  expected'[i] = waiting[i]
    BY <1>2 DEF UnclaimedSaved
  <2>1. CASE \E n \in SlotNames : slots[<<e, n>>].id = i
    <3>1. PICK n \in SlotNames : slots[<<e, n>>].id = i
      BY <2>1
    <3>2. <<e, n>> \in AllSlots /\ slots[<<e, n>>].id # NoId
      BY <3>1, RestorationConstants DEF AllSlots
    <3>3. waiting[i] = NoValue
      BY <3>1, <3>2 DEF RestorationInv, ClaimedSaved, Live
    <3> QED
      BY <1>2, <2>1, <3>3
  <2>2. CASE ~(\E n \in SlotNames : slots[<<e, n>>].id = i)
    <3>1. ASSUME NEW s \in AllSlots PROVE slots[s].id # i
      <4>1. CASE s[1] = e
        <5>1. s = <<e, s[2]>> /\ s[2] \in SlotNames
          BY <4>1 DEF AllSlots
        <5> QED
          BY <2>2, <5>1
      <4>2. CASE s[1] # e
        BY <1>3, <4>2
      <4> QED
        BY <4>1, <4>2
    <3>2. expected[i] = waiting[i]
      BY <3>1 DEF RestorationInv, UnclaimedSaved
    <3> QED
      BY <1>2, <2>2, <3>2
  <2> QED
    BY <2>1, <2>2
<1>10. \A s \in AllSlots : s[1] \notin present' => slots'[s] = Undeclared
  BY <1>2, <1>3 DEF RestorationInv
<1>11. pristine' => present' = {}
  BY <1>2 DEF RestorationInv
<1> QED
  BY <1>6, <1>7, <1>8, <1>9, <1>10, <1>11 DEF RestorationInv

(* One slot s of a mounted element becomes `new', which has no id, or id j *)
(* with its value saved and no longer waiting.                             *)
LEMMA SlotChanges ==
  ASSUME RestorationInv, NEW s \in AllSlots, s[1] \in present, NEW new \in Slot,
         NEW j \in RestorationIds \cup {NoId},
         slots' = [slots EXCEPT ![s] = new], new.id = j, UNCHANGED <<present, pristine>>,
         expected' \in Records, waiting' \in Records,
         \A i \in RestorationIds : i # j => waiting'[i] = waiting[i],
         \A i \in RestorationIds : i # j =>
           expected'[i] = IF slots[s].id = i THEN NoValue ELSE expected[i],
         j # NoId => /\ \A t \in AllSlots \ {s} : slots[t].id # j
                     /\ waiting'[j] = NoValue /\ new.cached # NoValue
                     /\ expected'[j] = new.cached
  PROVE  RestorationInv'
<1>1. /\ slots \in [AllSlots -> Slot] /\ (\A t \in AllSlots : slots[t] \in Slot)
      /\ present \subseteq Elements /\ pristine \in BOOLEAN
  BY RestorationTyped DEF RestorationInv, RestorationTypeOK
<1>2. slots' \in [AllSlots -> Slot] /\ slots'[s] = new
      /\ \A t \in AllSlots : t # s => slots'[t] = slots[t]
  BY <1>1
<1>3. RestorationTypeOK'
  BY <1>1, <1>2 DEF RestorationTypeOK, Slot
<1>4. IdsUnique'
  <2> SUFFICES ASSUME NEW t \in AllSlots, NEW u \in AllSlots, t # u, slots'[t].id # NoId
               PROVE  slots'[t].id # slots'[u].id
    BY DEF IdsUnique, Live
  <2>1. CASE t = s
    BY <1>2, <2>1
  <2>2. CASE u = s
    BY <1>2, <2>2
  <2>3. CASE t # s /\ u # s
    BY <1>2, <2>3 DEF RestorationInv, IdsUnique, Live
  <2> QED
    BY <2>1, <2>2, <2>3
<1>5. ClaimedSaved'
  <2> SUFFICES ASSUME NEW t \in AllSlots, slots'[t].id # NoId
               PROVE  /\ waiting'[slots'[t].id] = NoValue /\ slots'[t].cached # NoValue
                      /\ expected'[slots'[t].id] = slots'[t].cached
    BY DEF ClaimedSaved, Live
  <2>1. CASE t = s
    BY <1>2, <2>1
  <2>2. CASE t # s
    <3>1. slots'[t] = slots[t] /\ slots[t].id # NoId
      BY <1>2, <2>2
    <3>2. slots[t].id \in RestorationIds
      BY <1>1, <3>1 DEF Slot
    <3>3. slots[t].id # j /\ slots[s].id # slots[t].id
      <4>1. slots[t].id # slots[s].id
        BY <2>2, <3>1 DEF RestorationInv, IdsUnique, Live
      <4> QED
        BY <2>2, <3>1, <4>1
    <3>4. waiting'[slots[t].id] = waiting[slots[t].id] /\ expected'[slots[t].id] = expected[slots[t].id]
      BY <3>2, <3>3
    <3> QED
      BY <3>1, <3>4 DEF RestorationInv, ClaimedSaved, Live
  <2> QED
    BY <2>1, <2>2
<1>6. UnclaimedSaved'
  <2> SUFFICES ASSUME NEW i \in RestorationIds, \A t \in AllSlots : slots'[t].id # i
               PROVE  expected'[i] = waiting'[i]
    BY DEF UnclaimedSaved
  <2>1. i # j
    BY <1>2
  <2>2. waiting'[i] = waiting[i]
    BY <2>1
  <2>3. CASE slots[s].id = i
    <3>1. slots[s].id # NoId
      BY <2>3, RestorationConstants
    <3>2. waiting[i] = NoValue
      BY <2>3, <3>1 DEF RestorationInv, ClaimedSaved, Live
    <3> QED
      BY <2>1, <2>2, <2>3, <3>2
  <2>4. CASE slots[s].id # i
    <3>1. \A t \in AllSlots : slots[t].id # i
      BY <1>2, <2>4
    <3>2. expected[i] = waiting[i]
      BY <3>1 DEF RestorationInv, UnclaimedSaved
    <3> QED
      BY <2>1, <2>2, <2>4, <3>2
  <2> QED
    BY <2>3, <2>4
<1>7. \A t \in AllSlots : t[1] \notin present' => slots'[t] = Undeclared
  BY <1>2 DEF RestorationInv
<1> QED
  BY <1>3, <1>4, <1>5, <1>6, <1>7 DEF RestorationInv

LEMMA DeclareNext ==
  ASSUME RestorationInv, NEW s \in AllSlots, NEW v \in Values, declare_state(s, v)
  PROVE  RestorationInv'
<1>1. slots[s] \in Slot /\ waiting \in Records /\ expected \in Records /\ slots \in [AllSlots -> Slot]
  BY RestorationTyped DEF RestorationInv
<1> DEFINE new == [value |-> IF Declared(s) THEN slots[s].value ELSE v, id |-> NoId, cached |-> NoValue]
<1>2. /\ s[1] \in present /\ slots' = [slots EXCEPT ![s] = new] /\ expected' = Forgetting(s)
      /\ UNCHANGED <<waiting, present, pristine>>
  BY <1>1 DEF declare_state
<1>3. new \in Slot /\ new.id = NoId
  BY <1>1 DEF Slot
<1> HIDE DEF new
<1>4. /\ Forgetting(s) \in Records
      /\ \A i \in RestorationIds : Forgetting(s)[i] = IF slots[s].id = i THEN NoValue ELSE expected[i]
  BY <1>1 DEF Forgetting, Records
<1> QED
  BY <1>1, <1>2, <1>3, <1>4, SlotChanges

LEMMA RestorableNext ==
  ASSUME RestorationInv, NEW s \in AllSlots, NEW j \in RestorationIds, NEW initial \in Values,
         restorable_state(s, j, initial)
  PROVE  RestorationInv'
<1>1. slots[s] \in Slot /\ waiting \in Records /\ expected \in Records /\ slots \in [AllSlots -> Slot]
  BY RestorationTyped DEF RestorationInv
<1> DEFINE v == IF Declared(s) THEN slots[s].value
                ELSE IF waiting[j] # NoValue THEN waiting[j] ELSE initial
<1> DEFINE new == [value |-> v, id |-> j, cached |-> v]
<1>2. /\ s[1] \in present /\ slots' = [slots EXCEPT ![s] = new]
      /\ expected' = [Forgetting(s) EXCEPT ![j] = v] /\ waiting' = [waiting EXCEPT ![j] = NoValue]
      /\ UNCHANGED <<present, pristine>>
  BY DEF restorable_state
<1>3. /\ \A t \in AllSlots \ {s} : slots[t].id # j
      /\ ~(~Declared(s) /\ waiting[j] = Foreign)
  BY DEF restorable_state, restoration_id_in_use
<1>4. v \in Values /\ v # NoValue
  <2>1. waiting[j] \in Values \cup {NoValue, Foreign} /\ slots[s].value \in Values \cup {NoValue}
    BY <1>1 DEF Records, Slot
  <2> QED
    BY <1>3, <2>1, RestorationConstants DEF Declared
<1> HIDE DEF v
<1>5. new \in Slot /\ new.id = j /\ new.cached = v
  BY <1>4 DEF Slot
<1> HIDE DEF new
<1>6. /\ Forgetting(s) \in Records
      /\ \A i \in RestorationIds : Forgetting(s)[i] = IF slots[s].id = i THEN NoValue ELSE expected[i]
  BY <1>1 DEF Forgetting, Records
<1>7. /\ waiting' \in Records /\ waiting'[j] = NoValue
      /\ \A i \in RestorationIds : i # j => waiting'[i] = waiting[i]
  BY <1>1, <1>2 DEF Records
<1>8. /\ expected' \in Records /\ expected'[j] = v
      /\ \A i \in RestorationIds : i # j => expected'[i] = Forgetting(s)[i]
  <2> HIDE DEF Forgetting
  <2> QED
    BY <1>2, <1>4, <1>6 DEF Records
<1>9. \A i \in RestorationIds : i # j =>
        expected'[i] = IF slots[s].id = i THEN NoValue ELSE expected[i]
  BY <1>6, <1>8
<1>10. /\ \A t \in AllSlots \ {s} : slots[t].id # j
       /\ waiting'[j] = NoValue /\ new.cached # NoValue /\ expected'[j] = new.cached
  BY <1>3, <1>4, <1>5, <1>7, <1>8
<1>11. /\ j \in RestorationIds \cup {NoId} /\ expected' \in Records /\ waiting' \in Records
       /\ \A i \in RestorationIds : i # j => waiting'[i] = waiting[i]
  BY <1>7, <1>8
<1> QED
  BY <1>2, <1>5, <1>9, <1>10, <1>11, SlotChanges

LEMMA AssignNext ==
  ASSUME RestorationInv, NEW s \in AllSlots, NEW v \in Values, assign_state(s, v)
  PROVE  RestorationInv'
<1>1. slots[s] \in Slot /\ waiting \in Records /\ expected \in Records /\ slots \in [AllSlots -> Slot]
  BY RestorationTyped DEF RestorationInv
<1> DEFINE new == Assigned(s, v)
<1> DEFINE j == slots[s].id
<1>2. /\ s[1] \in present /\ slots' = [slots EXCEPT ![s] = new]
      /\ expected' = [i \in RestorationIds |-> IF slots[s].id = i THEN v ELSE expected[i]]
      /\ UNCHANGED <<waiting, present, pristine>>
  BY DEF assign_state
<1>3. /\ new \in Slot /\ new.id = j /\ j \in RestorationIds \cup {NoId}
      /\ (j # NoId => new.cached = v)
  BY <1>1 DEF Assigned, Slot
<1>4. v # NoValue /\ NoId \notin RestorationIds
  BY RestorationConstants
<1>5. j # NoId => waiting[j] = NoValue /\ \A t \in AllSlots \ {s} : slots[t].id # j
  BY DEF RestorationInv, ClaimedSaved, IdsUnique, Live
<1>6. expected' \in Records
  BY <1>1, <1>2 DEF Records
<1>7. \A i \in RestorationIds : expected'[i] = IF j = i THEN v ELSE expected[i]
  BY <1>2
<1>8. \A i \in RestorationIds : i # j =>
        expected'[i] = IF slots[s].id = i THEN NoValue ELSE expected[i]
  BY <1>7
<1>9. j # NoId => expected'[j] = v
  BY <1>3, <1>7
<1> HIDE DEF new
<1>10. j # NoId => /\ \A t \in AllSlots \ {s} : slots[t].id # j
                   /\ waiting'[j] = NoValue /\ new.cached # NoValue
                   /\ expected'[j] = new.cached
  BY <1>2, <1>3, <1>4, <1>5, <1>9
<1> QED
  BY <1>1, <1>2, <1>3, <1>6, <1>8, <1>10, SlotChanges

LEMMA NextRestoration == RestorationInv /\ [RestorationNext]_restorationVars => RestorationInv'
BY QuietRestorationNext, UnmountNext, DeclareNext, RestorableNext, AssignNext DEF RestorationNext

(* Saving always succeeds and loses nothing, for any number of ids, slots, *)
(* values and restarts.                                                    *)
THEOREM RestorationAlwaysKept == RestorationSpec => []RestorationKept
BY RestorationInvKept, InitRestoration, NextRestoration, PTL DEF RestorationSpec
-----------------------------------------------------------------------------
(***************************************************************************)
(* The gesture arena.  A member that waits for its verdict is in one place *)
(* only: in the arena of one pointer, or due in one resolution under way.  *)
(***************************************************************************)
Arena == [members : Seq(Members), closed : BOOLEAN, eager : Members \cup {NoMember},
          founder : Members \cup {NoMember}]
Todo == Seq(Members \X {"accepted", "rejected"})
ResolveCall == [op : {"resolve"}, pointer : Pointers, todo : Todo, failed : BOOLEAN]
DownCall == [op : {"down"}, pointer : Pointers, hit : BOOLEAN]
UpCall == [op : {"up"}, pointer : Pointers, member : Members, stage : {"close", "end", "activate"}]
ActivateCall == [op : {"activate"}, member : Members]
Calls == ResolveCall \cup DownCall \cup UpCall \cup ActivateCall

Verdict == [is : {"new", "waiting", "accepted", "rejected", "twice"},
            arena : Members \cup {NoMember}]

(* An arena that stands: its eager winner is a member, and it was not      *)
(* closed over a single one.                                               *)
Sound(a) ==
  /\ IsInjective(a.members)
  /\ a.eager # NoMember => Contains(a.members, a.eager)
  /\ a.closed => Len(a.members) > 1

(* Whom the verdicts t are for, and whom they accept. *)
Due(t, m) == \E j \in 1 .. Len(t) : t[j][1] = m
Wins(t, m) == \E j \in 1 .. Len(t) : t[j][1] = m /\ t[j][2] = "accepted"
Once(t) == \A j, k \in 1 .. Len(t) : t[j][1] = t[k][1] => j = k

(* The same of all resolutions in the stack cs. *)
ResolvingAt(cs, i) == i \in 1 .. Len(cs) /\ cs[i].op = "resolve"
DueIn(cs, m) == \E i \in 1 .. Len(cs) : ResolvingAt(cs, i) /\ Due(cs[i].todo, m)
WinsIn(cs, m) == \E i \in 1 .. Len(cs) : ResolvingAt(cs, i) /\ Wins(cs[i].todo, m)
ResolvedIn(cs, p) == \E i \in 1 .. Len(cs) : ResolvingAt(cs, i) /\ cs[i].pointer = p
Apart(cs) ==
  /\ \A i \in 1 .. Len(cs) : ResolvingAt(cs, i) => Once(cs[i].todo)
  /\ \A i, k \in 1 .. Len(cs) : ResolvingAt(cs, i) /\ ResolvingAt(cs, k) =>
       /\ cs[i].pointer = cs[k].pointer => i = k
       /\ \A m \in Members : Due(cs[i].todo, m) /\ Due(cs[k].todo, m) => i = k

(* The arenas A, the verdicts V and the stack C fit together.  Where a     *)
(* member is, and what it was told:                                        *)
Holds(A, p, m) == Contains(A[p].members, m)
Stands(A, p) == A[p].members # <<>>
MembersPlaced(A, V, C) ==
  /\ \A p, q \in Pointers, m \in Members : Holds(A, p, m) /\ Holds(A, q, m) => p = q
  /\ \A p \in Pointers, m \in Members : Holds(A, p, m) =>
       V[m].is = "waiting" /\ V[m].arena = A[p].founder /\ ~DueIn(C, m)
  /\ \A m \in Members : DueIn(C, m) => V[m].is = "waiting"
  /\ \A m \in Members : V[m].is = "waiting" => DueIn(C, m) \/ \E p \in Pointers : Holds(A, p, m)
  /\ \A m \in Members : V[m].is # "twice"

(* Whom an arena can still accept: nobody, once it has accepted one or is  *)
(* about to; an arena keeps the name of a member that was added.           *)
Won(V, C, m) == V[m].is = "accepted" \/ WinsIn(C, m)
OneWinner(A, V, C) ==
  /\ \A m \in Members : V[m].is # "new" => V[m].arena \in Members /\ V[V[m].arena].is # "new"
  /\ \A p, q \in Pointers : Stands(A, p) /\ Stands(A, q) /\ A[p].founder = A[q].founder => p = q
  /\ \A m, n \in Members : Won(V, C, m) /\ Won(V, C, n) /\ V[m].arena = V[n].arena => m = n
  /\ \A m \in Members, p \in Pointers :
       Won(V, C, m) /\ Stands(A, p) => V[m].arena # A[p].founder

Fitting(A, R, V, C, act) ==
  /\ A \in [Pointers -> Arena] /\ R \subseteq Pointers /\ V \in [Members -> Verdict]
  /\ C \in Seq(Calls) /\ act \subseteq Members
  /\ \A p \in Pointers : Sound(A[p])
  /\ Apart(C)
  /\ \A p \in Pointers : p \in R <=> ResolvedIn(C, p)
  /\ MembersPlaced(A, V, C) /\ OneWinner(A, V, C)
  /\ \A m \in act : V[m].is = "accepted"

(* The inductive invariant. *)
ArenaInv ==
  /\ Fitting(arenas, resolving, verdict, calls, activated)
  /\ routes \in [Pointers -> Members \cup {NoMember}]


(* erase of a member that is there once. *)
LEMMA MemberRemoved ==
  ASSUME NEW A, NEW s \in Seq(A), IsInjective(s), NEW e \in A, Contains(s, e)
  PROVE  LET rest == RemoveFirst(s, e)
         IN  /\ rest \in Seq(A) /\ IsInjective(rest) /\ Len(rest) = Len(s) - 1
             /\ \A x \in A : Contains(rest, x) <=> Contains(s, x) /\ x # e
<1> DEFINE I == {i \in 1 .. Len(s) : s[i] = e}
<1>1. PICK j \in 1 .. Len(s) : s[j] = e
  BY DEF Contains
<1>2. I = {j}
  BY <1>1 DEF IsInjective
<1>3. Min(I) = j
  BY <1>2 DEF Min
<1>4. RemoveFirst(s, e) = RemoveAt(s, j)
  BY <1>1, <1>2, <1>3 DEF RemoveFirst, SelectInSeq
<1> DEFINE rest == SubSeq(s, 1, j - 1) \o SubSeq(s, j + 1, Len(s))
<1>5. RemoveFirst(s, e) = rest
  BY <1>4 DEF RemoveAt
<1>6. /\ rest \in Seq(A) /\ Len(rest) = Len(s) - 1
      /\ \A i \in 1 .. Len(s) - 1 : rest[i] = IF i < j THEN s[i] ELSE s[i + 1]
  <2> DEFINE before == SubSeq(s, 1, j - 1)
             after == SubSeq(s, j + 1, Len(s))
  <2>1. before \in Seq(A) /\ Len(before) = j - 1 /\ \A i \in 1 .. j - 1 : before[i] = s[i]
    OBVIOUS
  <2>2. /\ after \in Seq(A) /\ Len(after) = Len(s) - j
        /\ \A i \in 1 .. Len(s) - j : after[i] = s[j + i]
    OBVIOUS
  <2>0. rest = before \o after
    OBVIOUS
  <2> HIDE DEF before, after, rest
  <2>3. /\ rest \in Seq(A) /\ Len(rest) = Len(s) - 1
        /\ \A i \in 1 .. Len(s) - 1 :
             rest[i] = IF i <= j - 1 THEN before[i] ELSE after[i - (j - 1)]
    <3>1. before \in Seq(A) /\ after \in Seq(A)
      BY <2>1, <2>2
    <3>2. /\ before \o after \in Seq(A) /\ Len(before \o after) = Len(before) + Len(after)
          /\ \A i \in 1 .. Len(before) + Len(after) :
               (before \o after)[i] = IF i <= Len(before) THEN before[i] ELSE after[i - Len(before)]
      BY <3>1, ConcatProperties
    <3>3. Len(before) + Len(after) = Len(s) - 1
      BY <2>1, <2>2
    <3> QED
      BY <2>0, <2>1, <3>2, <3>3
  <2>4. ASSUME NEW i \in 1 .. Len(s) - 1
        PROVE  rest[i] = IF i < j THEN s[i] ELSE s[i + 1]
    <3>1. CASE i < j
      BY <2>1, <2>3, <3>1
    <3>2. CASE ~(i < j)
      <4>1. i - (j - 1) \in 1 .. Len(s) - j /\ j + (i - (j - 1)) = i + 1
        BY <3>2
      <4>2. rest[i] = after[i - (j - 1)]
        BY <2>3, <3>2
      <4> QED
        BY <2>2, <3>2, <4>1, <4>2
    <3> QED
      BY <3>1, <3>2
  <2> QED
    BY <2>3, <2>4
<1> HIDE DEF rest
<1>7. IsInjective(rest)
  <2>1. \A a, b \in 1 .. Len(s) : s[a] = s[b] => a = b
    BY DEF IsInjective
  <2>2. ASSUME NEW a \in 1 .. Len(s) - 1, NEW b \in 1 .. Len(s) - 1, rest[a] = rest[b]
        PROVE  a = b
    <3>1. a \in 1 .. Len(s) /\ a + 1 \in 1 .. Len(s) /\ b \in 1 .. Len(s) /\ b + 1 \in 1 .. Len(s)
      OBVIOUS
    <3>2. /\ rest[a] = IF a < j THEN s[a] ELSE s[a + 1]
          /\ rest[b] = IF b < j THEN s[b] ELSE s[b + 1]
      BY <1>6
    <3>3. CASE a < j /\ b < j
      BY <2>1, <2>2, <3>1, <3>2, <3>3
    <3>4. CASE a < j /\ ~(b < j)
      <4>1. s[a] = s[b + 1]
        BY <2>2, <3>2, <3>4
      <4> QED
        BY <2>1, <3>1, <3>4, <4>1
    <3>5. CASE ~(a < j) /\ b < j
      <4>1. s[a + 1] = s[b]
        BY <2>2, <3>2, <3>5
      <4> QED
        BY <2>1, <3>1, <3>5, <4>1
    <3>6. CASE ~(a < j) /\ ~(b < j)
      <4>1. s[a + 1] = s[b + 1]
        BY <2>2, <3>2, <3>6
      <4> QED
        BY <2>1, <3>1, <4>1
    <3> QED
      BY <3>3, <3>4, <3>5, <3>6
  <2> QED
    BY <1>6, <2>2 DEF IsInjective
<1>8. ASSUME NEW x \in A
      PROVE  Contains(rest, x) <=> Contains(s, x) /\ x # e
  <2>1. ASSUME Contains(rest, x)
        PROVE  Contains(s, x) /\ x # e
    <3>1. PICK i \in 1 .. Len(s) - 1 : rest[i] = x
      BY <1>6, <2>1 DEF Contains
    <3>2. \A a, b \in 1 .. Len(s) : s[a] = s[b] => a = b
      BY DEF IsInjective
    <3>3. i \in 1 .. Len(s) /\ i + 1 \in 1 .. Len(s)
      OBVIOUS
    <3>4. x = IF i < j THEN s[i] ELSE s[i + 1]
      BY <1>6, <3>1
    <3>5. Contains(s, x)
      BY <3>3, <3>4 DEF Contains
    <3>6. CASE i < j
      <4>1. i # j /\ x = s[i]
        BY <3>4, <3>6
      <4> QED
        BY <1>1, <3>2, <3>3, <3>5, <4>1
    <3>7. CASE ~(i < j)
      <4>1. i + 1 # j /\ x = s[i + 1]
        BY <3>4, <3>7
      <4> QED
        BY <1>1, <3>2, <3>3, <3>5, <4>1
    <3> QED
      BY <3>5, <3>6, <3>7
  <2>2. ASSUME Contains(s, x), x # e
        PROVE  Contains(rest, x)
    <3>1. PICK i \in 1 .. Len(s) : s[i] = x
      BY <2>2 DEF Contains
    <3>2. i # j
      BY <1>1, <2>2, <3>1
    <3>3. CASE i < j
      BY <1>6, <3>1, <3>3 DEF Contains
    <3>4. CASE i > j
      <4>1. i - 1 \in 1 .. Len(s) - 1 /\ ~(i - 1 < j) /\ (i - 1) + 1 = i
        BY <3>4
      <4>2. rest[i - 1] = x
        BY <1>6, <3>1, <4>1
      <4> QED
        BY <1>6, <4>1, <4>2 DEF Contains
    <3> QED
      BY <3>2, <3>3, <3>4
  <2> QED
    BY <2>1, <2>2
<1> QED
  BY <1>5, <1>6, <1>7, <1>8

LEMMA NoneDue == \A m : ~Due(<<>>, m) /\ ~Wins(<<>>, m) /\ ~Contains(<<>>, m)
BY DEF Due, Wins, Contains

LEMMA WinnersDue == \A t, m : Wins(t, m) => Due(t, m)
BY DEF Due, Wins

(* A rejection for each of the members in s. *)
LEMMA RejectionsFor ==
  ASSUME NEW s \in Seq(Members), IsInjective(s)
  PROVE  /\ Rejections(s) \in Todo /\ Len(Rejections(s)) = Len(s) /\ Once(Rejections(s))
         /\ \A m : (Due(Rejections(s), m) <=> Contains(s, m)) /\ ~Wins(Rejections(s), m)
<1>1. /\ DOMAIN Rejections(s) = 1 .. Len(s) /\ Len(s) \in Nat
      /\ \A i \in 1 .. Len(s) : Rejections(s)[i] = <<s[i], "rejected">>
  BY DEF Rejections
<1>2. /\ \A i \in 1 .. Len(s) : s[i] \in Members /\ Rejections(s)[i][1] = s[i]
      /\ \A i \in 1 .. Len(s) : Rejections(s)[i][2] = "rejected"
  BY <1>1
<1>3. Rejections(s) = [i \in 1 .. Len(s) |-> <<s[i], "rejected">>]
  BY DEF Rejections
<1>4. Rejections(s) \in Todo /\ Len(Rejections(s)) = Len(s)
  BY <1>2, <1>3 DEF Todo
<1>5. Once(Rejections(s))
  <2>1. \A a, b \in 1 .. Len(s) : s[a] = s[b] => a = b
    BY DEF IsInjective
  <2> QED
    BY <1>2, <1>4, <2>1 DEF Once
<1>6. ASSUME NEW m PROVE (Due(Rejections(s), m) <=> Contains(s, m)) /\ ~Wins(Rejections(s), m)
  BY <1>2, <1>4 DEF Due, Wins, Contains
<1> QED
  BY <1>4, <1>5, <1>6

(* Two verdicts, or a verdict before others. *)
LEMMA VerdictFirst ==
  ASSUME NEW w \in Members, NEW v \in {"accepted", "rejected"}, NEW t \in Todo
  PROVE  LET u == <<<<w, v>>>> \o t
         IN  /\ u \in Todo /\ u # <<>>
             /\ Once(t) /\ ~Due(t, w) => Once(u)
             /\ \A m : Due(u, m) <=> m = w \/ Due(t, m)
             /\ \A m : Wins(u, m) <=> (m = w /\ v = "accepted") \/ Wins(t, m)
<1> DEFINE o == <<<<w, v>>>>
           u == o \o t
<1>1. o \in Todo /\ Len(o) = 1 /\ o[1] = <<w, v>> /\ o[1][1] = w /\ o[1][2] = v
  BY DEF Todo
<1>2. /\ u \in Todo /\ Len(u) = 1 + Len(t) /\ Len(t) \in Nat
      /\ \A i \in 1 .. 1 + Len(t) : u[i] = IF i <= 1 THEN o[i] ELSE t[i - 1]
  <2>1. /\ o \o t \in Todo /\ Len(o \o t) = Len(o) + Len(t) /\ Len(t) \in Nat
        /\ \A i \in 1 .. Len(o) + Len(t) : (o \o t)[i] = IF i <= Len(o) THEN o[i] ELSE t[i - Len(o)]
    BY <1>1, ConcatProperties DEF Todo
  <2> QED
    BY <1>1, <2>1
<1> HIDE DEF o, u
<1>3. /\ 1 \in 1 .. Len(u) /\ u[1][1] = w /\ u[1][2] = v
      /\ \A j \in 1 .. Len(t) : j + 1 \in 1 .. Len(u) /\ u[j + 1] = t[j]
      /\ \A i \in 1 .. Len(u) : i # 1 => i - 1 \in 1 .. Len(t) /\ u[i] = t[i - 1]
  <2>1. u[1] = o[1] /\ 1 \in 1 .. Len(u)
    BY <1>2
  <2>2. ASSUME NEW j \in 1 .. Len(t) PROVE j + 1 \in 1 .. Len(u) /\ u[j + 1] = t[j]
    <3>1. j + 1 \in 1 .. 1 + Len(t) /\ ~(j + 1 <= 1) /\ (j + 1) - 1 = j
      BY <1>2
    <3> QED
      BY <1>2, <3>1
  <2>3. ASSUME NEW i \in 1 .. Len(u), i # 1 PROVE i - 1 \in 1 .. Len(t) /\ u[i] = t[i - 1]
    <3>1. i \in 1 .. 1 + Len(t) /\ ~(i <= 1) /\ i - 1 \in 1 .. Len(t)
      BY <1>2, <2>3
    <3> QED
      BY <1>2, <3>1
  <2> QED
    BY <1>1, <2>1, <2>2, <2>3
<1>4. u # <<>>
  BY <1>2
<1>5. ASSUME NEW m PROVE Due(u, m) <=> m = w \/ Due(t, m)
  <2>1. ASSUME Due(u, m), m # w PROVE Due(t, m)
    <3>1. PICK i \in 1 .. Len(u) : u[i][1] = m
      BY <2>1 DEF Due
    <3>2. i - 1 \in 1 .. Len(t) /\ t[i - 1][1] = m
      BY <1>3, <2>1, <3>1
    <3> QED
      BY <3>2 DEF Due
  <2>2. ASSUME Due(t, m) PROVE Due(u, m)
    <3>1. PICK j \in 1 .. Len(t) : t[j][1] = m
      BY <2>2 DEF Due
    <3>2. j + 1 \in 1 .. Len(u) /\ u[j + 1][1] = m
      BY <1>3, <3>1
    <3> QED
      BY <3>2 DEF Due
  <2>3. Due(u, w)
    BY <1>3 DEF Due
  <2> QED
    BY <2>1, <2>2, <2>3
<1>6. ASSUME NEW m PROVE Wins(u, m) <=> (m = w /\ v = "accepted") \/ Wins(t, m)
  <2>1. ASSUME Wins(u, m) PROVE (m = w /\ v = "accepted") \/ Wins(t, m)
    <3>1. PICK i \in 1 .. Len(u) : u[i][1] = m /\ u[i][2] = "accepted"
      BY <2>1 DEF Wins
    <3>2. i # 1 => i - 1 \in 1 .. Len(t) /\ t[i - 1][1] = m /\ t[i - 1][2] = "accepted"
      BY <1>3, <3>1
    <3>3. i = 1 => m = w /\ v = "accepted"
      BY <1>3, <3>1
    <3> QED
      BY <3>2, <3>3 DEF Wins
  <2>2. ASSUME Wins(t, m) PROVE Wins(u, m)
    <3>1. PICK j \in 1 .. Len(t) : t[j][1] = m /\ t[j][2] = "accepted"
      BY <2>2 DEF Wins
    <3>2. j + 1 \in 1 .. Len(u) /\ u[j + 1][1] = m /\ u[j + 1][2] = "accepted"
      BY <1>3, <3>1
    <3> QED
      BY <3>2 DEF Wins
  <2>3. ASSUME m = w, v = "accepted" PROVE Wins(u, m)
    BY <1>3, <2>3 DEF Wins
  <2> QED
    BY <2>1, <2>2, <2>3
<1>7. ASSUME Once(t), ~Due(t, w) PROVE Once(u)
  <2> SUFFICES ASSUME NEW j \in 1 .. Len(u), NEW k \in 1 .. Len(u), u[j][1] = u[k][1]
               PROVE  j = k
    BY DEF Once
  <2>1. CASE j = 1 /\ k # 1
    <3>1. k - 1 \in 1 .. Len(t) /\ t[k - 1][1] = w
      BY <1>3, <2>1
    <3> QED
      BY <1>7, <3>1 DEF Due
  <2>2. CASE j # 1 /\ k = 1
    <3>1. j - 1 \in 1 .. Len(t) /\ t[j - 1][1] = w
      BY <1>3, <2>2
    <3> QED
      BY <1>7, <3>1 DEF Due
  <2>3. CASE j # 1 /\ k # 1
    <3>1. j - 1 \in 1 .. Len(t) /\ k - 1 \in 1 .. Len(t) /\ t[j - 1][1] = t[k - 1][1]
      BY <1>3, <2>3
    <3>2. j - 1 = k - 1
      BY <1>7, <3>1 DEF Once
    <3> QED
      BY <1>2, <3>2
  <2> QED
    BY <2>1, <2>2, <2>3
<1> QED
  BY <1>2, <1>4, <1>5, <1>6, <1>7 DEF o, u

(* The first verdict and the rest. *)
LEMMA VerdictTaken ==
  ASSUME NEW t \in Todo, t # <<>>
  PROVE  /\ Tail(t) \in Todo /\ Head(t)[1] \in Members /\ Head(t)[2] \in {"accepted", "rejected"}
         /\ Once(t) => Once(Tail(t)) /\ ~Due(Tail(t), Head(t)[1])
         /\ \A m : Due(t, m) <=> m = Head(t)[1] \/ Due(Tail(t), m)
         /\ \A m : Wins(t, m) <=> (m = Head(t)[1] /\ Head(t)[2] = "accepted") \/ Wins(Tail(t), m)
<1> DEFINE r == Tail(t)
           h == Head(t)
<1>1. /\ r \in Todo /\ h = t[1] /\ Len(t) \in Nat /\ 1 \in 1 .. Len(t)
      /\ Len(r) = Len(t) - 1 /\ \A j \in 1 .. Len(t) - 1 : r[j] = t[j + 1]
  BY DEF Todo
<1>2. t[1] \in Members \X {"accepted", "rejected"}
  BY <1>1 DEF Todo
<1>3. h[1] \in Members /\ h[2] \in {"accepted", "rejected"}
  BY <1>1, <1>2
<1> HIDE DEF r, h
<1>4. /\ \A j \in 1 .. Len(r) : j + 1 \in 1 .. Len(t) /\ t[j + 1] = r[j]
      /\ \A i \in 1 .. Len(t) : i # 1 => i - 1 \in 1 .. Len(r) /\ t[i] = r[i - 1]
  <2>1. ASSUME NEW j \in 1 .. Len(r) PROVE j + 1 \in 1 .. Len(t) /\ t[j + 1] = r[j]
    BY <1>1
  <2>2. ASSUME NEW i \in 1 .. Len(t), i # 1 PROVE i - 1 \in 1 .. Len(r) /\ t[i] = r[i - 1]
    <3>1. i - 1 \in 1 .. Len(t) - 1 /\ (i - 1) + 1 = i
      BY <1>1, <2>2
    <3> QED
      BY <1>1, <3>1
  <2> QED
    BY <2>1, <2>2
<1>5. ASSUME NEW m PROVE Due(t, m) <=> m = h[1] \/ Due(r, m)
  BY <1>1, <1>4 DEF Due
<1>6. ASSUME NEW m PROVE Wins(t, m) <=> (m = h[1] /\ h[2] = "accepted") \/ Wins(r, m)
  BY <1>1, <1>4 DEF Wins
<1>7. ASSUME Once(t) PROVE Once(r) /\ ~Due(r, h[1])
  <2>1. ASSUME NEW j \in 1 .. Len(r), NEW k \in 1 .. Len(r), r[j][1] = r[k][1] PROVE j = k
    <3>1. /\ j + 1 \in 1 .. Len(t) /\ k + 1 \in 1 .. Len(t)
          /\ t[j + 1][1] = t[k + 1][1]
      BY <1>4, <2>1
    <3>2. j + 1 = k + 1
      BY <1>7, <3>1 DEF Once
    <3> QED
      BY <1>1, <3>2
  <2>2. ASSUME NEW j \in 1 .. Len(r) PROVE r[j][1] # h[1]
    <3>1. j + 1 # 1 /\ j + 1 \in 1 .. Len(t) /\ t[j + 1] = r[j]
      BY <1>1, <1>4
    <3> QED
      BY <1>1, <1>7, <3>1 DEF Once
  <2> QED
    BY <2>1, <2>2 DEF Once, Due
<1> QED
  BY <1>1, <1>3, <1>5, <1>6, <1>7 DEF r, h
-----------------------------------------------------------------------------
(* What an operation on the arena a may do: it moves members from the      *)
(* arena to the verdicts and forgets none; whoever it accepts, it accepts  *)
(* alone and leaves no arena behind.                                       *)
FitEffect(a, e) ==
  /\ e.arena \in Arena /\ Sound(e.arena) /\ e.todo \in Todo /\ Once(e.todo)
  /\ e.arena.members # <<>> => a.members # <<>> /\ e.arena.founder = a.founder
  /\ \A m \in Members : Contains(a.members, m) <=> Contains(e.arena.members, m) \/ Due(e.todo, m)
  /\ \A m \in Members : ~(Contains(e.arena.members, m) /\ Due(e.todo, m))
  /\ \A m \in Members : Wins(e.todo, m) => e.arena.members = <<>>
  /\ \A m, n \in Members : Wins(e.todo, m) /\ Wins(e.todo, n) => m = n

LEMMA NoArenaSound == NoArena \in Arena /\ Sound(NoArena) /\ NoArena.members = <<>>
<1>1. NoArena.members = <<>> /\ NoArena.closed = FALSE /\ NoArena.eager = NoMember
  BY DEF NoArena
<1>2. IsInjective(<<>>)
  BY DEF IsInjective
<1>3. NoArena \in Arena
  BY DEF NoArena, Arena
<1> QED
  BY <1>1, <1>2, <1>3 DEF Sound

(* Nothing is moved. *)
LEMMA NothingFits ==
  ASSUME NEW a \in Arena, NEW b \in Arena, Sound(b), b.members = a.members, b.founder = a.founder
  PROVE  FitEffect(a, Nothing(b))
<1>1. Nothing(b).arena = b /\ Nothing(b).todo = <<>>
  BY DEF Nothing
<1>2. <<>> \in Todo /\ Once(<<>>)
  BY DEF Todo, Once
<1> QED
  BY <1>1, <1>2, NoneDue DEF FitEffect

LEMMA ArenaFields ==
  ASSUME NEW a \in Arena
  PROVE  /\ a.members \in Seq(Members) /\ a.closed \in BOOLEAN
         /\ a.eager \in Members \cup {NoMember} /\ a.founder \in Members \cup {NoMember}
BY DEF Arena

LEMMA ResolveFits ==
  ASSUME NEW a \in Arena, Sound(a), NEW w \in Members, Contains(a.members, w)
  PROVE  FitEffect(a, Resolve(a, w))
<1> DEFINE rest == RemoveFirst(a.members, w)
           t == <<<<w, "accepted">>>> \o Rejections(rest)
<1>1. Resolve(a, w).arena = NoArena /\ Resolve(a, w).todo = t
  BY DEF Resolve
<1>2. /\ rest \in Seq(Members) /\ IsInjective(rest)
      /\ \A x \in Members : Contains(rest, x) <=> Contains(a.members, x) /\ x # w
  BY ArenaFields, MemberRemoved DEF Sound
<1> HIDE DEF rest
<1>3. /\ Rejections(rest) \in Todo /\ Once(Rejections(rest))
      /\ \A m : (Due(Rejections(rest), m) <=> Contains(rest, m)) /\ ~Wins(Rejections(rest), m)
  BY <1>2, RejectionsFor
<1>4. ~Due(Rejections(rest), w)
  BY <1>2, <1>3
<1>5. /\ t \in Todo /\ Once(t)
      /\ \A m : Due(t, m) <=> m = w \/ Due(Rejections(rest), m)
      /\ \A m : Wins(t, m) <=> m = w \/ Wins(Rejections(rest), m)
  BY <1>3, <1>4, VerdictFirst
<1> HIDE DEF t
<1> QED
  BY <1>1, <1>2, <1>3, <1>5, NoArenaSound, NoneDue DEF FitEffect

LEMMA NonEmpty ==
  ASSUME NEW S, NEW s \in Seq(S), s # <<>>
  PROVE  /\ 1 \in 1 .. Len(s)
         /\ Len(s) # 1 => Len(s) > 1
         /\ Head(s) = s[1] /\ s[1] \in S
<1>1. Len(s) \in Nat /\ Len(s) # 0 /\ Head(s) = s[1] /\ s[1] \in S
  OBVIOUS
<1>2. PICK n \in Nat : n = Len(s) /\ n # 0
  BY <1>1
<1>3. 1 \in 1 .. n /\ (n # 1 => n > 1)
  BY <1>2
<1> QED
  BY <1>1, <1>2, <1>3

LEMMA SomeMember ==
  ASSUME NEW a \in Arena, a.members # <<>>
  PROVE  Head(a.members) \in Members /\ Contains(a.members, Head(a.members))
<1>1. /\ 1 \in 1 .. Len(a.members) /\ Head(a.members) = a.members[1]
      /\ a.members[1] \in Members
  BY ArenaFields, NonEmpty
<1> QED
  BY <1>1 DEF Contains

LEMMA CloseFits ==
  ASSUME NEW a \in Arena, Sound(a)
  PROVE  FitEffect(a, Close(a))
<1>1. CASE a.members = <<>>
  BY <1>1, NothingFits DEF Close
<1>2. CASE a.members # <<>> /\ a.eager # NoMember
  BY <1>2, ArenaFields, ResolveFits DEF Close, Sound
<1>3. CASE a.members # <<>> /\ a.eager = NoMember /\ Len(a.members) = 1
  BY <1>3, SomeMember, ResolveFits DEF Close
<1>4. CASE a.members # <<>> /\ a.eager = NoMember /\ Len(a.members) # 1
  <2> DEFINE b == [a EXCEPT !.closed = TRUE]
  <2>1. b \in Arena /\ b.members = a.members /\ b.founder = a.founder /\ b.eager = a.eager
    BY DEF Arena
  <2>2. Len(a.members) > 1
    BY <1>4, ArenaFields, NonEmpty
  <2>3. Sound(b)
    BY <2>1, <2>2 DEF Sound
  <2>4. Close(a) = Nothing(b)
    BY <1>4 DEF Close
  <2> HIDE DEF b
  <2> QED
    BY <2>1, <2>3, <2>4, NothingFits
<1> QED
  BY <1>1, <1>2, <1>3, <1>4

LEMMA AcceptFits ==
  ASSUME NEW a \in Arena, Sound(a), NEW m \in Members
  PROVE  FitEffect(a, Accept(a, m))
<1>1. CASE ~Contains(a.members, m)
  BY <1>1, NothingFits DEF Accept
<1>2. CASE Contains(a.members, m) /\ a.closed
  BY <1>2, ResolveFits DEF Accept
<1>3. CASE Contains(a.members, m) /\ ~a.closed
  <2> DEFINE b == [a EXCEPT !.eager = IF @ = NoMember THEN m ELSE @]
  <2>1. /\ b \in Arena /\ b.members = a.members /\ b.founder = a.founder /\ b.closed = a.closed
        /\ b.eager = IF a.eager = NoMember THEN m ELSE a.eager
    BY DEF Arena
  <2>2. Accept(a, m) = Nothing(b)
    BY <1>3 DEF Accept
  <2> HIDE DEF b
  <2>3. Sound(b)
    BY <1>3, <2>1 DEF Sound
  <2> QED
    BY <2>1, <2>2, <2>3, NothingFits
<1> QED
  BY <1>1, <1>2, <1>3

LEMMA SweepFits ==
  ASSUME NEW a \in Arena, Sound(a)
  PROVE  FitEffect(a, Sweep(a))
<1>1. CASE a.members = <<>>
  BY <1>1, NothingFits DEF Sweep
<1>2. CASE a.members # <<>>
  BY <1>2, SomeMember, ResolveFits DEF Sweep
<1> QED
  BY <1>1, <1>2

LEMMA CancelFits ==
  ASSUME NEW a \in Arena, Sound(a)
  PROVE  FitEffect(a, Cancel(a))
<1>1. Cancel(a).arena = NoArena /\ Cancel(a).todo = Rejections(a.members)
  BY DEF Cancel
<1>2. /\ Rejections(a.members) \in Todo /\ Once(Rejections(a.members))
      /\ \A m : /\ Due(Rejections(a.members), m) <=> Contains(a.members, m)
                /\ ~Wins(Rejections(a.members), m)
  BY ArenaFields, RejectionsFor DEF Sound
<1> QED
  BY <1>1, <1>2, NoArenaSound, NoneDue DEF FitEffect

LEMMA RejectFits ==
  ASSUME NEW a \in Arena, Sound(a), NEW m \in Members
  PROVE  FitEffect(a, Reject(a, m))
<1>1. CASE ~Contains(a.members, m)
  BY <1>1, NothingFits DEF Reject
<1>2. CASE Contains(a.members, m)
  <2> DEFINE rest == Without(a, m)
             ms == RemoveFirst(a.members, m)
             one == <<<<m, "rejected">>>>
  <2>1. /\ ms \in Seq(Members) /\ IsInjective(ms) /\ Len(ms) = Len(a.members) - 1
        /\ \A x \in Members : Contains(ms, x) <=> Contains(a.members, x) /\ x # m
    BY <1>2, ArenaFields, MemberRemoved DEF Sound
  <2>2. /\ rest \in [members : Seq(Members), closed : BOOLEAN, eager : Members \cup {NoMember},
                     founder : Members \cup {NoMember}]
        /\ rest.members = ms /\ rest.closed = a.closed /\ rest.founder = a.founder
        /\ rest.eager = IF a.eager = m THEN NoMember ELSE a.eager
    <3> HIDE DEF ms
    <3>1. rest = [a EXCEPT !.members = ms, !.eager = IF @ = m THEN NoMember ELSE @]
      BY DEF Without, ms
    <3> HIDE DEF rest
    <3> QED
      BY <2>1, <3>1 DEF Arena
  <2>3. a.members # <<>>
    BY <1>2, NoneDue
  <2>4. /\ one \in Todo /\ Once(one) /\ \A x : (Due(one, x) <=> x = m) /\ ~Wins(one, x)
    <3>1. one \in Todo /\ Len(one) = 1 /\ one[1][1] = m /\ one[1][2] = "rejected"
      BY DEF Todo
    <3> HIDE DEF one
    <3> QED
      BY <3>1 DEF Once, Due, Wins
  <2>5. rest.eager # NoMember => Contains(ms, rest.eager)
    BY <1>2, <2>1, <2>2, ArenaFields, ArenaConstants DEF Sound
  <2> HIDE DEF rest, ms
  <2>6. CASE a.closed /\ Len(rest.members) = 1
    <3> DEFINE w == Head(ms)
               two == <<<<m, "rejected">>, <<w, "accepted">>>>
    <3>1. w \in Members /\ Contains(ms, w) /\ \A x : Contains(ms, x) => x = w
      <4>1. Len(ms) = 1
        BY <2>2, <2>6
      <4>2. ms # <<>>
        BY <4>1
      <4>3. w = ms[1] /\ ms[1] \in Members
        BY <2>1, <4>2, NonEmpty
      <4> QED
        BY <4>1, <4>3 DEF Contains
    <3> HIDE DEF w
    <3>2. w # m
      BY <2>1, <3>1
    <3>3. /\ two \in Todo /\ Len(two) = 2
          /\ two[1][1] = m /\ two[1][2] = "rejected" /\ two[2][1] = w /\ two[2][2] = "accepted"
      BY <3>1 DEF Todo
    <3>4. Reject(a, m).arena = NoArena /\ Reject(a, m).todo = two
      BY <1>2, <2>2, <2>6 DEF Reject, w, rest
    <3> HIDE DEF two
    <3>5. \A i \in 1 .. Len(two) : i = 1 \/ i = 2
      BY <3>3
    <3>6. /\ Once(two) /\ \A x : Due(two, x) <=> x = m \/ x = w
          /\ \A x : Wins(two, x) <=> x = w
      BY <3>2, <3>3, <3>5 DEF Once, Due, Wins
    <3>7. \A x \in Members : Contains(a.members, x) <=> x = m \/ x = w
      BY <1>2, <2>1, <3>1
    <3> QED
      BY <3>3, <3>4, <3>6, <3>7, NoArenaSound, NoneDue DEF FitEffect
  <2>7. CASE ~(a.closed /\ Len(rest.members) = 1) /\ ms = <<>>
    <3>1. Reject(a, m).arena = NoArena /\ Reject(a, m).todo = one
      BY <1>2, <2>2, <2>7 DEF Reject, rest
    <3> HIDE DEF one
    <3>2. \A x \in Members : Contains(a.members, x) <=> x = m
      BY <1>2, <2>1, <2>7, NoneDue
    <3> QED
      BY <2>4, <3>1, <3>2, NoArenaSound, NoneDue DEF FitEffect
  <2>8. CASE ~(a.closed /\ Len(rest.members) = 1) /\ ms # <<>>
    <3>1. Reject(a, m).arena = rest /\ Reject(a, m).todo = one
      BY <1>2, <2>2, <2>8 DEF Reject, rest
    <3> HIDE DEF one
    <3>2. a.closed => Len(ms) > 1
      <4>1. Len(ms) # 1 => Len(ms) > 1
        BY <2>1, <2>8, NonEmpty
      <4> QED
        BY <2>2, <2>8, <4>1
    <3>3. rest \in Arena /\ Sound(rest)
      BY <2>1, <2>2, <2>5, <3>2 DEF Arena, Sound
    <3> QED
      BY <1>2, <2>1, <2>2, <2>3, <2>4, <3>1, <3>3 DEF FitEffect
  <2> QED
    BY <2>6, <2>7, <2>8
<1> QED
  BY <1>1, <1>2
-----------------------------------------------------------------------------
(* The stack: what a call put on top of it, or taken from it, changes. *)
LEMMA CallPushed ==
  ASSUME NEW C \in Seq(Calls), NEW f \in Calls
  PROVE  LET D == Append(C, f)
         IN  /\ D \in Seq(Calls) /\ Len(D) = Len(C) + 1 /\ Len(C) \in Nat /\ D[Len(C) + 1] = f
             /\ \A i \in 1 .. Len(C) : D[i] = C[i]
             /\ \A i : ResolvingAt(D, i) <=> ResolvingAt(C, i) \/ (i = Len(C) + 1 /\ f.op = "resolve")
<1> DEFINE D == Append(C, f)
<1>1. /\ D \in Seq(Calls) /\ Len(D) = Len(C) + 1 /\ Len(C) \in Nat /\ D[Len(C) + 1] = f
      /\ \A i \in 1 .. Len(C) : D[i] = C[i]
  BY AppendProperties
<1> HIDE DEF D
<1>2. ASSUME NEW i
      PROVE  ResolvingAt(D, i) <=> ResolvingAt(C, i) \/ (i = Len(C) + 1 /\ f.op = "resolve")
  <2>1. i \in 1 .. Len(D) <=> i \in 1 .. Len(C) \/ i = Len(C) + 1
    BY <1>1
  <2>2. i \in 1 .. Len(C) => i # Len(C) + 1
    BY <1>1
  <2> QED
    BY <1>1, <2>1, <2>2 DEF ResolvingAt
<1> QED
  BY <1>1, <1>2 DEF D

(* Two stacks with the same resolutions. *)
Alike(C, D) ==
  /\ D \in Seq(Calls) /\ (Apart(C) <=> Apart(D))
  /\ \A m : (DueIn(C, m) <=> DueIn(D, m)) /\ (WinsIn(C, m) <=> WinsIn(D, m))
  /\ \A p : ResolvedIn(C, p) <=> ResolvedIn(D, p)

LEMMA AlikeJoined ==
  ASSUME NEW C, NEW D, NEW E, Alike(C, D)
  PROVE  Alike(D, E) => Alike(C, E)
BY DEF Alike

LEMMA OtherPushed ==
  ASSUME NEW C \in Seq(Calls), NEW f \in Calls, f.op # "resolve"
  PROVE  Alike(C, Append(C, f)) /\ Alike(Append(C, f), C)
<1> DEFINE D == Append(C, f)
<1>1. D \in Seq(Calls) /\ \A i \in 1 .. Len(C) : D[i] = C[i]
  BY CallPushed
<1>2. \A i : ResolvingAt(D, i) <=> ResolvingAt(C, i)
  BY CallPushed
<1> HIDE DEF D
<1>3. \A i : ResolvingAt(C, i) => i \in 1 .. Len(C) /\ i \in 1 .. Len(D) /\ D[i] = C[i]
  BY <1>1, <1>2 DEF ResolvingAt
<1>4. ASSUME NEW m
      PROVE  (DueIn(C, m) <=> DueIn(D, m)) /\ (WinsIn(C, m) <=> WinsIn(D, m))
  BY <1>2, <1>3 DEF DueIn, WinsIn
<1>5. ASSUME NEW p PROVE ResolvedIn(C, p) <=> ResolvedIn(D, p)
  BY <1>2, <1>3 DEF ResolvedIn
<1>6. Apart(C) <=> Apart(D)
  <2>1. (\A i \in 1 .. Len(C) : ResolvingAt(C, i) => Once(C[i].todo))
          <=> \A i \in 1 .. Len(D) : ResolvingAt(D, i) => Once(D[i].todo)
    BY <1>2, <1>3
  <2>2. ASSUME Apart(C) PROVE Apart(D)
    BY <1>2, <1>3, <2>1, <2>2 DEF Apart
  <2>3. ASSUME Apart(D) PROVE Apart(C)
    BY <1>2, <1>3, <2>1, <2>3 DEF Apart
  <2> QED
    BY <2>2, <2>3
<1> QED
  BY <1>1, <1>4, <1>5, <1>6 DEF Alike, D

LEMMA ResolutionPushed ==
  ASSUME NEW C \in Seq(Calls), NEW f \in ResolveCall
  PROVE  LET D == Append(C, f)
         IN  /\ D \in Seq(Calls)
             /\ \A m : DueIn(D, m) <=> DueIn(C, m) \/ Due(f.todo, m)
             /\ \A m : WinsIn(D, m) <=> WinsIn(C, m) \/ Wins(f.todo, m)
             /\ \A p : ResolvedIn(D, p) <=> ResolvedIn(C, p) \/ f.pointer = p
             /\ Apart(D) <=> /\ Apart(C) /\ Once(f.todo) /\ ~ResolvedIn(C, f.pointer)
                             /\ \A m \in Members : ~(DueIn(C, m) /\ Due(f.todo, m))
<1> DEFINE D == Append(C, f)
           l == Len(C) + 1
<1>0. f \in Calls /\ f.op = "resolve"
  BY DEF Calls, ResolveCall
<1>1. /\ D \in Seq(Calls) /\ Len(D) = Len(C) + 1 /\ Len(C) \in Nat /\ D[l] = f
      /\ \A i \in 1 .. Len(C) : D[i] = C[i]
  BY <1>0, CallPushed
<1>2. \A i : ResolvingAt(D, i) <=> ResolvingAt(C, i) \/ i = l
  BY <1>0, CallPushed
<1>3. l \in 1 .. Len(D) /\ l \notin 1 .. Len(C)
  BY <1>1
<1>4. \A i \in 1 .. Len(C) : i \in 1 .. Len(D)
  BY <1>1
<1> HIDE DEF D, l
<1>5. \A i : ResolvingAt(C, i) => i \in 1 .. Len(C) /\ i \in 1 .. Len(D) /\ D[i] = C[i] /\ i # l
  BY <1>1, <1>3, <1>4 DEF ResolvingAt
<1>6. ASSUME NEW m PROVE DueIn(D, m) <=> DueIn(C, m) \/ Due(f.todo, m)
  BY <1>1, <1>2, <1>3, <1>5 DEF DueIn
<1>7. ASSUME NEW m PROVE WinsIn(D, m) <=> WinsIn(C, m) \/ Wins(f.todo, m)
  BY <1>1, <1>2, <1>3, <1>5 DEF WinsIn
<1>8. ASSUME NEW p PROVE ResolvedIn(D, p) <=> ResolvedIn(C, p) \/ f.pointer = p
  BY <1>1, <1>2, <1>3, <1>5 DEF ResolvedIn
<1>9. ASSUME Apart(D)
      PROVE  /\ Apart(C) /\ Once(f.todo) /\ ~ResolvedIn(C, f.pointer)
             /\ \A m \in Members : ~(DueIn(C, m) /\ Due(f.todo, m))
  <2>1. ResolvingAt(D, l) /\ D[l] = f
    BY <1>1, <1>2
  <2>2. Apart(C)
    BY <1>2, <1>5, <1>9 DEF Apart
  <2>3. Once(f.todo)
    BY <1>3, <1>9, <2>1 DEF Apart
  <2>4. ASSUME NEW i, ResolvingAt(C, i)
        PROVE  /\ C[i].pointer # f.pointer
               /\ \A m \in Members : ~(Due(C[i].todo, m) /\ Due(f.todo, m))
    <3>1. ResolvingAt(D, i) /\ i \in 1 .. Len(D) /\ D[i] = C[i] /\ i # l
      BY <1>2, <1>5, <2>4
    <3> QED
      BY <1>3, <1>9, <2>1, <3>1 DEF Apart
  <2> QED
    BY <2>2, <2>3, <2>4 DEF ResolvedIn, DueIn
<1>10. ASSUME /\ Apart(C) /\ Once(f.todo) /\ ~ResolvedIn(C, f.pointer)
              /\ \A m \in Members : ~(DueIn(C, m) /\ Due(f.todo, m))
       PROVE  Apart(D)
  <2>1. ASSUME NEW i \in 1 .. Len(D), ResolvingAt(D, i) PROVE Once(D[i].todo)
    BY <1>1, <1>2, <1>5, <1>10, <2>1 DEF Apart
  <2>2. ASSUME NEW i, ResolvingAt(C, i)
        PROVE  /\ C[i].pointer # f.pointer
               /\ \A m \in Members : ~(Due(C[i].todo, m) /\ Due(f.todo, m))
    BY <1>5, <1>10, <2>2 DEF ResolvedIn, DueIn
  <2>3. ASSUME NEW i \in 1 .. Len(D), NEW k \in 1 .. Len(D), ResolvingAt(D, i), ResolvingAt(D, k)
        PROVE  /\ D[i].pointer = D[k].pointer => i = k
               /\ \A m \in Members : Due(D[i].todo, m) /\ Due(D[k].todo, m) => i = k
    <3>1. CASE i = l /\ k = l
      BY <3>1
    <3>2. CASE i = l /\ ResolvingAt(C, k)
      BY <1>1, <1>5, <2>2, <3>2
    <3>3. CASE ResolvingAt(C, i) /\ k = l
      BY <1>1, <1>5, <2>2, <3>3
    <3>4. CASE ResolvingAt(C, i) /\ ResolvingAt(C, k)
      BY <1>5, <1>10, <3>4 DEF Apart
    <3> QED
      BY <1>2, <2>3, <3>1, <3>2, <3>3, <3>4
  <2> QED
    BY <2>1, <2>3 DEF Apart
<1> QED
  BY <1>1, <1>6, <1>7, <1>8, <1>9, <1>10 DEF D

LEMMA CallPopped ==
  ASSUME NEW C \in Seq(Calls), C # <<>>
  PROVE  /\ Last(C) \in Calls /\ Front(C) \in Seq(Calls) /\ C = Append(Front(C), Last(C))
         /\ Last(C).op = "resolve" => Last(C) \in ResolveCall
         /\ Last(C).op # "resolve" => Alike(C, Front(C))
<1>1. Last(C) \in Calls /\ Front(C) \in Seq(Calls) /\ C = Append(Front(C), Last(C))
  BY DEF Last, Front
<1>2. \A f \in Calls : f.op = "resolve" => f \in ResolveCall
  BY DEF Calls, ResolveCall, DownCall, UpCall, ActivateCall
<1>3. ASSUME Last(C).op # "resolve" PROVE Alike(C, Front(C))
  BY <1>1, <1>3, OtherPushed
<1> QED
  BY <1>1, <1>2, <1>3
-----------------------------------------------------------------------------
(* The four things a step does to a fitting state.  A stack with the same  *)
(* resolutions fits as well:                                               *)
LEMMA StackReplaced ==
  ASSUME NEW A, NEW R, NEW V, NEW C, NEW act, NEW D, Fitting(A, R, V, C, act), Alike(C, D)
  PROVE  Fitting(A, R, V, D, act)
<1>1. MembersPlaced(A, V, D)
  BY DEF Fitting, Alike, MembersPlaced
<1>2. OneWinner(A, V, D)
  BY DEF Fitting, Alike, OneWinner, Won
<1> QED
  BY <1>1, <1>2 DEF Fitting, Alike

(* An operation takes the members of its effect out of the arena and puts  *)
(* their verdicts on the stack.                                            *)
LEMMA EffectMoved ==
  ASSUME NEW A, NEW R, NEW V, NEW C, NEW act, Fitting(A, R, V, C, act),
         NEW p \in Pointers, p \notin R, NEW e, FitEffect(A[p], e),
         NEW f \in ResolveCall, f.pointer = p, f.todo = e.todo
  PROVE  Fitting([A EXCEPT ![p] = e.arena], R \cup {p}, V, Append(C, f), act)
<1> DEFINE B == [A EXCEPT ![p] = e.arena]
           D == Append(C, f)
<1>1. /\ B \in [Pointers -> Arena] /\ B[p] = e.arena
      /\ \A q \in Pointers : q # p => B[q] = A[q]
  BY DEF Fitting, FitEffect
<1>2. /\ D \in Seq(Calls)
      /\ \A m : DueIn(D, m) <=> DueIn(C, m) \/ Due(e.todo, m)
      /\ \A m : WinsIn(D, m) <=> WinsIn(C, m) \/ Wins(e.todo, m)
      /\ \A q : ResolvedIn(D, q) <=> ResolvedIn(C, q) \/ p = q
      /\ Apart(D) <=> /\ Apart(C) /\ Once(e.todo) /\ ~ResolvedIn(C, p)
                      /\ \A m \in Members : ~(DueIn(C, m) /\ Due(e.todo, m))
  BY ResolutionPushed DEF Fitting
<1> HIDE DEF B, D
<1>3. \A m \in Members : Due(e.todo, m) =>
        Holds(A, p, m) /\ ~DueIn(C, m) /\ V[m].is = "waiting" /\ V[m].arena = A[p].founder
  BY DEF Fitting, FitEffect, MembersPlaced, Holds
<1>4. Apart(D)
  BY <1>2, <1>3 DEF Fitting, FitEffect
<1>5. \A q \in Pointers : Sound(B[q])
  BY <1>1 DEF Fitting, FitEffect
<1>6. \A q \in Pointers, m \in Members : Holds(B, q, m) => Holds(A, q, m) /\ ~Due(e.todo, m)
  <2>1. ASSUME NEW q \in Pointers, NEW m \in Members, Holds(B, q, m), q # p
        PROVE  Holds(A, q, m) /\ ~Due(e.todo, m)
    BY <1>1, <1>3, <2>1 DEF Fitting, MembersPlaced, Holds
  <2>2. ASSUME NEW m \in Members, Holds(B, p, m)
        PROVE  Holds(A, p, m) /\ ~Due(e.todo, m)
    BY <1>1, <2>2 DEF FitEffect, Holds
  <2> QED
    BY <2>1, <2>2
<1>7. \A q \in Pointers : Stands(B, q) => Stands(A, q) /\ B[q].founder = A[q].founder
  BY <1>1 DEF FitEffect, Stands
<1>8. \A q \in Pointers, m \in Members : Holds(A, q, m) => Stands(A, q)
  BY NoneDue DEF Holds, Stands
<1>9. \A q \in Pointers, m \in Members : Holds(B, q, m) => Stands(B, q)
  BY NoneDue DEF Holds, Stands
<1>10. MembersPlaced(B, V, D)
  <2>1. \A q, r \in Pointers, m \in Members : Holds(B, q, m) /\ Holds(B, r, m) => q = r
    BY <1>6 DEF Fitting, MembersPlaced
  <2>2. \A q \in Pointers, m \in Members : Holds(B, q, m) =>
          V[m].is = "waiting" /\ V[m].arena = B[q].founder /\ ~DueIn(D, m)
    BY <1>2, <1>6, <1>7, <1>9 DEF Fitting, MembersPlaced
  <2>3. \A m \in Members : DueIn(D, m) => V[m].is = "waiting"
    BY <1>2, <1>3 DEF Fitting, MembersPlaced
  <2>4. ASSUME NEW m \in Members, V[m].is = "waiting", ~DueIn(D, m)
        PROVE  \E q \in Pointers : Holds(B, q, m)
    <3>1. PICK q \in Pointers : Holds(A, q, m)
      BY <1>2, <2>4 DEF Fitting, MembersPlaced
    <3>2. q = p => Holds(B, q, m)
      BY <1>1, <1>2, <2>4, <3>1 DEF FitEffect, Holds
    <3>3. q # p => Holds(B, q, m)
      BY <1>1, <3>1 DEF Holds
    <3> QED
      BY <3>2, <3>3
  <2> QED
    BY <2>1, <2>2, <2>3, <2>4 DEF Fitting, MembersPlaced
<1>11. \A m \in Members : Wins(e.todo, m) =>
         /\ ~Stands(B, p) /\ Stands(A, p) /\ V[m].arena = A[p].founder
         /\ \A n \in Members : Wins(e.todo, n) => n = m
  BY <1>1, <1>3, <1>8, WinnersDue DEF FitEffect, Stands
<1>12. \A m : Won(V, D, m) <=> Won(V, C, m) \/ Wins(e.todo, m)
  BY <1>2 DEF Won
<1>13. OneWinner(B, V, D)
  <2>1. \A q, r \in Pointers : Stands(B, q) /\ Stands(B, r) /\ B[q].founder = B[r].founder => q = r
    BY <1>7 DEF Fitting, OneWinner
  <2>2. ASSUME NEW m \in Members, NEW n \in Members, Won(V, D, m), Won(V, D, n),
               V[m].arena = V[n].arena
        PROVE  m = n
    <3>1. CASE Wins(e.todo, m)
      BY <1>11, <1>12, <2>2, <3>1 DEF Fitting, OneWinner
    <3>2. CASE Wins(e.todo, n)
      BY <1>11, <1>12, <2>2, <3>2 DEF Fitting, OneWinner
    <3>3. CASE ~Wins(e.todo, m) /\ ~Wins(e.todo, n)
      BY <1>12, <2>2, <3>3 DEF Fitting, OneWinner
    <3> QED
      BY <3>1, <3>2, <3>3
  <2>3. ASSUME NEW m \in Members, NEW q \in Pointers, Won(V, D, m), Stands(B, q)
        PROVE  V[m].arena # B[q].founder
    <3>1. CASE Wins(e.todo, m)
      BY <1>7, <1>11, <2>3, <3>1 DEF Fitting, OneWinner
    <3>2. CASE ~Wins(e.todo, m)
      BY <1>7, <1>12, <2>3, <3>2 DEF Fitting, OneWinner
    <3> QED
      BY <3>1, <3>2
  <2> QED
    BY <2>1, <2>2, <2>3 DEF Fitting, OneWinner
<1>14. \A q \in Pointers : q \in R \cup {p} <=> ResolvedIn(D, q)
  BY <1>2 DEF Fitting
<1> QED
  BY <1>1, <1>2, <1>4, <1>5, <1>10, <1>13, <1>14 DEF Fitting, B, D

(* The next verdict of the resolution on top is given. *)
ToldOf(V, t) == [V EXCEPT ![t[1]].is = IF @ = "waiting" THEN t[2] ELSE "twice"]

LEMMA VerdictTold ==
  ASSUME NEW A, NEW R, NEW V, NEW b \in Seq(Calls), NEW f \in ResolveCall, NEW act,
         Fitting(A, R, V, Append(b, f), act), f.todo # <<>>,
         NEW g \in ResolveCall, g.pointer = f.pointer, g.todo = Tail(f.todo)
  PROVE  Fitting(A, R, ToldOf(V, Head(f.todo)), Append(b, g), act)
<1> DEFINE t == Head(f.todo)
           h == t[1]
           W == ToldOf(V, t)
           C == Append(b, f)
           D == Append(b, g)
<1>1. f.todo \in Todo /\ f.pointer \in Pointers
  BY DEF ResolveCall
<1>2. /\ h \in Members /\ t[2] \in {"accepted", "rejected"}
      /\ Once(f.todo) => Once(g.todo) /\ ~Due(g.todo, h)
      /\ \A m : Due(f.todo, m) <=> m = h \/ Due(g.todo, m)
      /\ \A m : Wins(f.todo, m) <=> (m = h /\ t[2] = "accepted") \/ Wins(g.todo, m)
  BY <1>1, VerdictTaken
<1>3. /\ C \in Seq(Calls)
      /\ \A m : DueIn(C, m) <=> DueIn(b, m) \/ Due(f.todo, m)
      /\ \A m : WinsIn(C, m) <=> WinsIn(b, m) \/ Wins(f.todo, m)
      /\ \A p : ResolvedIn(C, p) <=> ResolvedIn(b, p) \/ f.pointer = p
      /\ Apart(C) <=> /\ Apart(b) /\ Once(f.todo) /\ ~ResolvedIn(b, f.pointer)
                      /\ \A m \in Members : ~(DueIn(b, m) /\ Due(f.todo, m))
  BY ResolutionPushed
<1>4. /\ D \in Seq(Calls)
      /\ \A m : DueIn(D, m) <=> DueIn(b, m) \/ Due(g.todo, m)
      /\ \A m : WinsIn(D, m) <=> WinsIn(b, m) \/ Wins(g.todo, m)
      /\ \A p : ResolvedIn(D, p) <=> ResolvedIn(b, p) \/ f.pointer = p
      /\ Apart(D) <=> /\ Apart(b) /\ Once(g.todo) /\ ~ResolvedIn(b, f.pointer)
                      /\ \A m \in Members : ~(DueIn(b, m) /\ Due(g.todo, m))
  BY ResolutionPushed
<1>5. Fitting(A, R, V, C, act) /\ Apart(C)
  BY DEF Fitting
<1> HIDE DEF C, D
<1>6. V[h].is = "waiting" /\ DueIn(C, h)
  BY <1>2, <1>3, <1>5 DEF Fitting, MembersPlaced
<1>7. /\ W \in [Members -> Verdict] /\ W[h].is = t[2] /\ W[h].arena = V[h].arena
      /\ \A m \in Members : m # h => W[m] = V[m]
  <2>1. V \in [Members -> Verdict] /\ V[h] \in Verdict
    BY <1>2, <1>5 DEF Fitting
  <2>2. W = [V EXCEPT ![h] = [V[h] EXCEPT !.is = t[2]]]
    BY <1>2, <1>6, <2>1 DEF ToldOf
  <2>3. LET v == [V[h] EXCEPT !.is = t[2]]
        IN  v \in Verdict /\ v.is = t[2] /\ v.arena = V[h].arena
    BY <1>2, <2>1 DEF Verdict
  <2> QED
    BY <1>2, <2>1, <2>2, <2>3
<1> HIDE DEF W, t, h
<1>8. ~DueIn(D, h)
  BY <1>2, <1>3, <1>4, <1>5
<1>9. ~WinsIn(D, h)
  BY <1>8, WinnersDue DEF DueIn, WinsIn
<1>10. \A m \in Members : m # h => (DueIn(D, m) <=> DueIn(C, m)) /\ (WinsIn(D, m) <=> WinsIn(C, m))
  BY <1>2, <1>3, <1>4
<1>11. Apart(D)
  BY <1>2, <1>3, <1>4, <1>5
<1>12. \A m \in Members : W[m].arena = V[m].arena /\ (W[m].is # "new" <=> V[m].is # "new")
  BY <1>2, <1>6, <1>7
<1>13. \A m \in Members : Won(W, D, m) => Won(V, C, m)
  <2>1. Won(W, D, h) => Won(V, C, h)
    BY <1>2, <1>3, <1>7, <1>9 DEF Won
  <2>2. \A m \in Members : m # h /\ Won(W, D, m) => Won(V, C, m)
    BY <1>7, <1>10 DEF Won
  <2> QED
    BY <2>1, <2>2
<1>14. \A p \in Pointers : ~Holds(A, p, h)
  BY <1>2, <1>5, <1>6 DEF Fitting, MembersPlaced
<1>15. MembersPlaced(A, W, D)
  <2>1. \A p, q \in Pointers, m \in Members : Holds(A, p, m) /\ Holds(A, q, m) => p = q
    BY <1>5 DEF Fitting, MembersPlaced
  <2>2. \A p \in Pointers, m \in Members : Holds(A, p, m) =>
          W[m].is = "waiting" /\ W[m].arena = A[p].founder /\ ~DueIn(D, m)
    BY <1>5, <1>7, <1>10, <1>14 DEF Fitting, MembersPlaced
  <2>3. \A m \in Members : DueIn(D, m) => W[m].is = "waiting"
    BY <1>5, <1>7, <1>8, <1>10 DEF Fitting, MembersPlaced
  <2>4. \A m \in Members : W[m].is = "waiting" => DueIn(D, m) \/ \E p \in Pointers : Holds(A, p, m)
    BY <1>2, <1>5, <1>7, <1>10 DEF Fitting, MembersPlaced
  <2>5. \A m \in Members : W[m].is # "twice"
    BY <1>2, <1>5, <1>7 DEF Fitting, MembersPlaced
  <2> QED
    BY <2>1, <2>2, <2>3, <2>4, <2>5 DEF MembersPlaced
<1>16. OneWinner(A, W, D)
  BY <1>5, <1>12, <1>13 DEF Fitting, OneWinner
<1>17. \A m \in act : W[m].is = "accepted"
  BY <1>5, <1>6, <1>7 DEF Fitting
<1>18. \A p \in Pointers : p \in R <=> ResolvedIn(D, p)
  BY <1>3, <1>4, <1>5 DEF Fitting
<1> QED
  BY <1>4, <1>5, <1>7, <1>11, <1>15, <1>16, <1>17, <1>18 DEF Fitting, W, D, h, t

(* The resolution on top has given its last verdict. *)
LEMMA ResolutionEnded ==
  ASSUME NEW A, NEW R, NEW V, NEW b \in Seq(Calls), NEW f \in ResolveCall, NEW act,
         Fitting(A, R, V, Append(b, f), act), f.todo = <<>>
  PROVE  Fitting(A, R \ {f.pointer}, V, b, act)
<1> DEFINE C == Append(b, f)
<1>1. /\ \A m : DueIn(C, m) <=> DueIn(b, m)
      /\ \A m : WinsIn(C, m) <=> WinsIn(b, m)
      /\ \A p : ResolvedIn(C, p) <=> ResolvedIn(b, p) \/ f.pointer = p
      /\ Apart(C) => Apart(b) /\ ~ResolvedIn(b, f.pointer)
  BY ResolutionPushed, NoneDue
<1>2. Fitting(A, R, V, C, act)
  OBVIOUS
<1> HIDE DEF C
<1>3. MembersPlaced(A, V, b)
  BY <1>1, <1>2 DEF Fitting, MembersPlaced
<1>4. OneWinner(A, V, b)
  BY <1>1, <1>2 DEF Fitting, OneWinner, Won
<1>5. \A p \in Pointers : p \in R \ {f.pointer} <=> ResolvedIn(b, p)
  BY <1>1, <1>2 DEF Fitting
<1> QED
  BY <1>1, <1>2, <1>3, <1>4, <1>5 DEF Fitting

LEMMA MemberAppended ==
  ASSUME NEW S, NEW s \in Seq(S), IsInjective(s), NEW e \in S, ~Contains(s, e)
  PROVE  /\ Append(s, e) \in Seq(S) /\ Append(s, e) # <<>> /\ IsInjective(Append(s, e))
         /\ \A x : Contains(Append(s, e), x) <=> Contains(s, x) \/ x = e
<1> DEFINE u == Append(s, e)
<1>1. /\ u \in Seq(S) /\ Len(u) = Len(s) + 1 /\ Len(s) \in Nat /\ u[Len(s) + 1] = e
      /\ \A i \in 1 .. Len(s) : u[i] = s[i]
  BY AppendProperties
<1> HIDE DEF u
<1>2. u # <<>>
  BY <1>1
<1>3. \A i \in 1 .. Len(u) : i \in 1 .. Len(s) \/ i = Len(s) + 1
  BY <1>1
<1>4. \A i \in 1 .. Len(s) : i \in 1 .. Len(u) /\ s[i] # e
  BY <1>1 DEF Contains
<1>5. Len(s) + 1 \in 1 .. Len(u)
  BY <1>1
<1>6. IsInjective(u)
  BY <1>1, <1>3, <1>4 DEF IsInjective
<1>7. \A x : Contains(u, x) <=> Contains(s, x) \/ x = e
  BY <1>1, <1>3, <1>4, <1>5 DEF Contains
<1> QED
  BY <1>1, <1>2, <1>6, <1>7 DEF u

(* A new member joins. *)
FounderOf(A, p, m) == IF A[p].members = <<>> THEN m ELSE A[p].founder
AddedTo(A, p, m) == [A EXCEPT ![p].members = Append(@, m), ![p].founder = FounderOf(A, p, m)]
WaitingFor(V, m, founder) == [V EXCEPT ![m] = [is |-> "waiting", arena |-> founder]]

LEMMA MemberAdded ==
  ASSUME NEW A, NEW R, NEW V, NEW C, NEW act, Fitting(A, R, V, C, act),
         NEW p \in Pointers, ~A[p].closed, NEW m \in Members, V[m].is = "new"
  PROVE  Fitting(AddedTo(A, p, m), R, WaitingFor(V, m, FounderOf(A, p, m)), C, act)
<1> DEFINE founder == FounderOf(A, p, m)
           ms == Append(A[p].members, m)
           B == AddedTo(A, p, m)
           W == WaitingFor(V, m, founder)
<1>1. /\ A \in [Pointers -> Arena] /\ A[p] \in Arena /\ V \in [Members -> Verdict]
      /\ A[p].members \in Seq(Members) /\ IsInjective(A[p].members)
      /\ A[p].eager # NoMember => Contains(A[p].members, A[p].eager)
  BY ArenaFields DEF Fitting, Sound
<1>2. \A q \in Pointers : ~Holds(A, q, m)
  BY DEF Fitting, MembersPlaced
<1>3. ~DueIn(C, m) /\ ~WinsIn(C, m) /\ m \notin act
  BY WinnersDue DEF Fitting, MembersPlaced, DueIn, WinsIn
<1>4. \A n \in Members : V[n].is # "new" => V[n].arena \in Members /\ V[n].arena # m /\ n # m
  BY DEF Fitting, OneWinner
<1>5. ASSUME NEW q \in Pointers, Stands(A, q)
      PROVE  A[q].founder \in Members /\ A[q].founder # m /\ V[A[q].founder].is # "new"
  <2>1. PICK n \in Members : Holds(A, q, n)
    <3>1. A[q] \in Arena
      BY <1>1
    <3> QED
      BY <1>5, <3>1, SomeMember DEF Stands, Holds
  <2>2. V[n].is # "new" /\ V[n].arena = A[q].founder
    BY <2>1 DEF Fitting, MembersPlaced
  <2> QED
    BY <1>4, <2>2 DEF Fitting, OneWinner
<1>6. /\ founder \in Members /\ (founder = m \/ V[founder].is # "new")
      /\ Stands(A, p) => founder = A[p].founder
      /\ ~Stands(A, p) => founder = m
  BY <1>5 DEF Stands, FounderOf
<1>7. ms \in Seq(Members) /\ ms # <<>> /\ IsInjective(ms)
      /\ \A x : Contains(ms, x) <=> Contains(A[p].members, x) \/ x = m
  BY <1>1, <1>2, MemberAppended DEF Holds
<1> HIDE DEF founder, ms
<1>8. /\ B \in [Pointers -> Arena]
      /\ B[p].members = ms /\ B[p].founder = founder
      /\ B[p].closed = A[p].closed /\ B[p].eager = A[p].eager
      /\ \A q \in Pointers : q # p => B[q] = A[q]
  <2> DEFINE c == [A[p] EXCEPT !.members = ms, !.founder = founder]
  <2>1. B = [A EXCEPT ![p] = c]
    BY <1>1 DEF ms, founder, AddedTo
  <2>2. c \in Arena /\ c.members = ms /\ c.founder = founder /\ c.closed = A[p].closed
        /\ c.eager = A[p].eager
    BY <1>1, <1>6, <1>7 DEF Arena
  <2> HIDE DEF B, c
  <2> QED
    BY <1>1, <2>1, <2>2
<1>9. /\ W \in [Members -> Verdict] /\ W[m].is = "waiting" /\ W[m].arena = founder
      /\ \A n \in Members : n # m => W[n] = V[n]
  BY <1>1, <1>6 DEF Verdict, WaitingFor
<1> HIDE DEF B, W
<1>10. \A q \in Pointers : Sound(B[q])
  <2>1. Sound(B[p])
    BY <1>1, <1>7, <1>8 DEF Sound
  <2> QED
    BY <1>8, <2>1 DEF Fitting
<1>11. \A q \in Pointers, n \in Members : Holds(B, q, n) <=> Holds(A, q, n) \/ (q = p /\ n = m)
  BY <1>7, <1>8 DEF Holds
<1>12. \A q \in Pointers : (Stands(B, q) <=> Stands(A, q) \/ q = p)
                           /\ (Stands(A, q) => B[q].founder = A[q].founder)
  BY <1>6, <1>7, <1>8 DEF Stands
<1>13. MembersPlaced(B, W, C)
  <2>1. \A q, r \in Pointers, n \in Members : Holds(B, q, n) /\ Holds(B, r, n) => q = r
    BY <1>2, <1>11 DEF Fitting, MembersPlaced
  <2>2. ASSUME NEW q \in Pointers, NEW n \in Members, Holds(B, q, n)
        PROVE  W[n].is = "waiting" /\ W[n].arena = B[q].founder /\ ~DueIn(C, n)
    <3>1. CASE n = m
      BY <1>2, <1>3, <1>8, <1>9, <1>11, <2>2, <3>1
    <3>2. CASE n # m
      <4>1. Holds(A, q, n) /\ Stands(A, q)
        BY <1>11, <2>2, <3>2, NoneDue DEF Holds, Stands
      <4> QED
        BY <1>9, <1>12, <3>2, <4>1 DEF Fitting, MembersPlaced
    <3> QED
      BY <3>1, <3>2
  <2>3. \A n \in Members : DueIn(C, n) => W[n].is = "waiting"
    BY <1>9 DEF Fitting, MembersPlaced
  <2>4. \A n \in Members : W[n].is = "waiting" => DueIn(C, n) \/ \E q \in Pointers : Holds(B, q, n)
    BY <1>9, <1>11 DEF Fitting, MembersPlaced
  <2>5. \A n \in Members : W[n].is # "twice"
    BY <1>9 DEF Fitting, MembersPlaced
  <2> QED
    BY <2>1, <2>2, <2>3, <2>4, <2>5 DEF MembersPlaced
<1>14. \A n \in Members : Won(W, C, n) => n # m /\ Won(V, C, n) /\ W[n] = V[n] /\ V[n].is # "new"
  <2>1. \A n \in Members : Won(W, C, n) => n # m
    BY <1>3, <1>9 DEF Won
  <2>2. \A n \in Members : WinsIn(C, n) => V[n].is # "new"
    BY WinnersDue DEF Fitting, MembersPlaced, DueIn, WinsIn
  <2> QED
    BY <1>9, <2>1, <2>2 DEF Won
<1>15. OneWinner(B, W, C)
  <2>1. ASSUME NEW n \in Members, W[n].is # "new"
        PROVE  W[n].arena \in Members /\ W[W[n].arena].is # "new"
    <3>1. CASE n = m
      BY <1>6, <1>9, <3>1
    <3>2. CASE n # m
      <4>1. /\ W[n].arena = V[n].arena /\ V[n].arena \in Members /\ V[n].arena # m
            /\ V[V[n].arena].is # "new"
        BY <1>4, <1>9, <2>1, <3>2 DEF Fitting, OneWinner
      <4> QED
        BY <1>9, <4>1
    <3> QED
      BY <3>1, <3>2
  <2>2. ASSUME NEW q \in Pointers, NEW r \in Pointers, Stands(B, q), Stands(B, r),
               B[q].founder = B[r].founder
        PROVE  q = r
    <3>1. CASE Stands(A, q) /\ Stands(A, r)
      BY <1>12, <2>2, <3>1 DEF Fitting, OneWinner
    <3>2. CASE ~Stands(A, q) /\ Stands(A, r)
      <4>1. B[q].founder = m /\ B[r].founder # m
        BY <1>5, <1>6, <1>8, <1>12, <2>2, <3>2
      <4> QED
        BY <2>2, <4>1
    <3>3. CASE Stands(A, q) /\ ~Stands(A, r)
      <4>1. B[r].founder = m /\ B[q].founder # m
        BY <1>5, <1>6, <1>8, <1>12, <2>2, <3>3
      <4> QED
        BY <2>2, <4>1
    <3>4. CASE ~Stands(A, q) /\ ~Stands(A, r)
      BY <1>12, <2>2, <3>4
    <3> QED
      BY <3>1, <3>2, <3>3, <3>4
  <2>3. \A n, o \in Members : Won(W, C, n) /\ Won(W, C, o) /\ W[n].arena = W[o].arena => n = o
    BY <1>14 DEF Fitting, OneWinner
  <2>4. ASSUME NEW n \in Members, NEW q \in Pointers, Won(W, C, n), Stands(B, q)
        PROVE  W[n].arena # B[q].founder
    <3>1. CASE Stands(A, q)
      BY <1>12, <1>14, <2>4, <3>1 DEF Fitting, OneWinner
    <3>2. CASE ~Stands(A, q)
      <4>1. B[q].founder = m
        BY <1>6, <1>8, <1>12, <2>4, <3>2
      <4> QED
        BY <1>4, <1>14, <2>4, <4>1
    <3> QED
      BY <3>1, <3>2
  <2> QED
    BY <2>1, <2>2, <2>3, <2>4 DEF OneWinner
<1>16. \A n \in act : W[n].is = "accepted"
  BY <1>3, <1>9 DEF Fitting
<1> QED
  BY <1>8, <1>9, <1>10, <1>13, <1>15, <1>16 DEF Fitting, founder, ms, B, W
-----------------------------------------------------------------------------
(* Perform, on a stack with the same resolutions. *)
LEMMA Performed ==
  ASSUME ArenaInv, NEW p \in Pointers, NEW e, FitEffect(arenas[p], e),
         NEW C, Alike(calls, C), Perform(p, e, C),
         routes' \in [Pointers -> Members \cup {NoMember}], activated' = activated
  PROVE  ArenaInv'
<1>1. Fitting(arenas, resolving, verdict, C, activated)
  BY StackReplaced DEF ArenaInv
<1>2. CASE p \in resolving
  BY <1>1, <1>2 DEF Perform, ArenaInv
<1> DEFINE f == [op |-> "resolve", pointer |-> p, todo |-> e.todo, failed |-> FALSE]
<1>3. f \in ResolveCall /\ f.pointer = p /\ f.todo = e.todo /\ e.todo \in Todo /\ C \in Seq(Calls)
  BY <1>1 DEF ResolveCall, FitEffect, Fitting
<1>4. p \notin resolving =>
        Fitting([arenas EXCEPT ![p] = e.arena], resolving \cup {p}, verdict, Append(C, f), activated)
  BY <1>1, <1>3, EffectMoved
<1>5. CASE p \notin resolving /\ e.todo = <<>>
  <2>1. Fitting([arenas EXCEPT ![p] = e.arena], (resolving \cup {p}) \ {p}, verdict, C, activated)
    BY <1>3, <1>4, <1>5, ResolutionEnded
  <2>2. (resolving \cup {p}) \ {p} = resolving
    BY <1>5
  <2> QED
    BY <1>5, <2>1, <2>2 DEF Perform, ArenaInv
<1>6. CASE p \notin resolving /\ e.todo # <<>>
  <2> DEFINE g == [op |-> "resolve", pointer |-> p, todo |-> Tail(e.todo), failed |-> FALSE]
  <2>1. g \in ResolveCall /\ g.pointer = p /\ g.todo = Tail(e.todo)
    BY <1>3, <1>6, VerdictTaken DEF ResolveCall
  <2>2. calls' = Append(C, g) /\ arenas' = [arenas EXCEPT ![p] = e.arena]
        /\ resolving' = resolving \cup {p} /\ verdict' = Told(Head(e.todo))
    BY <1>6 DEF Perform
  <2> HIDE DEF f, g
  <2>3. Told(Head(e.todo)) = ToldOf(verdict, Head(e.todo))
    BY DEF Told, ToldOf
  <2>4. Fitting(arenas', resolving', verdict', calls', activated)
    BY <1>3, <1>4, <1>6, <2>1, <2>2, <2>3, VerdictTold
  <2> QED
    BY <2>4 DEF ArenaInv
<1> QED
  BY <1>2, <1>5, <1>6

(* A step that only changes calls other than resolutions. *)
LEMMA Quiet ==
  ASSUME ArenaInv, UNCHANGED <<arenas, resolving, verdict>>, Alike(calls, calls'),
         routes' \in [Pointers -> Members \cup {NoMember}],
         activated' \subseteq Members, \A m \in activated' : verdict[m].is = "accepted"
  PROVE  ArenaInv'
<1>1. Fitting(arenas, resolving, verdict, calls', activated)
  BY StackReplaced DEF ArenaInv
<1> QED
  BY <1>1 DEF ArenaInv, Fitting

LEMMA ArenaStarts == ArenaInit => ArenaInv
<1> SUFFICES ASSUME ArenaInit PROVE ArenaInv
  OBVIOUS
<1>1. calls = <<>> /\ calls \in Seq(Calls) /\ \A i : ~ResolvingAt(calls, i)
  BY DEF ArenaInit, ResolvingAt
<1>2. /\ Apart(calls) /\ \A m : ~DueIn(calls, m) /\ ~WinsIn(calls, m)
      /\ \A p : ~ResolvedIn(calls, p)
  BY <1>1 DEF Apart, DueIn, WinsIn, ResolvedIn
<1>3. \A p \in Pointers : arenas[p] = NoArena /\ ~Stands(arenas, p)
  BY NoArenaSound DEF ArenaInit, Stands
<1>4. \A p \in Pointers, m \in Members : ~Holds(arenas, p, m)
  BY <1>3, NoneDue DEF Holds, Stands
<1>5. verdict \in [Members -> Verdict] /\ \A m \in Members : verdict[m].is = "new"
  BY DEF ArenaInit, Verdict
<1>6. MembersPlaced(arenas, verdict, calls)
  BY <1>2, <1>4, <1>5 DEF MembersPlaced
<1>7. OneWinner(arenas, verdict, calls)
  BY <1>2, <1>3, <1>5 DEF OneWinner, Won
<1>8. arenas \in [Pointers -> Arena] /\ \A p \in Pointers : Sound(arenas[p])
  BY <1>3, NoArenaSound DEF ArenaInit
<1> QED
  BY <1>1, <1>2, <1>5, <1>6, <1>7, <1>8 DEF ArenaInit, ArenaInv, Fitting

(* The same call goes on, and the effects of all operations fit. *)
LEMMA EffectsFit ==
  ASSUME ArenaInv, NEW p \in Pointers
  PROVE  /\ Alike(calls, calls) /\ calls \in Seq(Calls)
         /\ arenas[p] \in Arena /\ Sound(arenas[p])
         /\ \A e \in Effects(p) : FitEffect(arenas[p], e)
         /\ FitEffect(arenas[p], Cancel(arenas[p])) /\ FitEffect(arenas[p], Close(arenas[p]))
         /\ \A m \in Members : /\ FitEffect(arenas[p], Accept(arenas[p], m))
                               /\ FitEffect(arenas[p], Reject(arenas[p], m))
<1>1. calls \in Seq(Calls) /\ arenas[p] \in Arena /\ Sound(arenas[p])
  BY DEF ArenaInv, Fitting
<1>2. Alike(calls, calls)
  BY <1>1 DEF Alike
<1>3. /\ FitEffect(arenas[p], Cancel(arenas[p])) /\ FitEffect(arenas[p], Close(arenas[p]))
      /\ FitEffect(arenas[p], Sweep(arenas[p]))
      /\ \A m \in Members : /\ FitEffect(arenas[p], Accept(arenas[p], m))
                            /\ FitEffect(arenas[p], Reject(arenas[p], m))
  BY <1>1, CancelFits, CloseFits, SweepFits, AcceptFits, RejectFits
<1> QED
  BY <1>1, <1>2, <1>3 DEF Effects

LEMMA AddStep ==
  ASSUME ArenaInv, NEW p \in Pointers, NEW m \in Members, Fresh(m), CanAdd(p), Add(p, m),
         resolving' = resolving, activated' = activated, Alike(calls, calls'),
         routes' \in [Pointers -> Members \cup {NoMember}]
  PROVE  ArenaInv'
<1>1. /\ arenas' = AddedTo(arenas, p, m)
      /\ verdict' = WaitingFor(verdict, m, FounderOf(arenas, p, m))
  BY DEF Add, AddedTo, WaitingFor, FounderOf
<1>2. Fitting(arenas', resolving, verdict', calls, activated)
  BY <1>1, MemberAdded DEF ArenaInv, Fresh, CanAdd
<1>3. Fitting(arenas', resolving, verdict', calls', activated)
  BY <1>2, StackReplaced
<1> QED
  BY <1>3 DEF ArenaInv

LEMMA FinishDownStep ==
  ASSUME ArenaInv, NEW m \in Members, finish_down(m)
  PROVE  ArenaInv'
<1> DEFINE p == Last(calls).pointer
<1>1. /\ calls \in Seq(Calls) /\ calls # <<>> /\ Last(calls) \in Calls /\ Last(calls).op = "down"
      /\ Alike(calls, Front(calls)) /\ routes \in [Pointers -> Members \cup {NoMember}]
      /\ activated' = activated
  BY CallPopped DEF ArenaInv, Fitting, finish_down
<1>2. p \in Pointers
  BY <1>1 DEF Calls, ResolveCall, DownCall, UpCall, ActivateCall
<1>3. CASE /\ Last(calls).hit /\ Fresh(m) /\ CanAdd(p) /\ Add(p, m)
           /\ routes' = [routes EXCEPT ![p] = m] /\ calls' = Front(calls) /\ UNCHANGED resolving
  <2>1. routes' \in [Pointers -> Members \cup {NoMember}]
    BY <1>1, <1>2, <1>3
  <2> HIDE DEF p
  <2> QED
    BY <1>1, <1>2, <1>3, <2>1, AddStep
<1>4. CASE /\ routes' = [routes EXCEPT ![p] = NoMember]
           /\ Perform(p, Cancel(arenas[p]), Front(calls))
  <2>1. routes' \in [Pointers -> Members \cup {NoMember}]
    BY <1>1, <1>2, <1>4
  <2> HIDE DEF p
  <2> QED
    BY <1>1, <1>2, <1>4, <2>1, EffectsFit, Performed
<1>5. CASE calls' = Front(calls) /\ UNCHANGED <<arenas, resolving, routes, verdict>>
  BY <1>1, <1>5, Quiet DEF ArenaInv, Fitting
<1> QED
  BY <1>3, <1>4, <1>5 DEF finish_down

LEMMA FinishUpStep ==
  ASSUME ArenaInv, finish_up
  PROVE  ArenaInv'
<1> DEFINE f == Last(calls)
<1>1. /\ calls \in Seq(Calls) /\ calls # <<>> /\ f \in Calls /\ f.op = "up"
      /\ Front(calls) \in Seq(Calls)
      /\ Alike(calls, Front(calls)) /\ routes' \in [Pointers -> Members \cup {NoMember}]
  BY CallPopped DEF ArenaInv, Fitting, finish_up
<1>2. f \in UpCall
  BY <1>1 DEF Calls, ResolveCall, DownCall, UpCall, ActivateCall
<1>3. f.pointer \in Pointers /\ f.member \in Members
  BY <1>2 DEF UpCall
<1>4. CASE /\ Perform(f.pointer, Close(arenas[f.pointer]),
                      Append(Front(calls), [f EXCEPT !.stage = "activate"]))
           /\ UNCHANGED activated
  <2> DEFINE g == [f EXCEPT !.stage = "activate"]
  <2>1. g \in Calls /\ g.op # "resolve"
    BY <1>2 DEF UpCall, Calls
  <2>2. Alike(Front(calls), Append(Front(calls), g))
    BY <1>1, <2>1, OtherPushed
  <2>3. Alike(calls, Append(Front(calls), g))
    BY <1>1, <2>2, AlikeJoined
  <2> HIDE DEF g
  <2>4. PICK q \in Pointers : q = f.pointer
    BY <1>3
  <2>5. Perform(q, Close(arenas[q]), Append(Front(calls), g)) /\ activated' = activated
    BY <1>4, <2>4 DEF g
  <2>6. PICK C : C = Append(Front(calls), g)
    OBVIOUS
  <2> HIDE DEF f
  <2> QED
    BY <1>1, <2>3, <2>5, <2>6, EffectsFit, Performed
<1>5. CASE /\ verdict[f.member].is = "accepted"
           /\ calls' = Append(Front(calls), [op |-> "activate", member |-> f.member])
           /\ activated' = activated \cup {f.member}
           /\ UNCHANGED <<arenas, resolving, verdict>>
  <2> DEFINE g == [op |-> "activate", member |-> f.member]
  <2>1. g \in Calls /\ g.op # "resolve"
    BY <1>3 DEF ActivateCall, Calls
  <2>2. Alike(Front(calls), Append(Front(calls), g))
    BY <1>1, <2>1, OtherPushed
  <2>3. Alike(calls, calls')
    BY <1>1, <1>5, <2>2, AlikeJoined
  <2>4. activated' \subseteq Members /\ \A m \in activated' : verdict[m].is = "accepted"
    BY <1>3, <1>5 DEF ArenaInv, Fitting
  <2> QED
    BY <1>1, <1>5, <2>3, <2>4, Quiet
<1>6. CASE /\ calls' = Front(calls)
           /\ UNCHANGED <<arenas, resolving, verdict, activated>>
  BY <1>1, <1>6, Quiet DEF ArenaInv, Fitting
<1> QED
  BY <1>4, <1>5, <1>6 DEF finish_up

LEMMA PointerStep ==
  ASSUME ArenaInv, NEW p \in Pointers, NEW hit \in BOOLEAN,
         pointer_down(p, hit) \/ pointer_up(p, hit) \/ pointer_cancel(p) \/ call_arena(p)
  PROVE  ArenaInv'
<1>1. /\ calls \in Seq(Calls) /\ Alike(calls, calls) /\ activated' = activated
      /\ routes \in [Pointers -> Members \cup {NoMember}]
      /\ routes' \in [Pointers -> Members \cup {NoMember}]
  BY EffectsFit DEF ArenaInv, pointer_down, pointer_up, pointer_cancel, call_arena
<1>2. CASE pointer_down(p, hit)
  <2> DEFINE f == [op |-> "down", pointer |-> p, hit |-> hit]
  <2>1. f \in Calls /\ f.op # "resolve"
    BY DEF DownCall, Calls
  <2>2. Alike(calls, Append(calls, f))
    BY <1>1, <2>1, OtherPushed
  <2>3. \/ Perform(p, Cancel(arenas[p]), Append(calls, f))
        \/ calls' = Append(calls, f) /\ UNCHANGED <<arenas, resolving, verdict>>
    BY <1>2 DEF pointer_down
  <2> HIDE DEF f
  <2>4. PICK C : C = Append(calls, f)
    OBVIOUS
  <2>5. CASE Perform(p, Cancel(arenas[p]), C)
    BY <1>1, <2>2, <2>4, <2>5, EffectsFit, Performed
  <2>6. CASE calls' = C /\ UNCHANGED <<arenas, resolving, verdict>>
    BY <1>1, <2>2, <2>4, <2>6, Quiet DEF ArenaInv, Fitting
  <2> QED
    BY <2>3, <2>4, <2>5, <2>6
<1>3. CASE pointer_up(p, hit)
  <2> DEFINE up(stage) == [op |-> "up", pointer |-> p, member |-> routes[p], stage |-> stage]
  <2>1. CASE routes[p] = NoMember
    <3>1. Perform(p, Cancel(arenas[p]), calls)
      BY <1>3, <2>1 DEF pointer_up
    <3>2. PICK C : C = calls
      OBVIOUS
    <3> QED
      BY <1>1, <3>1, <3>2, EffectsFit, Performed
  <2>2. CASE routes[p] # NoMember
    <3>1. PICK m \in Members : m = routes[p]
      BY <1>1, <2>2
    <3>2. ASSUME NEW s \in {"close", "end"}
          PROVE  Alike(calls, Append(calls, up(s)))
      <4>1. up(s) \in Calls /\ up(s).op # "resolve"
        BY <3>1 DEF UpCall, Calls
      <4> QED
        BY <1>1, <4>1, OtherPushed
    <3>3. \/ Perform(p, Accept(arenas[p], m), Append(calls, up("close")))
          \/ Perform(p, Reject(arenas[p], m), Append(calls, up("end")))
      BY <1>3, <2>2, <3>1 DEF pointer_up
    <3> HIDE DEF up
    <3>4. PICK C, D : C = Append(calls, up("close")) /\ D = Append(calls, up("end"))
      OBVIOUS
    <3>5. Alike(calls, C) /\ Alike(calls, D)
      BY <3>2, <3>4
    <3>6. CASE Perform(p, Accept(arenas[p], m), C)
      BY <1>1, <3>5, <3>6, EffectsFit, Performed
    <3>7. CASE Perform(p, Reject(arenas[p], m), D)
      BY <1>1, <3>5, <3>7, EffectsFit, Performed
    <3> QED
      BY <3>3, <3>4, <3>6, <3>7
  <2> QED
    BY <2>1, <2>2
<1>4. CASE pointer_cancel(p)
  <2>1. PICK C : C = calls
    OBVIOUS
  <2>2. Perform(p, Cancel(arenas[p]), C)
    BY <1>4, <2>1 DEF pointer_cancel
  <2> QED
    BY <1>1, <2>1, <2>2, EffectsFit, Performed
<1>5. CASE call_arena(p)
  <2>1. PICK C : C = calls
    OBVIOUS
  <2>2. PICK e \in Effects(p) : Perform(p, e, C)
    BY <1>5, <2>1 DEF call_arena
  <2> QED
    BY <1>1, <2>1, <2>2, EffectsFit, Performed
<1> QED
  BY <1>2, <1>3, <1>4, <1>5

LEMMA ReturnStep ==
  ASSUME ArenaInv, NEW throws \in BOOLEAN, callback_returns(throws) \/ activation_returns
  PROVE  ArenaInv'
<1> DEFINE f == Last(calls)
           below == Front(calls)
           failed == f.failed \/ throws
<1>1. /\ calls \in Seq(Calls) /\ calls # <<>> /\ f \in Calls /\ below \in Seq(Calls)
      /\ calls = Append(below, f)
      /\ f.op = "resolve" => f \in ResolveCall
      /\ f.op # "resolve" => Alike(calls, below)
      /\ routes' \in [Pointers -> Members \cup {NoMember}] /\ arenas' = arenas
      /\ activated' = activated
      /\ Fitting(arenas, resolving, verdict, calls, activated)
  BY CallPopped DEF ArenaInv, Fitting, callback_returns, activation_returns
<1>2. CASE activation_returns
  BY <1>1, <1>2, Quiet DEF activation_returns, Fitting
<1>3. CASE callback_returns(throws) /\ f.todo # <<>>
  <2> DEFINE g == [f EXCEPT !.todo = Tail(@), !.failed = failed]
  <2>1. f \in ResolveCall /\ f.todo \in Todo
    BY <1>1, <1>3 DEF callback_returns, ResolveCall
  <2>2. g \in ResolveCall /\ g.pointer = f.pointer /\ g.todo = Tail(f.todo)
    BY <1>3, <2>1, VerdictTaken DEF ResolveCall
  <2>3. calls' = Append(below, g) /\ verdict' = Told(Head(f.todo)) /\ resolving' = resolving
    BY <1>3 DEF callback_returns
  <2> HIDE DEF f, g, below
  <2>4. Told(Head(f.todo)) = ToldOf(verdict, Head(f.todo))
    BY DEF Told, ToldOf
  <2>5. Fitting(arenas, resolving, verdict', calls', activated)
    BY <1>1, <1>3, <2>1, <2>2, <2>3, <2>4, VerdictTold
  <2> QED
    BY <1>1, <2>3, <2>5 DEF ArenaInv
<1>4. CASE callback_returns(throws) /\ f.todo = <<>>
  <2>1. f \in ResolveCall
    BY <1>1, <1>4 DEF callback_returns
  <2>2. /\ resolving' = resolving \ {f.pointer} /\ verdict' = verdict
        /\ calls' = below \/ (below # <<>> /\ Last(below).op \in {"down", "up"} /\ calls' = Front(below))
    BY <1>4 DEF callback_returns
  <2> HIDE DEF f, below
  <2>3. Fitting(arenas, resolving \ {f.pointer}, verdict, below, activated)
    BY <1>1, <1>4, <2>1, ResolutionEnded
  <2>4. Fitting(arenas, resolving \ {f.pointer}, verdict, calls', activated)
    BY <1>1, <2>2, <2>3, CallPopped, StackReplaced
  <2> QED
    BY <1>1, <2>2, <2>4 DEF ArenaInv
<1> QED
  BY <1>2, <1>3, <1>4

LEMMA ArenaStep == ArenaInv /\ [ArenaNext]_arenaVars => ArenaInv'
<1> SUFFICES ASSUME ArenaInv, [ArenaNext]_arenaVars PROVE ArenaInv'
  OBVIOUS
<1>1. CASE UNCHANGED arenaVars
  BY <1>1 DEF arenaVars, ArenaInv
<1>2. ASSUME NEW p \in Pointers, NEW m \in Members, add_member(p, m) PROVE ArenaInv'
  BY <1>2, AddStep, EffectsFit DEF add_member, ArenaInv
<1>3. TRUE \in BOOLEAN
  OBVIOUS
<1> QED
  BY <1>1, <1>2, <1>3, FinishDownStep, FinishUpStep, PointerStep, ReturnStep DEF ArenaNext

-----------------------------------------------------------------------------
(* Routes: operations on the arena only take members out of it, and no     *)
(* member that was added counts as new again.                              *)
NoneJoins == \A q \in Pointers, n \in Members : Holds(arenas', q, n) => Holds(arenas, q, n)
NoneForgotten == \A n \in Members : verdict[n].is # "new" => verdict'[n].is # "new"

LEMMA ToldKeeps ==
  ASSUME ArenaInv, NEW t \in Todo, t # <<>>, verdict' = Told(Head(t))
  PROVE  NoneForgotten
<1>1. Head(t)[1] \in Members /\ Head(t)[2] \in {"accepted", "rejected"}
  BY VerdictTaken
<1>2. verdict \in [Members -> Verdict]
  BY DEF ArenaInv, Fitting
<1> QED
  BY <1>1, <1>2 DEF Told, NoneForgotten, Verdict

LEMMA PerformKeeps ==
  ASSUME ArenaInv, NEW p \in Pointers, NEW e, FitEffect(arenas[p], e), NEW C, Perform(p, e, C)
  PROVE  NoneJoins /\ NoneForgotten
<1>1. arenas \in [Pointers -> Arena] /\ e.todo \in Todo
  BY DEF ArenaInv, Fitting, FitEffect
<1>2. arenas' = arenas \/ arenas' = [arenas EXCEPT ![p] = e.arena]
  BY DEF Perform
<1>3. NoneJoins
  BY <1>1, <1>2 DEF NoneJoins, Holds, FitEffect
<1>4. verdict' = verdict \/ (e.todo # <<>> /\ verdict' = Told(Head(e.todo)))
  BY DEF Perform
<1>5. NoneForgotten
  BY <1>1, <1>4, ToldKeeps DEF NoneForgotten
<1> QED
  BY <1>3, <1>5

(* Routes that are kept or dropped stay those of presses taken. *)
LEMMA RoutesKept ==
  ASSUME ArenaInv, RoutesTaken, NoneJoins, NoneForgotten,
         \A p \in Pointers : routes'[p] \in {routes[p], NoMember}
  PROVE  RoutesTaken'
<1>1. routes \in [Pointers -> Members \cup {NoMember}]
  BY DEF ArenaInv
<1> SUFFICES ASSUME NEW p \in Pointers, routes'[p] # NoMember
             PROVE  /\ verdict'[routes'[p]].is # "new"
                    /\ \A q \in Pointers \ {p} : /\ routes'[q] # routes'[p]
                                                 /\ ~Holds(arenas', q, routes'[p])
  BY DEF RoutesTaken, Fresh, Holds
<1>2. routes'[p] = routes[p] /\ routes[p] \in Members
  BY <1>1
<1>3. /\ verdict[routes[p]].is # "new"
      /\ \A q \in Pointers \ {p} : routes[q] # routes[p] /\ ~Holds(arenas, q, routes[p])
  BY <1>2 DEF RoutesTaken, Fresh, Holds
<1>4. \A q \in Pointers \ {p} : routes'[q] # routes'[p]
  BY <1>2, <1>3
<1> QED
  BY <1>2, <1>3, <1>4 DEF NoneJoins, NoneForgotten

(* A new member is in no arena and no route, and joins one arena. *)
LEMMA RoutesJoined ==
  ASSUME ArenaInv, RoutesTaken, NEW p \in Pointers, NEW m \in Members, Fresh(m), Add(p, m),
         routes' = routes \/ routes' = [routes EXCEPT ![p] = m]
  PROVE  RoutesTaken'
<1>1. /\ routes \in [Pointers -> Members \cup {NoMember}] /\ arenas \in [Pointers -> Arena]
      /\ verdict \in [Members -> Verdict]
  BY DEF ArenaInv, Fitting
<1>2. \A q \in Pointers : ~Holds(arenas, q, m)
  BY DEF ArenaInv, Fitting, MembersPlaced, Fresh
<1>3. \A q \in Pointers : routes[q] # m
  BY ArenaConstants DEF RoutesTaken, Fresh
<1>4. /\ verdict'[m].is = "waiting" /\ \A n \in Members : n # m => verdict'[n] = verdict[n]
      /\ \A q \in Pointers : q # p => arenas'[q] = arenas[q]
      /\ arenas'[p].members = Append(arenas[p].members, m)
  BY <1>1 DEF Add, Arena, Verdict
<1>5. ASSUME NEW q \in Pointers, NEW n \in Members, Holds(arenas', q, n)
      PROVE  Holds(arenas, q, n) \/ (q = p /\ n = m)
  <2>1. CASE q # p
    BY <1>4, <1>5, <2>1 DEF Holds
  <2>2. CASE q = p
    <3>1. arenas[p].members \in Seq(Members)
      BY <1>1, ArenaFields
    <3> QED
      BY <1>4, <1>5, <2>2, <3>1 DEF Holds, Contains
  <2> QED
    BY <2>1, <2>2
<1>6. NoneForgotten
  BY <1>4 DEF NoneForgotten
<1> SUFFICES ASSUME NEW q \in Pointers, routes'[q] # NoMember
             PROVE  /\ verdict'[routes'[q]].is # "new"
                    /\ \A r \in Pointers \ {q} : /\ routes'[r] # routes'[q]
                                                 /\ ~Holds(arenas', r, routes'[q])
  BY DEF RoutesTaken, Fresh, Holds
<1>7. CASE routes'[q] = m
  <2>1. q = p /\ \A r \in Pointers \ {q} : routes'[r] = routes[r]
    BY <1>1, <1>3, <1>7
  <2> QED
    BY <1>2, <1>3, <1>4, <1>5, <1>7, <2>1
<1>8. CASE routes'[q] # m
  <2>1. routes'[q] = routes[q] /\ routes[q] \in Members
    BY <1>1, <1>8
  <2>2. /\ verdict[routes[q]].is # "new"
        /\ \A r \in Pointers \ {q} : routes[r] # routes[q] /\ ~Holds(arenas, r, routes[q])
    BY <2>1 DEF RoutesTaken, Fresh, Holds
  <2>3. \A r \in Pointers : routes'[r] = routes[r] \/ routes'[r] = m
    BY <1>1
  <2> QED
    BY <1>5, <1>6, <1>8, <2>1, <2>2, <2>3 DEF NoneForgotten
<1> QED
  BY <1>7, <1>8

LEMMA RoutesStep ==
  ASSUME ArenaInv, RoutesTaken, [ArenaNext]_arenaVars
  PROVE  RoutesTaken'
<1>0. routes \in [Pointers -> Members \cup {NoMember}] /\ calls \in Seq(Calls)
  BY DEF ArenaInv, Fitting
<1>1. CASE UNCHANGED <<arenas, verdict>> /\ \A p \in Pointers : routes'[p] \in {routes[p], NoMember}
  BY <1>1, RoutesKept DEF NoneJoins, NoneForgotten
<1>2. ASSUME NEW p \in Pointers, NEW m \in Members, add_member(p, m) PROVE RoutesTaken'
  BY <1>2, RoutesJoined DEF add_member
<1>3. ASSUME NEW p \in Pointers, NEW e, NEW C, FitEffect(arenas[p], e), Perform(p, e, C),
             \A q \in Pointers : routes'[q] \in {routes[q], NoMember}
      PROVE  RoutesTaken'
  BY <1>3, PerformKeeps, RoutesKept
<1>4. ASSUME NEW m \in Members, finish_down(m) PROVE RoutesTaken'
  <2>1. PICK p : p = Last(calls).pointer
    OBVIOUS
  <2>2. PICK C : C = Front(calls)
    OBVIOUS
  <2>3. calls # <<>> /\ Last(calls) \in Calls /\ Last(calls).op = "down"
    BY <1>0, <1>4, CallPopped DEF finish_down
  <2>4. p \in Pointers
    BY <2>1, <2>3 DEF Calls, ResolveCall, DownCall, UpCall, ActivateCall
  <2>5. \/ Fresh(m) /\ Add(p, m) /\ routes' = [routes EXCEPT ![p] = m]
        \/ routes' = [routes EXCEPT ![p] = NoMember] /\ Perform(p, Cancel(arenas[p]), C)
        \/ UNCHANGED <<arenas, verdict, routes>>
    BY <1>4, <2>1, <2>2 DEF finish_down
  <2>6. CASE routes' = [routes EXCEPT ![p] = NoMember] /\ Perform(p, Cancel(arenas[p]), C)
    BY <1>0, <1>3, <2>4, <2>6, EffectsFit
  <2> QED
    BY <1>1, <2>4, <2>5, <2>6, RoutesJoined
<1>5. CASE finish_up
  <2>1. PICK p : p = Last(calls).pointer
    OBVIOUS
  <2>2. calls # <<>> /\ Last(calls) \in Calls /\ Last(calls).op = "up"
    BY <1>0, <1>5, CallPopped DEF finish_up
  <2>3. p \in Pointers
    BY <2>1, <2>2 DEF Calls, ResolveCall, DownCall, UpCall, ActivateCall
  <2>4. /\ routes' = routes
        /\ UNCHANGED <<arenas, verdict>> \/ \E C : Perform(p, Close(arenas[p]), C)
    BY <1>5, <2>1 DEF finish_up
  <2> QED
    BY <1>1, <1>3, <2>3, <2>4, EffectsFit
<1>6. ASSUME NEW p \in Pointers, NEW b \in BOOLEAN,
             pointer_down(p, b) \/ pointer_up(p, b) \/ pointer_cancel(p) \/ call_arena(p)
      PROVE  RoutesTaken'
  <2>1. \A q \in Pointers : routes'[q] \in {routes[q], NoMember}
    BY <1>0, <1>6 DEF pointer_down, pointer_up, pointer_cancel, call_arena
  <2>2. CASE pointer_down(p, b)
    <3>1. UNCHANGED <<arenas, verdict>> \/ \E C : Perform(p, Cancel(arenas[p]), C)
      BY <2>2 DEF pointer_down
    <3> QED
      BY <1>1, <1>3, <2>1, <3>1, EffectsFit
  <2>3. CASE pointer_up(p, b)
    <3>1. \/ \E C : Perform(p, Cancel(arenas[p]), C)
          \/ \E m \in Members : \E C : \/ Perform(p, Accept(arenas[p], m), C)
                                       \/ Perform(p, Reject(arenas[p], m), C)
      BY <1>0, <2>3 DEF pointer_up
    <3> QED
      BY <1>3, <2>1, <3>1, EffectsFit
  <2>4. CASE pointer_cancel(p)
    <3>1. \E C : Perform(p, Cancel(arenas[p]), C)
      BY <2>4 DEF pointer_cancel
    <3> QED
      BY <1>3, <2>1, <3>1, EffectsFit
  <2>5. CASE call_arena(p)
    <3>1. \E e \in Effects(p) : \E C : Perform(p, e, C)
      BY <2>5 DEF call_arena
    <3> QED
      BY <1>3, <2>1, <3>1, EffectsFit
  <2> QED
    BY <1>6, <2>2, <2>3, <2>4, <2>5
<1>7. ASSUME NEW b \in BOOLEAN, callback_returns(b) PROVE RoutesTaken'
  <2>1. arenas' = arenas /\ routes' = routes
    BY <1>7 DEF callback_returns
  <2>2. NoneJoins /\ \A p \in Pointers : routes'[p] \in {routes[p], NoMember}
    BY <2>1 DEF NoneJoins
  <2>3. PICK f : f = Last(calls)
    OBVIOUS
  <2>4. f \in Calls /\ f.op = "resolve"
    BY <1>0, <1>7, <2>3, CallPopped DEF callback_returns
  <2>5. f.todo \in Todo
    BY <2>4 DEF Calls, ResolveCall, DownCall, UpCall, ActivateCall
  <2>6. verdict' = verdict \/ (f.todo # <<>> /\ verdict' = Told(Head(f.todo)))
    BY <1>7, <2>3 DEF callback_returns
  <2>7. NoneForgotten
    BY <2>5, <2>6, ToldKeeps DEF NoneForgotten
  <2> QED
    BY <2>2, <2>7, RoutesKept
<1>8. CASE activation_returns \/ UNCHANGED arenaVars
  BY <1>1, <1>8 DEF activation_returns, arenaVars
<1>9. TRUE \in BOOLEAN
  OBVIOUS
<1> QED
  BY <1>2, <1>4, <1>5, <1>6, <1>7, <1>8, <1>9 DEF ArenaNext

LEMMA ArenaInvImplies == ArenaInv /\ RoutesTaken => ArenaTypeOK /\ VerdictsFit
<1> SUFFICES ASSUME ArenaInv, RoutesTaken PROVE ArenaTypeOK /\ VerdictsFit
  OBVIOUS
<1>1. Fitting(arenas, resolving, verdict, calls, activated) /\ DOMAIN calls = 1 .. Len(calls)
  BY DEF ArenaInv, Fitting
<1>2. ArenaTypeOK
  <2>1. ASSUME NEW p \in Pointers
        PROVE  /\ arenas[p].members \in Seq(Members) /\ IsInjective(arenas[p].members)
               /\ arenas[p].closed \in BOOLEAN
               /\ {arenas[p].eager, arenas[p].founder} \subseteq Members \cup {NoMember}
    <3>1. arenas[p] \in Arena /\ Sound(arenas[p])
      BY <1>1 DEF Fitting
    <3> QED
      BY <3>1, ArenaFields DEF Sound
  <2>2. \A i \in DOMAIN calls : calls[i].op \in {"resolve", "down", "up", "activate"}
    <3>1. \A i \in DOMAIN calls : calls[i] \in Calls
      BY <1>1 DEF Fitting
    <3>2. \A f \in Calls : f.op \in {"resolve", "down", "up", "activate"}
      BY DEF Calls, ResolveCall, DownCall, UpCall, ActivateCall
    <3> QED
      BY <3>1, <3>2
  <2> QED
    BY <1>1, <2>1, <2>2 DEF ArenaTypeOK, ArenaInv, Fitting, Verdict
<1>3. \A m \in Members : DueIn(calls, m) => Pending(m)
  <2>1. ASSUME NEW m \in Members, DueIn(calls, m) PROVE Pending(m)
    <3>1. PICK i \in DOMAIN calls : calls[i].op = "resolve" /\ Due(calls[i].todo, m)
      BY <1>1, <2>1 DEF DueIn, ResolvingAt
    <3>2. calls[i] \in Calls
      BY <1>1 DEF Fitting
    <3>3. calls[i] \in ResolveCall
      BY <3>1, <3>2 DEF Calls, ResolveCall, DownCall, UpCall, ActivateCall
    <3>4. DOMAIN calls[i].todo = 1 .. Len(calls[i].todo)
      BY <3>3 DEF ResolveCall, Todo
    <3> QED
      BY <3>1, <3>4 DEF Due, Pending
  <2> QED
    BY <2>1
<1>4. \A p \in Pointers : p \in resolving <=>
        \E i \in DOMAIN calls : calls[i].op = "resolve" /\ calls[i].pointer = p
  BY <1>1 DEF Fitting, ResolvedIn, ResolvingAt
<1>5. \A p \in Pointers : arenas[p].closed => Len(arenas[p].members) > 1
  BY <1>1 DEF Fitting, Sound
<1>6. \A m, n \in Members : verdict[m].is = "accepted" /\ verdict[n].is = "accepted"
                            /\ verdict[m].arena = verdict[n].arena => m = n
  BY <1>1 DEF Fitting, OneWinner, Won
<1>7. \A m \in Members : verdict[m].is = "waiting" =>
        Pending(m) \/ \E p \in Pointers : Contains(arenas[p].members, m)
  BY <1>1, <1>3 DEF Fitting, MembersPlaced, Holds
<1>8. VerdictsFit
  BY <1>1, <1>4, <1>5, <1>6, <1>7 DEF VerdictsFit, Fitting, MembersPlaced
<1> QED
  BY <1>2, <1>8

(* For any number of pointers and members, and any depth of reentrant      *)
(* calls: every member of a gesture arena gets exactly one verdict, an     *)
(* arena accepts at most one, a closed arena never waits on a single       *)
(* member, no pointer stays marked as resolving, and a press that is       *)
(* refused leaves no route behind.                                         *)
THEOREM OneVerdictEach == ArenaSpec => [](ArenaTypeOK /\ VerdictsFit)
<1>1. ArenaInit => ArenaInv /\ RoutesTaken
  BY ArenaStarts DEF ArenaInit, RoutesTaken
<1>2. ArenaInv /\ RoutesTaken /\ [ArenaNext]_arenaVars => ArenaInv' /\ RoutesTaken'
  BY ArenaStep, RoutesStep
<1> QED
  BY <1>1, <1>2, ArenaInvImplies, PTL DEF ArenaSpec

(***************************************************************************)
(* Induction over the natural numbers, stated for sets so that no operator *)
(* has to be instantiated: the least counterexample has no predecessor.    *)
(***************************************************************************)
LEMMA SetInduction ==
  ASSUME NEW S, S \subseteq Nat, 0 \in S, \A n \in S : n + 1 \in S
  PROVE  S = Nat
<1>1. SUFFICES ASSUME Nat \ S # {} PROVE FALSE
  OBVIOUS
<1>2. PICK x \in Nat \ S : \A y \in Nat \ S : ~(<<y, x>> \in OpToRel(<, Nat))
  BY <1>1, NatLessThanWellFounded, WFMin
<1>3. \A y \in Nat \ S : ~(y < x)
  BY <1>2 DEF OpToRel
<1>4. x # 0 /\ x - 1 \in Nat /\ x - 1 < x
  OBVIOUS
<1>5. x - 1 \in S
  BY <1>3, <1>4
<1>6. (x - 1) + 1 \in S
  BY <1>5
<1> QED
  BY <1>6

(***************************************************************************)
(* What Only computes, by induction on the elements it has looked at.      *)
(***************************************************************************)
IsKept(f, s, keys, n) ==
  f = [i \in 0 .. n |-> IF i = 0 THEN <<>>
                        ELSE IF s[i] \in keys THEN Append(f[i - 1], s[i]) ELSE f[i - 1]]

LEMMA KeptExists ==
  ASSUME NEW s, NEW keys, NEW m \in Nat
  PROVE  \E f : IsKept(f, s, keys, m)
<1> DEFINE S == {n \in Nat : \E f : IsKept(f, s, keys, n)}
<1>1. 0 \in S
  <2>1. IsKept([i \in 0 .. 0 |-> <<>>], s, keys, 0)
    BY DEF IsKept
  <2> QED
    BY <2>1, Zenon
<1>2. ASSUME NEW n \in S PROVE n + 1 \in S
  <2>1. PICK f : IsKept(f, s, keys, n)
    OBVIOUS
  <2> DEFINE last == IF s[n + 1] \in keys THEN Append(f[n], s[n + 1]) ELSE f[n]
             g == [i \in 0 .. n + 1 |-> IF i = n + 1 THEN last ELSE f[i]]
  <2>2. \A i \in 0 .. n : g[i] = f[i]
    OBVIOUS
  <2>3. g[n + 1] = last
    OBVIOUS
  <2>4. g = [i \in 0 .. n + 1 |-> g[i]]
    OBVIOUS
  <2> HIDE DEF g
  <2>5. \A i \in 0 .. n + 1 : g[i] = IF i = 0 THEN <<>>
                       ELSE IF s[i] \in keys THEN Append(g[i - 1], s[i]) ELSE g[i - 1]
    <3> SUFFICES ASSUME NEW i \in 0 .. n + 1
                 PROVE  g[i] = IF i = 0 THEN <<>>
                       ELSE IF s[i] \in keys THEN Append(g[i - 1], s[i]) ELSE g[i - 1]
      OBVIOUS
    <3>1. CASE i = n + 1
      <4>1. i # 0 /\ i - 1 = n /\ n \in 0 .. n
        BY <3>1
      <4> QED
        BY <4>1, <3>1, <2>2, <2>3
    <3>2. CASE i # n + 1
      <4>1. i \in 0 .. n /\ (i # 0 => i - 1 \in 0 .. n)
        BY <3>2
      <4>2. g[i] = f[i] /\ (i # 0 => g[i - 1] = f[i - 1])
        BY <4>1, <2>2
      <4>3. f[i] = IF i = 0 THEN <<>>
                       ELSE IF s[i] \in keys THEN Append(f[i - 1], s[i]) ELSE f[i - 1]
        BY <2>1, <4>1 DEF IsKept
      <4> QED
        BY <4>2, <4>3
    <3> QED
      BY <3>1, <3>2
  <2>6. [i \in 0 .. n + 1 |-> g[i]] = [i \in 0 .. n + 1 |->
                       IF i = 0 THEN <<>>
                       ELSE IF s[i] \in keys THEN Append(g[i - 1], s[i]) ELSE g[i - 1]]
    BY <2>5, Zenon
  <2>7. IsKept(g, s, keys, n + 1)
    BY <2>4, <2>6 DEF IsKept
  <2>8. n + 1 \in Nat
    OBVIOUS
  <2> QED
    BY <2>7, <2>8, Zenon
<1>3. S = Nat
  <2> HIDE DEF S
  <2>1. S \subseteq Nat
    BY DEF S
  <2> QED
    BY <1>1, <1>2, <2>1, SetInduction
<1> QED
  BY <1>3

(* t holds exactly the elements of s, up to its n-th, that are among keys. *)
PickedOut(t, s, keys, n, T) ==
  /\ t \in Seq(T)
  /\ \A x \in T : (\E j \in 1 .. Len(t) : t[j] = x) <=> (\E j \in 1 .. n : s[j] = x) /\ x \in keys
  /\ IsInjective(s) => \A j, k \in 1 .. Len(t) : t[j] = t[k] => j = k

LEMMA PickedMore ==
  ASSUME NEW s, NEW T, s \in Seq(T), NEW keys, NEW n \in Nat, n + 1 <= Len(s),
         NEW t, PickedOut(t, s, keys, n, T)
  PROVE  PickedOut(IF s[n + 1] \in keys THEN Append(t, s[n + 1]) ELSE t, s, keys, n + 1, T)
<1>1. s[n + 1] \in T /\ t \in Seq(T) /\ Len(t) \in Nat
  BY DEF PickedOut
<1>2. \A x \in T : (\E j \in 1 .. n + 1 : s[j] = x) <=> (\E j \in 1 .. n : s[j] = x) \/ s[n + 1] = x
  OBVIOUS
<1>3. CASE s[n + 1] \notin keys
  BY <1>2, <1>3 DEF PickedOut
<1>4. CASE s[n + 1] \in keys
  <2> DEFINE u == Append(t, s[n + 1])
  <2>1. /\ u \in Seq(T) /\ Len(u) = Len(t) + 1
        /\ \A j \in 1 .. Len(t) : u[j] = t[j]
        /\ u[Len(t) + 1] = s[n + 1]
    BY <1>1
  <2> HIDE DEF u
  <2>2. \A x \in T : (\E j \in 1 .. Len(u) : u[j] = x) <=> (\E j \in 1 .. Len(t) : t[j] = x) \/ s[n + 1] = x
    <3> SUFFICES ASSUME NEW x \in T
                 PROVE (\E j \in 1 .. Len(u) : u[j] = x) <=> (\E j \in 1 .. Len(t) : t[j] = x) \/ s[n + 1] = x
      OBVIOUS
    <3>1. ASSUME NEW j \in 1 .. Len(u), u[j] = x
          PROVE  (\E k \in 1 .. Len(t) : t[k] = x) \/ s[n + 1] = x
      <4>1. CASE j = Len(t) + 1
        BY <2>1, <3>1, <4>1
      <4>2. CASE j # Len(t) + 1
        <5>1. j \in 1 .. Len(t)
          BY <2>1, <4>2, <1>1
        <5> QED
          BY <5>1, <2>1, <3>1
      <4> QED
        BY <4>1, <4>2
    <3>2. ASSUME NEW j \in 1 .. Len(t), t[j] = x PROVE \E k \in 1 .. Len(u) : u[k] = x
      <4>1. j \in 1 .. Len(u) /\ u[j] = x
        BY <2>1, <3>2, <1>1
      <4> QED
        BY <4>1
    <3>3. ASSUME s[n + 1] = x PROVE \E k \in 1 .. Len(u) : u[k] = x
      <4>1. Len(t) + 1 \in 1 .. Len(u) /\ u[Len(t) + 1] = x
        BY <2>1, <3>3, <1>1
      <4> QED
        BY <4>1
    <3> QED
      BY <3>1, <3>2, <3>3
  <2>3. \A x \in T : (\E j \in 1 .. Len(u) : u[j] = x) <=> (\E j \in 1 .. n + 1 : s[j] = x) /\ x \in keys
    BY <2>2, <1>2, <1>4 DEF PickedOut
  <2>4. ASSUME IsInjective(s)
        PROVE  \A j, k \in 1 .. Len(u) : u[j] = u[k] => j = k
    <3>1. \A i \in 1 .. n : s[i] # s[n + 1]
      BY <2>4 DEF IsInjective
    <3>2. \A j \in 1 .. Len(t) : t[j] # s[n + 1]
      BY <3>1, <1>1 DEF PickedOut
    <3> QED
      BY <2>1, <2>4, <3>2, <1>1 DEF PickedOut
  <2>5. PickedOut(u, s, keys, n + 1, T)
    BY <2>1, <2>3, <2>4 DEF PickedOut
  <2> QED
    BY <2>5, <1>4 DEF u
<1> QED
  BY <1>3, <1>4

LEMMA OnlyKeeps ==
  ASSUME NEW s, NEW T, s \in Seq(T), NEW keys
  PROVE  /\ Only(s, keys) \in Seq(T)
         /\ Range(Only(s, keys)) = Range(s) \cap keys
         /\ IsInjective(s) => IsInjective(Only(s, keys))
<1> DEFINE f == CHOOSE f : IsKept(f, s, keys, Len(s))
<1>1. Only(s, keys) = f[Len(s)]
  BY DEF Only, IsKept
<1>2. Len(s) \in Nat
  OBVIOUS
<1>3. IsKept(f, s, keys, Len(s))
  <2>1. \E g : IsKept(g, s, keys, Len(s))
    BY <1>2, KeptExists
  <2> QED
    BY <2>1, Zenon
<1> HIDE DEF f
<1>4. \A i \in 0 .. Len(s) : f[i] = IF i = 0 THEN <<>>
         ELSE IF s[i] \in keys THEN Append(f[i - 1], s[i]) ELSE f[i - 1]
  BY <1>2, <1>3 DEF IsKept
<1> DEFINE S == {n \in Nat : n <= Len(s) => PickedOut(f[n], s, keys, n, T)}
<1>5. 0 \in S
  <2>1. f[0] = <<>>
    BY <1>2, <1>4
  <2>2. <<>> \in Seq(T) /\ Len(<<>>) = 0 /\ 1 .. 0 = {}
    OBVIOUS
  <2>3. PickedOut(<<>>, s, keys, 0, T)
    BY <2>2 DEF PickedOut
  <2> QED
    BY <2>1, <2>3
<1>6. ASSUME NEW n \in S PROVE n + 1 \in S
  <2>1. SUFFICES ASSUME n + 1 <= Len(s) PROVE PickedOut(f[n + 1], s, keys, n + 1, T)
    OBVIOUS
  <2>2. n \in Nat /\ n <= Len(s) /\ n + 1 \in 0 .. Len(s) /\ n + 1 # 0 /\ n + 1 - 1 = n
    BY <2>1, <1>2
  <2>3. f[n + 1] = IF s[n + 1] \in keys THEN Append(f[n], s[n + 1]) ELSE f[n]
    BY <2>2, <1>4
  <2>4. PickedOut(f[n], s, keys, n, T)
    BY <2>2
  <2> QED
    BY <2>1, <2>2, <2>3, <2>4, PickedMore
<1>7. S = Nat
  <2> HIDE DEF S
  <2>1. S \subseteq Nat
    BY DEF S
  <2> QED
    BY <1>5, <1>6, <2>1, SetInduction
<1>8. PickedOut(f[Len(s)], s, keys, Len(s), T)
  BY <1>2, <1>7
<1>9. f[Len(s)] \in Seq(T) /\ Range(f[Len(s)]) \subseteq T /\ Range(s) \subseteq T
  BY <1>8 DEF PickedOut, Range
<1>10. \A x \in T : x \in Range(f[Len(s)]) <=> x \in Range(s) /\ x \in keys
  BY <1>8, <1>9 DEF PickedOut, Range
<1>11. IsInjective(s) => IsInjective(f[Len(s)])
  BY <1>8, <1>9 DEF PickedOut, IsInjective
<1> QED
  BY <1>1, <1>9, <1>10, <1>11

LEMMA ExceptDrops ==
  ASSUME NEW s, NEW T, s \in Seq(T), NEW keys
  PROVE  /\ Except(s, keys) \in Seq(T)
         /\ Range(Except(s, keys)) = Range(s) \ keys
         /\ IsInjective(s) => IsInjective(Except(s, keys))
  BY OnlyKeeps DEF Except

LEMMA PartKeeps ==
  ASSUME NEW s, NEW T, s \in Seq(T), NEW a \in Nat, NEW e \in Nat, a <= e, e <= Len(s)
  PROVE  /\ SubSeq(s, a + 1, e) \in Seq(T) /\ Range(SubSeq(s, a + 1, e)) \subseteq Range(s)
         /\ IsInjective(s) => IsInjective(SubSeq(s, a + 1, e))
         /\ Len(SubSeq(s, a + 1, e)) = e - a
<1> DEFINE u == SubSeq(s, a + 1, e)
           n == e - a
<1>1. n \in Nat /\ a + n = e /\ Len(s) \in Nat /\ DOMAIN s = 1 .. Len(s)
  OBVIOUS
<1>2. u \in Seq(T) /\ Len(u) = n /\ \A i \in 1 .. n : u[i] = s[a + i]
  OBVIOUS
<1> HIDE DEF u, n
<1>3. DOMAIN u = 1 .. n
  BY <1>2
<1>4. ASSUME IsInjective(s), NEW i \in 1 .. n, NEW j \in 1 .. n, u[i] = u[j]
      PROVE  i = j
  <2>1. a + i \in DOMAIN s /\ a + j \in DOMAIN s
    BY <1>1
  <2>2. a + i = a + j
    BY <1>2, <1>4, <2>1 DEF IsInjective
  <2> QED
    BY <2>2
<1>5. IsInjective(s) => IsInjective(u)
  BY <1>3, <1>4 DEF IsInjective
<1>6. Range(u) \subseteq Range(s)
  <2>1. \A i \in 1 .. n : a + i \in DOMAIN s
    BY <1>1
  <2> QED
    BY <2>1, <1>2, <1>3 DEF Range
<1> QED
  BY <1>2, <1>5, <1>6 DEF u, n

LEMMA LimitedDrops ==
  ASSUME NEW s, NEW T, s \in Seq(T), NEW limit \in Nat \cup {NoLimit}
  PROVE  /\ Limited(s, limit) \in Seq(T)
         /\ Range(Limited(s, limit)) \subseteq Range(s)
         /\ IsInjective(s) => IsInjective(Limited(s, limit))
         /\ limit # NoLimit => Len(Limited(s, limit)) <= limit
<1>1. Len(s) \in Nat /\ DOMAIN s = 1 .. Len(s)
  OBVIOUS
<1>2. CASE limit = NoLimit \/ Len(s) <= limit
  BY <1>2 DEF Limited
<1>3. CASE ~(limit = NoLimit \/ Len(s) <= limit)
  <2> DEFINE b == Len(s) - limit
             u == SubSeq(s, b + 1, Len(s))
  <2>1. limit \in Nat /\ b \in Nat /\ b + limit = Len(s) /\ Limited(s, limit) = u
    BY <1>1, <1>3 DEF Limited
  <2>2. b <= Len(s) /\ Len(s) - b = limit
    BY <1>1, <2>1
  <2> HIDE DEF b
  <2> QED
    BY <1>1, <2>1, <2>2, PartKeeps
<1> QED
  BY <1>2, <1>3

LEMMA ConcatInjective ==
  ASSUME NEW T, NEW s \in Seq(T), NEW t \in Seq(T)
  PROVE  /\ s \o t \in Seq(T) /\ Range(s \o t) = Range(s) \cup Range(t)
         /\ IsInjective(s) /\ IsInjective(t) /\ Range(s) \cap Range(t) = {} => IsInjective(s \o t)
<1> DEFINE u == s \o t
<1>1. /\ u \in Seq(T) /\ Len(u) = Len(s) + Len(t) /\ Len(s) \in Nat /\ Len(t) \in Nat
      /\ \A i \in 1 .. Len(u) : u[i] = IF i <= Len(s) THEN s[i] ELSE t[i - Len(s)]
  OBVIOUS
<1>2. DOMAIN s = 1 .. Len(s) /\ DOMAIN t = 1 .. Len(t) /\ DOMAIN u = 1 .. Len(u)
  OBVIOUS
<1> HIDE DEF u
<1>3. \A i \in DOMAIN u : IF i <= Len(s) THEN i \in DOMAIN s ELSE i - Len(s) \in DOMAIN t
  BY <1>1, <1>2
<1>4. Range(u) \subseteq Range(s) \cup Range(t)
  BY <1>1, <1>2, <1>3 DEF Range
<1>5. ASSUME NEW x \in Range(s) PROVE x \in Range(u)
  <2>1. PICK i \in DOMAIN s : s[i] = x
    BY <1>5 DEF Range
  <2>2. i \in DOMAIN u /\ i <= Len(s)
    BY <1>1, <1>2
  <2>3. u[i] = x
    BY <1>1, <1>2, <2>1, <2>2
  <2> QED
    BY <2>2, <2>3 DEF Range
<1>6. ASSUME NEW x \in Range(t) PROVE x \in Range(u)
  <2>1. PICK i \in DOMAIN t : t[i] = x
    BY <1>6 DEF Range
  <2>2. i + Len(s) \in DOMAIN u /\ ~(i + Len(s) <= Len(s)) /\ (i + Len(s)) - Len(s) = i
    BY <1>1, <1>2
  <2>3. u[i + Len(s)] = x
    BY <1>1, <1>2, <2>1, <2>2
  <2> QED
    BY <2>2, <2>3 DEF Range
<1>7. ASSUME IsInjective(s), IsInjective(t), Range(s) \cap Range(t) = {},
             NEW i \in DOMAIN u, NEW j \in DOMAIN u, u[i] = u[j]
      PROVE  i = j
  <2>1. CASE i <= Len(s) /\ j <= Len(s)
    BY <1>1, <1>2, <1>3, <1>7, <2>1 DEF IsInjective
  <2>2. CASE ~(i <= Len(s)) /\ ~(j <= Len(s))
    <3>1. i - Len(s) = j - Len(s)
      BY <1>1, <1>2, <1>3, <1>7, <2>2 DEF IsInjective
    <3> QED
      BY <3>1, <1>1, <1>2
  <2>3. CASE i <= Len(s) /\ ~(j <= Len(s))
    <3>1. u[i] \in Range(s) /\ u[j] \in Range(t)
      BY <1>1, <1>2, <1>3, <2>3 DEF Range
    <3> QED
      BY <3>1, <1>7
  <2>4. CASE ~(i <= Len(s)) /\ j <= Len(s)
    <3>1. u[i] \in Range(t) /\ u[j] \in Range(s)
      BY <1>1, <1>2, <1>3, <2>4 DEF Range
    <3> QED
      BY <3>1, <1>7
  <2> QED
    BY <2>1, <2>2, <2>3, <2>4
<1>8. IsInjective(s) /\ IsInjective(t) /\ Range(s) \cap Range(t) = {} => IsInjective(u)
  BY <1>7 DEF IsInjective
<1> QED
  BY <1>1, <1>4, <1>5, <1>6, <1>8 DEF u

(***************************************************************************)
(* What the layout asks for: the items that start before an edge are the   *)
(* first ones, so the range it computes is exactly the needed items.       *)
(***************************************************************************)
LEMMA Extents ==
  ASSUME NEW i \in Nat, NEW j \in Nat, i <= j
  PROVE  /\ i * ItemExtent \in Nat /\ i * ItemExtent <= j * ItemExtent
         /\ i < j => i * ItemExtent < j * ItemExtent
         /\ (i + 1) * ItemExtent = i * ItemExtent + ItemExtent
<1>1. ItemExtent \in Nat /\ ItemExtent > 0
  BY LazyConstants
<1>2. (j - i) \in Nat /\ (j - i) * ItemExtent \in Nat /\ i * ItemExtent \in Nat
      /\ j * ItemExtent = i * ItemExtent + (j - i) * ItemExtent
  BY <1>1
<1>3. i < j => (j - i) * ItemExtent > 0
  BY <1>1
<1>4. (i + 1) * ItemExtent = i * ItemExtent + ItemExtent
  BY <1>1
<1> QED
  BY <1>2, <1>3, <1>4

LEMMA StartingFirst ==
  ASSUME NEW n \in Nat, NEW end \in Int
  PROVE  /\ StartingBefore(n, end) \in 0 .. n
         /\ \A i \in 0 .. n - 1 : i < StartingBefore(n, end) <=> i * ItemExtent < end
<1> DEFINE P(m) == \E k \in 0 .. m : {i \in 0 .. m - 1 : i * ItemExtent < end} = 0 .. k - 1
           S == {m \in Nat : P(m)}
<1>1. 0 \in S
  <2>1. 0 \in 0 .. 0 /\ 0 .. 0 - 1 = {}
    OBVIOUS
  <2>2. {i \in 0 .. 0 - 1 : i * ItemExtent < end} = 0 .. 0 - 1
    BY <2>1
  <2> QED
    BY <2>1, <2>2
<1>2. ASSUME NEW m \in S PROVE m + 1 \in S
  <2>1. PICK k \in 0 .. m : {i \in 0 .. m - 1 : i * ItemExtent < end} = 0 .. k - 1
    OBVIOUS
  <2> DEFINE Q == {i \in 0 .. m + 1 - 1 : i * ItemExtent < end}
  <2>2. \A i \in 0 .. m : i \in Q <=> (IF i = m THEN m * ItemExtent < end ELSE i \in 0 .. k - 1)
    <3> SUFFICES ASSUME NEW i \in 0 .. m
                 PROVE  i \in Q <=> (IF i = m THEN m * ItemExtent < end ELSE i \in 0 .. k - 1)
      OBVIOUS
    <3>1. i \in Q <=> i * ItemExtent < end
      OBVIOUS
    <3>2. i # m => i \in 0 .. m - 1
      OBVIOUS
    <3>3. i # m => (i * ItemExtent < end <=> i \in 0 .. k - 1)
      BY <2>1, <3>2
    <3> QED
      BY <3>1, <3>3
  <2>3. Q \subseteq 0 .. m
    OBVIOUS
  <2> HIDE DEF Q
  <2>4. CASE m * ItemExtent < end
    <3>1. k = m
      <4> SUFFICES ASSUME k # m PROVE FALSE
        OBVIOUS
      <4>1. k \in 0 .. m - 1 /\ k \in Nat /\ k <= m /\ k \notin 0 .. k - 1
        OBVIOUS
      <4>2. k * ItemExtent <= m * ItemExtent /\ k * ItemExtent \in Nat /\ m * ItemExtent \in Nat
        BY <4>1, Extents
      <4>3. k * ItemExtent < end
        BY <4>2, <2>4
      <4> QED
        BY <4>1, <4>3, <2>1
    <3>2. Q = 0 .. m
      <4>1. ASSUME NEW i \in 0 .. m PROVE i \in Q
        <5>1. i # m => i \in 0 .. k - 1
          BY <3>1
        <5> QED
          BY <5>1, <2>2, <2>4
      <4> QED
        BY <4>1, <2>3
    <3>3. m + 1 \in 0 .. m + 1 /\ m + 1 - 1 = m
      OBVIOUS
    <3> QED
      BY <3>2, <3>3 DEF Q
  <2>5. CASE ~(m * ItemExtent < end)
    <3>1. Q = 0 .. k - 1
      <4>1. ASSUME NEW i \in 0 .. k - 1 PROVE i \in Q
        <5>1. i # m /\ i \in 0 .. m
          OBVIOUS
        <5> QED
          BY <5>1, <2>2
      <4>2. ASSUME NEW i \in Q PROVE i \in 0 .. k - 1
        BY <2>2, <2>3, <2>5
      <4> QED
        BY <4>1, <4>2
    <3>2. k \in 0 .. m + 1
      OBVIOUS
    <3> QED
      BY <3>1, <3>2 DEF Q
  <2> QED
    BY <2>4, <2>5
<1>3. S = Nat
  <2> HIDE DEF S
  <2>1. S \subseteq Nat
    BY DEF S
  <2> QED
    BY <1>1, <1>2, <2>1, SetInduction
<1>4. PICK k \in 0 .. n : {i \in 0 .. n - 1 : i * ItemExtent < end} = 0 .. k - 1
  BY <1>3
<1>5. Cardinality(0 .. k - 1) = k
  <2>1. 0 \in Int /\ k - 1 \in Int /\ (0 > k - 1 => k = 0) /\ (k - 1) - 0 + 1 = k
    OBVIOUS
  <2> QED
    BY <2>1, FS_Interval
<1>6. StartingBefore(n, end) = k
  BY <1>4, <1>5 DEF StartingBefore
<1>7. ASSUME NEW i \in 0 .. n - 1 PROVE i < k <=> i * ItemExtent < end
  <2>1. i * ItemExtent < end <=> i \in 0 .. k - 1
    BY <1>4
  <2> QED
    BY <2>1
<1> QED
  BY <1>6, <1>7

LEMMA RangeNeeded ==
  ASSUME NEW n \in Nat, NEW x \in Nat
  PROVE  /\ FirstCached(n, x) \in 0 .. n /\ CachedEnd(n, x) \in 0 .. n
         /\ FirstCached(n, x) <= CachedEnd(n, x)
         /\ {i \in 0 .. n - 1 : FirstCached(n, x) <= i /\ i < CachedEnd(n, x)} = Needed(n, x)
<1> DEFINE E == ItemExtent  C == CacheExtent  V == ViewportExtent
           first == FirstCached(n, x)  end == CachedEnd(n, x)
<1>1. E \in Nat /\ E > 0 /\ C \in Nat /\ V \in Nat
  BY LazyConstants
<1>2. end \in 0 .. n /\ \A i \in 0 .. n - 1 : i < end <=> i * E < x + V + C
  BY <1>1, StartingFirst DEF CachedEnd
<1>3. \A i \in 0 .. n - 1 : i * E \in Nat /\ (i + 1) * E = i * E + E /\ (i + 1) * E <= n * E /\ n * E \in Nat
  <2> SUFFICES ASSUME NEW i \in 0 .. n - 1
               PROVE  i * E \in Nat /\ (i + 1) * E = i * E + E /\ (i + 1) * E <= n * E /\ n * E \in Nat
    OBVIOUS
  <2>1. i \in Nat /\ i + 1 \in Nat /\ i <= i /\ i + 1 <= n /\ n <= n
    OBVIOUS
  <2> QED
    BY <2>1, Extents
<1>4. n * E \in Nat
  BY <1>1
<1> HIDE DEF E
<1>5. /\ first \in 0 .. n /\ first <= end
      /\ \A i \in 0 .. n - 1 : first <= i <=> (i + 1) * E > x - C
  <2>1. CASE n = 0 \/ x - n * E >= C
    <3>1. first = n
      BY <2>1 DEF FirstCached, E
    <3>2. \A i \in 0 .. n - 1 : ~((i + 1) * E > x - C)
      BY <1>1, <1>3, <1>4, <2>1
    <3>3. \A i \in 0 .. n - 1 : i * E < x + V + C
      BY <1>1, <1>3, <1>4, <2>1
    <3>4. end = n
      <4>1. n # 0 => n - 1 \in 0 .. n - 1 /\ n - 1 < end
        BY <3>3, <1>2
      <4> QED
        BY <4>1, <1>2
    <3> QED
      BY <3>1, <3>2, <3>4
  <2>2. CASE ~(n = 0 \/ x - n * E >= C) /\ x <= C
    <3>1. first = 0
      BY <2>2 DEF FirstCached, E
    <3>2. \A i \in 0 .. n - 1 : (i + 1) * E > x - C
      BY <1>1, <1>3, <2>2
    <3> QED
      BY <3>1, <3>2, <1>2
  <2>3. CASE ~(n = 0 \/ x - n * E >= C) /\ ~(x <= C)
    <3> DEFINE k == StartingBefore(n, x - C + 1)
    <3>1. first = k - 1
      BY <2>3 DEF FirstCached, E
    <3>2. k \in 0 .. n /\ \A i \in 0 .. n - 1 : i < k <=> i * E < x - C + 1
      BY <1>1, StartingFirst DEF E
    <3> HIDE DEF k
    <3>3. 0 \in 0 .. n - 1 /\ 0 * E = 0 /\ n - 1 \in 0 .. n - 1 /\ (n - 1) + 1 = n
      BY <2>3, <1>1
    <3>4. 0 < k
      BY <3>2, <3>3, <2>3, <1>1
    <3>5. first \in 0 .. n
      BY <3>1, <3>2, <3>4
    <3>6. first <= end
      <4> SUFFICES ASSUME first > end PROVE FALSE
        BY <1>2, <3>5
      <4>1. end \in 0 .. n - 1 /\ end + 1 \in 0 .. n - 1 /\ end + 1 < k /\ end \in Nat
        BY <3>1, <3>2, <3>5, <1>2
      <4>2. (end + 1) * E < x - C + 1 /\ ~(end * E < x + V + C)
        BY <4>1, <3>2, <1>2
      <4>3. (end + 1) * E = end * E + E /\ end * E \in Nat
        BY <4>1, <1>3
      <4> HIDE DEF first, end
      <4> QED
        BY <4>2, <4>3, <1>1
    <3>7. ASSUME NEW i \in 0 .. n - 1 PROVE first <= i <=> (i + 1) * E > x - C
      <4>1. CASE i = n - 1
        <5>1. first <= i
          BY <3>1, <3>2, <4>1
        <5>2. (i + 1) * E = n * E /\ n * E > x - C
          BY <4>1, <2>3, <3>3, <1>1, <1>4
        <5> QED
          BY <5>1, <5>2
      <4>2. CASE i # n - 1
        <5>1. i + 1 \in 0 .. n - 1
          BY <4>2
        <5>2. i + 1 < k <=> (i + 1) * E < x - C + 1
          BY <5>1, <3>2
        <5>3. (i + 1) * E \in Nat
          BY <5>1, <1>3
        <5> QED
          BY <5>2, <5>3, <3>1, <3>2, <1>1
      <4> QED
        BY <4>1, <4>2
    <3> QED
      BY <3>5, <3>6, <3>7
  <2> QED
    BY <2>1, <2>2, <2>3
<1>6. {i \in 0 .. n - 1 : first <= i /\ i < end} = Needed(n, x)
  <2> HIDE DEF first, end
  <2> QED
    BY <1>2, <1>5 DEF Needed, E
<1> QED
  BY <1>2, <1>5, <1>6

(***************************************************************************)
(* The inductive invariant.  A clean render object asks for exactly what   *)
(* it lacks; children of the current revision that number what the render  *)
(* object has mounted are its range of the model; a range is realized just *)
(* after the layout that asked for it.                                     *)
(***************************************************************************)
Ranges == [first : Nat, end : Nat, revision : 1 .. MaxModelRevision]
Shape ==
  /\ list \in [model : Models, revision : 1 .. MaxModelRevision,
               active : Seq(AllKeys), dormant : Seq(AllKeys)]
  /\ alive \subseteq AllKeys
  /\ sliver \in [count : Nat, model : 1 .. MaxModelRevision, first : Nat, mounted : Nat,
                 mounted_revision : 0 .. MaxModelRevision, request : SUBSET Ranges,
                 dirty : BOOLEAN, children : Seq(AllKeys)]
  /\ \A r, q \in sliver.request : r = q
  /\ scroll \in 0 .. MaxScroll
  /\ frame \in [step : {"idle", "layout", "realize", "flush"}, round : 0 .. MaxRounds,
                settled : BOOLEAN]

Family ==
  /\ IsInjective(list.active) /\ IsInjective(list.dormant)
  /\ Range(list.active) \cap Range(list.dormant) = {}
  /\ alive = Range(list.active) \cup Range(list.dormant)
  /\ Range(list.dormant) \subseteq list.model.keep
  /\ list.model.limit # NoLimit => Len(list.dormant) <= list.model.limit

(* What a layout of s leaves asked for. *)
Lacking(s, x) ==
  IF /\ s.mounted_revision = s.model /\ s.first = FirstCached(s.count, x)
     /\ s.mounted = CachedEnd(s.count, x) - FirstCached(s.count, x)
     /\ s.mounted = Len(s.children)
  THEN {}
  ELSE {[first |-> FirstCached(s.count, x), end |-> CachedEnd(s.count, x), revision |-> s.model]}

Mounting ==
  /\ sliver.count = Len(list.model.keys) /\ sliver.model = list.revision
  /\ sliver.mounted_revision <= list.revision
  /\ sliver.mounted_revision = list.revision /\ sliver.mounted = Len(list.active) =>
       list.active = SubSeq(list.model.keys, sliver.first + 1, sliver.first + sliver.mounted)
Asking ==
  /\ ~sliver.dirty => sliver.request = Lacking(sliver, scroll)
  /\ frame.step = "realize" =>
       /\ ~sliver.dirty /\ sliver.request # {} /\ sliver.children = list.active
       /\ frame.round < MaxRounds
  /\ frame.settled =>
       /\ frame.step = "idle" /\ ~sliver.dirty /\ sliver.request = {}
       /\ sliver.children = list.active
LazyInv == Shape /\ Family /\ Mounting /\ Asking

LEMMA ModelFacts ==
  ASSUME NEW m \in Models
  PROVE  /\ m.keys \in Seq(AllKeys) /\ IsInjective(m.keys) /\ Len(m.keys) \in Nat
         /\ m.limit \in Nat \cup {NoLimit}
<1>1. Range(m.keys) \subseteq AllKeys
  BY DEF AllKeys
<1>2. m.keys \in Seq(Range(m.keys)) /\ IsInjective(m.keys) /\ m.limit \in Nat \cup {NoLimit}
  BY LazyConstants
<1>3. m.keys \in Seq(AllKeys)
  BY <1>1, <1>2
<1> QED
  BY <1>2, <1>3

LEMMA KeysOf ==
  ASSUME NEW s \in Seq(AllKeys)
  PROVE  Range(s) \subseteq AllKeys
  BY DEF Range

LEMMA LazyStart == LazyInit => LazyInv
<1> SUFFICES ASSUME NEW m \in Models,
             list = [model |-> m, revision |-> 1, active |-> <<>>, dormant |-> <<>>],
             alive = {}, scroll = 0,
             sliver = [count |-> Len(m.keys), model |-> 1, first |-> 0, mounted |-> 0,
                 mounted_revision |-> 0, request |-> {}, dirty |-> TRUE, children |-> <<>>],
             frame = [step |-> "idle", round |-> 0, settled |-> FALSE]
             PROVE  LazyInv
  BY DEF LazyInit
<1>1. Len(m.keys) \in Nat /\ m.limit \in Nat \cup {NoLimit}
  BY ModelFacts
<1>2. 1 \in 1 .. MaxModelRevision /\ 0 \in 0 .. MaxModelRevision /\ 0 \in 0 .. MaxScroll /\ 0 \in 0 .. MaxRounds
  BY LazyConstants
<1>3. Shape
  BY <1>1, <1>2 DEF Shape
<1>4. Range(<<>>) = {} /\ IsInjective(<<>>) /\ Len(<<>>) = 0
  BY DEF Range, IsInjective
<1>5. Family
  <2>1. list.active = <<>> /\ list.dormant = <<>> /\ list.model = m
    OBVIOUS
  <2>2. m.limit # NoLimit => 0 <= m.limit
    BY <1>1
  <2> QED
    BY <1>4, <2>1, <2>2, Zenon DEF Family
<1>6. Mounting /\ Asking
  BY <1>1 DEF Mounting, Asking
<1> QED
  BY <1>3, <1>5, <1>6 DEF LazyInv

LEMMA BeginStep == LazyInv /\ begin_frame => LazyInv'
<1> SUFFICES ASSUME LazyInv, begin_frame PROVE LazyInv'
  OBVIOUS
<1>0. 0 \in 0 .. MaxRounds
  BY LazyConstants
<1>1. /\ UNCHANGED <<list, alive, sliver, scroll>>
      /\ frame' \in [step : {"idle", "layout", "realize", "flush"}, round : 0 .. MaxRounds,
                     settled : BOOLEAN]
      /\ frame'.step = "flush" /\ frame'.settled = FALSE
  BY <1>0 DEF begin_frame, LazyInv, Shape
<1>2. Shape'
  BY <1>1 DEF LazyInv, Shape
<1>3. Family' /\ Mounting'
  BY <1>1 DEF LazyInv, Family, Mounting
<1>4. Asking'
  BY <1>1 DEF LazyInv, Asking, Lacking
<1> QED
  BY <1>2, <1>3, <1>4 DEF LazyInv

LEMMA ScrollStep ==
  ASSUME LazyInv, NEW x \in 0 .. MaxScroll, scroll_to(x)
  PROVE  LazyInv'
<1>1. /\ UNCHANGED <<list, alive>> /\ scroll' = x /\ frame.step \in {"idle", "flush"}
      /\ frame' \in [step : {"idle", "layout", "realize", "flush"}, round : 0 .. MaxRounds,
                     settled : BOOLEAN]
      /\ frame'.step = frame.step /\ frame'.settled = FALSE
  BY DEF scroll_to, LazyInv, Shape
<1>2. /\ sliver' \in [count : Nat, model : 1 .. MaxModelRevision, first : Nat, mounted : Nat,
                 mounted_revision : 0 .. MaxModelRevision, request : SUBSET Ranges,
                 dirty : BOOLEAN, children : Seq(AllKeys)]
      /\ sliver'.dirty = TRUE /\ sliver'.request = sliver.request
      /\ sliver'.count = sliver.count /\ sliver'.model = sliver.model
      /\ sliver'.first = sliver.first /\ sliver'.mounted = sliver.mounted
      /\ sliver'.mounted_revision = sliver.mounted_revision
  BY DEF scroll_to, LazyInv, Shape
<1>3. Shape'
  BY <1>1, <1>2 DEF LazyInv, Shape
<1>4. Family' /\ Mounting'
  BY <1>1, <1>2 DEF LazyInv, Family, Mounting
<1>5. Asking'
  BY <1>1, <1>2 DEF LazyInv, Asking
<1> QED
  BY <1>3, <1>4, <1>5 DEF LazyInv

LEMMA UpdateStep ==
  ASSUME LazyInv, NEW m \in Models, update_model(m)
  PROVE  LazyInv'
<1> DEFINE only == Only(list.dormant, m.keep)
           dormant == Limited(only, m.limit)
<1>1. /\ list' = [model |-> m, revision |-> list.revision + 1, active |-> list.active,
                  dormant |-> dormant]
      /\ alive' = alive \ (Range(list.dormant) \ Range(dormant))
      /\ list.revision < MaxModelRevision /\ scroll' = scroll
      /\ frame.step \in {"idle", "flush"}
  BY DEF update_model
<1>2. /\ list.active \in Seq(AllKeys) /\ list.dormant \in Seq(AllKeys) /\ alive \subseteq AllKeys
      /\ list.revision \in 1 .. MaxModelRevision /\ MaxModelRevision \in Nat
  BY LazyConstants DEF LazyInv, Shape
<1>3. /\ only \in Seq(AllKeys) /\ Range(only) = Range(list.dormant) \cap m.keep
      /\ IsInjective(only)
  BY <1>2, OnlyKeeps DEF LazyInv, Family
<1>4. /\ dormant \in Seq(AllKeys) /\ Range(dormant) \subseteq Range(only) /\ IsInjective(dormant)
      /\ m.limit # NoLimit => Len(dormant) <= m.limit
  <2> HIDE DEF only
  <2> QED
    BY <1>3, ModelFacts, LimitedDrops
<1> HIDE DEF only, dormant
<1>5. /\ list'.model = m /\ list'.revision = list.revision + 1 /\ list'.active = list.active
      /\ list'.dormant = dormant
      /\ list' \in [model : Models, revision : 1 .. MaxModelRevision,
                    active : Seq(AllKeys), dormant : Seq(AllKeys)]
  BY <1>1, <1>2, <1>4
<1>6. /\ frame' \in [step : {"idle", "layout", "realize", "flush"}, round : 0 .. MaxRounds,
                     settled : BOOLEAN]
      /\ frame'.step = frame.step /\ frame'.settled = FALSE
  BY DEF update_model, LazyInv, Shape
<1>7. /\ sliver' \in [count : Nat, model : 1 .. MaxModelRevision, first : Nat, mounted : Nat,
                 mounted_revision : 0 .. MaxModelRevision, request : SUBSET Ranges,
                 dirty : BOOLEAN, children : Seq(AllKeys)]
      /\ sliver'.dirty = TRUE /\ sliver'.request = {}
      /\ sliver'.count = Len(m.keys) /\ sliver'.model = list.revision + 1
      /\ sliver'.mounted_revision = sliver.mounted_revision
  <2>1. list.revision + 1 \in 1 .. MaxModelRevision /\ Len(m.keys) \in Nat
    BY <1>1, <1>2, ModelFacts
  <2> QED
    BY <2>1 DEF update_model, LazyInv, Shape
<1>8. Shape'
  BY <1>1, <1>2, <1>5, <1>6, <1>7 DEF LazyInv, Shape
<1>9. Family'
  <2>1. /\ IsInjective(list.active) /\ Range(list.active) \cap Range(list.dormant) = {}
        /\ alive = Range(list.active) \cup Range(list.dormant)
    BY DEF LazyInv, Family
  <2>2. Range(dormant) \subseteq m.keep /\ Range(list.active) \cap Range(dormant) = {}
    BY <2>1, <1>3, <1>4
  <2>3. alive' = Range(list.active) \cup Range(dormant)
    BY <2>1, <1>1, <1>3, <1>4
  <2> QED
    BY <2>1, <2>2, <2>3, <1>4, <1>5, Zenon DEF Family
<1>10. Mounting'
  <2>1. sliver.mounted_revision <= list.revision /\ sliver.mounted_revision \in Nat
    BY DEF LazyInv, Mounting, Shape
  <2> QED
    BY <1>2, <1>5, <1>7, <2>1 DEF Mounting
<1>11. Asking'
  BY <1>1, <1>6, <1>7 DEF Asking
<1> QED
  BY <1>8, <1>9, <1>10, <1>11 DEF LazyInv

LEMMA LackingFacts ==
  ASSUME LazyInv, NEW s,
         s.count = Len(list.model.keys), s.model = list.revision
  PROVE  /\ Lacking(s, scroll) \subseteq Ranges
         /\ \A r, q \in Lacking(s, scroll) : r = q
         /\ \A r \in Lacking(s, scroll) :
              /\ r.first = FirstCached(s.count, scroll) /\ r.end = CachedEnd(s.count, scroll)
              /\ r.revision = list.revision
<1>1. list.model \in Models /\ list.revision \in 1 .. MaxModelRevision /\ scroll \in Nat
  BY LazyConstants DEF LazyInv, Shape
<1>2. Len(list.model.keys) \in Nat
  BY <1>1, ModelFacts
<1>3. FirstCached(s.count, scroll) \in Nat /\ CachedEnd(s.count, scroll) \in Nat
  <2>1. /\ FirstCached(s.count, scroll) \in 0 .. s.count /\ CachedEnd(s.count, scroll) \in 0 .. s.count
        /\ s.count \in Nat
    BY <1>1, <1>2, RangeNeeded
  <2> QED
    BY <2>1
<1> QED
  BY <1>1, <1>3 DEF Lacking, Ranges

LEMMA LayoutStep == LazyInv /\ layout => LazyInv'
<1> SUFFICES ASSUME LazyInv, layout PROVE LazyInv'
  OBVIOUS
<1> DEFINE synced == [sliver EXCEPT !.children = list.active,
                               !.dirty = @ \/ sliver.children # list.active]
<1>1. /\ list.active \in Seq(AllKeys) /\ list.revision \in 1 .. MaxModelRevision
      /\ sliver \in [count : Nat, model : 1 .. MaxModelRevision, first : Nat, mounted : Nat,
                 mounted_revision : 0 .. MaxModelRevision, request : SUBSET Ranges,
                 dirty : BOOLEAN, children : Seq(AllKeys)]
  BY DEF LazyInv, Shape
<1>2. /\ synced \in [count : Nat, model : 1 .. MaxModelRevision, first : Nat, mounted : Nat,
                 mounted_revision : 0 .. MaxModelRevision, request : SUBSET Ranges,
                 dirty : BOOLEAN, children : Seq(AllKeys)]
      /\ synced.dirty = (sliver.dirty \/ sliver.children # list.active)
      /\ synced.children = list.active /\ synced.request = sliver.request
      /\ synced.count = sliver.count /\ synced.model = sliver.model
      /\ synced.first = sliver.first /\ synced.mounted = sliver.mounted
      /\ synced.mounted_revision = sliver.mounted_revision
  BY <1>1
<1>3. /\ frame.step = "flush" /\ UNCHANGED <<list, alive, scroll>>
      /\ sliver' = IF synced.dirty THEN Laid(synced) ELSE synced
  BY DEF layout
<1>4. /\ frame' = IF ~(\E r \in sliver'.request : r.revision = list.revision)
                    THEN [frame EXCEPT !.step = "idle", !.settled = TRUE]
                  ELSE IF frame.round = MaxRounds THEN [frame EXCEPT !.step = "idle"]
                  ELSE [frame EXCEPT !.step = "realize"]
  BY DEF layout
<1> HIDE DEF synced
<1>5. sliver.count = Len(list.model.keys) /\ sliver.model = list.revision
  BY DEF LazyInv, Mounting
<1>6. Laid(synced) = [synced EXCEPT !.dirty = FALSE, !.request = Lacking(synced, scroll)]
  BY DEF Laid, Lacking
<1>7. Lacking(synced, scroll) \subseteq Ranges
  BY <1>2, <1>5, LackingFacts
<1>8. /\ sliver' \in [count : Nat, model : 1 .. MaxModelRevision, first : Nat, mounted : Nat,
                 mounted_revision : 0 .. MaxModelRevision, request : SUBSET Ranges,
                 dirty : BOOLEAN, children : Seq(AllKeys)]
      /\ sliver'.dirty = FALSE /\ sliver'.children = list.active
      /\ sliver'.request = IF synced.dirty THEN Lacking(synced, scroll) ELSE sliver.request
      /\ sliver'.count = sliver.count /\ sliver'.model = sliver.model
      /\ sliver'.first = sliver.first /\ sliver'.mounted = sliver.mounted
      /\ sliver'.mounted_revision = sliver.mounted_revision
  <2>1. CASE synced.dirty
    BY <1>2, <1>3, <1>6, <1>7, <2>1
  <2>2. CASE ~synced.dirty
    BY <1>2, <1>3, <2>2
  <2> QED
    BY <2>1, <2>2
<1>9. sliver'.request = Lacking(sliver', scroll)
  <2>1. Lacking(synced, scroll) = Lacking(sliver', scroll)
    BY <1>2, <1>8 DEF Lacking
  <2>2. CASE ~synced.dirty
    <3>1. ~sliver.dirty /\ sliver.children = list.active
      BY <1>1, <1>2, <2>2
    <3>2. sliver.request = Lacking(sliver, scroll)
      BY <3>1 DEF LazyInv, Asking
    <3> QED
      BY <3>1, <3>2, <1>8, <2>2 DEF Lacking
  <2> QED
    BY <1>8, <2>1, <2>2
<1>10. /\ \A r, q \in sliver'.request : r = q
       /\ \A r \in sliver'.request : r.revision = list.revision
  BY <1>5, <1>8, <1>9, LackingFacts
<1>11. /\ frame' \in [step : {"idle", "layout", "realize", "flush"}, round : 0 .. MaxRounds,
                     settled : BOOLEAN]
       /\ frame'.step = "realize" => sliver'.request # {} /\ frame'.round < MaxRounds
       /\ frame'.settled => frame'.step = "idle" /\ sliver'.request = {}
  <2>1. /\ frame \in [step : {"idle", "layout", "realize", "flush"}, round : 0 .. MaxRounds,
                      settled : BOOLEAN]
        /\ ~frame.settled /\ MaxRounds \in Nat
    BY <1>3, LazyConstants DEF LazyInv, Shape, Asking
  <2>2. CASE ~(\E r \in sliver'.request : r.revision = list.revision)
    <3>1. sliver'.request = {}
      BY <2>2, <1>10
    <3> QED
      BY <3>1, <2>1, <2>2, <1>4
  <2>3. CASE (\E r \in sliver'.request : r.revision = list.revision) /\ frame.round = MaxRounds
    BY <2>1, <2>3, <1>4
  <2>4. CASE (\E r \in sliver'.request : r.revision = list.revision) /\ frame.round # MaxRounds
    BY <2>1, <2>4, <1>4
  <2> QED
    BY <2>2, <2>3, <2>4
<1>12. Shape'
  BY <1>3, <1>8, <1>10, <1>11 DEF LazyInv, Shape
<1>13. Family' /\ Mounting'
  BY <1>3, <1>8 DEF LazyInv, Family, Mounting
<1>14. Asking'
  BY <1>3, <1>8, <1>9, <1>11 DEF Asking
<1> QED
  BY <1>12, <1>13, <1>14 DEF LazyInv

LEMMA AskedFacts ==
  ASSUME LazyInv, frame.step = "realize"
  PROVE  /\ Asked \in sliver.request /\ Asked.revision = list.revision
         /\ Asked.first \in Nat /\ Asked.end \in Nat /\ Asked.first <= Asked.end
         /\ Wanted \in Seq(AllKeys) /\ IsInjective(Wanted)
         /\ Len(Wanted) = Asked.end - Asked.first
         /\ Wanted = SubSeq(list.model.keys, Asked.first + 1, Asked.first + (Asked.end - Asked.first))
<1>1. /\ list.model \in Models /\ scroll \in Nat /\ sliver.request # {} /\ ~sliver.dirty
      /\ sliver.request = Lacking(sliver, scroll)
      /\ sliver.count = Len(list.model.keys) /\ sliver.model = list.revision
  BY LazyConstants DEF LazyInv, Shape, Asking, Mounting
<1>2. /\ list.model.keys \in Seq(AllKeys) /\ IsInjective(list.model.keys)
      /\ Len(list.model.keys) \in Nat
  BY <1>1, ModelFacts
<1>3. Asked \in sliver.request
  BY <1>1 DEF Asked
<1>4. /\ Asked.first = FirstCached(sliver.count, scroll) /\ Asked.end = CachedEnd(sliver.count, scroll)
      /\ Asked.revision = list.revision
  BY <1>1, <1>3, LackingFacts
<1>5. /\ Asked.first \in 0 .. Len(list.model.keys) /\ Asked.end \in 0 .. Len(list.model.keys)
      /\ Asked.first <= Asked.end
  BY <1>1, <1>2, <1>4, RangeNeeded
<1>6. Asked.first \in Nat /\ Asked.end \in Nat /\ Asked.end <= Len(list.model.keys)
  BY <1>2, <1>5
<1>7. /\ Wanted \in Seq(AllKeys) /\ IsInjective(Wanted) /\ Len(Wanted) = Asked.end - Asked.first
  BY <1>2, <1>5, <1>6, PartKeeps DEF Wanted
<1>8. Asked.first + (Asked.end - Asked.first) = Asked.end
  BY <1>6
<1> QED
  BY <1>3, <1>4, <1>5, <1>6, <1>7, <1>8 DEF Wanted

LEMMA RealizeStep == LazyInv /\ realize => LazyInv'
<1> SUFFICES ASSUME LazyInv, realize PROVE LazyInv'
  OBVIOUS
<1> DEFINE wanted == Range(Wanted)
           old == Except(list.dormant, wanted)
           gone == Except(list.active, wanted)
           rest == old \o gone
           only == Only(rest, list.model.keep)
           dormant == Limited(only, list.model.limit)
<1>1. /\ frame.step = "realize" /\ scroll' = scroll
      /\ list' = [list EXCEPT !.active = Wanted, !.dormant = dormant]
      /\ alive' = (alive \cup wanted) \ (Range(rest) \ Range(dormant))
      /\ sliver' = [sliver EXCEPT !.first = Asked.first, !.mounted = Asked.end - Asked.first,
                                  !.mounted_revision = Asked.revision, !.request = {},
                                  !.dirty = TRUE]
      /\ frame' = [frame EXCEPT !.step = "flush", !.round = @ + 1]
  BY DEF realize
<1>2. /\ Asked.first \in Nat /\ Asked.end - Asked.first \in Nat /\ Asked.revision = list.revision
      /\ Wanted \in Seq(AllKeys) /\ IsInjective(Wanted) /\ Len(Wanted) = Asked.end - Asked.first
      /\ Wanted = SubSeq(list.model.keys, Asked.first + 1, Asked.first + (Asked.end - Asked.first))
  BY <1>1, AskedFacts
<1>3. /\ list \in [model : Models, revision : 1 .. MaxModelRevision,
                   active : Seq(AllKeys), dormant : Seq(AllKeys)]
      /\ list.active \in Seq(AllKeys) /\ list.dormant \in Seq(AllKeys) /\ list.model \in Models
      /\ alive \subseteq AllKeys /\ wanted \subseteq AllKeys
  BY <1>2, KeysOf DEF LazyInv, Shape
<1>4. /\ IsInjective(list.active) /\ IsInjective(list.dormant)
      /\ Range(list.active) \cap Range(list.dormant) = {}
      /\ alive = Range(list.active) \cup Range(list.dormant)
  BY DEF LazyInv, Family
<1>5. /\ old \in Seq(AllKeys) /\ Range(old) = Range(list.dormant) \ wanted /\ IsInjective(old)
      /\ gone \in Seq(AllKeys) /\ Range(gone) = Range(list.active) \ wanted /\ IsInjective(gone)
  BY <1>3, <1>4, ExceptDrops
<1> HIDE DEF old, gone, wanted
<1>6. /\ rest \in Seq(AllKeys) /\ Range(rest) = Range(old) \cup Range(gone) /\ IsInjective(rest)
  <2>1. Range(old) \cap Range(gone) = {}
    BY <1>4, <1>5
  <2> QED
    BY <1>5, <2>1, ConcatInjective
<1> HIDE DEF rest
<1>7. /\ only \in Seq(AllKeys) /\ Range(only) = Range(rest) \cap list.model.keep
      /\ IsInjective(only)
  BY <1>6, OnlyKeeps
<1> HIDE DEF only
<1>8. /\ dormant \in Seq(AllKeys) /\ Range(dormant) \subseteq Range(only) /\ IsInjective(dormant)
      /\ list.model.limit # NoLimit => Len(dormant) <= list.model.limit
  BY <1>3, <1>7, ModelFacts, LimitedDrops
<1> HIDE DEF dormant
<1>9. /\ list' \in [model : Models, revision : 1 .. MaxModelRevision,
                    active : Seq(AllKeys), dormant : Seq(AllKeys)]
      /\ list'.model = list.model /\ list'.revision = list.revision
      /\ list'.active = Wanted /\ list'.dormant = dormant
  BY <1>1, <1>2, <1>3, <1>8
<1>10. /\ sliver' \in [count : Nat, model : 1 .. MaxModelRevision, first : Nat, mounted : Nat,
                 mounted_revision : 0 .. MaxModelRevision, request : SUBSET Ranges,
                 dirty : BOOLEAN, children : Seq(AllKeys)]
       /\ sliver'.dirty = TRUE /\ sliver'.request = {}
       /\ sliver'.count = sliver.count /\ sliver'.model = sliver.model
       /\ sliver'.first = Asked.first /\ sliver'.mounted = Asked.end - Asked.first
       /\ sliver'.mounted_revision = list.revision
  <2>1. list.revision \in 0 .. MaxModelRevision
    BY <1>3
  <2> QED
    BY <1>1, <1>2, <2>1 DEF LazyInv, Shape
<1>11. /\ frame' \in [step : {"idle", "layout", "realize", "flush"}, round : 0 .. MaxRounds,
                     settled : BOOLEAN]
       /\ frame'.step = "flush" /\ ~frame'.settled
  <2>1. ~frame.settled /\ frame.round < MaxRounds /\ MaxRounds \in Nat
    BY <1>1, LazyConstants DEF LazyInv, Asking
  <2>2. frame \in [step : {"idle", "layout", "realize", "flush"}, round : 0 .. MaxRounds,
                   settled : BOOLEAN]
    BY DEF LazyInv, Shape
  <2>3. frame.round + 1 \in 0 .. MaxRounds
    BY <2>1, <2>2
  <2> QED
    BY <1>1, <2>1, <2>2, <2>3
<1>12. alive' = wanted \cup Range(dormant) /\ wanted \cap Range(dormant) = {}
  BY <1>1, <1>4, <1>5, <1>6, <1>7, <1>8
<1>13. Shape'
  <2>1. alive' \subseteq AllKeys
    BY <1>12, <1>3, <1>8, KeysOf
  <2> QED
    BY <1>1, <1>9, <1>10, <1>11, <2>1 DEF LazyInv, Shape
<1>14. Family'
  <2>1. Range(dormant) \subseteq list.model.keep
    BY <1>7, <1>8
  <2> QED
    BY <1>2, <1>8, <1>9, <1>12, <2>1, Zenon DEF Family, wanted
<1>15. Mounting'
  <2>1. sliver.count = Len(list.model.keys) /\ sliver.model = list.revision /\ list.revision <= list.revision
    BY <1>3 DEF LazyInv, Mounting
  <2> QED
    BY <1>2, <1>9, <1>10, <2>1 DEF Mounting
<1>16. Asking'
  BY <1>10, <1>11 DEF Asking
<1> QED
  BY <1>13, <1>14, <1>15, <1>16 DEF LazyInv

LEMMA ThrowStep ==
  ASSUME LazyInv, NEW b \in BOOLEAN, realize_throws(b)
  PROVE  LazyInv'
<1>1. /\ frame.step = "realize" /\ UNCHANGED <<sliver, scroll>>
      /\ frame' = [frame EXCEPT !.step = "idle"]
      /\ \/ list' = [list EXCEPT !.active = <<>>, !.dormant = <<>>] /\ alive' = {}
         \/ UNCHANGED <<list, alive>>
  BY DEF realize_throws
<1>2. /\ frame' \in [step : {"idle", "layout", "realize", "flush"}, round : 0 .. MaxRounds,
                     settled : BOOLEAN]
      /\ frame'.step = "idle" /\ ~frame'.settled
  BY <1>1 DEF LazyInv, Shape, Asking
<1>3. CASE UNCHANGED <<list, alive>>
  <2>1. Shape' /\ Family' /\ Mounting'
    BY <1>1, <1>2, <1>3 DEF LazyInv, Shape, Family, Mounting
  <2>2. Asking'
    BY <1>1, <1>2 DEF LazyInv, Asking, Lacking
  <2> QED
    BY <2>1, <2>2 DEF LazyInv
<1>4. CASE list' = [list EXCEPT !.active = <<>>, !.dormant = <<>>] /\ alive' = {}
  <2>1. /\ list' \in [model : Models, revision : 1 .. MaxModelRevision,
                      active : Seq(AllKeys), dormant : Seq(AllKeys)]
        /\ list'.model = list.model /\ list'.revision = list.revision
        /\ list'.active = <<>> /\ list'.dormant = <<>> /\ list.model \in Models
    <3>1. <<>> \in Seq(AllKeys)
      OBVIOUS
    <3>2. list \in [model : Models, revision : 1 .. MaxModelRevision,
                    active : Seq(AllKeys), dormant : Seq(AllKeys)]
      BY DEF LazyInv, Shape
    <3> QED
      BY <1>4, <3>1, <3>2
  <2>2. Shape'
    BY <1>1, <1>2, <1>4, <2>1 DEF LazyInv, Shape
  <2>3. Range(<<>>) = {} /\ IsInjective(<<>>) /\ Len(<<>>) = 0
    BY DEF Range, IsInjective
  <2>4. list.model.limit # NoLimit => 0 <= list.model.limit
    BY <2>1, ModelFacts
  <2>5. Family'
    BY <1>4, <2>1, <2>3, <2>4, Zenon DEF Family
  <2>6. \A k \in Nat : SubSeq(list.model.keys, k + 1, k) = <<>>
    BY <2>1, ModelFacts
  <2>7. Mounting'
    <3>1. sliver.first \in Nat /\ sliver.first + 0 = sliver.first
      BY DEF LazyInv, Shape
    <3> QED
      BY <1>1, <2>1, <2>3, <2>6, <3>1 DEF LazyInv, Mounting
  <2>8. Asking'
    BY <1>1, <1>2 DEF LazyInv, Asking, Lacking
  <2> QED
    BY <2>2, <2>5, <2>7, <2>8 DEF LazyInv
<1> QED
  BY <1>1, <1>3, <1>4

LEMMA LazyStep == LazyInv /\ [LazyNext]_lazyVars => LazyInv'
<1> SUFFICES ASSUME LazyInv, [LazyNext]_lazyVars PROVE LazyInv'
  OBVIOUS
<1>1. CASE UNCHANGED lazyVars
  BY <1>1 DEF lazyVars, LazyInv, Shape, Family, Mounting, Asking, Lacking
<1> QED
  BY <1>1, BeginStep, LayoutStep, RealizeStep, UpdateStep, ScrollStep, ThrowStep DEF LazyNext

LEMMA LazyInvFits == LazyInv => LazyTypeOK /\ LazyFits
<1> SUFFICES ASSUME LazyInv PROVE LazyTypeOK /\ LazyFits
  OBVIOUS
<1>1. Cardinality(sliver.request) <= 1
  <2>1. CASE sliver.request = {}
    BY <2>1, FS_EmptySet
  <2>2. CASE sliver.request # {}
    <3>0. \A r, q \in sliver.request : r = q
      BY DEF LazyInv, Shape
    <3>1. PICK r : sliver.request = {r}
      BY <2>2, <3>0
    <3> QED
      BY <3>1, FS_Singleton
  <2> QED
    BY <2>1, <2>2
<1>2. LazyTypeOK
  BY <1>1 DEF LazyInv, Shape, LazyTypeOK
<1>3. ASSUME frame.settled
      PROVE  LET n == Len(list.model.keys)
                 needed == Needed(n, scroll)
             IN  /\ sliver.children = list.active
                 /\ list.active = SubSeq(list.model.keys, sliver.first + 1, sliver.first + sliver.mounted)
                 /\ {i \in 0 .. n - 1 : sliver.first <= i /\ i < sliver.first + sliver.mounted} = needed
  <2> DEFINE n == Len(list.model.keys)
  <2>1. /\ sliver.children = list.active /\ sliver.request = {}
        /\ sliver.request = Lacking(sliver, scroll)
    BY <1>3 DEF LazyInv, Asking
  <2>2. /\ sliver.mounted_revision = sliver.model /\ sliver.first = FirstCached(sliver.count, scroll)
        /\ sliver.mounted = CachedEnd(sliver.count, scroll) - FirstCached(sliver.count, scroll)
        /\ sliver.mounted = Len(sliver.children)
    BY <2>1 DEF Lacking
  <2>3. /\ list.active = SubSeq(list.model.keys, sliver.first + 1, sliver.first + sliver.mounted)
        /\ sliver.count = n
    BY <2>1, <2>2 DEF LazyInv, Mounting
  <2>4. n \in Nat /\ scroll \in Nat
    BY ModelFacts, LazyConstants DEF LazyInv, Shape
  <2> HIDE DEF n
  <2>5. /\ FirstCached(n, scroll) \in 0 .. n /\ CachedEnd(n, scroll) \in 0 .. n
        /\ {i \in 0 .. n - 1 : FirstCached(n, scroll) <= i /\ i < CachedEnd(n, scroll)} = Needed(n, scroll)
    BY <2>4, RangeNeeded
  <2>6. sliver.first + sliver.mounted = CachedEnd(n, scroll)
    BY <2>2, <2>3, <2>5
  <2> QED
    BY <2>1, <2>2, <2>3, <2>5, <2>6 DEF n
<1>4. LazyFits
  BY <1>3 DEF LazyFits, LazyInv, Family
<1> QED
  BY <1>2, <1>4

LEMMA LazyInvAlways == LazySpec => []LazyInv
<1>1. LazyInit => LazyInv
  BY LazyStart
<1>2. LazyInv /\ [LazyNext]_lazyVars => LazyInv'
  BY LazyStep
<1> QED
  BY <1>1, <1>2, PTL DEF LazySpec

(* Type correctness of the lazy list: only keys of the models are mounted, *)
(* what the sliver counts never goes below zero, and it asks for at most   *)
(* one range at a time, whatever the extents, the scrolls and the models.  *)
THEOREM LazyTypeCorrect == LazySpec => []LazyTypeOK
<1>1. LazyInv => LazyTypeOK
  BY LazyInvFits
<1> QED
  BY <1>1, LazyInvAlways, PTL

(* realize_lazy_fixed_extent_range and enforce_lazy_keep_alive_limit keep  *)
(* every mounted element active or dormant, the dormant ones kept alive    *)
(* and within the limit, and a frame that settles has exactly the items    *)
(* that reach into the cached viewport: for every item, viewport and cache *)
(* extent, every model and every order of updates, scrolls and failures.   *)
THEOREM LazyAlwaysFits == LazySpec => []LazyFits
<1>1. LazyInv => LazyFits
  BY LazyInvFits
<1> QED
  BY <1>1, LazyInvAlways, PTL

(***************************************************************************)
(* The tree of components: what lies below a component.                    *)
(***************************************************************************)
IsTree(K) ==
  /\ K \in [Components -> SUBSET Components]
  /\ \A c \in Components : RootComponent \notin K[c]
  /\ \A c, d \in Components : c # d => K[c] \cap K[d] = {}
  /\ \A S \in (SUBSET Components) \ {{}} : \E c \in S : S \cap K[c] = {}

Reach(K, c) == {d \in Components : \A S \in SUBSET Components :
                  c \in S /\ (\A k \in S : K[k] \subseteq S) => d \in S}
Under(K, c) == UNION {Reach(K, k) : k \in K[c]}

LEMMA ReachClosed ==
  ASSUME NEW K, IsTree(K), NEW c \in Components
  PROVE  /\ c \in Reach(K, c) /\ Reach(K, c) \subseteq Components
         /\ \A d \in Reach(K, c) : K[d] \subseteq Reach(K, c)
<1>1. c \in Reach(K, c) /\ Reach(K, c) \subseteq Components
  BY DEF Reach
<1>2. ASSUME NEW d \in Reach(K, c), NEW k \in K[d] PROVE k \in Reach(K, c)
  <2>1. d \in Components /\ k \in Components
    BY <1>1, <1>2 DEF IsTree
  <2>2. ASSUME NEW S \in SUBSET Components, c \in S, \A j \in S : K[j] \subseteq S PROVE k \in S
    <3>1. d \in S
      BY <2>2 DEF Reach
    <3> QED
      BY <3>1, <2>2
  <2> QED
    BY <2>1, <2>2 DEF Reach
<1> QED
  BY <1>1, <1>2

LEMMA ReachLeast ==
  ASSUME NEW K, NEW c, NEW S \in SUBSET Components,
         c \in S, \A k \in S : K[k] \subseteq S
  PROVE  Reach(K, c) \subseteq S
  BY DEF Reach

LEMMA ReachParts ==
  ASSUME NEW K, IsTree(K), NEW c \in Components
  PROVE  /\ Reach(K, c) = {c} \cup Under(K, c)
         /\ \A d \in Reach(K, c) : Reach(K, d) \subseteq Reach(K, c)
<1>0. K[c] \subseteq Components
  BY DEF IsTree
<1>1. ASSUME NEW d \in Reach(K, c) PROVE Reach(K, d) \subseteq Reach(K, c)
  BY <1>1, ReachClosed, ReachLeast
<1>2. Under(K, c) \subseteq Reach(K, c)
  BY <1>1, ReachClosed DEF Under
<1>3. Reach(K, c) \subseteq {c} \cup Under(K, c)
  <2> DEFINE S == {c} \cup Under(K, c)
  <2>1. S \in SUBSET Components
    BY <1>0, ReachClosed DEF Under
  <2>2. ASSUME NEW d \in S PROVE K[d] \subseteq S
    <3>1. CASE d = c
      BY <1>0, <3>1, ReachClosed DEF Under
    <3>2. CASE d # c
      <4>1. PICK k \in K[c] : d \in Reach(K, k)
        BY <2>2, <3>2 DEF Under
      <4>2. K[d] \subseteq Reach(K, k)
        BY <1>0, <4>1, ReachClosed
      <4> QED
        BY <4>1, <4>2 DEF Under
    <3> QED
      BY <3>1, <3>2
  <2> HIDE DEF S
  <2>3. c \in S
    BY DEF S
  <2>4. Reach(K, c) \subseteq S
    BY <2>1, <2>2, <2>3, ReachLeast
  <2> QED
    BY <2>4 DEF S
<1> QED
  BY <1>1, <1>2, <1>3, ReachClosed

LEMMA NotUnderItself ==
  ASSUME NEW K, IsTree(K), NEW c \in Components
  PROVE  c \notin Under(K, c)
<1> SUFFICES ASSUME c \in Under(K, c) PROVE FALSE
  OBVIOUS
<1> DEFINE S == {d \in Components : c \in Reach(K, d)}
<1>1. \A d \in S : \E k \in K[d] : k \in S
  <2> SUFFICES ASSUME NEW d \in S PROVE \E k \in K[d] : k \in S
    OBVIOUS
  <2>1. c \in Under(K, d)
    BY ReachParts
  <2>2. PICK k \in K[d] : c \in Reach(K, k)
    BY <2>1 DEF Under
  <2> QED
    BY <2>2 DEF IsTree
<1>2. c \in S
  BY ReachClosed
<1>3. S \in (SUBSET Components) \ {{}}
  BY <1>2
<1> HIDE DEF S
<1> QED
  BY <1>1, <1>3 DEF IsTree

(* A kid is reached through its parent only. *)
LEMMA KidReached ==
  ASSUME NEW K, IsTree(K), NEW c \in Components, NEW k \in K[c], NEW d \in Components,
         k \in Reach(K, d), k # d
  PROVE  c \in Reach(K, d)
<1> SUFFICES ASSUME c \notin Reach(K, d) PROVE FALSE
  OBVIOUS
<1> DEFINE S == Reach(K, d) \ {k}
<1>1. S \in SUBSET Components /\ d \in S
  BY ReachClosed
<1>2. ASSUME NEW e \in S PROVE K[e] \subseteq S
  <2>1. K[e] \subseteq Reach(K, d) /\ e # c /\ e \in Components
    BY ReachClosed
  <2>2. k \notin K[e]
    BY <2>1 DEF IsTree
  <2> QED
    BY <2>1, <2>2
<1> HIDE DEF S
<1>3. Reach(K, d) \subseteq S
  BY <1>1, <1>2, ReachLeast
<1> QED
  BY <1>3 DEF S

LEMMA UnderClosed ==
  ASSUME NEW K, IsTree(K), NEW c \in Components
  PROVE  /\ K[c] \subseteq Under(K, c) /\ Under(K, c) \subseteq Components
         /\ \A d \in Under(K, c) : K[d] \subseteq Under(K, c)
<1>0. K[c] \subseteq Components
  BY DEF IsTree
<1> QED
  BY <1>0, ReachClosed DEF Under

(* Below a kid of c there is neither c, nor what c is under, nor another   *)
(* kid of theirs.                                                          *)
LEMMA KidApart ==
  ASSUME NEW K, IsTree(K), NEW c \in Components, NEW k \in K[c],
         NEW a \in Components, a = c \/ c \in Under(K, a)
  PROVE  /\ a \notin Reach(K, k)
         /\ \A j \in K[a] : j # k => j \notin Reach(K, k)
         /\ a # c => k \notin K[a]
<1>0. k \in Components /\ K[a] \subseteq Components
  BY DEF IsTree
<1>1. a \notin Reach(K, k)
  <2> SUFFICES ASSUME a \in Reach(K, k) PROVE FALSE
    OBVIOUS
  <2>1. c \in Reach(K, a)
    BY ReachParts
  <2>2. c \in Reach(K, k)
    BY <1>0, <2>1, ReachParts
  <2>3. c \in Under(K, c)
    BY <2>2 DEF Under
  <2> QED
    BY <2>3, NotUnderItself
<1>2. ASSUME NEW j \in K[a], j # k, j \in Reach(K, k) PROVE FALSE
  <2>1. a \in Reach(K, k)
    BY <1>0, <1>2, KidReached
  <2> QED
    BY <2>1, <1>1
<1>3. a # c => k \notin K[a]
  BY DEF IsTree
<1> QED
  BY <1>1, <1>2, <1>3

(***************************************************************************)
(* The inductive invariant, of a tree t and the builds b under way.        *)
(***************************************************************************)
ElementSet(P) == [mounted : BOOLEAN, dirty : BOOLEAN, prop : P \cup {NoProp},
                built : P \cup {NoProp}, stale : BOOLEAN, reads : SUBSET Signals,
                view : [Components -> P \cup {NoProp}]]
TreeSet(P) == [element : [Components -> ElementSet(P)], deps : [Components -> SUBSET Signals],
               subs : [Signals -> SUBSET Components], dirty : SUBSET Components,
               batch : SUBSET Components, spoiled : SUBSET Components]
Frames == [of : Components, phase : {"build", "children"}, todo : SUBSET Components]
OnStack(b) == {b[i].of : i \in 1 .. Len(b)}

Agrees(t) ==
  /\ \A c \in Components, s \in Signals : s \in t.deps[c] <=> c \in t.subs[s]
  /\ \A c \in Components :
       /\ t.element[c].reads = t.deps[c]
       /\ t.element[c].mounted <=> t.element[c].prop # NoProp
       /\ ~t.element[c].mounted => t.deps[c] = {} /\ c \notin t.dirty /\ c \notin t.batch
       /\ t.element[c].stale => t.element[c].dirty
       /\ t.element[c].mounted => t.element[c].built = t.element[c].prop

(* A dirty element will be visited, or a failure kept it from being. *)
Flagged(t, stack) ==
  \A c \in Components : t.element[c].dirty => c \in t.dirty \cup t.batch \cup (t.spoiled \ stack)

(* A build that gives its kids their props has given them to all but those *)
(* in todo; builds are nested as components are.                           *)
Stacked(K, t, b) ==
  /\ b \in Seq(Frames)
  /\ \A i \in 1 .. Len(b) :
       /\ t.element[b[i].of].mounted /\ b[i].todo \subseteq K[b[i].of]
       /\ b[i].phase = "children" => \A k \in K[b[i].of] \ b[i].todo :
            \/ t.element[b[i].of].view[k] = NoProp
            \/ t.element[k].prop = t.element[b[i].of].view[k]
  /\ \A i, j \in 1 .. Len(b) : i < j => b[j].of \in Under(K, b[i].of)

(* The kids of a built component are the ones its view asked for. *)
Kin(K, t, stack) ==
  \A c \in Components \ (t.spoiled \cup stack) : t.element[c].mounted =>
    \A k \in K[c] : t.element[k].prop = t.element[c].view[k]

TreeOK(K, P, t, b) ==
  /\ t \in TreeSet(P) /\ Agrees(t) /\ Flagged(t, OnStack(b)) /\ Stacked(K, t, b)
  /\ Kin(K, t, OnStack(b))

(* What leaves props, views and failures alone disturbs neither. *)
LEMMA Settled ==
  ASSUME NEW K, NEW P, NEW t, NEW b, IsTree(K), Stacked(K, t, b), Kin(K, t, OnStack(b)),
         NEW u, u.spoiled = t.spoiled,
         \A c \in Components : /\ u.element[c].mounted = t.element[c].mounted
                               /\ u.element[c].prop = t.element[c].prop
                               /\ u.element[c].view = t.element[c].view
  PROVE  Stacked(K, u, b) /\ Kin(K, u, OnStack(b))
<1>1. \A i \in 1 .. Len(b) : b[i].of \in Components /\ K[b[i].of] \subseteq Components
  <2> SUFFICES ASSUME NEW i \in 1 .. Len(b) PROVE b[i].of \in Components /\ K[b[i].of] \subseteq Components
    OBVIOUS
  <2>1. b[i] \in Frames
    BY DEF Stacked
  <2> QED
    BY <2>1 DEF Frames, IsTree
<1>2. Stacked(K, u, b)
  BY <1>1 DEF Stacked
<1>3. \A c \in Components : K[c] \subseteq Components
  BY DEF IsTree
<1>4. Kin(K, u, OnStack(b))
  BY <1>3 DEF Kin
<1> QED
  BY <1>2, <1>4

(* Two elements alike but for their marks. *)
SameBuild(e, f) == e.mounted = f.mounted /\ e.prop = f.prop /\ e.built = f.built /\ e.view = f.view
               /\ e.reads = f.reads

LEMMA Marked ==
  ASSUME NEW P, NEW e \in ElementSet(P)
  PROVE  /\ [e EXCEPT !.stale = TRUE] \in ElementSet(P) /\ SameBuild([e EXCEPT !.stale = TRUE], e)
         /\ [e EXCEPT !.stale = TRUE].stale = TRUE /\ [e EXCEPT !.stale = TRUE].dirty = e.dirty
         /\ [e EXCEPT !.dirty = TRUE] \in ElementSet(P) /\ SameBuild([e EXCEPT !.dirty = TRUE], e)
         /\ [e EXCEPT !.dirty = TRUE].dirty = TRUE /\ [e EXCEPT !.dirty = TRUE].stale = e.stale
         /\ SameBuild(e, e) /\ e.dirty \in BOOLEAN /\ e.stale \in BOOLEAN
  BY DEF ElementSet, SameBuild

LEMMA StaleFields ==
  ASSUME NEW P, NEW t \in TreeSet(P), NEW A, NEW u, u = Stale(t, A)
  PROVE  /\ u \in TreeSet(P)
         /\ u.deps = t.deps /\ u.subs = t.subs /\ u.batch = t.batch /\ u.spoiled = t.spoiled
         /\ u.dirty = t.dirty
         /\ \A c \in Components :
              /\ SameBuild(u.element[c], t.element[c]) /\ u.element[c].dirty = t.element[c].dirty
              /\ u.element[c].stale = (c \in A \/ t.element[c].stale)
<1> DEFINE e == [c \in Components |-> IF c \in A THEN [t.element[c] EXCEPT !.stale = TRUE]
                                      ELSE t.element[c]]
<1>1. u = [t EXCEPT !.element = e]
  BY DEF Stale
<1>2. \A c \in Components : t.element[c] \in ElementSet(P)
  BY DEF TreeSet
<1>3. \A c \in Components : e[c] = IF c \in A THEN [t.element[c] EXCEPT !.stale = TRUE]
                                   ELSE t.element[c]
  OBVIOUS
<1>4. \A c \in Components :
        /\ e[c] \in ElementSet(P) /\ SameBuild(e[c], t.element[c]) /\ e[c].dirty = t.element[c].dirty
        /\ e[c].stale = (c \in A \/ t.element[c].stale)
  <2> SUFFICES ASSUME NEW c \in Components
               PROVE  /\ e[c] \in ElementSet(P) /\ SameBuild(e[c], t.element[c]) /\ e[c].dirty = t.element[c].dirty
                      /\ e[c].stale = (c \in A \/ t.element[c].stale)
    OBVIOUS
  <2> HIDE DEF e
  <2>1. PICK x : x = t.element[c]
    OBVIOUS
  <2>2. x \in ElementSet(P)
    BY <1>2, <2>1
  <2>3. CASE c \in A
    <3>1. PICK y : y = [x EXCEPT !.stale = TRUE]
      OBVIOUS
    <3>2. y \in ElementSet(P) /\ SameBuild(y, x) /\ y.stale = TRUE /\ y.dirty = x.dirty
      BY <2>2, <3>1, Marked
    <3>3. e[c] = y
      BY <1>3, <2>1, <2>3, <3>1
    <3> QED
      BY <2>1, <2>3, <3>2, <3>3
  <2>4. CASE c \notin A
    BY <1>3, <2>1, <2>2, <2>4, Marked
  <2> QED
    BY <2>3, <2>4
<1>5. e \in [Components -> ElementSet(P)]
  BY <1>4
<1> HIDE DEF e
<1>6. /\ u \in TreeSet(P) /\ u.element = e
      /\ u.deps = t.deps /\ u.subs = t.subs /\ u.batch = t.batch /\ u.spoiled = t.spoiled
      /\ u.dirty = t.dirty
  BY <1>1, <1>5 DEF TreeSet
<1> QED
  BY <1>4, <1>6

LEMMA MarkFields ==
  ASSUME NEW P, NEW t \in TreeSet(P), NEW B, B \subseteq Components, NEW u, u = Mark(t, B)
  PROVE  LET live == {c \in B : t.element[c].mounted}
         IN  /\ u \in TreeSet(P)
             /\ u.deps = t.deps /\ u.subs = t.subs /\ u.batch = t.batch /\ u.spoiled = t.spoiled
             /\ u.dirty = t.dirty \cup live
             /\ \A c \in Components :
                  /\ SameBuild(u.element[c], t.element[c]) /\ u.element[c].stale = t.element[c].stale
                  /\ u.element[c].dirty = (c \in live \/ t.element[c].dirty)
<1> DEFINE live == {c \in B : t.element[c].mounted}
           e == [c \in Components |-> IF c \in live THEN [t.element[c] EXCEPT !.dirty = TRUE]
                                      ELSE t.element[c]]
<1>1. u = [t EXCEPT !.dirty = @ \cup live, !.element = e]
  BY DEF Mark
<1>0. live \subseteq Components
  OBVIOUS
<1> HIDE DEF live
<1>2. \A c \in Components : t.element[c] \in ElementSet(P)
  BY DEF TreeSet
<1>3. \A c \in Components : e[c] = IF c \in live THEN [t.element[c] EXCEPT !.dirty = TRUE]
                                   ELSE t.element[c]
  OBVIOUS
<1>4. \A c \in Components :
        /\ e[c] \in ElementSet(P) /\ SameBuild(e[c], t.element[c]) /\ e[c].stale = t.element[c].stale
        /\ e[c].dirty = (c \in live \/ t.element[c].dirty)
  <2> SUFFICES ASSUME NEW c \in Components
               PROVE  /\ e[c] \in ElementSet(P) /\ SameBuild(e[c], t.element[c]) /\ e[c].stale = t.element[c].stale
                      /\ e[c].dirty = (c \in live \/ t.element[c].dirty)
    OBVIOUS
  <2> HIDE DEF e
  <2>1. PICK x : x = t.element[c]
    OBVIOUS
  <2>2. x \in ElementSet(P)
    BY <1>2, <2>1
  <2>3. CASE c \in live
    <3>1. PICK y : y = [x EXCEPT !.dirty = TRUE]
      OBVIOUS
    <3>2. y \in ElementSet(P) /\ SameBuild(y, x) /\ y.dirty = TRUE /\ y.stale = x.stale
      BY <2>2, <3>1, Marked
    <3>3. e[c] = y
      BY <1>3, <2>1, <2>3, <3>1
    <3> QED
      BY <2>1, <2>3, <3>2, <3>3
  <2>4. CASE c \notin live
    BY <1>3, <2>1, <2>2, <2>4, Marked
  <2> QED
    BY <2>3, <2>4
<1>5. e \in [Components -> ElementSet(P)]
  BY <1>4
<1> HIDE DEF e
<1>6. /\ u \in TreeSet(P) /\ u.element = e
      /\ u.deps = t.deps /\ u.subs = t.subs /\ u.batch = t.batch /\ u.spoiled = t.spoiled
      /\ u.dirty = t.dirty \cup live
  BY <1>0, <1>1, <1>5 DEF TreeSet
<1> QED
  BY <1>4, <1>6 DEF live

LEMMA MarkOK ==
  ASSUME NEW K, NEW P, NEW t, NEW b, IsTree(K), TreeOK(K, P, t, b),
         NEW A, NEW B, B \subseteq Components,
         \A c \in Components : c \in A => c \in B /\ t.element[c].mounted,
         NEW u, u = Mark(Stale(t, A), B)
  PROVE  TreeOK(K, P, u, b)
<1> DEFINE v == Stale(t, A)
<1>1. /\ v \in TreeSet(P)
      /\ v.deps = t.deps /\ v.subs = t.subs /\ v.batch = t.batch /\ v.spoiled = t.spoiled
      /\ v.dirty = t.dirty
      /\ \A c \in Components :
           /\ SameBuild(v.element[c], t.element[c]) /\ v.element[c].dirty = t.element[c].dirty
           /\ v.element[c].stale = (c \in A \/ t.element[c].stale)
  BY StaleFields DEF TreeOK
<1> HIDE DEF v
<1> DEFINE live == {c \in B : v.element[c].mounted}
<1>2. /\ u \in TreeSet(P)
      /\ u.deps = v.deps /\ u.subs = v.subs /\ u.batch = v.batch /\ u.spoiled = v.spoiled
      /\ u.dirty = v.dirty \cup live
      /\ \A c \in Components :
           /\ SameBuild(u.element[c], v.element[c]) /\ u.element[c].stale = v.element[c].stale
           /\ u.element[c].dirty = (c \in live \/ v.element[c].dirty)
  BY <1>1, MarkFields DEF v
<1>3. \A c \in Components : c \in live <=> c \in B /\ t.element[c].mounted
  BY <1>1 DEF SameBuild
<1> HIDE DEF live
<1>4. /\ u.deps = t.deps /\ u.subs = t.subs /\ u.batch = t.batch /\ u.spoiled = t.spoiled
      /\ u.dirty = t.dirty \cup live
      /\ \A c \in Components :
           /\ u.element[c].mounted = t.element[c].mounted /\ u.element[c].prop = t.element[c].prop
           /\ u.element[c].built = t.element[c].built /\ u.element[c].view = t.element[c].view
           /\ u.element[c].reads = t.element[c].reads
           /\ u.element[c].stale = (c \in A \/ t.element[c].stale)
           /\ u.element[c].dirty = (c \in live \/ t.element[c].dirty)
  BY <1>1, <1>2 DEF SameBuild
<1>5. Stacked(K, u, b) /\ Kin(K, u, OnStack(b))
  BY <1>4, Settled DEF TreeOK
<1>6. Agrees(u)
  <2>1. Agrees(t)
    BY DEF TreeOK
  <2>2. ASSUME NEW c \in Components
        PROVE  /\ u.element[c].reads = u.deps[c]
               /\ u.element[c].mounted <=> u.element[c].prop # NoProp
               /\ ~u.element[c].mounted => u.deps[c] = {} /\ c \notin u.dirty /\ c \notin u.batch
               /\ u.element[c].mounted => u.element[c].built = u.element[c].prop
    BY <1>3, <1>4, <2>1 DEF Agrees
  <2>3. ASSUME NEW c \in Components, u.element[c].stale PROVE u.element[c].dirty
    <3>1. CASE c \in A
      BY <1>3, <1>4, <3>1
    <3>2. CASE t.element[c].stale
      BY <1>4, <2>1, <3>2 DEF Agrees
    <3> QED
      BY <1>4, <2>3, <3>1, <3>2
  <2>4. \A c \in Components, s \in Signals : s \in u.deps[c] <=> c \in u.subs[s]
    BY <1>4, <2>1 DEF Agrees
  <2> QED
    BY <2>2, <2>3, <2>4 DEF Agrees
<1>7. Flagged(u, OnStack(b))
  BY <1>3, <1>4 DEF TreeOK, Flagged
<1> QED
  BY <1>2, <1>5, <1>6, <1>7 DEF TreeOK

Whole(u) == u = [element |-> u.element, deps |-> u.deps, subs |-> u.subs, dirty |-> u.dirty,
                 batch |-> u.batch, spoiled |-> u.spoiled]

LEMMA WholeTyped ==
  ASSUME NEW P, NEW u, Whole(u),
         u.element \in [Components -> ElementSet(P)], u.deps \in [Components -> SUBSET Signals],
         u.subs \in [Signals -> SUBSET Components], u.dirty \subseteq Components,
         u.batch \subseteq Components, u.spoiled \subseteq Components
  PROVE  u \in TreeSet(P)
  BY DEF Whole, TreeSet

LEMMA TreeParts ==
  ASSUME NEW P, NEW t \in TreeSet(P)
  PROVE  /\ t.element \in [Components -> ElementSet(P)] /\ t.deps \in [Components -> SUBSET Signals]
         /\ t.subs \in [Signals -> SUBSET Components] /\ t.dirty \subseteq Components
         /\ t.batch \subseteq Components /\ t.spoiled \subseteq Components
  BY DEF TreeSet

(* Reading a signal, and a signal that goes away. *)
(* One element differs from another in what it reads only. *)
OnlyReads(y, x, R) ==
  /\ y.mounted = x.mounted /\ y.prop = x.prop /\ y.view = x.view /\ y.built = x.built
  /\ y.stale = x.stale /\ y.dirty = x.dirty /\ y.reads = R

LEMMA ElementReads ==
  ASSUME NEW P, NEW x \in ElementSet(P), NEW R \in SUBSET Signals, NEW y, y = [x EXCEPT !.reads = R]
  PROVE  y \in ElementSet(P) /\ OnlyReads(y, x, R)
  BY DEF ElementSet, OnlyReads

LEMMA ReadsOK ==
  ASSUME NEW K, NEW P, NEW t, NEW b, IsTree(K), TreeOK(K, P, t, b),
         NEW D \in [Components -> SUBSET Signals],
         \A c \in Components : ~t.element[c].mounted => D[c] = {},
         NEW u, Whole(u), u.deps = D, u.element \in [Components -> ElementSet(P)],
         \A c \in Components : OnlyReads(u.element[c], t.element[c], D[c]),
         u.subs \in [Signals -> SUBSET Components],
         \A c \in Components, s \in Signals : c \in u.subs[s] <=> s \in D[c],
         u.dirty = t.dirty, u.batch = t.batch, u.spoiled = t.spoiled
  PROVE  TreeOK(K, P, u, b)
<1>1. t \in TreeSet(P) /\ t.dirty \subseteq Components /\ t.batch \subseteq Components
      /\ t.spoiled \subseteq Components
  BY TreeParts DEF TreeOK
<1>2. \A c \in Components :
        /\ u.element[c].mounted = t.element[c].mounted /\ u.element[c].prop = t.element[c].prop
        /\ u.element[c].view = t.element[c].view /\ u.element[c].built = t.element[c].built
        /\ u.element[c].stale = t.element[c].stale /\ u.element[c].dirty = t.element[c].dirty
        /\ u.element[c].reads = D[c]
  BY DEF OnlyReads
<1>3. u \in TreeSet(P)
  BY <1>1, WholeTyped
<1>4. Stacked(K, u, b) /\ Kin(K, u, OnStack(b))
  BY <1>2, Settled DEF TreeOK
<1>5. Agrees(u)
  BY <1>2 DEF TreeOK, Agrees
<1>6. Flagged(u, OnStack(b))
  BY <1>2 DEF TreeOK, Flagged
<1> QED
  BY <1>3, <1>4, <1>5, <1>6 DEF TreeOK

(***************************************************************************)
(* The start of a build of c, whose prop is now p: from t to u.            *)
(***************************************************************************)
Starts(P, t, u, c, p) ==
  /\ u \in TreeSet(P)
  /\ \A d \in Components \ {c} : u.element[d] = t.element[d] /\ u.deps[d] = t.deps[d]
  /\ u.element[c].mounted /\ ~u.element[c].dirty /\ u.element[c].prop = p
  /\ u.element[c].built = p /\ ~u.element[c].stale /\ u.element[c].reads = {} /\ u.deps[c] = {}
  /\ \A s \in Signals : u.subs[s] = t.subs[s] \ {c}
  /\ u.dirty \cup {c} = t.dirty \cup {c} /\ u.batch \cup {c} = t.batch \cup {c}
  /\ u.spoiled = t.spoiled

(* What the rest of the stack must be for a build of c to be put on it. *)
Ready(K, t, rest, c, p) ==
  /\ rest \in Seq(Frames)
  /\ \A i \in 1 .. Len(rest) :
       /\ t.element[rest[i].of].mounted /\ rest[i].todo \subseteq K[rest[i].of]
       /\ rest[i].phase = "children" => \A k \in K[rest[i].of] \ rest[i].todo :
            \/ t.element[rest[i].of].view[k] = NoProp
            \/ t.element[rest[i].of].view[k] = IF k = c THEN p ELSE t.element[k].prop
       /\ c \in Under(K, rest[i].of)
  /\ \A i, j \in 1 .. Len(rest) : i < j => rest[j].of \in Under(K, rest[i].of)
  /\ \A d \in Components : c \in K[d] => d \in OnStack(rest) \/ p = t.element[c].prop

LEMMA StackGrows ==
  ASSUME NEW rest, rest \in Seq(Frames), NEW f, f \in Frames
  PROVE  /\ Append(rest, f) \in Seq(Frames) /\ Len(Append(rest, f)) = Len(rest) + 1
         /\ Len(rest) \in Nat
         /\ \A i \in 1 .. Len(rest) : Append(rest, f)[i] = rest[i]
         /\ Append(rest, f)[Len(rest) + 1] = f
         /\ OnStack(Append(rest, f)) = OnStack(rest) \cup {f.of}
<1> DEFINE b == Append(rest, f)
<1>1. /\ b \in Seq(Frames) /\ Len(b) = Len(rest) + 1 /\ Len(rest) \in Nat
      /\ \A i \in 1 .. Len(rest) : b[i] = rest[i]
      /\ b[Len(rest) + 1] = f
  OBVIOUS
<1> HIDE DEF b
<1>2. \A i \in 1 .. Len(b) : i \in 1 .. Len(rest) \/ i = Len(rest) + 1
  BY <1>1
<1>3. \A i \in 1 .. Len(rest) : i \in 1 .. Len(b)
  BY <1>1
<1>4. Len(rest) + 1 \in 1 .. Len(b)
  BY <1>1
<1>5. OnStack(b) \subseteq OnStack(rest) \cup {f.of}
  BY <1>1, <1>2 DEF OnStack
<1>6. OnStack(rest) \subseteq OnStack(b)
  BY <1>1, <1>3 DEF OnStack
<1>7. f.of \in OnStack(b)
  BY <1>1, <1>4 DEF OnStack
<1> QED
  BY <1>1, <1>5, <1>6, <1>7 DEF b

LEMMA StartOK ==
  ASSUME NEW K, NEW P, NEW t, NEW S, IsTree(K), t \in TreeSet(P), Agrees(t), Flagged(t, S),
         NEW c \in Components, NEW p \in P, NoProp \notin P, NEW u, Starts(P, t, u, c, p),
         NEW rest, OnStack(rest) = S, Kin(K, t, S), Ready(K, t, rest, c, p),
         NEW b, b = Append(rest, Build(c))
  PROVE  TreeOK(K, P, u, b)
<1>1. Build(c) \in Frames /\ Build(c).of = c /\ Build(c).phase = "build" /\ Build(c).todo = {}
  <2>1. Build(c) = [of |-> c, phase |-> "build", todo |-> {}]
    BY DEF Build
  <2> QED
    BY <2>1 DEF Frames
<1>2. /\ b \in Seq(Frames) /\ Len(b) = Len(rest) + 1 /\ Len(rest) \in Nat
      /\ \A i \in 1 .. Len(rest) : b[i] = rest[i]
      /\ b[Len(rest) + 1] = Build(c) /\ OnStack(b) = S \cup {c}
  <2>1. PICK f \in Frames : f = Build(c)
    BY <1>1
  <2>2. b = Append(rest, f) /\ rest \in Seq(Frames)
    BY <2>1 DEF Ready
  <2>3. /\ b \in Seq(Frames) /\ Len(b) = Len(rest) + 1 /\ Len(rest) \in Nat
        /\ \A i \in 1 .. Len(rest) : b[i] = rest[i]
        /\ b[Len(rest) + 1] = f /\ OnStack(b) = OnStack(rest) \cup {f.of}
    BY <2>2, StackGrows
  <2> QED
    BY <1>1, <2>1, <2>3
<1>3. \A i \in 1 .. Len(rest) : /\ rest[i].of \in Components /\ K[rest[i].of] \subseteq Components
                                /\ rest[i].of # c
  <2> SUFFICES ASSUME NEW i \in 1 .. Len(rest)
               PROVE  /\ rest[i].of \in Components /\ K[rest[i].of] \subseteq Components
                      /\ rest[i].of # c
    OBVIOUS
  <2>1. rest[i] \in Frames /\ c \in Under(K, rest[i].of)
    BY DEF Ready
  <2> QED
    BY <2>1, NotUnderItself DEF Frames, IsTree
<1>4. \A d \in Components : u.element[d].prop = IF d = c THEN p ELSE t.element[d].prop
  BY DEF Starts
<1>5. Stacked(K, u, b)
  <2>1. ASSUME NEW i \in 1 .. Len(rest)
        PROVE  /\ u.element[b[i].of].mounted /\ b[i].todo \subseteq K[b[i].of]
               /\ b[i].phase = "children" => \A k \in K[b[i].of] \ b[i].todo :
                    \/ u.element[b[i].of].view[k] = NoProp
                    \/ u.element[k].prop = u.element[b[i].of].view[k]
    <3>1. b[i] = rest[i] /\ u.element[rest[i].of] = t.element[rest[i].of]
      BY <1>2, <1>3 DEF Starts
    <3> QED
      BY <1>3, <1>4, <3>1 DEF Ready
  <2>2. /\ u.element[Build(c).of].mounted /\ Build(c).todo \subseteq K[Build(c).of]
        /\ Build(c).phase # "children"
    BY <1>1 DEF Starts
  <2>3. ASSUME NEW i \in 1 .. Len(b), NEW j \in 1 .. Len(b), i < j
        PROVE  b[j].of \in Under(K, b[i].of)
    <3>1. i \in 1 .. Len(rest)
      BY <1>2, <2>3
    <3>2. CASE j = Len(rest) + 1
      BY <1>1, <1>2, <3>1, <3>2 DEF Ready
    <3>3. CASE j # Len(rest) + 1
      <4>1. j \in 1 .. Len(rest)
        BY <1>2, <3>3
      <4> QED
        BY <1>2, <3>1, <4>1, <2>3 DEF Ready
    <3> QED
      BY <3>2, <3>3
  <2>4. \A i \in 1 .. Len(b) : i \in 1 .. Len(rest) \/ i = Len(rest) + 1
    BY <1>2
  <2>5. ASSUME NEW i \in 1 .. Len(b)
        PROVE  /\ u.element[b[i].of].mounted /\ b[i].todo \subseteq K[b[i].of]
               /\ b[i].phase = "children" => \A k \in K[b[i].of] \ b[i].todo :
                    \/ u.element[b[i].of].view[k] = NoProp
                    \/ u.element[k].prop = u.element[b[i].of].view[k]
    BY <1>2, <2>1, <2>2, <2>4
  <2> QED
    BY <1>2, <2>3, <2>5 DEF Stacked
<1>6. Kin(K, u, OnStack(b))
  <2> SUFFICES ASSUME NEW d \in Components, d \notin u.spoiled, d \notin OnStack(b),
                      u.element[d].mounted, NEW k \in K[d]
               PROVE  u.element[k].prop = u.element[d].view[k]
    BY DEF Kin
  <2>1. d # c /\ d \notin S /\ u.element[d] = t.element[d] /\ k \in Components /\ d \notin t.spoiled
    BY <1>2 DEF Starts, IsTree
  <2>2. t.element[k].prop = t.element[d].view[k]
    BY <2>1 DEF Kin
  <2>3. k = c => p = t.element[c].prop
    BY <2>1 DEF Ready
  <2> QED
    BY <1>4, <2>1, <2>2, <2>3
<1>7. Agrees(u)
  <2>1. ASSUME NEW d \in Components, NEW s \in Signals PROVE s \in u.deps[d] <=> d \in u.subs[s]
    BY DEF Starts, Agrees
  <2>2. ASSUME NEW d \in Components
        PROVE  /\ u.element[d].reads = u.deps[d]
               /\ u.element[d].mounted <=> u.element[d].prop # NoProp
               /\ ~u.element[d].mounted => u.deps[d] = {} /\ d \notin u.dirty /\ d \notin u.batch
               /\ u.element[d].stale => u.element[d].dirty
               /\ u.element[d].mounted => u.element[d].built = u.element[d].prop
    <3>1. CASE d = c
      BY <3>1 DEF Starts
    <3>2. CASE d # c
      <4>1. d \in Components \ {c} /\ (d \in u.dirty <=> d \in t.dirty) /\ (d \in u.batch <=> d \in t.batch)
        BY <3>2 DEF Starts
      <4>2. u.element[d] = t.element[d] /\ u.deps[d] = t.deps[d]
        BY <4>1 DEF Starts
      <4> QED
        BY <4>1, <4>2 DEF Agrees
    <3> QED
      BY <3>1, <3>2
  <2> QED
    BY <2>1, <2>2 DEF Agrees
<1>8. Flagged(u, OnStack(b))
  <2> SUFFICES ASSUME NEW d \in Components, u.element[d].dirty
               PROVE  d \in u.dirty \cup u.batch \cup (u.spoiled \ OnStack(b))
    BY DEF Flagged
  <2>1. d # c
    BY DEF Starts
  <2>2. /\ u.element[d] = t.element[d] /\ (d \in u.dirty <=> d \in t.dirty)
        /\ (d \in u.batch <=> d \in t.batch) /\ u.spoiled = t.spoiled
    BY <2>1 DEF Starts
  <2>3. d \in t.dirty \cup t.batch \cup (t.spoiled \ S)
    BY <2>2 DEF Flagged
  <2> QED
    BY <1>2, <2>1, <2>2, <2>3
<1>9. u \in TreeSet(P)
  BY DEF Starts
<1> QED
  BY <1>5, <1>6, <1>7, <1>8, <1>9 DEF TreeOK

(***************************************************************************)
(* Unmounting the subtrees of the components cs.                           *)
(***************************************************************************)
Subtrees(K, cs) == UNION {Reach(K, c) : c \in cs}
Unmounts(K, P, t, u, cs) ==
  /\ u \in TreeSet(P)
  /\ \A c \in Components :
       /\ u.element[c] = IF c \in Subtrees(K, cs) THEN Unmounted ELSE t.element[c]
       /\ u.deps[c] = IF c \in Subtrees(K, cs) THEN {} ELSE t.deps[c]
  /\ \A s \in Signals : u.subs[s] = t.subs[s] \ Subtrees(K, cs)
  /\ u.dirty = t.dirty \ Subtrees(K, cs) /\ u.batch = t.batch \ Subtrees(K, cs)
  /\ u.spoiled = t.spoiled \ Subtrees(K, cs)

LEMMA UnmountedIs ==
  ASSUME NEW P
  PROVE  /\ Unmounted \in ElementSet(P) /\ Unmounted.mounted = FALSE /\ Unmounted.dirty = FALSE
         /\ Unmounted.prop = NoProp /\ Unmounted.built = NoProp /\ Unmounted.stale = FALSE
         /\ Unmounted.reads = {} /\ Unmounted.view = [k \in Components |-> NoProp]
  BY DEF Unmounted, ElementSet

LEMMA UnmountFields ==
  ASSUME NEW P, NEW t \in TreeSet(P), NEW cs
  PROVE  Unmounts(Kids, P, t, Unmount(t, cs), cs)
<1> DEFINE gone == UNION {Below(c) : c \in cs}
           e == [c \in Components |-> IF c \in gone THEN Unmounted ELSE t.element[c]]
           D == [c \in Components |-> IF c \in gone THEN {} ELSE t.deps[c]]
           U == [s \in Signals |-> t.subs[s] \ gone]
           u == Unmount(t, cs)
<1>1. \A c : Below(c) = Reach(Kids, c)
  BY DEF Below, Reach
<1>2. gone = Subtrees(Kids, cs)
  BY <1>1 DEF Subtrees
<1>3. u = [element |-> e, deps |-> D, subs |-> U, dirty |-> t.dirty \ gone,
           batch |-> t.batch \ gone, spoiled |-> t.spoiled \ gone]
  BY DEF Unmount
<1>4. /\ t.element \in [Components -> ElementSet(P)] /\ t.deps \in [Components -> SUBSET Signals]
      /\ t.subs \in [Signals -> SUBSET Components] /\ t.dirty \subseteq Components
      /\ t.batch \subseteq Components /\ t.spoiled \subseteq Components
  BY TreeParts
<1>5. /\ e \in [Components -> ElementSet(P)]
      /\ \A c \in Components : e[c] = IF c \in gone THEN Unmounted ELSE t.element[c]
  BY <1>4, UnmountedIs
<1>6. /\ D \in [Components -> SUBSET Signals] /\ U \in [Signals -> SUBSET Components]
      /\ \A c \in Components : D[c] = IF c \in gone THEN {} ELSE t.deps[c]
      /\ \A s \in Signals : U[s] = t.subs[s] \ gone
  BY <1>4
<1> HIDE DEF gone, e, D, U, u
<1>7. /\ u.element = e /\ u.deps = D /\ u.subs = U /\ u.dirty = t.dirty \ gone
      /\ u.batch = t.batch \ gone /\ u.spoiled = t.spoiled \ gone /\ Whole(u)
  BY <1>3 DEF Whole
<1>8. u \in TreeSet(P)
  BY <1>4, <1>5, <1>6, <1>7, WholeTyped
<1> QED
  BY <1>2, <1>5, <1>6, <1>7, <1>8 DEF Unmounts, u

LEMMA UnmountAgrees ==
  ASSUME NEW K, NEW P, NEW t, NEW u, NEW cs, Unmounts(K, P, t, u, cs), Agrees(t)
  PROVE  Agrees(u) /\ \A S : Flagged(t, S) => Flagged(u, S)
<1>1. ASSUME NEW c \in Components, NEW s \in Signals PROVE s \in u.deps[c] <=> c \in u.subs[s]
  BY DEF Unmounts, Agrees
<1>2. ASSUME NEW c \in Components
      PROVE  /\ u.element[c].reads = u.deps[c]
             /\ u.element[c].mounted <=> u.element[c].prop # NoProp
             /\ ~u.element[c].mounted => u.deps[c] = {} /\ c \notin u.dirty /\ c \notin u.batch
             /\ u.element[c].stale => u.element[c].dirty
             /\ u.element[c].mounted => u.element[c].built = u.element[c].prop
  <2>1. CASE c \in Subtrees(K, cs)
    <3>1. u.element[c] = Unmounted /\ u.deps[c] = {} /\ c \notin u.dirty /\ c \notin u.batch
      BY <2>1 DEF Unmounts
    <3> QED
      BY <3>1, UnmountedIs
  <2>2. CASE c \notin Subtrees(K, cs)
    <3>1. /\ u.element[c] = t.element[c] /\ u.deps[c] = t.deps[c] /\ (c \in u.dirty <=> c \in t.dirty)
          /\ (c \in u.batch <=> c \in t.batch)
      BY <2>2 DEF Unmounts
    <3> QED
      BY <3>1 DEF Agrees
  <2> QED
    BY <2>1, <2>2
<1>3. Agrees(u)
  BY <1>1, <1>2 DEF Agrees
<1>4. ASSUME NEW S, Flagged(t, S), NEW c \in Components, u.element[c].dirty
      PROVE  c \in u.dirty \cup u.batch \cup (u.spoiled \ S)
  <2>1. c \notin Subtrees(K, cs)
    <3> SUFFICES ASSUME c \in Subtrees(K, cs) PROVE FALSE
      OBVIOUS
    <3>1. u.element[c] = Unmounted
      BY DEF Unmounts
    <3> QED
      BY <1>4, <3>1, UnmountedIs
  <2>2. u.element[c] = t.element[c]
    BY <2>1 DEF Unmounts
  <2> QED
    BY <1>4, <2>1, <2>2 DEF Unmounts, Flagged
<1> QED
  BY <1>3, <1>4 DEF Flagged

(* Kids disappear with their parents, or because their parents' views no   *)
(* longer have them, or their parents are spoiled or being built.          *)
LEMMA UnmountKin ==
  ASSUME NEW K, NEW P, NEW t, NEW u, NEW cs, Unmounts(K, P, t, u, cs), IsTree(K),
         cs \subseteq Components, NEW S,
         \A d \in Components \ (t.spoiled \cup S) : t.element[d].mounted =>
           \A k \in K[d] : /\ k \notin cs => t.element[k].prop = t.element[d].view[k]
                           /\ k \in cs => t.element[d].view[k] = NoProp
  PROVE  Kin(K, u, S)
<1> SUFFICES ASSUME NEW d \in Components, d \notin u.spoiled, d \notin S, u.element[d].mounted,
                    NEW k \in K[d]
             PROVE  u.element[k].prop = u.element[d].view[k]
  BY DEF Kin
<1>1. d \notin Subtrees(K, cs)
  <2> SUFFICES ASSUME d \in Subtrees(K, cs) PROVE FALSE
    OBVIOUS
  <2>1. u.element[d] = Unmounted
    BY DEF Unmounts
  <2> QED
    BY <2>1, UnmountedIs
<1>2. u.element[d] = t.element[d] /\ d \notin t.spoiled /\ k \in Components
  BY <1>1 DEF Unmounts, IsTree
<1>3. CASE k \in cs
  <2>1. k \in Subtrees(K, cs)
    BY <1>2, <1>3, ReachClosed DEF Subtrees
  <2>2. u.element[k] = Unmounted
    BY <1>2, <2>1 DEF Unmounts
  <2> QED
    <3>1. t.element[d].view[k] = NoProp
      BY <1>2, <1>3
    <3> QED
      BY <1>2, <2>2, <3>1, UnmountedIs
<1>4. CASE k \notin cs
  <2>1. k \notin Subtrees(K, cs)
    <3> SUFFICES ASSUME NEW x \in cs, k \in Reach(K, x) PROVE FALSE
      BY DEF Subtrees
    <3>1. d \in Reach(K, x)
      BY <1>4, KidReached
    <3> QED
      BY <1>1, <3>1 DEF Subtrees
  <2>2. u.element[k] = t.element[k]
    BY <1>2, <2>1 DEF Unmounts
  <2> QED
    BY <1>2, <1>4, <2>2
<1> QED
  BY <1>3, <1>4

(***************************************************************************)
(* The steps.                                                              *)
(***************************************************************************)
BuildInv ==
  /\ shape \in Shapes /\ TreeOK(Kids, Props, Tree, builds)
  /\ signals \subseteq Signals /\ doing \in {"idle", "render", "flush"}
  /\ doing = "idle" => builds = <<>> /\ batch = {}

LEMMA ShapeFacts ==
  ASSUME shape \in Shapes
  PROVE  IsTree(Kids) /\ NoProp \notin Props /\ ListParents \subseteq Components
  BY BuildConstants DEF IsTree, Kids, Props, ListParents

LEMMA TreeIs ==
  /\ Tree.element = element /\ Tree.deps = deps /\ Tree.subs = subs /\ Tree.dirty = dirty
  /\ Tree.batch = batch /\ Tree.spoiled = spoiled /\ Whole(Tree)
  BY DEF Tree, Whole

LEMMA BecomesIs ==
  ASSUME NEW P, NEW t \in TreeSet(P), Becomes(t)
  PROVE  Tree' = t
  BY DEF Becomes, Tree, TreeSet

LEMMA Arrives ==
  ASSUME BuildInv, UNCHANGED shape, NEW t, Becomes(t), NEW b, builds' = b,
         TreeOK(Kids, Props, t, b),
         signals' \subseteq Signals, doing' \in {"idle", "render", "flush"},
         doing' = "idle" => b = <<>> /\ t.batch = {}
  PROVE  BuildInv'
<1>1. t \in TreeSet(Props)
  BY DEF TreeOK
<1>2. Tree' = t
  BY <1>1, BecomesIs
<1>3. Kids' = Kids /\ Props' = Props
  BY DEF Kids, Props
<1>4. TreeOK(Kids, Props, Tree, builds)'
  BY <1>2, <1>3
<1>5. batch' = t.batch
  BY DEF Becomes
<1> QED
  BY <1>4, <1>5 DEF BuildInv

(* User code touches signals and state between operations or in a build. *)
LEMMA UserStep ==
  ASSUME BuildInv, UNCHANGED <<shape, builds, doing>>, NEW t, Becomes(t),
         TreeOK(Kids, Props, t, builds), t.batch = batch, signals' \subseteq Signals
  PROVE  BuildInv'
<1>1. PICK b : b = builds
  OBVIOUS
<1>2. /\ builds' = b /\ TreeOK(Kids, Props, t, b) /\ doing' \in {"idle", "render", "flush"}
      /\ doing' = "idle" => b = <<>> /\ t.batch = {}
  BY <1>1 DEF BuildInv
<1> QED
  BY <1>2, Arrives

LEMMA SetSignalStep ==
  ASSUME BuildInv, UNCHANGED shape, NEW s \in Signals, set_signal(s)
  PROVE  BuildInv'
<1> DEFINE A == {c \in Components : s \in element[c].reads}
<1>1. PICK t : t = Mark(Stale(Tree, A), subs[s])
  OBVIOUS
<1>2. Becomes(t) /\ UNCHANGED <<signals, builds, doing>>
  BY <1>1 DEF set_signal
<1>3. /\ IsTree(Kids) /\ TreeOK(Kids, Props, Tree, builds) /\ Agrees(Tree)
      /\ Tree \in TreeSet(Props)
  BY ShapeFacts DEF BuildInv, TreeOK
<1>4. subs[s] \subseteq Components
  BY <1>3, TreeParts, TreeIs
<1>5. \A c \in Components : c \in A => c \in subs[s] /\ Tree.element[c].mounted
  BY <1>3, TreeIs DEF Agrees
<1> HIDE DEF A
<1>6. TreeOK(Kids, Props, t, builds)
  BY <1>1, <1>3, <1>4, <1>5, MarkOK
<1>7. t.batch = batch
  <2>1. PICK v : v = Stale(Tree, A)
    OBVIOUS
  <2>2. v \in TreeSet(Props) /\ v.batch = batch
    BY <2>1, <1>3, StaleFields, TreeIs
  <2> QED
    BY <1>1, <1>4, <2>1, <2>2, MarkFields
<1> QED
  BY <1>2, <1>6, <1>7, UserStep DEF BuildInv

LEMMA SetStateStep ==
  ASSUME BuildInv, UNCHANGED shape, NEW c \in Components, set_state(c)
  PROVE  BuildInv'
<1>1. PICK t : t = Mark(Stale(Tree, {c}), {c})
  OBVIOUS
<1>2. Becomes(t) /\ UNCHANGED <<signals, builds, doing>> /\ element[c].mounted
  BY <1>1 DEF set_state
<1>3. /\ IsTree(Kids) /\ TreeOK(Kids, Props, Tree, builds) /\ Tree \in TreeSet(Props)
  BY ShapeFacts DEF BuildInv, TreeOK
<1>4. PICK A : A = {c}
  OBVIOUS
<1>5. A \subseteq Components /\ \A d \in Components : d \in A => d \in A /\ Tree.element[d].mounted
  BY <1>2, <1>4, TreeIs
<1>6. TreeOK(Kids, Props, t, builds)
  BY <1>1, <1>3, <1>4, <1>5, MarkOK
<1>7. t.batch = batch
  <2>1. PICK v : v = Stale(Tree, A)
    OBVIOUS
  <2>2. v \in TreeSet(Props) /\ v.batch = batch
    BY <2>1, <1>3, StaleFields, TreeIs
  <2> QED
    BY <1>1, <1>4, <1>5, <2>1, <2>2, MarkFields
<1> QED
  BY <1>2, <1>6, <1>7, UserStep DEF BuildInv

LEMMA DestroyStep ==
  ASSUME BuildInv, UNCHANGED shape, NEW s \in Signals, destroy_signal(s)
  PROVE  BuildInv'
<1> DEFINE D == [c \in Components |-> deps[c] \ {s}]
           E == [c \in Components |-> [element[c] EXCEPT !.reads = element[c].reads \ {s}]]
<1>1. PICK t : t = [Tree EXCEPT !.deps = D, !.subs[s] = {}, !.element = E]
  OBVIOUS
<1>2. Becomes(t) /\ UNCHANGED <<builds, doing>> /\ signals' = signals \ {s}
  BY <1>1 DEF destroy_signal
<1>3. /\ IsTree(Kids) /\ TreeOK(Kids, Props, Tree, builds) /\ Agrees(Tree)
      /\ Tree \in TreeSet(Props)
  BY ShapeFacts DEF BuildInv, TreeOK
<1>4. /\ element \in [Components -> ElementSet(Props)] /\ deps \in [Components -> SUBSET Signals]
      /\ subs \in [Signals -> SUBSET Components]
  BY <1>3, TreeParts, TreeIs
<1>5. \A c \in Components : D[c] = deps[c] \ {s} /\ D[c] = element[c].reads \ {s}
  BY <1>3, TreeIs DEF Agrees
<1>6. D \in [Components -> SUBSET Signals]
  BY <1>4
<1>7. ASSUME NEW c \in Components
      PROVE  E[c] \in ElementSet(Props) /\ OnlyReads(E[c], element[c], D[c])
  <2>1. PICK x : x = element[c]
    OBVIOUS
  <2>2. PICK y : y = [x EXCEPT !.reads = x.reads \ {s}]
    OBVIOUS
  <2>3. x \in ElementSet(Props) /\ E[c] = y
    BY <1>4, <2>1, <2>2
  <2> HIDE DEF E, D
  <2>4. y \in ElementSet(Props) /\ OnlyReads(y, x, x.reads \ {s})
    BY <2>2, <2>3 DEF ElementSet, OnlyReads
  <2> QED
    BY <1>5, <2>1, <2>3, <2>4
<1>8. E \in [Components -> ElementSet(Props)]
  BY <1>7
<1> HIDE DEF D, E
<1>9. /\ t.deps = D /\ t.subs = [subs EXCEPT ![s] = {}] /\ t.element = E
      /\ t.dirty = dirty /\ t.batch = batch /\ t.spoiled = spoiled /\ Whole(t)
  BY <1>1 DEF Tree, Whole
<1>10. /\ \A c \in Components : ~Tree.element[c].mounted => D[c] = {}
       /\ t.subs \in [Signals -> SUBSET Components]
       /\ \A c \in Components, r \in Signals : c \in t.subs[r] <=> r \in D[c]
  <2>1. t.subs \in [Signals -> SUBSET Components]
    BY <1>4, <1>9
  <2>2. \A c \in Components : ~Tree.element[c].mounted => D[c] = {}
    BY <1>3, <1>5, TreeIs DEF Agrees
  <2>3. \A r \in Signals : t.subs[r] = IF r = s THEN {} ELSE subs[r]
    BY <1>4, <1>9
  <2>4. \A c \in Components, r \in Signals : c \in t.subs[r] <=> r \in D[c]
    BY <1>3, <1>5, <2>3, TreeIs DEF Agrees
  <2> QED
    BY <2>1, <2>2, <2>4
<1>11. TreeOK(Kids, Props, t, builds)
  <2>1. /\ \A c \in Components : OnlyReads(t.element[c], Tree.element[c], D[c])
        /\ t.element \in [Components -> ElementSet(Props)]
        /\ t.dirty = Tree.dirty /\ t.batch = Tree.batch /\ t.spoiled = Tree.spoiled
    BY <1>7, <1>8, <1>9, TreeIs
  <2> QED
    BY <1>3, <1>6, <1>9, <1>10, <2>1, ReadsOK
<1> QED
  BY <1>2, <1>9, <1>11, UserStep DEF BuildInv

(* The build on top of the stack. *)
LEMMA TopFacts ==
  ASSUME BuildInv, builds # <<>>
  PROVE  /\ builds \in Seq(Frames) /\ Len(builds) \in Nat \ {0}
         /\ Last(builds) = builds[Len(builds)] /\ Last(builds) \in Frames
         /\ Last(builds).of \in Components /\ element[Last(builds).of].mounted
         /\ Len(builds) \in 1 .. Len(builds)
<1>1. builds \in Seq(Frames) /\ Stacked(Kids, Tree, builds)
  BY DEF BuildInv, TreeOK, Stacked
<1>2. Len(builds) \in Nat \ {0} /\ Len(builds) \in 1 .. Len(builds)
  BY <1>1
<1>3. Last(builds) = builds[Len(builds)]
  BY DEF Last
<1>4. builds[Len(builds)] \in Frames
  BY <1>1, <1>2
<1>5. builds[Len(builds)].of \in Components
  BY <1>4 DEF Frames
<1>6. element[builds[Len(builds)].of].mounted
  BY <1>1, <1>2, TreeIs DEF Stacked
<1> QED
  BY <1>1, <1>2, <1>3, <1>4, <1>5, <1>6

LEMMA ReadStep ==
  ASSUME BuildInv, UNCHANGED shape, NEW s \in Signals, read_signal(s)
  PROVE  BuildInv'
<1>0. PICK c : c = Last(builds).of
  OBVIOUS
<1>00. c \in Components /\ element[c].mounted
  BY <1>0, TopFacts DEF read_signal, InBuild
<1> DEFINE D == [deps EXCEPT ![c] = @ \cup {s}]
           E == [element EXCEPT ![c].reads = element[c].reads \cup {s}]
<1>1. PICK t : t = [Tree EXCEPT !.deps = D, !.subs[s] = @ \cup {c}, !.element = E]
  OBVIOUS
<1>3. /\ IsTree(Kids) /\ TreeOK(Kids, Props, Tree, builds) /\ Agrees(Tree)
      /\ Tree \in TreeSet(Props)
  BY ShapeFacts DEF BuildInv, TreeOK
<1>4. /\ element \in [Components -> ElementSet(Props)] /\ deps \in [Components -> SUBSET Signals]
      /\ subs \in [Signals -> SUBSET Components]
  BY <1>3, TreeParts, TreeIs
<1>2. Becomes(t) /\ UNCHANGED <<signals, builds, doing>>
  <2>1. Becomes([Tree EXCEPT !.deps[c] = @ \cup {s}, !.subs[s] = @ \cup {c},
                              !.element[c].reads = @ \cup {s}])
        /\ UNCHANGED <<signals, builds, doing>>
    BY <1>0 DEF read_signal
  <2>2. t = [Tree EXCEPT !.deps[c] = @ \cup {s}, !.subs[s] = @ \cup {c},
                              !.element[c].reads = @ \cup {s}]
    BY <1>1 DEF Tree
  <2> QED
    BY <2>1, <2>2
<1>5. \A d \in Components : /\ D[d] = IF d = c THEN deps[d] \cup {s} ELSE deps[d]
                            /\ D[d] = IF d = c THEN element[d].reads \cup {s} ELSE element[d].reads
  BY <1>3, <1>4, TreeIs DEF Agrees
<1>6. D \in [Components -> SUBSET Signals]
  BY <1>4, <1>00
<1>7. ASSUME NEW d \in Components
      PROVE  E[d] \in ElementSet(Props) /\ OnlyReads(E[d], element[d], D[d])
  <2>1. PICK x : x = element[d]
    OBVIOUS
  <2>2. x \in ElementSet(Props)
    BY <1>4, <2>1
  <2>3. CASE d = c
    <3>1. PICK y : y = [x EXCEPT !.reads = x.reads \cup {s}]
      OBVIOUS
    <3>2. E[d] = y
      BY <1>4, <2>1, <2>3, <3>1
    <3> HIDE DEF E, D
    <3>3. y \in ElementSet(Props) /\ OnlyReads(y, x, x.reads \cup {s})
      BY <2>2, <3>1 DEF ElementSet, OnlyReads
    <3> QED
      BY <1>5, <2>1, <2>3, <3>2, <3>3
  <2>4. CASE d # c
    <3>1. E[d] = x
      BY <1>4, <2>1, <2>4
    <3> HIDE DEF E, D
    <3> QED
      BY <1>5, <2>1, <2>2, <2>4, <3>1 DEF OnlyReads
  <2> QED
    BY <2>3, <2>4
<1>8. E \in [Components -> ElementSet(Props)]
  <2>1. E = [d \in Components |-> E[d]]
    BY <1>4
  <2> HIDE DEF E
  <2> QED
    BY <1>7, <2>1
<1> HIDE DEF D, E
<1>9. /\ t.deps = D /\ t.subs = [subs EXCEPT ![s] = @ \cup {c}] /\ t.element = E
      /\ t.dirty = dirty /\ t.batch = batch /\ t.spoiled = spoiled /\ Whole(t)
  BY <1>1 DEF Tree, Whole
<1>10. /\ \A d \in Components : ~Tree.element[d].mounted => D[d] = {}
       /\ t.subs \in [Signals -> SUBSET Components]
       /\ \A d \in Components, r \in Signals : d \in t.subs[r] <=> r \in D[d]
  <2>1. t.subs \in [Signals -> SUBSET Components]
    BY <1>00, <1>4, <1>9
  <2>2. \A d \in Components : ~Tree.element[d].mounted => D[d] = {}
    BY <1>00, <1>3, <1>5, TreeIs DEF Agrees
  <2>3. \A r \in Signals : t.subs[r] = IF r = s THEN subs[r] \cup {c} ELSE subs[r]
    BY <1>4, <1>9
  <2>4. \A d \in Components, r \in Signals : d \in t.subs[r] <=> r \in D[d]
    <3>1. \A d \in Components, r \in Signals : d \in subs[r] <=> r \in deps[d]
      BY <1>3, TreeIs DEF Agrees
    <3>2. \A d \in Components : D[d] = IF d = c THEN deps[d] \cup {s} ELSE deps[d]
      BY <1>5
    <3> SUFFICES ASSUME NEW d \in Components, NEW r \in Signals
                 PROVE  d \in t.subs[r] <=> r \in D[d]
      OBVIOUS
    <3>3. d \in subs[r] <=> r \in deps[d]
      BY <3>1
    <3>4. d \in t.subs[r] <=> d \in subs[r] \/ (r = s /\ d = c)
      BY <2>3
    <3>5. r \in D[d] <=> r \in deps[d] \/ (r = s /\ d = c)
      BY <3>2
    <3> QED
      BY <3>3, <3>4, <3>5
  <2> QED
    BY <2>1, <2>2, <2>4
<1>11. TreeOK(Kids, Props, t, builds)
  <2>1. /\ \A d \in Components : OnlyReads(t.element[d], Tree.element[d], D[d])
        /\ t.element \in [Components -> ElementSet(Props)]
        /\ t.dirty = Tree.dirty /\ t.batch = Tree.batch /\ t.spoiled = Tree.spoiled
    BY <1>7, <1>8, <1>9, TreeIs
  <2> QED
    BY <1>3, <1>6, <1>9, <1>10, <2>1, ReadsOK
<1> QED
  BY <1>2, <1>9, <1>11, UserStep DEF BuildInv

(***************************************************************************)
(* Builds begin: render, rebuild and the update of a child.                *)
(***************************************************************************)
LEMMA StartFields ==
  ASSUME NEW P, NEW t \in TreeSet(P), NEW c \in Components, NEW p \in P, NEW x, NEW e,
         x = t.element[c], e \in ElementSet(P), e.mounted, ~e.dirty, e.prop = p, e.built = p,
         ~e.stale, e.reads = {},
         NEW u, Whole(u), u.element = [t.element EXCEPT ![c] = e], u.deps = [t.deps EXCEPT ![c] = {}],
         u.subs = [s \in Signals |-> t.subs[s] \ {c}],
         u.dirty \cup {c} = t.dirty \cup {c}, u.batch \cup {c} = t.batch \cup {c},
         u.spoiled = t.spoiled
  PROVE  Starts(P, t, u, c, p)
<1>1. /\ t.element \in [Components -> ElementSet(P)] /\ t.deps \in [Components -> SUBSET Signals]
      /\ t.subs \in [Signals -> SUBSET Components] /\ t.dirty \subseteq Components
      /\ t.batch \subseteq Components /\ t.spoiled \subseteq Components
  BY TreeParts
<1>2. /\ u.element \in [Components -> ElementSet(P)] /\ u.element[c] = e
      /\ \A d \in Components \ {c} : u.element[d] = t.element[d]
  BY <1>1
<1>3. /\ u.deps \in [Components -> SUBSET Signals] /\ u.deps[c] = {}
      /\ \A d \in Components \ {c} : u.deps[d] = t.deps[d]
      /\ u.subs \in [Signals -> SUBSET Components]
      /\ \A s \in Signals : u.subs[s] = t.subs[s] \ {c}
  BY <1>1
<1>4. u.dirty \subseteq Components /\ u.batch \subseteq Components /\ u.spoiled \subseteq Components
  BY <1>1
<1>5. u \in TreeSet(P)
  BY <1>2, <1>3, <1>4, WholeTyped
<1> QED
  BY <1>2, <1>3, <1>5 DEF Starts

(* reconcile_child of c with p over the builds `rest'. *)
LEMMA ReconcileStarts ==
  ASSUME NEW P, NEW t \in TreeSet(P), NEW c \in Components, NEW p \in P,
         NEW u, u = StartBuild(Updated(t, c, p), c)
  PROVE  Starts(P, t, u, c, p)
<1>1. /\ t.element \in [Components -> ElementSet(P)] /\ t.deps \in [Components -> SUBSET Signals]
      /\ t.subs \in [Signals -> SUBSET Components]
  BY TreeParts
<1>2. PICK x : x = t.element[c]
  OBVIOUS
<1>3. x \in ElementSet(P)
  BY <1>1, <1>2
<1>4. PICK y : y = [x EXCEPT !.mounted = TRUE, !.dirty = FALSE, !.prop = p]
  OBVIOUS
<1>5. y \in ElementSet(P) /\ y.prop = p
  BY <1>3, <1>4 DEF ElementSet
<1>6. PICK v : v = Updated(t, c, p)
  OBVIOUS
<1>7. /\ v.element = [t.element EXCEPT ![c] = y] /\ v.deps = t.deps /\ v.subs = t.subs
      /\ v.dirty = t.dirty \ {c} /\ v.batch = t.batch /\ v.spoiled = t.spoiled /\ Whole(v)
  BY <1>1, <1>2, <1>4, <1>6 DEF Updated, TreeSet, Whole
<1>8. v.element[c] = y /\ v.element \in [Components -> ElementSet(P)]
  BY <1>1, <1>5, <1>7
<1>9. PICK e : e = [y EXCEPT !.built = p, !.stale = FALSE, !.reads = {}]
  OBVIOUS
<1>10. /\ u.element = [v.element EXCEPT ![c] = e] /\ u.deps = [v.deps EXCEPT ![c] = {}]
       /\ u.subs = [s \in Signals |-> v.subs[s] \ {c}]
       /\ u.dirty = v.dirty /\ u.batch = v.batch /\ u.spoiled = v.spoiled /\ Whole(u)
  BY <1>5, <1>6, <1>7, <1>8, <1>9 DEF StartBuild, Whole
<1>11. u.element = [t.element EXCEPT ![c] = e] /\ u.deps = [t.deps EXCEPT ![c] = {}]
       /\ u.subs = [s \in Signals |-> t.subs[s] \ {c}]
  BY <1>1, <1>7, <1>10
<1>12. /\ e \in ElementSet(P) /\ e.mounted /\ ~e.dirty /\ e.prop = p /\ e.built = p
       /\ ~e.stale /\ e.reads = {}
  BY <1>3, <1>4, <1>9 DEF ElementSet
<1> QED
  BY <1>2, <1>7, <1>10, <1>11, <1>12, StartFields

(* A descriptor that did not change leaves a clean element as it was. *)
LEMMA UnchangedFields ==
  ASSUME NEW P, NEW t \in TreeSet(P), NEW c \in Components, NEW p \in P,
         Unchanged(t.element[c], c, p), NEW u, u = Updated(t, c, p)
  PROVE  /\ u.element = t.element /\ u.deps = t.deps /\ u.subs = t.subs
         /\ u.dirty = t.dirty \ {c} /\ u.batch = t.batch /\ u.spoiled = t.spoiled
         /\ u \in TreeSet(P) /\ t.element[c].prop = p /\ ~t.element[c].dirty
<1>1. /\ t.element \in [Components -> ElementSet(P)] /\ t.dirty \subseteq Components
  BY TreeParts
<1>2. PICK x : x = t.element[c]
  OBVIOUS
<1>3. x \in ElementSet(P) /\ x.mounted /\ x.prop = p /\ ~x.dirty
  BY <1>1, <1>2 DEF Unchanged
<1>4. [x EXCEPT !.mounted = TRUE, !.dirty = FALSE, !.prop = p] = x
  BY <1>3 DEF ElementSet
<1>5. PICK y : y = [x EXCEPT !.mounted = TRUE, !.dirty = FALSE, !.prop = p]
  OBVIOUS
<1>6. /\ u.element = [t.element EXCEPT ![c] = y] /\ u.deps = t.deps /\ u.subs = t.subs
      /\ u.dirty = t.dirty \ {c} /\ u.batch = t.batch /\ u.spoiled = t.spoiled /\ Whole(u)
  BY <1>1, <1>2, <1>5 DEF Updated, TreeSet, Whole
<1>7. u.element = t.element
  BY <1>1, <1>2, <1>4, <1>5, <1>6
<1>8. u \in TreeSet(P)
  BY <1>6, <1>7, WholeTyped, TreeParts
<1> QED
  BY <1>2, <1>3, <1>6, <1>7, <1>8

LEMMA ReconcileOK ==
  ASSUME NEW P, NEW K, IsTree(K), NoProp \notin P, NEW t, t \in TreeSet(P), Agrees(t),
         NEW rest, Flagged(t, OnStack(rest)), Kin(K, t, OnStack(rest)),
         NEW c \in Components, NEW p \in P, Ready(K, t, rest, c, p),
         Reconcile(c, p, t, rest)
  PROVE  \E u, b : /\ Becomes(u) /\ builds' = b /\ TreeOK(K, P, u, b) /\ u.batch \subseteq t.batch
<1>1. CASE Unchanged(t.element[c], c, p)
  <2>1. PICK u : u = Updated(t, c, p)
    OBVIOUS
  <2>2. Becomes(u) /\ builds' = rest
    BY <1>1, <2>1 DEF Reconcile
  <2>3. /\ u.element = t.element /\ u.deps = t.deps /\ u.subs = t.subs
        /\ u.dirty = t.dirty \ {c} /\ u.batch = t.batch /\ u.spoiled = t.spoiled
        /\ u \in TreeSet(P) /\ t.element[c].prop = p /\ ~t.element[c].dirty
    BY <1>1, <2>1, UnchangedFields
  <2>4. Agrees(u) /\ Flagged(u, OnStack(rest)) /\ Kin(K, u, OnStack(rest))
    <3>1. Agrees(u)
      BY <2>3 DEF Agrees
    <3>2. Flagged(u, OnStack(rest))
      BY <2>3 DEF Flagged
    <3>3. Kin(K, u, OnStack(rest))
      BY <2>3 DEF Kin
    <3> QED
      BY <3>1, <3>2, <3>3
  <2>5. Stacked(K, u, rest)
    BY <2>3 DEF Ready, Stacked
  <2> QED
    BY <2>2, <2>3, <2>4, <2>5 DEF TreeOK
<1>2. CASE ~Unchanged(t.element[c], c, p)
  <2>1. PICK u : u = StartBuild(Updated(t, c, p), c)
    OBVIOUS
  <2>2. PICK b : b = Append(rest, Build(c))
    OBVIOUS
  <2>3. Becomes(u) /\ builds' = b
    BY <1>2, <2>1, <2>2 DEF Reconcile
  <2>4. Starts(P, t, u, c, p)
    BY <2>1, ReconcileStarts
  <2>5. TreeOK(K, P, u, b)
    BY <2>2, <2>4, StartOK
  <2>6. u.batch = t.batch
    <3>1. PICK v : v = Updated(t, c, p)
      OBVIOUS
    <3>2. v.batch = t.batch /\ Whole(v)
      BY <3>1 DEF Updated, TreeSet, Whole
    <3> QED
      BY <2>1, <3>1, <3>2 DEF StartBuild, Whole
  <2> QED
    BY <2>3, <2>5, <2>6
<1> QED
  BY <1>1, <1>2

LEMMA NoBuilds ==
  /\ OnStack(<<>>) = {} /\ <<>> \in Seq(Frames) /\ Len(<<>>) = 0 /\ 1 .. 0 = {}
  BY DEF OnStack

LEMMA RenderStep ==
  ASSUME BuildInv, UNCHANGED shape, NEW p \in Props, render(p)
  PROVE  BuildInv'
<1>1. /\ IsTree(Kids) /\ NoProp \notin Props /\ RootComponent \in Components
      /\ Tree \in TreeSet(Props) /\ Agrees(Tree)
      /\ builds = <<>> /\ batch = {}
      /\ Flagged(Tree, OnStack(<<>>)) /\ Kin(Kids, Tree, OnStack(<<>>))
      /\ Reconcile(RootComponent, p, Tree, <<>>) /\ doing' = "render" /\ signals' \subseteq Signals
  BY ShapeFacts, BuildConstants DEF BuildInv, TreeOK, render
<1>2. Ready(Kids, Tree, <<>>, RootComponent, p)
  BY <1>1, NoBuilds DEF Ready, IsTree
<1>3. PICK u, b : Becomes(u) /\ builds' = b /\ TreeOK(Kids, Props, u, b)
  BY <1>1, <1>2, ReconcileOK
<1> QED
  BY <1>1, <1>3, Arrives

LEMMA RebuildStep ==
  ASSUME BuildInv, UNCHANGED shape, NEW c \in Components, rebuild(c)
  PROVE  BuildInv'
<1>1. /\ IsTree(Kids) /\ NoProp \notin Props
      /\ Tree \in TreeSet(Props) /\ Agrees(Tree) /\ doing = "flush" /\ builds = <<>>
      /\ Flagged(Tree, OnStack(<<>>)) /\ Kin(Kids, Tree, OnStack(<<>>))
      /\ Stacked(Kids, Tree, <<>>)
      /\ doing' = "flush" /\ signals' \subseteq Signals /\ c \in batch
  BY ShapeFacts DEF BuildInv, TreeOK, rebuild
<1>2. /\ element \in [Components -> ElementSet(Props)] /\ deps \in [Components -> SUBSET Signals]
      /\ subs \in [Signals -> SUBSET Components] /\ batch \subseteq Components
      /\ dirty \subseteq Components /\ spoiled \subseteq Components
  BY <1>1, TreeParts, TreeIs
<1>3. element[c].mounted /\ element[c].prop \in Props
  <2>1. element[c].mounted /\ element[c].prop # NoProp /\ element[c] \in ElementSet(Props)
    BY <1>1, <1>2, TreeIs DEF Agrees
  <2> QED
    BY <2>1 DEF ElementSet
<1>4. PICK x : x = element[c]
  OBVIOUS
<1>5. PICK y : y = [x EXCEPT !.dirty = FALSE]
  OBVIOUS
<1>6. /\ x \in ElementSet(Props) /\ y \in ElementSet(Props) /\ y.prop = x.prop /\ y.mounted /\ ~y.dirty
      /\ (x.dirty = FALSE => y = x)
  BY <1>2, <1>3, <1>4, <1>5 DEF ElementSet
<1>7. PICK t : t = [Tree EXCEPT !.batch = @ \ {c}, !.element[c].dirty = FALSE]
  OBVIOUS
<1>8. /\ t.element = [element EXCEPT ![c] = y] /\ t.deps = deps /\ t.subs = subs
      /\ t.dirty = dirty /\ t.batch = batch \ {c} /\ t.spoiled = spoiled /\ Whole(t)
  BY <1>2, <1>4, <1>5, <1>7 DEF Tree, Whole
<1>9. IF element[c].dirty THEN Becomes(StartBuild(t, c)) /\ builds' = <<Build(c)>>
                          ELSE Becomes(t) /\ UNCHANGED builds
  BY <1>7 DEF rebuild
<1>10. CASE ~element[c].dirty
  <2>1. x.dirty = FALSE
    BY <1>4, <1>6, <1>10 DEF ElementSet
  <2>2. t.element = element /\ Becomes(t) /\ builds' = <<>>
    BY <1>1, <1>2, <1>4, <1>6, <1>8, <1>9, <1>10, <2>1
  <2>3. t \in TreeSet(Props)
    BY <1>2, <1>8, <2>2, WholeTyped
  <2>4. Agrees(t)
    BY <1>1, <1>8, <2>2, TreeIs DEF Agrees
  <2>5. Flagged(t, OnStack(<<>>))
    BY <1>1, <1>8, <1>10, <2>2, TreeIs DEF Flagged
  <2>6. Kin(Kids, t, OnStack(<<>>)) /\ Stacked(Kids, t, <<>>)
    BY <1>1, <1>8, <2>2, TreeIs DEF Kin, Stacked
  <2>7. TreeOK(Kids, Props, t, <<>>)
    BY <2>3, <2>4, <2>5, <2>6 DEF TreeOK
  <2> QED
    BY <1>1, <2>2, <2>7, Arrives
<1>11. CASE element[c].dirty
  <2>1. PICK e : e = [y EXCEPT !.built = x.prop, !.stale = FALSE, !.reads = {}]
    OBVIOUS
  <2>2. /\ e \in ElementSet(Props) /\ e.mounted /\ ~e.dirty /\ e.prop = x.prop /\ e.built = x.prop
        /\ ~e.stale /\ e.reads = {}
    BY <1>6, <2>1 DEF ElementSet
  <2>3. PICK u : u = StartBuild(t, c)
    OBVIOUS
  <2>4. t.element[c] = y /\ y.prop = x.prop
    BY <1>2, <1>6, <1>8
  <2>5. /\ u.element = [t.element EXCEPT ![c] = e] /\ u.deps = [t.deps EXCEPT ![c] = {}]
        /\ u.subs = [s \in Signals |-> t.subs[s] \ {c}]
        /\ u.dirty = t.dirty /\ u.batch = t.batch /\ u.spoiled = t.spoiled /\ Whole(u)
    BY <1>2, <1>8, <2>1, <2>3, <2>4 DEF StartBuild, Whole
  <2>6. /\ u.element = [Tree.element EXCEPT ![c] = e] /\ u.deps = [Tree.deps EXCEPT ![c] = {}]
        /\ u.subs = [s \in Signals |-> Tree.subs[s] \ {c}]
        /\ u.dirty \cup {c} = Tree.dirty \cup {c} /\ u.batch \cup {c} = Tree.batch \cup {c}
        /\ u.spoiled = Tree.spoiled
    <3>1. [t.element EXCEPT ![c] = e] = [element EXCEPT ![c] = e]
      BY <1>2, <1>8
    <3>2. u.batch \cup {c} = batch \cup {c}
      BY <1>8, <2>5
    <3> QED
      BY <1>8, <2>5, <3>1, <3>2, TreeIs
  <2>7. x = Tree.element[c] /\ x.prop \in Props
    BY <1>3, <1>4, TreeIs
  <2>8. Starts(Props, Tree, u, c, x.prop)
    <3>1. PICK p \in Props : p = x.prop
      BY <2>7
    <3>2. Starts(Props, Tree, u, c, p)
      BY <1>1, <2>2, <2>5, <2>6, <2>7, <3>1, StartFields
    <3> QED
      BY <3>1, <3>2
  <2>9. Ready(Kids, Tree, <<>>, c, x.prop)
    BY <2>7, NoBuilds DEF Ready
  <2>10. PICK b : b = Append(<<>>, Build(c))
    OBVIOUS
  <2>11. b = <<Build(c)>>
    BY <2>10
  <2>12. TreeOK(Kids, Props, u, b)
    BY <1>1, <2>7, <2>8, <2>9, <2>10, StartOK
  <2>13. Becomes(u) /\ builds' = b
    BY <1>9, <1>11, <2>3, <2>11
  <2> QED
    BY <1>1, <2>12, <2>13, Arrives
<1> QED
  BY <1>10, <1>11

(***************************************************************************)
(* The stack of builds, its top popped or replaced.                        *)
(***************************************************************************)
LEMMA Popped ==
  ASSUME NEW b, b \in Seq(Frames), b # <<>>
  PROVE  /\ Front(b) \in Seq(Frames) /\ Len(Front(b)) = Len(b) - 1 /\ Len(b) \in Nat \ {0}
         /\ \A i \in 1 .. Len(b) - 1 : Front(b)[i] = b[i]
         /\ OnStack(b) = OnStack(Front(b)) \cup {b[Len(b)].of}
<1>1. Len(b) \in Nat \ {0}
  OBVIOUS
<1>2. Front(b) = SubSeq(b, 1, Len(b) - 1)
  BY DEF Front
<1>3. /\ Front(b) \in Seq(Frames) /\ Len(Front(b)) = Len(b) - 1
      /\ \A i \in 1 .. Len(b) - 1 : Front(b)[i] = b[i]
  <2>1. PICK n : n = Len(b) - 1
    OBVIOUS
  <2>2. n \in 1 - 1 .. Len(b) /\ 1 \in 1 .. Len(b) + 1 /\ n - 1 + 1 = n /\ (1 <= n \/ n = 0)
    BY <1>1, <2>1
  <2>3. /\ SubSeq(b, 1, n) \in Seq(Frames) /\ Len(SubSeq(b, 1, n)) = IF 1 <= n THEN n - 1 + 1 ELSE 0
        /\ \A i \in 1 .. n - 1 + 1 : SubSeq(b, 1, n)[i] = b[1 + i - 1]
    BY <2>2, SubSeqProperties
  <2>4. \A i \in 1 .. n : 1 + i - 1 = i
    BY <2>2
  <2> QED
    BY <1>2, <2>1, <2>2, <2>3, <2>4
<1>4. \A i \in 1 .. Len(b) : i \in 1 .. Len(b) - 1 \/ i = Len(b)
  BY <1>1
<1>5. Len(b) \in 1 .. Len(b) /\ \A i \in 1 .. Len(b) - 1 : i \in 1 .. Len(b)
  BY <1>1
<1>6. OnStack(b) \subseteq OnStack(Front(b)) \cup {b[Len(b)].of}
  BY <1>3, <1>4 DEF OnStack
<1>7. OnStack(Front(b)) \cup {b[Len(b)].of} \subseteq OnStack(b)
  BY <1>3, <1>5 DEF OnStack
<1> QED
  BY <1>1, <1>3, <1>6, <1>7

LEMMA Replaced ==
  ASSUME NEW b, b \in Seq(Frames), b # <<>>, NEW g, g \in Frames, g.of = b[Len(b)].of
  PROVE  /\ Append(Front(b), g) \in Seq(Frames) /\ Len(Append(Front(b), g)) = Len(b)
         /\ Len(b) \in Nat \ {0}
         /\ \A i \in 1 .. Len(b) - 1 : Append(Front(b), g)[i] = b[i]
         /\ Append(Front(b), g)[Len(b)] = g /\ OnStack(Append(Front(b), g)) = OnStack(b)
<1>1. PICK r : r = Front(b)
  OBVIOUS
<1>2. /\ r \in Seq(Frames) /\ Len(r) = Len(b) - 1 /\ Len(b) \in Nat \ {0}
      /\ \A i \in 1 .. Len(b) - 1 : r[i] = b[i] /\ OnStack(b) = OnStack(r) \cup {b[Len(b)].of}
  BY <1>1, Popped
<1>3. /\ Append(r, g) \in Seq(Frames) /\ Len(Append(r, g)) = Len(r) + 1
      /\ \A i \in 1 .. Len(r) : Append(r, g)[i] = r[i]
      /\ Append(r, g)[Len(r) + 1] = g
      /\ OnStack(Append(r, g)) = OnStack(r) \cup {g.of}
  BY <1>2, StackGrows
<1>4. OnStack(b) = OnStack(r) \cup {b[Len(b)].of}
  BY <1>1, Popped
<1>5. Len(r) + 1 = Len(b) /\ 1 .. Len(r) = 1 .. Len(b) - 1
  BY <1>2
<1> QED
  BY <1>1, <1>2, <1>3, <1>4, <1>5

(* The builds of c and of what it is under. *)
UpFrom(K, b, c) == \A i \in 1 .. Len(b) : b[i].of = c \/ c \in Under(K, b[i].of)

(* The kids cs of c are not in its view, if it is being built. *)
Dropped(t, b, c, cs) == \A k \in cs : c \in OnStack(b) => t.element[c].view[k] = NoProp

(* What unmounting kids of c leaves of the builds of c and above it. *)
LEMMA UnmountStacked ==
  ASSUME NEW K, NEW P, NEW t, NEW u, NEW cs, NEW b, NEW c \in Components, IsTree(K),
         cs \subseteq K[c], Unmounts(K, P, t, u, cs), Stacked(K, t, b),
         UpFrom(K, b, c), Dropped(t, b, c, cs)
  PROVE  Stacked(K, u, b)
<1>1. ASSUME NEW i \in 1 .. Len(b)
      PROVE  /\ b[i].of \in Components /\ K[b[i].of] \subseteq Components
             /\ u.element[b[i].of] = t.element[b[i].of]
             /\ \A k \in K[b[i].of] : u.element[k] = t.element[k] \/ t.element[b[i].of].view[k] = NoProp
  <2>1. b[i] \in Frames
    BY DEF Stacked
  <2>2. b[i].of \in Components
    BY <2>1 DEF Frames
  <2>3. K[b[i].of] \subseteq Components
    BY <2>2 DEF IsTree
  <2>4. PICK a \in Components : a = b[i].of /\ (a = c \/ c \in Under(K, a)) /\ a \in OnStack(b)
    BY <2>2 DEF OnStack, UpFrom
  <2>5. \A j \in cs : /\ a \notin Reach(K, j)
                      /\ \A k \in K[a] : k # j => k \notin Reach(K, j)
                      /\ a # c => j \notin K[a]
    BY <2>4, KidApart
  <2>6. a \notin Subtrees(K, cs)
    BY <2>5 DEF Subtrees
  <2>7. u.element[a] = t.element[a]
    BY <2>6 DEF Unmounts
  <2>8. ASSUME NEW k \in K[a] PROVE u.element[k] = t.element[k] \/ t.element[a].view[k] = NoProp
    <3>1. CASE k \in cs
      BY <2>4, <2>5, <3>1 DEF Dropped
    <3>2. CASE k \notin cs
      <4>1. k \notin Subtrees(K, cs)
        BY <2>5, <3>2 DEF Subtrees
      <4> QED
        BY <2>3, <2>4, <4>1 DEF Unmounts
    <3> QED
      BY <3>1, <3>2
  <2> QED
    BY <2>2, <2>3, <2>4, <2>7, <2>8
<1>2. ASSUME NEW i \in 1 .. Len(b)
      PROVE  /\ u.element[b[i].of].mounted /\ b[i].todo \subseteq K[b[i].of]
             /\ b[i].phase = "children" => \A k \in K[b[i].of] \ b[i].todo :
                  \/ u.element[b[i].of].view[k] = NoProp
                  \/ u.element[k].prop = u.element[b[i].of].view[k]
  BY <1>1 DEF Stacked
<1> QED
  BY <1>2 DEF Stacked

LEMMA FlushStep ==
  ASSUME BuildInv, UNCHANGED shape, flush
  PROVE  BuildInv'
<1>1. PICK t : t = Tree
  OBVIOUS
<1>2. PICK b : b = builds
  OBVIOUS
<1>3. Becomes(t) /\ builds' = b /\ doing' = "flush" /\ signals' \subseteq Signals
  BY <1>1, <1>2, TreeIs DEF flush, Becomes, BuildInv
<1> QED
  BY <1>1, <1>2, <1>3, Arrives DEF BuildInv

LEMMA EndOperationStep ==
  ASSUME BuildInv, UNCHANGED shape, end_operation
  PROVE  BuildInv'
<1>1. PICK t : t = Tree
  OBVIOUS
<1>2. PICK b : b = builds
  OBVIOUS
<1>3. /\ Becomes(t) /\ builds' = b /\ doing' = "idle" /\ signals' \subseteq Signals
      /\ b = <<>> /\ t.batch = {}
  BY <1>1, <1>2, TreeIs DEF end_operation, Becomes, BuildInv
<1> QED
  BY <1>1, <1>2, <1>3, Arrives DEF BuildInv

LEMMA NextBatchStep ==
  ASSUME BuildInv, UNCHANGED shape, next_batch
  PROVE  BuildInv'
<1>1. PICK t : t = [element |-> element, deps |-> deps, subs |-> subs, dirty |-> {}, batch |-> dirty,
                    spoiled |-> spoiled]
  OBVIOUS
<1>2. PICK b : b = builds
  OBVIOUS
<1>3. /\ t.element = Tree.element /\ t.deps = Tree.deps /\ t.subs = Tree.subs /\ t.dirty = {}
      /\ t.batch = Tree.dirty /\ t.spoiled = Tree.spoiled /\ Whole(t) /\ Tree.batch = {}
  BY <1>1, TreeIs DEF Whole, next_batch
<1>4. /\ Becomes(t) /\ builds' = b /\ doing' = "flush" /\ signals' \subseteq Signals
  BY <1>1, <1>2 DEF next_batch, Becomes, BuildInv
<1>5. /\ Tree \in TreeSet(Props) /\ Agrees(Tree) /\ Flagged(Tree, OnStack(b))
      /\ Stacked(Kids, Tree, b) /\ Kin(Kids, Tree, OnStack(b)) /\ IsTree(Kids)
  BY <1>2, ShapeFacts DEF BuildInv, TreeOK
<1>6. t \in TreeSet(Props)
  BY <1>3, <1>5, TreeParts, WholeTyped
<1>7. Agrees(t)
  BY <1>3, <1>5 DEF Agrees
<1>8. Flagged(t, OnStack(b))
  BY <1>3, <1>5 DEF Flagged
<1>9. Stacked(Kids, t, b) /\ Kin(Kids, t, OnStack(b))
  BY <1>3, <1>5, Settled
<1>10. TreeOK(Kids, Props, t, b)
  BY <1>6, <1>7, <1>8, <1>9 DEF TreeOK
<1> QED
  BY <1>4, <1>10, Arrives

(***************************************************************************)
(* A build returns, hands its kids their props, ends or throws.            *)
(***************************************************************************)
LEMMA BuildReturnsStep ==
  ASSUME BuildInv, UNCHANGED shape, NEW view \in [Components -> Given], build_returns(view)
  PROVE  BuildInv'
<1>0. builds # <<>> /\ Last(builds).phase = "build"
  BY DEF build_returns, InBuild
<1>1. PICK f : f = Last(builds)
  OBVIOUS
<1>2. PICK c : c = f.of
  OBVIOUS
<1>3. /\ builds \in Seq(Frames) /\ f = builds[Len(builds)] /\ f \in Frames /\ c \in Components
      /\ element[c].mounted /\ Len(builds) \in 1 .. Len(builds) /\ Len(builds) \in Nat \ {0}
  BY <1>0, <1>1, <1>2, TopFacts
<1>4. PICK todo : todo = {k \in Kids[c] : c \in ListParents => view[k] # NoProp}
  OBVIOUS
<1>5. PICK g : g = [f EXCEPT !.phase = "children", !.todo = todo]
  OBVIOUS
<1>6. IsTree(Kids)
  BY ShapeFacts DEF BuildInv
<1>7. todo \subseteq Kids[c] /\ todo \subseteq Components /\ Kids[c] \subseteq Components
      /\ \A k \in Kids[c] \ todo : view[k] = NoProp
  BY <1>3, <1>4, <1>6 DEF IsTree
<1>8. g \in Frames /\ g.of = c /\ g.todo = todo
  BY <1>2, <1>3, <1>5, <1>7 DEF Frames
<1>9. PICK b : b = Append(Front(builds), g)
  OBVIOUS
<1>10. /\ b \in Seq(Frames) /\ Len(b) = Len(builds) /\ \A i \in 1 .. Len(b) - 1 : b[i] = builds[i]
       /\ b[Len(b)] = g /\ OnStack(b) = OnStack(builds)
  <2>1. g.of = builds[Len(builds)].of
    BY <1>2, <1>3, <1>8
  <2>2. /\ Append(Front(builds), g) \in Seq(Frames) /\ Len(Append(Front(builds), g)) = Len(builds)
        /\ \A i \in 1 .. Len(builds) - 1 : Append(Front(builds), g)[i] = builds[i]
        /\ Append(Front(builds), g)[Len(builds)] = g
        /\ OnStack(Append(Front(builds), g)) = OnStack(builds)
    BY <1>0, <1>3, <1>8, <2>1, Replaced
  <2> QED
    BY <1>9, <2>2
<1>11. b[Len(b)] = g /\ OnStack(b) = OnStack(builds)
  BY <1>10
<1>12. PICK t : t = [Tree EXCEPT !.element[c].view = view]
  OBVIOUS
<1>13. builds' = b /\ Becomes(t) /\ UNCHANGED <<signals, doing>>
  BY <1>1, <1>2, <1>4, <1>5, <1>9, <1>12 DEF build_returns
<1>14. /\ Tree \in TreeSet(Props) /\ Agrees(Tree) /\ Flagged(Tree, OnStack(builds))
       /\ Stacked(Kids, Tree, builds) /\ Kin(Kids, Tree, OnStack(builds))
  BY DEF BuildInv, TreeOK
<1>15. /\ element \in [Components -> ElementSet(Props)] /\ deps \in [Components -> SUBSET Signals]
       /\ subs \in [Signals -> SUBSET Components] /\ batch \subseteq Components
       /\ dirty \subseteq Components /\ spoiled \subseteq Components
  BY <1>14, TreeParts, TreeIs
<1>16. PICK x : x = element[c]
  OBVIOUS
<1>17. PICK y : y = [x EXCEPT !.view = view]
  OBVIOUS
<1>18. /\ y \in ElementSet(Props) /\ y.view = view /\ y.mounted = x.mounted /\ y.prop = x.prop
       /\ y.built = x.built /\ y.reads = x.reads /\ y.stale = x.stale /\ y.dirty = x.dirty
  BY <1>3, <1>15, <1>16, <1>17 DEF ElementSet, Given
<1>19. /\ t.element = [element EXCEPT ![c] = y] /\ t.deps = deps /\ t.subs = subs
       /\ t.dirty = dirty /\ t.batch = batch /\ t.spoiled = spoiled /\ Whole(t)
  BY <1>12, <1>15, <1>16, <1>17 DEF Tree, Whole
<1>20. /\ t.element \in [Components -> ElementSet(Props)] /\ t.element[c] = y
       /\ \A d \in Components : d # c => t.element[d] = element[d]
  BY <1>3, <1>15, <1>18, <1>19
<1>21. \A d \in Components :
         /\ t.element[d].mounted = element[d].mounted /\ t.element[d].prop = element[d].prop
         /\ t.element[d].built = element[d].built /\ t.element[d].reads = element[d].reads
         /\ t.element[d].stale = element[d].stale /\ t.element[d].dirty = element[d].dirty
         /\ t.element[d].view = IF d = c THEN view ELSE element[d].view
  BY <1>16, <1>18, <1>20
<1>22. t \in TreeSet(Props)
  BY <1>15, <1>19, <1>20, WholeTyped
<1>23. Agrees(t)
  BY <1>14, <1>19, <1>21, TreeIs DEF Agrees
<1>24. Flagged(t, OnStack(b))
  BY <1>11, <1>14, <1>19, <1>21, TreeIs DEF Flagged
<1>25. c \in OnStack(builds)
  BY <1>2, <1>3 DEF OnStack
<1>26. Kin(Kids, t, OnStack(b))
  <2> SUFFICES ASSUME NEW d \in Components, d \notin t.spoiled, d \notin OnStack(b),
                      t.element[d].mounted, NEW k \in Kids[d]
               PROVE  t.element[k].prop = t.element[d].view[k]
    BY DEF Kin
  <2>1. d # c /\ k \in Components
    BY <1>6, <1>11, <1>25 DEF IsTree
  <2>2. element[k].prop = element[d].view[k]
    BY <1>11, <1>14, <1>19, <1>21, TreeIs DEF Kin
  <2> QED
    BY <1>21, <2>1, <2>2
<1>27. Stacked(Kids, t, b)
  <2>1. ASSUME NEW i \in 1 .. Len(b)
        PROVE  /\ t.element[b[i].of].mounted /\ b[i].todo \subseteq Kids[b[i].of]
               /\ b[i].phase = "children" => \A k \in Kids[b[i].of] \ b[i].todo :
                    \/ t.element[b[i].of].view[k] = NoProp
                    \/ t.element[k].prop = t.element[b[i].of].view[k]
    <3>1. CASE i = Len(b)
      BY <1>3, <1>7, <1>8, <1>11, <1>21, <3>1
    <3>2. CASE i # Len(b)
      <4>1. i \in 1 .. Len(b) - 1 /\ i \in 1 .. Len(builds) /\ Len(builds) \in 1 .. Len(builds)
            /\ i < Len(builds)
        BY <1>3, <1>10, <3>2
      <4>2. b[i] = builds[i] /\ builds[i] \in Frames /\ c \in Under(Kids, builds[i].of)
        BY <1>2, <1>3, <1>10, <1>14, <4>1 DEF Stacked
      <4>3. builds[i].of \in Components /\ builds[i].of # c /\ Kids[builds[i].of] \subseteq Components
        <5>1. builds[i].of \in Components
          BY <4>2 DEF Frames
        <5> QED
          BY <1>6, <4>2, <5>1, NotUnderItself DEF IsTree
      <4>4. /\ element[builds[i].of].mounted /\ builds[i].todo \subseteq Kids[builds[i].of]
            /\ builds[i].phase = "children" => \A k \in Kids[builds[i].of] \ builds[i].todo :
                    \/ element[builds[i].of].view[k] = NoProp
                    \/ element[k].prop = element[builds[i].of].view[k]
        BY <1>14, <4>1, TreeIs DEF Stacked
      <4> QED
        BY <1>21, <4>2, <4>3, <4>4
    <3> QED
      BY <3>1, <3>2
  <2>2. \A i \in 1 .. Len(b) : b[i].of = builds[i].of
    <3> SUFFICES ASSUME NEW i \in 1 .. Len(b) PROVE b[i].of = builds[i].of
      OBVIOUS
    <3>1. i \in 1 .. Len(b) - 1 \/ i = Len(b)
      BY <1>3, <1>10
    <3> QED
      BY <1>2, <1>3, <1>8, <1>10, <1>11, <3>1
  <2>3. \A i, j \in 1 .. Len(b) : i < j => b[j].of \in Under(Kids, b[i].of)
    BY <1>10, <1>14, <2>2 DEF Stacked
  <2> QED
    BY <1>10, <2>1, <2>3 DEF Stacked
<1>28. TreeOK(Kids, Props, t, b)
  BY <1>22, <1>23, <1>24, <1>26, <1>27 DEF TreeOK
<1>29. doing # "idle"
  BY <1>0 DEF BuildInv
<1> QED
  BY <1>13, <1>28, <1>29, Arrives DEF BuildInv

LEMMA UpdateChildStep ==
  ASSUME BuildInv, UNCHANGED shape, update_child
  PROVE  BuildInv'
<1>0. builds # <<>> /\ Last(builds).phase = "children" /\ UNCHANGED <<signals, doing>>
  BY DEF update_child
<1>1. PICK f : f = Last(builds)
  OBVIOUS
<1>2. PICK c : c = f.of
  OBVIOUS
<1>3. /\ builds \in Seq(Frames) /\ f = builds[Len(builds)] /\ f \in Frames /\ c \in Components
      /\ element[c].mounted /\ Len(builds) \in 1 .. Len(builds) /\ Len(builds) \in Nat \ {0}
      /\ f.phase = "children"
  BY <1>0, <1>1, <1>2, TopFacts
<1>4. PICK k \in f.todo :
        IF element[c].view[k] = NoProp
          THEN Becomes(Unmount(Tree, {k})) /\ builds' = Append(Front(builds), [f EXCEPT !.todo = @ \ {k}])
          ELSE Reconcile(k, element[c].view[k], Tree, Append(Front(builds), [f EXCEPT !.todo = @ \ {k}]))
  BY <1>1, <1>2 DEF update_child
<1>5. PICK g : g = [f EXCEPT !.todo = @ \ {k}]
  OBVIOUS
<1>6. IsTree(Kids) /\ NoProp \notin Props
  BY ShapeFacts DEF BuildInv
<1>7. /\ Tree \in TreeSet(Props) /\ Agrees(Tree) /\ Flagged(Tree, OnStack(builds))
      /\ Stacked(Kids, Tree, builds) /\ Kin(Kids, Tree, OnStack(builds)) /\ doing # "idle"
  BY <1>0 DEF BuildInv, TreeOK
<1>8. k \in Kids[c] /\ k \in Components /\ f.todo \subseteq Kids[c]
  <2>1. f.todo \subseteq Kids[c]
    BY <1>2, <1>3, <1>7 DEF Stacked
  <2> QED
    BY <1>3, <1>6, <2>1 DEF IsTree
<1>9. g \in Frames /\ g.of = c /\ g.todo = f.todo \ {k}
  BY <1>2, <1>3, <1>5 DEF Frames
<1>10. PICK b : b = Append(Front(builds), g)
  OBVIOUS
<1>11. /\ b \in Seq(Frames) /\ Len(b) = Len(builds) /\ \A i \in 1 .. Len(b) - 1 : b[i] = builds[i]
       /\ b[Len(b)] = g /\ OnStack(b) = OnStack(builds)
  <2>1. g.of = builds[Len(builds)].of
    BY <1>2, <1>3, <1>9
  <2>2. /\ Append(Front(builds), g) \in Seq(Frames) /\ Len(Append(Front(builds), g)) = Len(builds)
        /\ \A i \in 1 .. Len(builds) - 1 : Append(Front(builds), g)[i] = builds[i]
        /\ Append(Front(builds), g)[Len(builds)] = g
        /\ OnStack(Append(Front(builds), g)) = OnStack(builds)
    BY <1>0, <1>3, <1>9, <2>1, Replaced
  <2> QED
    BY <1>10, <2>2
<1>12. \A i \in 1 .. Len(b) : b[i].of = builds[i].of /\ b[i].of \in Components
                              /\ (b[i].of = c \/ c \in Under(Kids, b[i].of))
  <2> SUFFICES ASSUME NEW i \in 1 .. Len(b)
               PROVE  b[i].of = builds[i].of /\ b[i].of \in Components
                      /\ (b[i].of = c \/ c \in Under(Kids, b[i].of))
    OBVIOUS
  <2>1. b[i] \in Frames
    BY <1>11
  <2>2. b[i].of \in Components
    BY <2>1 DEF Frames
  <2>3. CASE i = Len(b)
    BY <1>2, <1>3, <1>9, <1>11, <2>2, <2>3
  <2>4. CASE i # Len(b)
    <3>1. i \in 1 .. Len(b) - 1 /\ i \in 1 .. Len(builds) /\ i < Len(builds)
      BY <1>3, <1>11, <2>4
    <3>2. c \in Under(Kids, builds[i].of)
      BY <1>2, <1>3, <1>7, <3>1 DEF Stacked
    <3> QED
      BY <1>11, <2>2, <3>1, <3>2
  <2> QED
    BY <2>3, <2>4
<1>13. \A i, j \in 1 .. Len(b) : i < j => b[j].of \in Under(Kids, b[i].of)
  BY <1>7, <1>11, <1>12 DEF Stacked
<1>14. ASSUME NEW i \in 1 .. Len(b)
       PROVE  /\ element[b[i].of].mounted /\ b[i].todo \subseteq Kids[b[i].of]
              /\ b[i].phase = "children" => \A j \in Kids[b[i].of] \ b[i].todo :
                   \/ element[b[i].of].view[j] = NoProp
                   \/ j = k /\ b[i].of = c
                   \/ j # k /\ element[j].prop = element[b[i].of].view[j]
  <2>1. CASE i = Len(b)
    <3>1. b[i] = g /\ b[i].of = c
      BY <1>9, <1>11, <2>1
    <3>2. \A j \in Kids[c] \ f.todo : \/ element[c].view[j] = NoProp
                                      \/ element[j].prop = element[c].view[j]
      BY <1>2, <1>3, <1>7, TreeIs DEF Stacked
    <3> QED
      BY <1>3, <1>8, <1>9, <3>1, <3>2
  <2>2. CASE i # Len(b)
    <3>1. i \in 1 .. Len(b) - 1 /\ i \in 1 .. Len(builds) /\ i < Len(builds)
      BY <1>3, <1>11, <2>2
    <3>2. c \in Under(Kids, builds[i].of) /\ b[i] = builds[i]
      BY <1>2, <1>3, <1>7, <1>11, <3>1 DEF Stacked
    <3>3. builds[i].of \in Components /\ builds[i].of # c
      BY <1>6, <1>12, <3>2, NotUnderItself
    <3>4. k \notin Kids[builds[i].of]
      BY <1>3, <1>6, <1>8, <3>3 DEF IsTree
    <3>5. /\ element[builds[i].of].mounted /\ builds[i].todo \subseteq Kids[builds[i].of]
          /\ builds[i].phase = "children" => \A j \in Kids[builds[i].of] \ builds[i].todo :
                  \/ element[builds[i].of].view[j] = NoProp
                  \/ element[j].prop = element[builds[i].of].view[j]
      BY <1>7, <3>1, TreeIs DEF Stacked
    <3> QED
      BY <3>2, <3>4, <3>5
  <2> QED
    BY <2>1, <2>2
<1>15. c \in OnStack(b)
  BY <1>2, <1>3, <1>11 DEF OnStack
<1>16. CASE element[c].view[k] = NoProp
  <2>1. PICK u : u = Unmount(Tree, {k})
    OBVIOUS
  <2>2. PICK cs : cs = {k}
    OBVIOUS
  <2>3. Becomes(u) /\ builds' = b
    BY <1>4, <1>5, <1>10, <1>16, <2>1
  <2>4. Unmounts(Kids, Props, Tree, u, cs) /\ cs \subseteq Kids[c] /\ cs \subseteq Components
    BY <1>7, <1>8, <2>1, <2>2, UnmountFields
  <2>5. Stacked(Kids, Tree, b)
    <3>1. ASSUME NEW i \in 1 .. Len(b)
          PROVE  /\ Tree.element[b[i].of].mounted /\ b[i].todo \subseteq Kids[b[i].of]
                 /\ b[i].phase = "children" => \A j \in Kids[b[i].of] \ b[i].todo :
                      \/ Tree.element[b[i].of].view[j] = NoProp
                      \/ Tree.element[j].prop = Tree.element[b[i].of].view[j]
      BY <1>14, <1>16, TreeIs
    <3> QED
      BY <1>11, <1>13, <3>1 DEF Stacked
  <2>6. Stacked(Kids, u, b)
    <3>1. Dropped(Tree, b, c, cs) /\ UpFrom(Kids, b, c)
      BY <1>12, <1>16, <2>2, TreeIs DEF Dropped, UpFrom
    <3>2. c \in Components
      BY <1>3
    <3> QED
      BY <1>6, <2>4, <2>5, <3>1, <3>2, UnmountStacked
  <2>7. Agrees(u) /\ Flagged(u, OnStack(b))
    BY <1>7, <1>11, <2>4, UnmountAgrees
  <2>8. Kin(Kids, u, OnStack(b))
    <3>1. \A d \in Components \ (Tree.spoiled \cup OnStack(b)) : Tree.element[d].mounted =>
           \A j \in Kids[d] : /\ j \notin cs => Tree.element[j].prop = Tree.element[d].view[j]
                              /\ j \in cs => Tree.element[d].view[j] = NoProp
      <4> SUFFICES ASSUME NEW d \in Components, d \notin Tree.spoiled, d \notin OnStack(b),
                          Tree.element[d].mounted, NEW j \in Kids[d]
                   PROVE  /\ j \notin cs => Tree.element[j].prop = Tree.element[d].view[j]
                          /\ j \in cs => Tree.element[d].view[j] = NoProp
        OBVIOUS
      <4>1. d # c
        BY <1>15
      <4>2. j \notin cs
        BY <1>3, <1>6, <1>8, <2>2, <4>1 DEF IsTree
      <4> QED
        BY <1>7, <1>11, <4>2 DEF Kin
    <3> QED
      BY <1>6, <2>4, <3>1, UnmountKin
  <2>9. u \in TreeSet(Props)
    BY <2>4 DEF Unmounts
  <2>10. TreeOK(Kids, Props, u, b)
    BY <2>6, <2>7, <2>8, <2>9 DEF TreeOK
  <2> QED
    BY <1>0, <1>7, <2>3, <2>10, Arrives DEF BuildInv
<1>17. CASE element[c].view[k] # NoProp
  <2>1. PICK p \in Props : p = element[c].view[k]
    <3>1. element[c] \in ElementSet(Props)
      BY <1>3, <1>7, TreeParts, TreeIs
    <3>2. element[c].view \in [Components -> Props \cup {NoProp}]
      BY <3>1 DEF ElementSet
    <3> QED
      BY <1>8, <1>17, <3>2
  <2>2. Reconcile(k, p, Tree, b)
    BY <1>4, <1>5, <1>10, <1>17, <2>1
  <2>3. Ready(Kids, Tree, b, k, p)
    <3>1. ASSUME NEW i \in 1 .. Len(b)
          PROVE  /\ Tree.element[b[i].of].mounted /\ b[i].todo \subseteq Kids[b[i].of]
                 /\ b[i].phase = "children" => \A j \in Kids[b[i].of] \ b[i].todo :
                      \/ Tree.element[b[i].of].view[j] = NoProp
                      \/ Tree.element[b[i].of].view[j] = IF j = k THEN p ELSE Tree.element[j].prop
      BY <1>14, <2>1, TreeIs
    <3>2. ASSUME NEW i \in 1 .. Len(b) PROVE k \in Under(Kids, b[i].of)
      BY <1>3, <1>6, <1>8, <1>12, UnderClosed
    <3>3. \A d \in Components : k \in Kids[d] => d = c
      BY <1>3, <1>6, <1>8 DEF IsTree
    <3> QED
      BY <1>11, <1>13, <1>15, <3>1, <3>2, <3>3 DEF Ready
  <2>4. Flagged(Tree, OnStack(b)) /\ Kin(Kids, Tree, OnStack(b))
    BY <1>7, <1>11
  <2>5. PICK u, v : Becomes(u) /\ builds' = v /\ TreeOK(Kids, Props, u, v)
    BY <1>6, <1>7, <1>8, <2>2, <2>3, <2>4, ReconcileOK
  <2> QED
    BY <1>0, <1>7, <2>5, Arrives DEF BuildInv
<1> QED
  BY <1>16, <1>17

LEMMA EndBuildStep ==
  ASSUME BuildInv, UNCHANGED shape, end_build
  PROVE  BuildInv'
<1>0. /\ builds # <<>> /\ Last(builds).phase = "children" /\ Last(builds).todo = {}
      /\ UNCHANGED <<signals, doing>>
  BY DEF end_build
<1>1. PICK c : c = Last(builds).of
  OBVIOUS
<1>2. PICK b : b = Front(builds)
  OBVIOUS
<1>3. /\ builds \in Seq(Frames) /\ c = builds[Len(builds)].of /\ c \in Components
      /\ element[c].mounted /\ Len(builds) \in 1 .. Len(builds) /\ Len(builds) \in Nat \ {0}
      /\ builds[Len(builds)].todo = {} /\ builds[Len(builds)].phase = "children"
  BY <1>0, <1>1, TopFacts
<1>4. /\ b \in Seq(Frames) /\ Len(b) = Len(builds) - 1 /\ \A i \in 1 .. Len(b) : b[i] = builds[i]
      /\ OnStack(builds) = OnStack(b) \cup {c}
  <2>1. /\ Front(builds) \in Seq(Frames) /\ Len(Front(builds)) = Len(builds) - 1
        /\ \A i \in 1 .. Len(builds) - 1 : Front(builds)[i] = builds[i]
        /\ OnStack(builds) = OnStack(Front(builds)) \cup {builds[Len(builds)].of}
    BY <1>0, <1>3, Popped
  <2> QED
    BY <1>2, <1>3, <2>1
<1>5. PICK t : t = [Tree EXCEPT !.spoiled = @ \ {c}]
  OBVIOUS
<1>6. PICK cs : cs = {k \in Kids[c] : element[c].view[k] = NoProp}
  OBVIOUS
<1>7. PICK u : u = Unmount(t, cs)
  OBVIOUS
<1>8. Becomes(u) /\ builds' = b
  BY <1>1, <1>2, <1>5, <1>6, <1>7 DEF end_build
<1>9. IsTree(Kids)
  BY ShapeFacts DEF BuildInv
<1>10. /\ Tree \in TreeSet(Props) /\ Agrees(Tree) /\ Flagged(Tree, OnStack(builds))
       /\ Stacked(Kids, Tree, builds) /\ Kin(Kids, Tree, OnStack(builds)) /\ doing # "idle"
  BY <1>0 DEF BuildInv, TreeOK
<1>11. /\ t.element = element /\ t.deps = deps /\ t.subs = subs /\ t.dirty = dirty
       /\ t.batch = batch /\ t.spoiled = spoiled \ {c} /\ Whole(t)
  BY <1>5 DEF Tree, Whole
<1>12. t \in TreeSet(Props)
  BY <1>10, <1>11, TreeIs, TreeParts, WholeTyped
<1>13. cs \subseteq Kids[c] /\ cs \subseteq Components
  BY <1>3, <1>6, <1>9 DEF IsTree
<1>14. Unmounts(Kids, Props, t, u, cs)
  BY <1>7, <1>12, UnmountFields
<1>15. Agrees(t)
  BY <1>10, <1>11, TreeIs DEF Agrees
<1>16. Flagged(t, OnStack(b))
  <2> SUFFICES ASSUME NEW d \in Components, t.element[d].dirty
               PROVE  d \in t.dirty \cup t.batch \cup (t.spoiled \ OnStack(b))
    BY DEF Flagged
  <2>1. d \in dirty \cup batch \cup (spoiled \ OnStack(builds))
    BY <1>10, <1>11, TreeIs DEF Flagged
  <2> QED
    BY <1>4, <1>11, <2>1
<1>17. ASSUME NEW i \in 1 .. Len(b)
       PROVE  /\ i \in 1 .. Len(builds) /\ c \in Under(Kids, b[i].of) /\ b[i].of # c
  <2>1. i \in 1 .. Len(builds) /\ i < Len(builds)
    BY <1>3, <1>4
  <2>2. c \in Under(Kids, b[i].of)
    BY <1>3, <1>4, <1>10, <2>1 DEF Stacked
  <2>3. b[i] \in Frames
    BY <1>4
  <2>4. b[i].of \in Components
    BY <2>3 DEF Frames
  <2> QED
    BY <1>9, <2>1, <2>2, <2>4, NotUnderItself
<1>18. Stacked(Kids, t, b)
  <2>1. ASSUME NEW i \in 1 .. Len(b)
        PROVE  /\ t.element[b[i].of].mounted /\ b[i].todo \subseteq Kids[b[i].of]
               /\ b[i].phase = "children" => \A j \in Kids[b[i].of] \ b[i].todo :
                    \/ t.element[b[i].of].view[j] = NoProp
                    \/ t.element[j].prop = t.element[b[i].of].view[j]
    <3>1. b[i] = builds[i] /\ i \in 1 .. Len(builds)
      BY <1>4, <1>17
    <3>2. /\ Tree.element[builds[i].of].mounted /\ builds[i].todo \subseteq Kids[builds[i].of]
          /\ builds[i].phase = "children" => \A j \in Kids[builds[i].of] \ builds[i].todo :
               \/ Tree.element[builds[i].of].view[j] = NoProp
               \/ Tree.element[j].prop = Tree.element[builds[i].of].view[j]
      BY <1>10, <3>1 DEF Stacked
    <3>3. t.element = Tree.element
      BY <1>11, TreeIs
    <3> QED
      BY <3>1, <3>2, <3>3
  <2>2. \A i, j \in 1 .. Len(b) : i < j => b[j].of \in Under(Kids, b[i].of)
    BY <1>4, <1>10, <1>17 DEF Stacked
  <2> QED
    BY <1>4, <2>1, <2>2 DEF Stacked
<1>19. c \notin OnStack(b)
  BY <1>17 DEF OnStack
<1>20. Stacked(Kids, u, b)
  <2>1. Dropped(t, b, c, cs) /\ UpFrom(Kids, b, c)
    BY <1>17, <1>19 DEF Dropped, UpFrom
  <2>2. c \in Components /\ cs \subseteq Kids[c]
    BY <1>3, <1>13
  <2> QED
    BY <1>9, <1>14, <1>18, <2>1, <2>2, UnmountStacked
<1>21. Agrees(u) /\ Flagged(u, OnStack(b))
  BY <1>14, <1>15, <1>16, UnmountAgrees
<1>22. Kin(Kids, u, OnStack(b))
  <2>1. \A d \in Components \ (t.spoiled \cup OnStack(b)) : t.element[d].mounted =>
         \A j \in Kids[d] : /\ j \notin cs => t.element[j].prop = t.element[d].view[j]
                            /\ j \in cs => t.element[d].view[j] = NoProp
    <3> SUFFICES ASSUME NEW d \in Components, d \notin t.spoiled, d \notin OnStack(b),
                        t.element[d].mounted, NEW j \in Kids[d]
                 PROVE  /\ j \notin cs => t.element[j].prop = t.element[d].view[j]
                        /\ j \in cs => t.element[d].view[j] = NoProp
      OBVIOUS
    <3>1. CASE d = c
      <4>1. \A k \in Kids[c] : \/ element[c].view[k] = NoProp
                               \/ element[k].prop = element[c].view[k]
        BY <1>3, <1>10, TreeIs DEF Stacked
      <4> QED
        BY <1>6, <1>11, <3>1, <4>1
    <3>2. CASE d # c
      <4>1. d \notin spoiled /\ d \notin OnStack(builds)
        BY <1>4, <1>11, <3>2
      <4>2. element[j].prop = element[d].view[j]
        BY <1>10, <1>11, <4>1, TreeIs DEF Kin
      <4>3. j \notin cs
        BY <1>3, <1>9, <1>13, <3>2 DEF IsTree
      <4> QED
        BY <1>11, <4>2, <4>3
    <3> QED
      BY <3>1, <3>2
  <2> QED
    BY <1>9, <1>13, <1>14, <2>1, UnmountKin
<1>23. u \in TreeSet(Props)
  BY <1>14 DEF Unmounts
<1>24. TreeOK(Kids, Props, u, b)
  BY <1>20, <1>21, <1>22, <1>23 DEF TreeOK
<1> QED
  BY <1>0, <1>8, <1>10, <1>24, Arrives DEF BuildInv

LEMMA BuildThrowsStep ==
  ASSUME BuildInv, UNCHANGED shape, build_throws
  PROVE  BuildInv'
<1>0. builds # <<>> /\ builds' = <<>> /\ doing' = "idle" /\ UNCHANGED signals
  BY DEF build_throws, InBuild
<1>1. PICK outer : outer = {builds[i].of : i \in 1 .. Len(builds) - 1}
  OBVIOUS
<1>2. PICK all : all = {builds[i].of : i \in DOMAIN builds}
  OBVIOUS
<1>3. PICK cs : cs = UNION {Kids[c] : c \in outer \cap ListParents}
  OBVIOUS
<1>4. PICK t : t = [Tree EXCEPT !.batch = {}, !.spoiled = @ \cup batch \cup all]
  OBVIOUS
<1>5. PICK u : u = Unmount(t, cs)
  OBVIOUS
<1>6. Becomes(u)
  BY <1>1, <1>2, <1>3, <1>4, <1>5 DEF build_throws
<1>7. IsTree(Kids)
  BY ShapeFacts DEF BuildInv
<1>8. /\ Tree \in TreeSet(Props) /\ Agrees(Tree) /\ Flagged(Tree, OnStack(builds))
      /\ Stacked(Kids, Tree, builds) /\ Kin(Kids, Tree, OnStack(builds)) /\ builds \in Seq(Frames)
  BY DEF BuildInv, TreeOK, Stacked
<1>9. all = OnStack(builds) /\ all \subseteq Components /\ outer \subseteq all
  <2>1. DOMAIN builds = 1 .. Len(builds) /\ Len(builds) \in Nat
    BY <1>8
  <2>2. all = OnStack(builds)
    BY <1>2, <2>1 DEF OnStack
  <2>3. \A i \in 1 .. Len(builds) : builds[i].of \in Components
    <3> SUFFICES ASSUME NEW i \in 1 .. Len(builds) PROVE builds[i].of \in Components
      OBVIOUS
    <3>1. builds[i] \in Frames
      BY <1>8
    <3> QED
      BY <3>1 DEF Frames
  <2>4. all \subseteq Components
    BY <1>2, <2>1, <2>3
  <2>5. \A i \in 1 .. Len(builds) - 1 : i \in 1 .. Len(builds)
    BY <2>1
  <2>6. outer \subseteq all
    BY <1>1, <1>2, <2>1, <2>5
  <2> QED
    BY <2>2, <2>4, <2>6
<1>10. /\ t.element = element /\ t.deps = deps /\ t.subs = subs /\ t.dirty = dirty
       /\ t.batch = {} /\ t.spoiled = spoiled \cup batch \cup all /\ Whole(t)
  BY <1>4 DEF Tree, Whole
<1>11. t \in TreeSet(Props)
  <2>1. spoiled \cup batch \cup all \subseteq Components
    BY <1>8, <1>9, TreeIs, TreeParts
  <2> QED
    BY <1>8, <1>10, <2>1, TreeIs, TreeParts, WholeTyped
<1>12. Agrees(t)
  BY <1>8, <1>10, TreeIs DEF Agrees
<1>13. Flagged(t, {})
  BY <1>8, <1>10, TreeIs DEF Flagged
<1>14. Unmounts(Kids, Props, t, u, cs)
  BY <1>5, <1>11, UnmountFields
<1>15. cs \subseteq Components
  BY <1>3, <1>7, <1>9 DEF IsTree
<1>16. Agrees(u) /\ Flagged(u, {})
  BY <1>12, <1>13, <1>14, UnmountAgrees
<1>17. Kin(Kids, u, {})
  <2>1. \A d \in Components \ (t.spoiled \cup {}) : t.element[d].mounted =>
         \A j \in Kids[d] : /\ j \notin cs => t.element[j].prop = t.element[d].view[j]
                            /\ j \in cs => t.element[d].view[j] = NoProp
    <3> SUFFICES ASSUME NEW d \in Components, d \notin t.spoiled,
                        t.element[d].mounted, NEW j \in Kids[d]
                 PROVE  /\ j \notin cs => t.element[j].prop = t.element[d].view[j]
                        /\ j \in cs => t.element[d].view[j] = NoProp
      OBVIOUS
    <3>1. d \notin spoiled /\ d \notin OnStack(builds) /\ d \notin outer
      BY <1>9, <1>10
    <3>2. element[j].prop = element[d].view[j]
      BY <1>8, <1>10, <3>1, TreeIs DEF Kin
    <3>3. j \notin cs
      <4> SUFFICES ASSUME NEW c \in outer, j \in Kids[c] PROVE FALSE
        BY <1>3
      <4> QED
        BY <1>7, <1>9, <3>1 DEF IsTree
    <3> QED
      BY <1>10, <3>2, <3>3
  <2> QED
    BY <1>7, <1>14, <1>15, <2>1, UnmountKin
<1>18. u \in TreeSet(Props) /\ u.batch = {}
  BY <1>10, <1>14 DEF Unmounts
<1>19. Stacked(Kids, u, <<>>)
  BY NoBuilds DEF Stacked
<1>20. TreeOK(Kids, Props, u, <<>>)
  BY <1>16, <1>17, <1>18, <1>19, NoBuilds DEF TreeOK
<1> QED
  BY <1>0, <1>6, <1>18, <1>20, Arrives DEF BuildInv

LEMMA BuildStart ==
  ASSUME BuildInit
  PROVE  BuildInv
<1>1. /\ shape \in Shapes /\ element = [c \in Components |-> Unmounted]
      /\ deps = [c \in Components |-> {}] /\ subs = [s \in Signals |-> {}]
      /\ signals = Signals /\ dirty = {} /\ batch = {} /\ builds = <<>>
      /\ doing = "idle" /\ spoiled = {}
  BY DEF BuildInit
<1>2. \A c \in Components : element[c] = Unmounted /\ deps[c] = {}
  BY <1>1
<1>3. element \in [Components -> ElementSet(Props)]
  BY <1>1, UnmountedIs
<1>4. Tree \in TreeSet(Props)
  BY <1>1, <1>3, TreeIs, WholeTyped
<1>5. Agrees(Tree)
  BY <1>1, <1>2, TreeIs, UnmountedIs DEF Agrees
<1>6. Flagged(Tree, {}) /\ Kin(Kids, Tree, {})
  BY <1>2, TreeIs, UnmountedIs DEF Flagged, Kin
<1>7. Stacked(Kids, Tree, <<>>)
  BY NoBuilds DEF Stacked
<1>8. TreeOK(Kids, Props, Tree, <<>>)
  BY <1>4, <1>5, <1>6, <1>7, NoBuilds DEF TreeOK
<1> QED
  BY <1>1, <1>8 DEF BuildInv

LEMMA BuildStep ==
  ASSUME BuildInv, [BuildNext]_buildVars
  PROVE  BuildInv'
<1>1. CASE UNCHANGED buildVars
  <2>1. /\ shape' = shape /\ element' = element /\ deps' = deps /\ subs' = subs
        /\ signals' = signals /\ dirty' = dirty /\ batch' = batch /\ builds' = builds
        /\ doing' = doing /\ spoiled' = spoiled
    BY <1>1 DEF buildVars
  <2>2. PICK t : t = Tree
    OBVIOUS
  <2>3. Becomes(t) /\ t.batch = batch
    BY <2>1, <2>2, TreeIs DEF Becomes
  <2> QED
    BY <2>1, <2>2, <2>3, UserStep DEF BuildInv
<1>2. CASE BuildNext
  BY <1>2, FlushStep, NextBatchStep, EndOperationStep, UpdateChildStep, EndBuildStep, BuildThrowsStep,
     RenderStep, RebuildStep, SetStateStep, SetSignalStep, DestroyStep, ReadStep, BuildReturnsStep
     DEF BuildNext
<1> QED
  BY <1>1, <1>2

LEMMA BuildInvTyped ==
  ASSUME BuildInv
  PROVE  BuildTypeOK
<1>1. /\ shape \in Shapes /\ Tree \in TreeSet(Props) /\ Agrees(Tree) /\ builds \in Seq(Frames)
      /\ signals \subseteq Signals /\ doing \in {"idle", "render", "flush"} /\ NoProp \notin Props
  BY ShapeFacts DEF BuildInv, TreeOK, Stacked
<1>2. /\ element \in [Components -> ElementSet(Props)] /\ deps \in [Components -> SUBSET Signals]
      /\ subs \in [Signals -> SUBSET Components] /\ batch \subseteq Components
      /\ dirty \subseteq Components /\ spoiled \subseteq Components
  BY <1>1, TreeParts, TreeIs
<1>3. ASSUME NEW c \in Components
      PROVE  /\ element[c].mounted \in BOOLEAN /\ element[c].dirty \in BOOLEAN
             /\ element[c].stale \in BOOLEAN
             /\ element[c].prop \in IF element[c].mounted THEN Props ELSE {NoProp}
             /\ element[c].built \in Given
             /\ element[c].reads \subseteq Signals /\ element[c].view \in [Components -> Given]
  <2>1. PICK x : x = element[c]
    OBVIOUS
  <2>2. x \in ElementSet(Props)
    BY <1>2, <2>1
  <2>3. /\ x.mounted \in BOOLEAN /\ x.dirty \in BOOLEAN /\ x.stale \in BOOLEAN
        /\ x.prop \in Props \cup {NoProp} /\ x.built \in Given /\ x.reads \subseteq Signals
        /\ x.view \in [Components -> Given]
    BY <2>2 DEF ElementSet, Given
  <2>4. x.mounted <=> x.prop # NoProp
    BY <1>1, <2>1, TreeIs DEF Agrees
  <2> QED
    BY <2>1, <2>3, <2>4
<1>4. ASSUME NEW i \in DOMAIN builds
      PROVE  builds[i].of \in Components /\ builds[i].phase \in {"build", "children"}
  <2>1. builds[i] \in Frames
    BY <1>1
  <2> QED
    BY <2>1 DEF Frames
<1> QED
  BY <1>1, <1>2, <1>3, <1>4 DEF BuildTypeOK

LEMMA BuildInvFresh ==
  ASSUME BuildInv
  PROVE  BuildsFresh
<1>1. /\ Agrees(Tree) /\ Flagged(Tree, OnStack(builds)) /\ Kin(Kids, Tree, OnStack(builds))
      /\ doing = "idle" => builds = <<>> /\ batch = {}
  BY DEF BuildInv, TreeOK
<1>2. \A c \in Components, s \in Signals : s \in deps[c] <=> c \in subs[s]
  BY <1>1, TreeIs DEF Agrees
<1>3. \A c \in Components : ~element[c].mounted => deps[c] = {} /\ c \notin dirty
  BY <1>1, TreeIs DEF Agrees
<1>4. ASSUME doing = "idle", dirty = {}, NEW c \in Components, c \notin spoiled, element[c].mounted
      PROVE  /\ ~element[c].stale /\ ~element[c].dirty
             /\ element[c].built = element[c].prop
             /\ \A k \in Kids[c] : element[k].prop = element[c].view[k]
  <2>1. OnStack(builds) = {} /\ batch = {}
    BY <1>1, <1>4, NoBuilds
  <2>2. ~element[c].dirty
    BY <1>1, <1>4, <2>1, TreeIs DEF Flagged
  <2>3. ~element[c].stale /\ element[c].built = element[c].prop
    BY <1>1, <1>4, <2>2, TreeIs DEF Agrees
  <2>4. \A k \in Kids[c] : element[k].prop = element[c].view[k]
    BY <1>1, <1>4, <2>1, TreeIs DEF Kin
  <2> QED
    BY <2>2, <2>3, <2>4
<1>5. \A c \in Components : element[c].stale => element[c].dirty
  BY <1>1, TreeIs DEF Agrees
<1> QED
  BY <1>2, <1>3, <1>4, <1>5 DEF BuildsFresh

LEMMA BuildInvAlways == BuildSpec => []BuildInv
<1>1. BuildInit => BuildInv
  BY BuildStart
<1>2. BuildInv /\ [BuildNext]_buildVars => BuildInv'
  BY BuildStep
<1> QED
  BY <1>1, <1>2, PTL DEF BuildSpec

(* Type correctness of the element tree and the BuildOwner: whatever is    *)
(* rendered, set, read, built, thrown or flushed, a mounted component has  *)
(* a prop and an unmounted one none, in every tree of components.          *)
THEOREM BuildTypeCorrect == BuildSpec => []BuildTypeOK
<1>1. BuildInv => BuildTypeOK
  BY BuildInvTyped
<1> QED
  BY <1>1, BuildInvAlways, PTL

(* BuildOwner::flush and reconcile_child leave nothing behind: for every   *)
(* tree of components, every set of signals and every order of batches,    *)
(* nested builds, writes during builds and throws, dependencies_ and       *)
(* subscribers_ agree, and once the owner is idle with nothing dirty each  *)
(* component that no failed build left behind was built from its current   *)
(* prop, signals and state and has the kids its last view asked for; what  *)
(* a failure dropped from the batch keeps its mark while it is stale.      *)
THEOREM BuildsAlwaysFresh == BuildSpec => []BuildsFresh
<1>1. BuildInv => BuildsFresh
  BY BuildInvFresh
<1> QED
  BY <1>1, BuildInvAlways, PTL

(***************************************************************************)
(* The focus tree: every node is younger than its parent, which is alive.  *)
(***************************************************************************)
Nodes == [alive : BOOLEAN, view : FocusViews \cup {NoView}, parent : 0 .. MaxNodes,
          can_focus : BOOLEAN]
Rising(node) == \A j \in Ids : node[j].alive => node[j].parent \in 0 .. j - 1
ManagerOK(f) ==
  /\ f = [node |-> f.node, focused |-> f.focused, next |-> f.next]
  /\ f.node \in [Ids -> Nodes] /\ f.focused \in 0 .. MaxNodes /\ f.next \in 1 .. MaxNodes + 1
  /\ Rising(f.node)
  /\ \A j \in Ids : f.node[j].alive =>
       j < f.next /\ (f.node[j].parent # 0 => f.node[f.node[j].parent].alive)
  /\ f.focused # 0 => f.node[f.focused].alive /\ f.node[f.focused].can_focus

(* What Fallback computes, by induction from the root. *)
IsUp(f, node, n) ==
  f = [j \in 0 .. n |-> IF j = 0 \/ (j # 0 /\ ~node[j].alive) THEN 0
                        ELSE IF node[j].can_focus THEN j ELSE f[node[j].parent]]

LEMMA UpExists ==
  ASSUME NEW node, Rising(node), NEW m \in Nat, m <= MaxNodes, MaxNodes \in Nat
  PROVE  \E f : IsUp(f, node, m)
<1> DEFINE S == {n \in Nat : n <= MaxNodes => \E f : IsUp(f, node, n)}
<1>1. 0 \in S
  <2>1. IsUp([j \in 0 .. 0 |-> 0], node, 0)
    BY DEF IsUp
  <2> QED
    BY <2>1, Zenon
<1>2. ASSUME NEW n \in S PROVE n + 1 \in S
  <2>000. n + 1 \in Nat
    OBVIOUS
  <2>0. SUFFICES ASSUME n + 1 <= MaxNodes PROVE \E f : IsUp(f, node, n + 1)
    BY <2>000, Zenon
  <2>00. n \in Nat /\ n <= MaxNodes /\ n + 1 \in Ids
    BY <2>0 DEF Ids
  <2>1. PICK f : IsUp(f, node, n)
    BY <2>00
  <2> DEFINE last == IF ~node[n + 1].alive THEN 0
                     ELSE IF node[n + 1].can_focus THEN n + 1 ELSE f[node[n + 1].parent]
             g == [j \in 0 .. n + 1 |-> IF j = n + 1 THEN last ELSE f[j]]
  <2>2. \A j \in 0 .. n : g[j] = f[j]
    BY <2>00
  <2>3. g[n + 1] = last
    BY <2>00
  <2>4. g = [j \in 0 .. n + 1 |-> g[j]]
    OBVIOUS
  <2> HIDE DEF g
  <2>5. \A j \in 0 .. n + 1 : g[j] = IF j = 0 \/ (j # 0 /\ ~node[j].alive) THEN 0
                        ELSE IF node[j].can_focus THEN j ELSE g[node[j].parent]
    <3> SUFFICES ASSUME NEW j \in 0 .. n + 1
                 PROVE  g[j] = IF j = 0 \/ (j # 0 /\ ~node[j].alive) THEN 0
                        ELSE IF node[j].can_focus THEN j ELSE g[node[j].parent]
      OBVIOUS
    <3>1. CASE j = n + 1
      <4>1. j # 0 /\ (node[j].alive => node[j].parent \in 0 .. n)
        BY <2>00, <3>1 DEF Rising
      <4> QED
        BY <4>1, <3>1, <2>2, <2>3
    <3>2. CASE j # n + 1
      <4>1. j \in 0 .. n /\ (j # 0 => j \in Ids)
        BY <2>00, <3>2 DEF Ids
      <4>2. j # 0 /\ node[j].alive => node[j].parent \in 0 .. n
        BY <2>00, <4>1 DEF Rising
      <4>3. f[j] = IF j = 0 \/ (j # 0 /\ ~node[j].alive) THEN 0
                        ELSE IF node[j].can_focus THEN j ELSE f[node[j].parent]
        BY <2>1, <4>1 DEF IsUp
      <4> QED
        BY <4>1, <4>2, <4>3, <2>2
    <3> QED
      BY <3>1, <3>2
  <2>6. [j \in 0 .. n + 1 |-> g[j]] = [j \in 0 .. n + 1 |->
                        IF j = 0 \/ (j # 0 /\ ~node[j].alive) THEN 0
                        ELSE IF node[j].can_focus THEN j ELSE g[node[j].parent]]
    BY <2>5, Zenon
  <2>7. IsUp(g, node, n + 1)
    BY <2>4, <2>6 DEF IsUp
  <2> QED
    BY <2>7, Zenon
<1>3. S = Nat
  <2> HIDE DEF S
  <2>1. S \subseteq Nat
    BY DEF S
  <2> QED
    BY <1>1, <1>2, <2>1, SetInduction
<1> QED
  BY <1>3

LEMMA FallbackFits ==
  ASSUME NEW node, node \in [Ids -> Nodes], Rising(node), NEW i \in 0 .. MaxNodes
  PROVE  \/ Fallback(node, i) = 0
         \/ /\ Fallback(node, i) \in Ids
            /\ node[Fallback(node, i)].alive /\ node[Fallback(node, i)].can_focus
<1>0. MaxNodes \in Nat
  BY FocusConstants
<1> DEFINE f == CHOOSE f : IsUp(f, node, MaxNodes)
<1>1. Fallback(node, i) = f[i]
  BY DEF Fallback, IsUp
<1>2. IsUp(f, node, MaxNodes)
  <2>1. \E g : IsUp(g, node, MaxNodes)
    BY <1>0, UpExists
  <2> QED
    BY <2>1, Zenon
<1> HIDE DEF f
<1>3. \A j \in 0 .. MaxNodes : f[j] = IF j = 0 \/ (j # 0 /\ ~node[j].alive) THEN 0
                        ELSE IF node[j].can_focus THEN j ELSE f[node[j].parent]
  BY <1>0, <1>2 DEF IsUp
<1> DEFINE Fit(x) == x = 0 \/ (x \in Ids /\ node[x].alive /\ node[x].can_focus)
           S == {n \in Nat : \A j \in 0 .. MaxNodes : j <= n => Fit(f[j])}
<1>4. 0 \in S
  BY <1>0, <1>3
<1>5. ASSUME NEW n \in S PROVE n + 1 \in S
  <2> SUFFICES ASSUME NEW j \in 0 .. MaxNodes, j <= n + 1 PROVE Fit(f[j])
    OBVIOUS
  <2>1. CASE j <= n
    BY <2>1
  <2>2. CASE j = 0 \/ (j # 0 /\ ~node[j].alive)
    BY <1>3, <2>2
  <2>3. CASE j = n + 1 /\ node[j].alive
    <3>1. j \in Ids /\ j # 0
      BY <1>0, <2>3 DEF Ids
    <3>2. node[j].parent \in 0 .. n /\ node[j].parent \in 0 .. MaxNodes
      BY <1>0, <2>3, <3>1 DEF Rising
    <3>3. Fit(f[node[j].parent])
      BY <3>2
    <3> QED
      BY <1>3, <2>3, <3>1, <3>3
  <2> QED
    BY <1>0, <2>1, <2>2, <2>3
<1>6. S = Nat
  <2> HIDE DEF S
  <2>1. S \subseteq Nat
    BY DEF S
  <2> QED
    BY <1>4, <1>5, <2>1, SetInduction
<1>7. Fit(f[i])
  BY <1>0, <1>6
<1> QED
  BY <1>1, <1>7

(* What RouteOf computes: nodes that are alive. *)
IsPath(f, node, n) ==
  f = [j \in 0 .. n |-> IF j = 0 \/ (j # 0 /\ ~node[j].alive) THEN <<>>
                        ELSE <<j>> \o f[node[j].parent]]

LEMMA PathExists ==
  ASSUME NEW node, Rising(node), NEW m \in Nat, m <= MaxNodes, MaxNodes \in Nat
  PROVE  \E f : IsPath(f, node, m)
<1> DEFINE S == {n \in Nat : n <= MaxNodes => \E f : IsPath(f, node, n)}
<1>1. 0 \in S
  <2>1. IsPath([j \in 0 .. 0 |-> <<>>], node, 0)
    BY DEF IsPath
  <2> QED
    BY <2>1, Zenon
<1>2. ASSUME NEW n \in S PROVE n + 1 \in S
  <2>000. n + 1 \in Nat
    OBVIOUS
  <2>0. SUFFICES ASSUME n + 1 <= MaxNodes PROVE \E f : IsPath(f, node, n + 1)
    BY <2>000, Zenon
  <2>00. n \in Nat /\ n <= MaxNodes /\ n + 1 \in Ids
    BY <2>0 DEF Ids
  <2>1. PICK f : IsPath(f, node, n)
    BY <2>00
  <2> DEFINE last == IF ~node[n + 1].alive THEN <<>> ELSE <<n + 1>> \o f[node[n + 1].parent]
             g == [j \in 0 .. n + 1 |-> IF j = n + 1 THEN last ELSE f[j]]
  <2>2. \A j \in 0 .. n : g[j] = f[j]
    BY <2>00
  <2>3. g[n + 1] = last
    BY <2>00
  <2>4. g = [j \in 0 .. n + 1 |-> g[j]]
    OBVIOUS
  <2> HIDE DEF g
  <2>5. \A j \in 0 .. n + 1 : g[j] = IF j = 0 \/ (j # 0 /\ ~node[j].alive) THEN <<>>
                        ELSE <<j>> \o g[node[j].parent]
    <3> SUFFICES ASSUME NEW j \in 0 .. n + 1
                 PROVE  g[j] = IF j = 0 \/ (j # 0 /\ ~node[j].alive) THEN <<>>
                        ELSE <<j>> \o g[node[j].parent]
      OBVIOUS
    <3>1. CASE j = n + 1
      <4>1. j # 0 /\ (node[j].alive => node[j].parent \in 0 .. n)
        BY <2>00, <3>1 DEF Rising
      <4> QED
        BY <4>1, <3>1, <2>2, <2>3
    <3>2. CASE j # n + 1
      <4>1. j \in 0 .. n /\ (j # 0 => j \in Ids)
        BY <2>00, <3>2 DEF Ids
      <4>2. j # 0 /\ node[j].alive => node[j].parent \in 0 .. n
        BY <2>00, <4>1 DEF Rising
      <4>3. f[j] = IF j = 0 \/ (j # 0 /\ ~node[j].alive) THEN <<>>
                        ELSE <<j>> \o f[node[j].parent]
        BY <2>1, <4>1 DEF IsPath
      <4> QED
        BY <4>1, <4>2, <4>3, <2>2
    <3> QED
      BY <3>1, <3>2
  <2>6. [j \in 0 .. n + 1 |-> g[j]] = [j \in 0 .. n + 1 |->
                        IF j = 0 \/ (j # 0 /\ ~node[j].alive) THEN <<>>
                        ELSE <<j>> \o g[node[j].parent]]
    BY <2>5, Zenon
  <2>7. IsPath(g, node, n + 1)
    BY <2>4, <2>6 DEF IsPath
  <2> QED
    BY <2>7, Zenon
<1>3. S = Nat
  <2> HIDE DEF S
  <2>1. S \subseteq Nat
    BY DEF S
  <2> QED
    BY <1>1, <1>2, <2>1, SetInduction
<1> QED
  BY <1>3

LEMMA RouteFits ==
  ASSUME ManagerOK(focus), NEW i \in 0 .. MaxNodes
  PROVE  RouteOf(i) \in Seq(Ids) /\ \A j \in Range(RouteOf(i)) : focus.node[j].alive
<1>0. MaxNodes \in Nat /\ Rising(focus.node)
  BY FocusConstants DEF ManagerOK
<1>00. PICK node : node = focus.node
  OBVIOUS
<1> DEFINE f == CHOOSE f : IsPath(f, node, MaxNodes)
<1>1. RouteOf(i) = f[i]
  BY <1>00 DEF RouteOf, IsPath
<1>2. IsPath(f, node, MaxNodes)
  <2>1. \E g : IsPath(g, node, MaxNodes)
    BY <1>0, <1>00, PathExists
  <2> QED
    BY <2>1, Zenon
<1> HIDE DEF f
<1>3. \A j \in 0 .. MaxNodes : f[j] = IF j = 0 \/ (j # 0 /\ ~node[j].alive) THEN <<>>
                        ELSE <<j>> \o f[node[j].parent]
  BY <1>0, <1>2 DEF IsPath
<1> DEFINE Fit(p) == p \in Seq(Ids) /\ \A k \in 1 .. Len(p) : node[p[k]].alive
           S == {n \in Nat : \A j \in 0 .. MaxNodes : j <= n => Fit(f[j])}
<1>40. Fit(<<>>)
  OBVIOUS
<1>41. ASSUME NEW p, Fit(p), NEW j \in Ids, node[j].alive PROVE Fit(<<j>> \o p)
  <2>1. PICK q : q = <<j>> \o p
    OBVIOUS
  <2>2. q \in Seq(Ids) /\ Len(q) = Len(p) + 1 /\ q[1] = j /\ Len(p) \in Nat
        /\ \A k \in 1 .. Len(p) : q[k + 1] = p[k]
    BY <1>41, <2>1
  <2>3. ASSUME NEW k \in 1 .. Len(q) PROVE node[q[k]].alive
    <3>1. CASE k = 1
      BY <1>41, <2>2, <3>1
    <3>2. CASE k # 1
      <4>1. k - 1 \in 1 .. Len(p) /\ (k - 1) + 1 = k
        BY <2>2, <3>2
      <4> QED
        BY <1>41, <2>2, <4>1
    <3> QED
      BY <3>1, <3>2
  <2> QED
    BY <2>1, <2>2, <2>3
<1> HIDE DEF Fit
<1>4. 0 \in S
  <2>0. 0 \in 0 .. MaxNodes
    BY <1>0
  <2>1. f[0] = <<>>
    BY <1>3, <2>0, Zenon
  <2>2. Fit(f[0])
    BY <1>40, <2>1
  <2>3. \A j \in 0 .. MaxNodes : j <= 0 => j = 0
    BY <1>0
  <2> QED
    BY <2>2, <2>3
<1>5. ASSUME NEW n \in S PROVE n + 1 \in S
  <2> SUFFICES ASSUME NEW j \in 0 .. MaxNodes, j <= n + 1 PROVE Fit(f[j])
    OBVIOUS
  <2>1. CASE j <= n
    BY <2>1
  <2>2. CASE j = 0 \/ (j # 0 /\ ~node[j].alive)
    BY <1>3, <1>40, <2>2
  <2>3. CASE j = n + 1 /\ node[j].alive
    <3>1. j \in Ids /\ j # 0
      BY <1>0, <2>3 DEF Ids
    <3>2. node[j].parent \in 0 .. n /\ node[j].parent \in 0 .. MaxNodes
      BY <1>0, <1>00, <2>3, <3>1 DEF Rising
    <3>3. Fit(f[node[j].parent])
      BY <3>2
    <3>4. Fit(<<j>> \o f[node[j].parent])
      BY <1>41, <2>3, <3>1, <3>3
    <3> QED
      BY <1>3, <2>3, <3>1, <3>4
  <2> QED
    BY <1>0, <2>1, <2>2, <2>3
<1>6. S = Nat
  <2> HIDE DEF S
  <2>1. S \subseteq Nat
    BY DEF S
  <2> QED
    BY <1>4, <1>5, <2>1, SetInduction
<1>7. Fit(f[i])
  BY <1>0, <1>6
<1>8. f[i] \in Seq(Ids) /\ \A k \in 1 .. Len(f[i]) : node[f[i][k]].alive
  BY <1>7 DEF Fit
<1>9. \A j \in Range(f[i]) : node[j].alive
  BY <1>8 DEF Range
<1> QED
  BY <1>00, <1>1, <1>8, <1>9

(* A node that is detached takes none of the others with it. *)
Detached(f, g, i) ==
  /\ ManagerOK(g) /\ g.next = f.next /\ ~g.node[i].alive
  /\ \A j \in Ids \ {i} :
       /\ g.node[j].alive = f.node[j].alive
       /\ g.node[j].alive => /\ g.node[j].view = f.node[j].view
                             /\ f.node[j].parent # i => g.node[j].parent = f.node[j].parent

LEMMA AbsentIs ==
  Absent \in Nodes /\ Absent.alive = FALSE
  BY FocusConstants DEF Absent, Nodes

LEMMA DetachFits ==
  ASSUME NEW f, ManagerOK(f), NEW i \in Ids, f.node[i].alive
  PROVE  Detached(f, Detach(f, i), i)
<1>0. MaxNodes \in Nat /\ i \in 1 .. MaxNodes /\ Ids = 1 .. MaxNodes
  BY FocusConstants DEF Ids
<1>1. PICK p : p = f.node[i].parent
  OBVIOUS
<1> DEFINE rest == [j \in Ids |-> IF j = i THEN Absent
                             ELSE IF f.node[j].alive /\ f.node[j].parent = i
                                    THEN [f.node[j] EXCEPT !.parent = p] ELSE f.node[j]]
<1>2. p \in 0 .. i - 1 /\ p \in 0 .. MaxNodes /\ (p # 0 => p \in Ids /\ p # i /\ f.node[p].alive)
  BY <1>0, <1>1 DEF ManagerOK, Rising
<1>3. rest[i] = Absent
  OBVIOUS
<1>4. ASSUME NEW j \in Ids, j # i
      PROVE  /\ rest[j] \in Nodes /\ rest[j].alive = f.node[j].alive
             /\ rest[j].view = f.node[j].view /\ rest[j].can_focus = f.node[j].can_focus
             /\ rest[j].parent = IF f.node[j].alive /\ f.node[j].parent = i THEN p
                                 ELSE f.node[j].parent
  <2>1. PICK x : x = f.node[j]
    OBVIOUS
  <2>2. x \in Nodes
    BY <2>1 DEF ManagerOK
  <2>3. CASE x.alive /\ x.parent = i
    <3>1. PICK y : y = [x EXCEPT !.parent = p]
      OBVIOUS
    <3>2. y \in Nodes /\ y.alive = x.alive /\ y.view = x.view /\ y.can_focus = x.can_focus
          /\ y.parent = p
      BY <1>2, <2>2, <3>1 DEF Nodes
    <3>3. rest[j] = y
      BY <1>4, <2>1, <2>3, <3>1
    <3> HIDE DEF rest
    <3> QED
      BY <2>1, <2>3, <3>2, <3>3
  <2>4. CASE ~(x.alive /\ x.parent = i)
    <3>1. rest[j] = x
      BY <1>4, <2>1, <2>4
    <3> HIDE DEF rest
    <3> QED
      BY <2>1, <2>2, <2>4, <3>1
  <2> QED
    BY <2>3, <2>4
<1>5. rest \in [Ids -> Nodes]
  <2>1. \A j \in Ids : rest[j] \in Nodes
    BY <1>3, <1>4, AbsentIs
  <2>2. rest = [j \in Ids |-> rest[j]]
    OBVIOUS
  <2> HIDE DEF rest
  <2> QED
    BY <2>1, <2>2
<1>6. PICK g : g = Detach(f, i)
  OBVIOUS
<1>7. g = [f EXCEPT !.node = rest, !.focused = IF @ = i THEN Fallback(rest, p) ELSE @]
  BY <1>1, <1>6 DEF Detach
<1> HIDE DEF rest
<1>8. /\ g.node = rest /\ g.next = f.next
      /\ g.focused = (IF f.focused = i THEN Fallback(rest, p) ELSE f.focused)
      /\ g = [node |-> g.node, focused |-> g.focused, next |-> g.next]
  BY <1>7 DEF ManagerOK
<1>9. Rising(rest)
  <2> SUFFICES ASSUME NEW j \in Ids, rest[j].alive PROVE rest[j].parent \in 0 .. j - 1
    BY DEF Rising
  <2>1. j # i
    BY <1>3, AbsentIs
  <2>2. f.node[j].alive /\ f.node[j].parent \in 0 .. j - 1
    BY <1>4, <2>1 DEF ManagerOK, Rising
  <2>3. CASE f.node[j].parent = i
    BY <1>0, <1>2, <1>4, <2>1, <2>2, <2>3
  <2>4. CASE f.node[j].parent # i
    BY <1>4, <2>1, <2>2, <2>4
  <2> QED
    BY <2>3, <2>4
<1>10. ASSUME NEW j \in Ids, rest[j].alive
       PROVE  j < f.next /\ (rest[j].parent # 0 => rest[rest[j].parent].alive)
  <2>1. j # i
    BY <1>3, <1>10, AbsentIs
  <2>2. /\ f.node[j].alive /\ j < f.next /\ f.node[j].parent \in 0 .. j - 1
        /\ (f.node[j].parent # 0 => f.node[f.node[j].parent].alive)
    BY <1>4, <1>10, <2>1 DEF ManagerOK, Rising
  <2>3. CASE f.node[j].parent = i
    <3>1. rest[j].parent = p
      BY <1>4, <2>1, <2>2, <2>3
    <3>2. p # 0 => rest[p].alive
      BY <1>2, <1>4
    <3> QED
      BY <2>2, <3>1, <3>2
  <2>4. CASE f.node[j].parent # i
    <3>1. rest[j].parent = f.node[j].parent
      BY <1>4, <2>1, <2>2, <2>4
    <3>2. f.node[j].parent # 0 => f.node[j].parent \in Ids
      BY <1>0, <2>2
    <3>3. f.node[j].parent # 0 => rest[f.node[j].parent].alive
      BY <1>4, <2>2, <2>4, <3>2
    <3> QED
      BY <2>2, <3>1, <3>3
  <2> QED
    BY <2>3, <2>4
<1>11. /\ g.focused \in 0 .. MaxNodes
       /\ g.focused # 0 => rest[g.focused].alive /\ rest[g.focused].can_focus
  <2>1. CASE f.focused = i
    <3>1. \/ Fallback(rest, p) = 0
          \/ Fallback(rest, p) \in Ids /\ rest[Fallback(rest, p)].alive
             /\ rest[Fallback(rest, p)].can_focus
      BY <1>2, <1>5, <1>9, FallbackFits
    <3> QED
      BY <1>0, <1>8, <2>1, <3>1
  <2>2. CASE f.focused # i
    <3>1. f.focused \in 0 .. MaxNodes
          /\ (f.focused # 0 => f.node[f.focused].alive /\ f.node[f.focused].can_focus)
      BY DEF ManagerOK
    <3>2. f.focused # 0 => f.focused \in Ids
      BY <1>0, <3>1
    <3>3. f.focused # 0 => rest[f.focused].alive /\ rest[f.focused].can_focus
      BY <1>4, <2>2, <3>1, <3>2
    <3> QED
      BY <1>8, <2>2, <3>1, <3>3
  <2> QED
    BY <2>1, <2>2
<1>12. f.next \in 1 .. MaxNodes + 1
  BY DEF ManagerOK
<1>13. ManagerOK(g)
  BY <1>5, <1>8, <1>9, <1>10, <1>11, <1>12 DEF ManagerOK
<1>14. \A j \in Ids \ {i} :
         /\ g.node[j].alive = f.node[j].alive
         /\ g.node[j].alive => /\ g.node[j].view = f.node[j].view
                               /\ f.node[j].parent # i => g.node[j].parent = f.node[j].parent
  BY <1>4, <1>8
<1> QED
  BY <1>3, <1>6, <1>8, <1>13, <1>14, AbsentIs DEF Detached

(***************************************************************************)
(* Releasing nodes in turn.                                                *)
(***************************************************************************)
(* Of f, exactly the nodes gone have been detached. *)
LeftWithout(f, g, gone) ==
  /\ ManagerOK(g) /\ g.next = f.next
  /\ \A j \in Ids : /\ g.node[j].alive <=> f.node[j].alive /\ j \notin gone
                    /\ g.node[j].alive =>
                         /\ g.node[j].view = f.node[j].view
                         /\ f.node[j].parent \notin gone => g.node[j].parent = f.node[j].parent

LEMMA LetGoFits ==
  ASSUME NEW f, NEW g, NEW gone, LeftWithout(f, g, gone), NEW i \in Ids, NEW kept
  PROVE  LeftWithout(f, LetGo(g, i, kept), gone \cup ({i} \ kept))
<1>1. CASE i \in kept \/ ~g.node[i].alive
  <2>1. LetGo(g, i, kept) = g
    BY <1>1 DEF LetGo
  <2>2. ASSUME NEW j \in Ids
        PROVE  /\ g.node[j].alive <=> f.node[j].alive /\ j \notin gone \cup ({i} \ kept)
               /\ g.node[j].alive =>
                    /\ g.node[j].view = f.node[j].view
                    /\ f.node[j].parent \notin gone \cup ({i} \ kept) => g.node[j].parent = f.node[j].parent
    BY <1>1 DEF LeftWithout
  <2> QED
    BY <2>1, <2>2 DEF LeftWithout
<1>2. CASE ~(i \in kept \/ ~g.node[i].alive)
  <2>1. PICK h : h = Detach(g, i)
    OBVIOUS
  <2>2. LetGo(g, i, kept) = h /\ i \notin kept /\ g.node[i].alive
    BY <1>2, <2>1 DEF LetGo
  <2>3. Detached(g, h, i)
    BY <2>1, <2>2, DetachFits DEF LeftWithout
  <2>4. ASSUME NEW j \in Ids
        PROVE  /\ h.node[j].alive <=> f.node[j].alive /\ j \notin gone \cup ({i} \ kept)
               /\ h.node[j].alive =>
                    /\ h.node[j].view = f.node[j].view
                    /\ f.node[j].parent \notin gone \cup ({i} \ kept) => h.node[j].parent = f.node[j].parent
    <3>1. CASE j = i
      BY <2>2, <2>3, <3>1 DEF Detached
    <3>2. CASE j # i
      <4>1. /\ h.node[j].alive = g.node[j].alive
            /\ h.node[j].alive => /\ h.node[j].view = g.node[j].view
                                  /\ g.node[j].parent # i => h.node[j].parent = g.node[j].parent
        BY <2>3, <3>2 DEF Detached
      <4>2. /\ g.node[j].alive <=> f.node[j].alive /\ j \notin gone
            /\ g.node[j].alive =>
                 /\ g.node[j].view = f.node[j].view
                 /\ f.node[j].parent \notin gone => g.node[j].parent = f.node[j].parent
        BY DEF LeftWithout
      <4> QED
        BY <2>2, <3>2, <4>1, <4>2
    <3> QED
      BY <3>1, <3>2
  <2>5. ManagerOK(h) /\ h.next = f.next
    BY <2>3 DEF Detached, LeftWithout
  <2> QED
    BY <2>2, <2>4, <2>5 DEF LeftWithout
<1> QED
  BY <1>1, <1>2

IsLeft(h, f, ids, kept, n) ==
  h = [k \in 0 .. n |-> IF k = 0 THEN f ELSE LetGo(h[k - 1], ids[k], kept)]

LEMMA LeftExists ==
  ASSUME NEW f, NEW ids, NEW kept, NEW m \in Nat
  PROVE  \E h : IsLeft(h, f, ids, kept, m)
<1> DEFINE S == {n \in Nat : \E h : IsLeft(h, f, ids, kept, n)}
<1>1. 0 \in S
  <2>1. IsLeft([k \in 0 .. 0 |-> f], f, ids, kept, 0)
    BY DEF IsLeft
  <2> QED
    BY <2>1, Zenon
<1>2. ASSUME NEW n \in S PROVE n + 1 \in S
  <2>1. PICK h : IsLeft(h, f, ids, kept, n)
    OBVIOUS
  <2> DEFINE last == LetGo(h[n], ids[n + 1], kept)
             g == [k \in 0 .. n + 1 |-> IF k = n + 1 THEN last ELSE h[k]]
  <2>2. \A k \in 0 .. n : g[k] = h[k]
    OBVIOUS
  <2>3. g[n + 1] = last
    OBVIOUS
  <2>4. g = [k \in 0 .. n + 1 |-> g[k]]
    OBVIOUS
  <2> HIDE DEF g
  <2>5. \A k \in 0 .. n + 1 : g[k] = IF k = 0 THEN f ELSE LetGo(g[k - 1], ids[k], kept)
    <3> SUFFICES ASSUME NEW k \in 0 .. n + 1
                 PROVE  g[k] = IF k = 0 THEN f ELSE LetGo(g[k - 1], ids[k], kept)
      OBVIOUS
    <3>1. CASE k = n + 1
      <4>1. k # 0 /\ k - 1 = n /\ n \in 0 .. n
        BY <3>1
      <4> QED
        BY <4>1, <3>1, <2>2, <2>3
    <3>2. CASE k # n + 1
      <4>1. k \in 0 .. n /\ (k # 0 => k - 1 \in 0 .. n)
        BY <3>2
      <4>2. g[k] = h[k] /\ (k # 0 => g[k - 1] = h[k - 1])
        BY <4>1, <2>2
      <4>3. h[k] = IF k = 0 THEN f ELSE LetGo(h[k - 1], ids[k], kept)
        BY <2>1, <4>1 DEF IsLeft
      <4> QED
        BY <4>2, <4>3
    <3> QED
      BY <3>1, <3>2
  <2>6. [k \in 0 .. n + 1 |-> g[k]]
          = [k \in 0 .. n + 1 |-> IF k = 0 THEN f ELSE LetGo(g[k - 1], ids[k], kept)]
    BY <2>5, Zenon
  <2>7. IsLeft(g, f, ids, kept, n + 1)
    BY <2>4, <2>6 DEF IsLeft
  <2>8. n + 1 \in Nat
    OBVIOUS
  <2> QED
    BY <2>7, <2>8, Zenon
<1>3. S = Nat
  <2> HIDE DEF S
  <2>1. S \subseteq Nat
    BY DEF S
  <2> QED
    BY <1>1, <1>2, <2>1, SetInduction
<1> QED
  BY <1>3

LEMMA ReleaseFits ==
  ASSUME NEW f, ManagerOK(f), NEW ids, ids \in Seq(Ids), NEW kept
  PROVE  LeftWithout(f, Release(f, ids, kept), Range(ids) \ kept)
<1> DEFINE h == CHOOSE h : IsLeft(h, f, ids, kept, Len(ids))
<1>0. Len(ids) \in Nat
  OBVIOUS
<1>1. Release(f, ids, kept) = h[Len(ids)]
  BY DEF Release, IsLeft
<1>2. IsLeft(h, f, ids, kept, Len(ids))
  <2>1. \E g : IsLeft(g, f, ids, kept, Len(ids))
    BY <1>0, LeftExists
  <2> QED
    BY <2>1, Zenon
<1> HIDE DEF h
<1>3. \A k \in 0 .. Len(ids) : h[k] = IF k = 0 THEN f ELSE LetGo(h[k - 1], ids[k], kept)
  BY <1>0, <1>2 DEF IsLeft
<1> DEFINE gone(n) == {ids[k] : k \in 1 .. n} \ kept
           S == {n \in Nat : n <= Len(ids) => LeftWithout(f, h[n], gone(n))}
<1>4. 0 \in S
  <2>1. 0 \in 0 .. Len(ids)
    BY <1>0
  <2>2. h[0] = f
    BY <1>3, <2>1, Zenon
  <2>3. gone(0) = {}
    OBVIOUS
  <2>4. LeftWithout(f, f, {})
    BY DEF LeftWithout
  <2> QED
    BY <2>2, <2>3, <2>4
<1>5. ASSUME NEW n \in S PROVE n + 1 \in S
  <2>1. SUFFICES ASSUME n + 1 <= Len(ids) PROVE LeftWithout(f, h[n + 1], gone(n + 1))
    OBVIOUS
  <2>2. n \in Nat /\ n <= Len(ids) /\ n + 1 \in 0 .. Len(ids) /\ n + 1 # 0 /\ n + 1 - 1 = n
        /\ ids[n + 1] \in Ids
    BY <2>1, <1>0
  <2>3. h[n + 1] = LetGo(h[n], ids[n + 1], kept)
    BY <2>2, <1>3
  <2>4. LeftWithout(f, h[n], gone(n))
    BY <2>2
  <2>5. \A k : k \in 1 .. n + 1 <=> k \in 1 .. n \/ k = n + 1
    BY <2>2
  <2>6. gone(n + 1) = gone(n) \cup ({ids[n + 1]} \ kept)
    BY <2>5
  <2> HIDE DEF gone
  <2> QED
    BY <2>2, <2>3, <2>4, <2>6, LetGoFits
<1>6. S = Nat
  <2> HIDE DEF S
  <2>1. S \subseteq Nat
    BY DEF S
  <2> QED
    BY <1>4, <1>5, <2>1, SetInduction
<1>7. LeftWithout(f, h[Len(ids)], gone(Len(ids)))
  <2> HIDE DEF gone
  <2>1. Len(ids) \in S /\ Len(ids) <= Len(ids)
    BY <1>0, <1>6
  <2> QED
    BY <2>1
<1>8. gone(Len(ids)) = Range(ids) \ kept
  BY <1>0 DEF Range
<1> QED
  BY <1>1, <1>7, <1>8

(***************************************************************************)
(* The inductive invariant: the nodes alive are the ones referenced, and   *)
(* those of mounted views form the tree of the views.                      *)
(***************************************************************************)
Hung(f, m) ==
  \A v \in FocusViews : m[v] # 0 =>
    /\ f.node[m[v]].view = v
    /\ Enclosing[v] = NoView => f.node[m[v]].parent = 0
    /\ Enclosing[v] # NoView => m[Enclosing[v]] # 0 /\ f.node[m[v]].parent = m[Enclosing[v]]
Referenced(f, m, rs) ==
  /\ m \in [FocusViews -> 0 .. MaxNodes]
  /\ rs \in Seq([nodes : Seq(Ids), asked : Nat])
  /\ \A j \in Ids : f.node[j].alive <=> j \in InTree(m) \cup InRoutes(rs)
FocusInv == ManagerOK(focus) /\ Hung(focus, mounted) /\ Referenced(focus, mounted, route)

LEMMA RoutesTyped ==
  ASSUME NEW rs, rs \in Seq([nodes : Seq(Ids), asked : Nat])
  PROVE  InRoutes(rs) \subseteq Ids
<1>1. ASSUME NEW i \in DOMAIN rs PROVE Range(rs[i].nodes) \subseteq Ids
  <2>0. i \in 1 .. Len(rs)
    BY <1>1
  <2>00. rs[i] \in [nodes : Seq(Ids), asked : Nat]
    BY <2>0, ElementOfSeq
  <2>1. rs[i].nodes \in Seq(Ids)
    BY <2>00
  <2> QED
    BY <2>1 DEF Range
<1> QED
  BY <1>1 DEF InRoutes

LEMMA TreeTyped ==
  ASSUME NEW m \in [FocusViews -> 0 .. MaxNodes]
  PROVE  InTree(m) \subseteq Ids /\ \A v \in FocusViews : m[v] # 0 => m[v] \in InTree(m)
  BY FocusConstants DEF InTree, Ids

LEMMA FocusInvFits ==
  ASSUME FocusInv
  PROVE  FocusTypeOK /\ FocusFits
<1>0. MaxNodes \in Nat /\ Ids = 1 .. MaxNodes
  BY FocusConstants DEF Ids
<1>1. FocusTypeOK
  <2>1. ASSUME NEW i \in DOMAIN route PROVE route[i].nodes \in Seq(Ids) /\ route[i].asked \in Nat
    <3>0. route \in Seq([nodes : Seq(Ids), asked : Nat])
      BY DEF FocusInv, Referenced
    <3>00. i \in 1 .. Len(route)
      BY <2>1, <3>0
    <3>1. route[i] \in [nodes : Seq(Ids), asked : Nat]
      BY <3>0, <3>00, ElementOfSeq
    <3> QED
      BY <3>1
  <2> QED
    BY <2>1 DEF FocusTypeOK, FocusInv, ManagerOK, Nodes, Referenced
<1>2. InRoutes(route) \cup InTree(mounted) \subseteq Ids
  BY RoutesTyped, TreeTyped DEF FocusInv, Referenced
<1>3. \A i \in InRoutes(route) \cup InTree(mounted) : focus.node[i].alive
  BY <1>2 DEF FocusInv, Referenced
<1>4. ASSUME NEW i \in Ids, focus.node[i].alive, route = <<>>
      PROVE  /\ mounted[focus.node[i].view] = i
             /\ focus.node[i].parent = IF Enclosing[focus.node[i].view] = NoView THEN 0
                                       ELSE mounted[Enclosing[focus.node[i].view]]
  <2>1. InRoutes(route) = {}
    BY <1>4 DEF InRoutes
  <2>2. i \in InTree(mounted)
    BY <1>4, <2>1 DEF FocusInv, Referenced
  <2>3. PICK v \in FocusViews : mounted[v] = i /\ i # 0
    BY <1>0, <2>2 DEF InTree
  <2> QED
    BY <2>3 DEF FocusInv, Hung
<1> QED
  BY <1>1, <1>3, <1>4 DEF FocusFits, FocusInv, ManagerOK

LEMMA FocusStart ==
  ASSUME FocusInit
  PROVE  FocusInv
<1>0. MaxNodes \in Nat /\ Ids = 1 .. MaxNodes
  BY FocusConstants DEF Ids
<1>1. /\ focus = [node |-> focus.node, focused |-> focus.focused, next |-> focus.next]
      /\ focus.node = [i \in Ids |-> Absent] /\ focus.focused = 0 /\ focus.next = 1
      /\ mounted = [v \in FocusViews |-> 0] /\ route = <<>>
  BY DEF FocusInit
<1>2. \A j \in Ids : focus.node[j] = Absent
  BY <1>1
<1>3. focus.node \in [Ids -> Nodes]
  BY <1>1, AbsentIs
<1>4. ManagerOK(focus)
  BY <1>0, <1>1, <1>2, <1>3, AbsentIs DEF ManagerOK, Rising
<1>5. Hung(focus, mounted)
  BY <1>1 DEF Hung
<1>6. InTree(mounted) = {} /\ InRoutes(route) = {}
  BY <1>1 DEF InTree, InRoutes
<1>7. Referenced(focus, mounted, route)
  BY <1>0, <1>1, <1>2, <1>6, AbsentIs DEF Referenced
<1> QED
  BY <1>4, <1>5, <1>7 DEF FocusInv

(* The focus moves, the nodes stay. *)
LEMMA FocusMoves ==
  ASSUME FocusInv, NEW i \in 0 .. MaxNodes, focus' = [focus EXCEPT !.focused = i],
         i # 0 => focus.node[i].alive /\ focus.node[i].can_focus, UNCHANGED <<mounted, route>>
  PROVE  FocusInv'
<1>1. /\ focus'.node = focus.node /\ focus'.next = focus.next /\ focus'.focused = i
      /\ focus' = [node |-> focus'.node, focused |-> focus'.focused, next |-> focus'.next]
  BY DEF FocusInv, ManagerOK
<1>2. ManagerOK(focus')
  BY <1>1 DEF FocusInv, ManagerOK
<1>3. Hung(focus', mounted') /\ Referenced(focus', mounted', route')
  BY <1>1 DEF FocusInv, Hung, Referenced
<1> QED
  BY <1>2, <1>3 DEF FocusInv

LEMMA SetCanFocusStep ==
  ASSUME FocusInv, NEW v \in FocusViews, NEW can \in BOOLEAN, set_can_focus(v, can)
  PROVE  FocusInv'
<1>0. MaxNodes \in Nat /\ Ids = 1 .. MaxNodes
  BY FocusConstants DEF Ids
<1>1. PICK i : i = mounted[v]
  OBVIOUS
<1>2. i \in Ids /\ mounted \in [FocusViews -> 0 .. MaxNodes] /\ focus.node \in [Ids -> Nodes]
      /\ UNCHANGED <<mounted, route>>
  BY <1>0, <1>1 DEF set_can_focus, FocusInv, Referenced, ManagerOK
<1>3. PICK x : x = focus.node[i]
  OBVIOUS
<1>4. PICK y : y = [x EXCEPT !.can_focus = can]
  OBVIOUS
<1>5. x \in Nodes /\ y \in Nodes /\ y.alive = x.alive /\ y.view = x.view /\ y.parent = x.parent
      /\ y.can_focus = can
  BY <1>2, <1>3, <1>4 DEF Nodes
<1>6. PICK g : g = focus'
  OBVIOUS
<1>7. /\ g.node = [focus.node EXCEPT ![i] = y] /\ g.next = focus.next
      /\ g.focused = (IF ~can /\ focus.focused = i THEN 0 ELSE focus.focused)
      /\ g = [node |-> g.node, focused |-> g.focused, next |-> g.next]
  BY <1>1, <1>2, <1>3, <1>4, <1>6 DEF set_can_focus, FocusInv, ManagerOK
<1>8. /\ g.node \in [Ids -> Nodes] /\ g.node[i] = y
      /\ \A j \in Ids : j # i => g.node[j] = focus.node[j]
  BY <1>2, <1>5, <1>7
<1>9. \A j \in Ids : /\ g.node[j].alive = focus.node[j].alive /\ g.node[j].view = focus.node[j].view
                     /\ g.node[j].parent = focus.node[j].parent
  BY <1>3, <1>5, <1>8
<1>10. focus.focused \in 0 .. MaxNodes /\ focus.next \in 1 .. MaxNodes + 1
       /\ (focus.focused # 0 => focus.node[focus.focused].alive /\ focus.node[focus.focused].can_focus)
  BY DEF FocusInv, ManagerOK
<1>11. g.focused \in 0 .. MaxNodes
       /\ (g.focused # 0 => g.node[g.focused].alive /\ g.node[g.focused].can_focus)
  <2>1. CASE focus.focused = i
    BY <1>0, <1>2, <1>3, <1>5, <1>7, <1>8, <1>10, <2>1
  <2>2. CASE focus.focused # i
    <3>1. g.focused = focus.focused /\ (focus.focused # 0 => focus.focused \in Ids)
      BY <1>0, <1>7, <1>10, <2>2
    <3> QED
      BY <1>8, <1>10, <2>2, <3>1
  <2> QED
    BY <2>1, <2>2
<1>12. Rising(g.node)
  BY <1>9 DEF FocusInv, ManagerOK, Rising
<1>13. ASSUME NEW j \in Ids, g.node[j].alive
       PROVE  j < g.next /\ (g.node[j].parent # 0 => g.node[g.node[j].parent].alive)
  <2>1. focus.node[j].alive /\ focus.node[j].parent \in 0 .. j - 1
    BY <1>9, <1>13 DEF FocusInv, ManagerOK, Rising
  <2>2. j < focus.next /\ (focus.node[j].parent # 0 => focus.node[focus.node[j].parent].alive)
    BY <2>1 DEF FocusInv, ManagerOK
  <2>3. focus.node[j].parent # 0 => focus.node[j].parent \in Ids
    BY <1>0, <2>1
  <2> QED
    BY <1>7, <1>9, <2>2, <2>3
<1>14. ManagerOK(g)
  BY <1>7, <1>8, <1>10, <1>11, <1>12, <1>13 DEF ManagerOK
<1>15. Hung(g, mounted)
  <2>1. \A u \in FocusViews : mounted[u] # 0 => mounted[u] \in Ids
    BY <1>0, <1>2
  <2> QED
    BY <1>9, <2>1 DEF FocusInv, Hung
<1>16. Referenced(g, mounted, route)
  BY <1>9 DEF FocusInv, Referenced
<1> QED
  BY <1>2, <1>6, <1>14, <1>15, <1>16 DEF FocusInv

LEMMA MountStep ==
  ASSUME FocusInv, NEW v \in FocusViews, NEW can \in BOOLEAN, NEW auto \in BOOLEAN,
         mount(v, can, auto)
  PROVE  FocusInv'
<1>0. MaxNodes \in Nat /\ Ids = 1 .. MaxNodes /\ NoView \notin FocusViews
      /\ Enclosing \in [FocusViews -> FocusViews \cup {NoView}]
  BY FocusConstants DEF Ids
<1>1. PICK i : i = focus.next
  OBVIOUS
<1>2. PICK p : p = IF Enclosing[v] = NoView THEN 0 ELSE mounted[Enclosing[v]]
  OBVIOUS
<1>3. PICK y : y = [alive |-> TRUE, view |-> v, parent |-> p, can_focus |-> can]
  OBVIOUS
<1>4. PICK g : g = focus'
  OBVIOUS
<1>5. PICK m : m = mounted'
  OBVIOUS
<1>6. /\ mounted[v] = 0 /\ i <= MaxNodes /\ m = [mounted EXCEPT ![v] = i] /\ UNCHANGED route
      /\ Enclosing[v] = NoView \/ (Enclosing[v] # NoView /\ mounted[Enclosing[v]] # 0)
      /\ g = [node |-> [focus.node EXCEPT ![i] = y],
              focused |-> IF auto /\ can THEN i ELSE focus.focused, next |-> i + 1]
  BY <1>1, <1>2, <1>3, <1>4, <1>5 DEF mount
<1>7. /\ g.node = [focus.node EXCEPT ![i] = y] /\ g.next = i + 1
      /\ g.focused = (IF auto /\ can THEN i ELSE focus.focused)
      /\ g = [node |-> g.node, focused |-> g.focused, next |-> g.next]
  BY <1>6
<1>8. /\ i \in Ids /\ mounted \in [FocusViews -> 0 .. MaxNodes] /\ focus.node \in [Ids -> Nodes]
      /\ focus.focused \in 0 .. MaxNodes
      /\ (focus.focused # 0 => focus.node[focus.focused].alive /\ focus.node[focus.focused].can_focus)
      /\ \A j \in Ids : focus.node[j].alive =>
            j < i /\ (focus.node[j].parent # 0 => focus.node[focus.node[j].parent].alive)
      /\ Rising(focus.node)
  BY <1>0, <1>1, <1>6 DEF FocusInv, Referenced, ManagerOK
<1>9. ~focus.node[i].alive
  BY <1>0, <1>8
<1>10. p \in 0 .. i - 1 /\ (p # 0 => p \in Ids /\ focus.node[p].alive)
  <2>1. CASE Enclosing[v] = NoView
    BY <1>0, <1>2, <1>8, <2>1
  <2>2. CASE Enclosing[v] # NoView
    <3>1. Enclosing[v] \in FocusViews /\ p = mounted[Enclosing[v]] /\ p # 0
      BY <1>0, <1>2, <1>6, <2>2
    <3>2. p \in InTree(mounted) /\ p \in Ids
      BY <1>8, <3>1, TreeTyped
    <3>3. focus.node[p].alive
      BY <3>2 DEF FocusInv, Referenced
    <3>4. p < i
      BY <1>8, <3>2, <3>3
    <3> QED
      BY <1>0, <1>8, <3>2, <3>3, <3>4
  <2> QED
    BY <2>1, <2>2
<1>11. y \in Nodes /\ y.alive = TRUE /\ y.view = v /\ y.parent = p /\ y.can_focus = can
  BY <1>0, <1>3, <1>8, <1>10 DEF Nodes
<1>12. /\ g.node \in [Ids -> Nodes] /\ g.node[i] = y
       /\ \A j \in Ids : j # i => g.node[j] = focus.node[j]
  BY <1>7, <1>8, <1>11
<1>13. Rising(g.node)
  <2> SUFFICES ASSUME NEW j \in Ids, g.node[j].alive PROVE g.node[j].parent \in 0 .. j - 1
    BY DEF Rising
  <2>1. CASE j = i
    BY <1>10, <1>11, <1>12, <2>1
  <2>2. CASE j # i
    BY <1>8, <1>12, <2>2 DEF Rising
  <2> QED
    BY <2>1, <2>2
<1>14. ASSUME NEW j \in Ids, g.node[j].alive
       PROVE  j < g.next /\ (g.node[j].parent # 0 => g.node[g.node[j].parent].alive)
  <2>1. CASE j = i
    <3>1. p # 0 => g.node[p].alive
      BY <1>9, <1>10, <1>12
    <3> QED
      BY <1>0, <1>7, <1>8, <1>11, <1>12, <2>1, <3>1
  <2>2. CASE j # i
    <3>1. g.node[j] = focus.node[j] /\ focus.node[j].alive
      BY <1>12, <1>14, <2>2
    <3>2. j < i /\ focus.node[j].parent \in 0 .. j - 1
          /\ (focus.node[j].parent # 0 => focus.node[focus.node[j].parent].alive)
      BY <1>8, <3>1 DEF Rising
    <3>3. focus.node[j].parent # 0 => focus.node[j].parent \in Ids /\ focus.node[j].parent # i
      BY <1>0, <1>9, <3>2
    <3>4. j < g.next
      BY <1>0, <1>7, <1>8, <3>2
    <3> QED
      BY <1>12, <3>1, <3>2, <3>3, <3>4
  <2> QED
    BY <2>1, <2>2
<1>15. g.focused \in 0 .. MaxNodes
       /\ (g.focused # 0 => g.node[g.focused].alive /\ g.node[g.focused].can_focus)
  <2>1. CASE auto /\ can
    <3>1. g.focused = i
      BY <1>7, <2>1
    <3>2. y.can_focus
      BY <1>11, <2>1, Zenon
    <3>3. g.node[g.focused].alive /\ g.node[g.focused].can_focus
      BY <1>11, <1>12, <3>1, <3>2, Zenon
    <3> QED
      BY <1>0, <1>8, <3>1, <3>3
  <2>2. CASE ~(auto /\ can)
    <3>1. g.focused = focus.focused /\ (focus.focused # 0 => focus.focused \in Ids /\ focus.focused # i)
      BY <1>0, <1>7, <1>8, <1>9, <2>2
    <3> QED
      BY <1>8, <1>12, <3>1
  <2> QED
    BY <2>1, <2>2
<1>16. g.next \in 1 .. MaxNodes + 1
  BY <1>0, <1>7, <1>8
<1>17. ManagerOK(g)
  BY <1>7, <1>12, <1>13, <1>14, <1>15, <1>16 DEF ManagerOK
<1>18. /\ m \in [FocusViews -> 0 .. MaxNodes] /\ m[v] = i
       /\ \A u \in FocusViews : u # v => m[u] = mounted[u]
  BY <1>0, <1>6, <1>8
<1>19. Hung(g, m)
  <2> SUFFICES ASSUME NEW u \in FocusViews, m[u] # 0
               PROVE  /\ g.node[m[u]].view = u
                      /\ Enclosing[u] = NoView => g.node[m[u]].parent = 0
                      /\ Enclosing[u] # NoView => m[Enclosing[u]] # 0 /\ g.node[m[u]].parent = m[Enclosing[u]]
    BY DEF Hung
  <2>0. Enclosing[u] # NoView => Enclosing[u] \in FocusViews
    BY <1>0
  <2>1. CASE u = v
    <3>1. Enclosing[v] # NoView => Enclosing[v] # v /\ mounted[Enclosing[v]] # 0
      BY <1>6
    <3> QED
      BY <1>2, <1>11, <1>12, <1>18, <2>0, <2>1, <3>1
  <2>2. CASE u # v
    <3>1. m[u] = mounted[u] /\ mounted[u] # 0
      BY <1>18, <2>2
    <3>2. /\ focus.node[mounted[u]].view = u
          /\ Enclosing[u] = NoView => focus.node[mounted[u]].parent = 0
          /\ Enclosing[u] # NoView => /\ mounted[Enclosing[u]] # 0
                                      /\ focus.node[mounted[u]].parent = mounted[Enclosing[u]]
      BY <3>1 DEF FocusInv, Hung
    <3>3. mounted[u] \in InTree(mounted) /\ mounted[u] \in Ids
      BY <1>8, <3>1, TreeTyped
    <3>4. focus.node[mounted[u]].alive
      BY <3>3 DEF FocusInv, Referenced
    <3>5. g.node[mounted[u]] = focus.node[mounted[u]]
      BY <1>9, <1>12, <3>3, <3>4
    <3>6. Enclosing[u] # NoView => m[Enclosing[u]] = mounted[Enclosing[u]]
      BY <1>6, <1>18, <2>0, <3>2
    <3> QED
      BY <3>1, <3>2, <3>5, <3>6
  <2> QED
    BY <2>1, <2>2
<1>20. InTree(m) = InTree(mounted) \cup {i}
  <2>1. i # 0
    BY <1>0, <1>8
  <2>2. \A x : x \in InTree(m) <=> x # 0 /\ \E u \in FocusViews : m[u] = x
    BY DEF InTree
  <2>3. \A x : x \in InTree(mounted) <=> x # 0 /\ \E u \in FocusViews : mounted[u] = x
    BY DEF InTree
  <2>4. ASSUME NEW x, x \in InTree(m) PROVE x \in InTree(mounted) \cup {i}
    BY <1>18, <2>2, <2>3, <2>4
  <2>5. ASSUME NEW x, x \in InTree(mounted) PROVE x \in InTree(m)
    <3>1. PICK u \in FocusViews : mounted[u] = x /\ x # 0
      BY <2>3, <2>5
    <3>2. u # v
      BY <1>6, <3>1
    <3> QED
      BY <1>18, <2>2, <3>1, <3>2
  <2>6. i \in InTree(m)
    BY <1>18, <2>1, <2>2
  <2> QED
    BY <2>4, <2>5, <2>6
<1>21. Referenced(g, m, route)
  <2>1. \A j \in Ids : focus.node[j].alive <=> j \in InTree(mounted) \cup InRoutes(route)
    BY DEF FocusInv, Referenced
  <2>2. ASSUME NEW j \in Ids PROVE g.node[j].alive <=> j \in InTree(m) \cup InRoutes(route)
    <3>1. CASE j = i
      BY <1>11, <1>12, <1>20, <3>1
    <3>2. CASE j # i
      BY <1>12, <1>20, <2>1, <3>2
    <3> QED
      BY <3>1, <3>2
  <2>3. route \in Seq([nodes : Seq(Ids), asked : Nat])
    BY DEF FocusInv, Referenced
  <2> QED
    BY <1>18, <2>2, <2>3 DEF Referenced
<1> QED
  BY <1>4, <1>5, <1>6, <1>17, <1>19, <1>21 DEF FocusInv

(* The nodes no longer referenced are released. *)
LEMMA ReleaseStep ==
  ASSUME FocusInv, NEW m \in [FocusViews -> 0 .. MaxNodes],
         NEW rs, rs \in Seq([nodes : Seq(Ids), asked : Nat]),
         \A v \in FocusViews : m[v] # 0 =>
           m[v] = mounted[v] /\ (Enclosing[v] # NoView => m[Enclosing[v]] = mounted[Enclosing[v]]),
         NEW ids, ids \in Seq(Ids), NEW kept, kept = InTree(m) \cup InRoutes(rs),
         InRoutes(rs) \subseteq InRoutes(route),
         InTree(mounted) \cup InRoutes(route) \subseteq kept \cup Range(ids),
         NEW g, g = Release(focus, ids, kept)
  PROVE  ManagerOK(g) /\ Hung(g, m) /\ Referenced(g, m, rs)
<1>0. MaxNodes \in Nat /\ Ids = 1 .. MaxNodes /\ NoView \notin FocusViews
      /\ Enclosing \in [FocusViews -> FocusViews \cup {NoView}]
  BY FocusConstants DEF Ids
<1>1. PICK gone : gone = Range(ids) \ kept
  OBVIOUS
<1>2. LeftWithout(focus, g, gone)
  BY <1>1, ReleaseFits DEF FocusInv
<1>3. \A j \in Ids : focus.node[j].alive <=> j \in InTree(mounted) \cup InRoutes(route)
  BY DEF FocusInv, Referenced
<1>4. InTree(m) \subseteq InTree(mounted)
  BY DEF InTree
<1>5. \A j \in Ids : g.node[j].alive <=> j \in kept
  BY <1>1, <1>2, <1>3, <1>4 DEF LeftWithout
<1>6. Hung(g, m)
  <2> SUFFICES ASSUME NEW v \in FocusViews, m[v] # 0
               PROVE  /\ g.node[m[v]].view = v
                      /\ Enclosing[v] = NoView => g.node[m[v]].parent = 0
                      /\ Enclosing[v] # NoView => m[Enclosing[v]] # 0 /\ g.node[m[v]].parent = m[Enclosing[v]]
    BY DEF Hung
  <2>1. m[v] = mounted[v] /\ m[v] \in Ids /\ m[v] \in InTree(m)
    BY TreeTyped
  <2>2. /\ focus.node[m[v]].view = v
        /\ Enclosing[v] = NoView => focus.node[m[v]].parent = 0
        /\ Enclosing[v] # NoView => /\ m[Enclosing[v]] # 0
                                    /\ focus.node[m[v]].parent = m[Enclosing[v]]
    BY <2>1 DEF FocusInv, Hung
  <2>3. g.node[m[v]].alive
    BY <1>5, <2>1
  <2>4. Enclosing[v] # NoView => m[Enclosing[v]] \in InTree(m)
    BY <1>0, <2>2, TreeTyped
  <2>5. 0 \notin gone
    <3>1. Range(ids) \subseteq Ids
      BY DEF Range
    <3> QED
      BY <1>0, <1>1, <3>1
  <2>6. focus.node[m[v]].parent \notin gone
    BY <1>1, <2>2, <2>4, <2>5
  <2>7. g.node[m[v]].view = focus.node[m[v]].view /\ g.node[m[v]].parent = focus.node[m[v]].parent
    BY <1>2, <2>1, <2>3, <2>6 DEF LeftWithout
  <2> QED
    BY <2>2, <2>7
<1>7. ManagerOK(g)
  BY <1>2 DEF LeftWithout
<1>8. Referenced(g, m, rs)
  BY <1>5 DEF Referenced
<1> QED
  BY <1>6, <1>7, <1>8

LEMMA InsideClosed ==
  ASSUME NEW v \in FocusViews
  PROVE  \A w \in FocusViews : Enclosing[w] \in Inside(v) => w \in Inside(v)
<1> SUFFICES ASSUME NEW w \in FocusViews, Enclosing[w] \in Inside(v),
                    NEW S \in SUBSET FocusViews, v \in S,
                    \A u \in FocusViews : Enclosing[u] \in S => u \in S
             PROVE  w \in S
  BY DEF Inside
<1>1. Enclosing[w] \in S
  BY DEF Inside
<1> QED
  BY <1>1

LEMMA UnmountViewStep ==
  ASSUME FocusInv, NEW v \in FocusViews, unmount_view(v)
  PROVE  FocusInv'
<1>0. MaxNodes \in Nat /\ Ids = 1 .. MaxNodes /\ NoView \notin FocusViews
      /\ Enclosing \in [FocusViews -> FocusViews \cup {NoView}]
  BY FocusConstants DEF Ids
<1>1. PICK m : m = [u \in FocusViews |-> IF u \in Inside(v) THEN 0 ELSE mounted[u]]
  OBVIOUS
<1>2. PICK kept : kept = InTree(m) \cup InRoutes(route)
  OBVIOUS
<1>3. focus' = Release(focus, YoungestFirst, kept) /\ mounted' = m /\ UNCHANGED route
  BY <1>1, <1>2 DEF unmount_view
<1>4. mounted \in [FocusViews -> 0 .. MaxNodes] /\ route \in Seq([nodes : Seq(Ids), asked : Nat])
  BY DEF FocusInv, Referenced
<1>5. m \in [FocusViews -> 0 .. MaxNodes]
  BY <1>0, <1>1, <1>4
<1>6. YoungestFirst \in Seq(Ids) /\ Range(YoungestFirst) = Ids
  <2>1. \A n \in Ids : MaxNodes + 1 - n \in Ids /\ MaxNodes + 1 - (MaxNodes + 1 - n) = n
    BY <1>0
  <2>2. YoungestFirst \in [1 .. MaxNodes -> Ids]
    BY <1>0, <2>1 DEF YoungestFirst
  <2>3. YoungestFirst \in Seq(Ids)
    BY <1>0, <2>2, SeqDef
  <2>4. \A n \in Ids : YoungestFirst[n] = MaxNodes + 1 - n
    BY DEF YoungestFirst
  <2>5. DOMAIN YoungestFirst = Ids
    BY DEF YoungestFirst
  <2>6. Range(YoungestFirst) = Ids
    BY <2>1, <2>4, <2>5 DEF Range
  <2> QED
    BY <2>3, <2>6
<1>7. ASSUME NEW u \in FocusViews, m[u] # 0
      PROVE  m[u] = mounted[u] /\ (Enclosing[u] # NoView => m[Enclosing[u]] = mounted[Enclosing[u]])
  <2>1. u \notin Inside(v) /\ m[u] = mounted[u]
    BY <1>1, <1>7
  <2>2. Enclosing[u] \notin Inside(v)
    BY <2>1, InsideClosed
  <2>3. Enclosing[u] # NoView => Enclosing[u] \in FocusViews
    BY <1>0
  <2> QED
    BY <1>1, <2>1, <2>2, <2>3
<1>8. InTree(mounted) \cup InRoutes(route) \subseteq kept \cup Range(YoungestFirst)
  BY <1>2, <1>4, <1>6, TreeTyped
<1>9. PICK g : g = Release(focus, YoungestFirst, kept)
  OBVIOUS
<1>10. ManagerOK(g) /\ Hung(g, m) /\ Referenced(g, m, route)
  BY <1>2, <1>4, <1>5, <1>6, <1>7, <1>8, <1>9, ReleaseStep
<1> QED
  BY <1>3, <1>9, <1>10 DEF FocusInv

(***************************************************************************)
(* Dispatching a key.                                                      *)
(***************************************************************************)
Routes == [nodes : Seq(Ids), asked : Nat]

LEMMA RoutesAppend ==
  ASSUME NEW rs \in Seq(Routes), NEW r \in Routes
  PROVE  /\ Append(rs, r) \in Seq(Routes)
         /\ InRoutes(Append(rs, r)) = InRoutes(rs) \cup Range(r.nodes)
<1>1. PICK b : b = Append(rs, r)
  OBVIOUS
<1>2. /\ b \in Seq(Routes) /\ Len(rs) \in Nat /\ Len(b) = Len(rs) + 1 /\ b[Len(rs) + 1] = r
      /\ \A k \in 1 .. Len(rs) : b[k] = rs[k]
      /\ DOMAIN b = 1 .. Len(rs) + 1 /\ DOMAIN rs = 1 .. Len(rs)
  BY <1>1
<1>3. \A x : x \in InRoutes(b) <=> \E k \in 1 .. Len(rs) + 1 : x \in Range(b[k].nodes)
  BY <1>2, Zenon DEF InRoutes
<1>4. \A x : x \in InRoutes(rs) <=> \E k \in 1 .. Len(rs) : x \in Range(rs[k].nodes)
  BY <1>2, Zenon DEF InRoutes
<1>5. ASSUME NEW x, x \in InRoutes(b) PROVE x \in InRoutes(rs) \cup Range(r.nodes)
  <2>1. PICK k \in 1 .. Len(rs) + 1 : x \in Range(b[k].nodes)
    BY <1>3, <1>5
  <2>2. CASE k = Len(rs) + 1
    BY <1>2, <2>1, <2>2
  <2>3. CASE k # Len(rs) + 1
    <3>1. k \in 1 .. Len(rs)
      BY <1>2, <2>3
    <3>2. x \in Range(rs[k].nodes)
      BY <1>2, <2>1, <3>1
    <3> QED
      BY <1>4, <3>1, <3>2
  <2> QED
    BY <2>2, <2>3
<1>6. ASSUME NEW x, x \in InRoutes(rs) PROVE x \in InRoutes(b)
  <2>1. PICK k \in 1 .. Len(rs) : x \in Range(rs[k].nodes)
    BY <1>4, <1>6
  <2>2. k \in 1 .. Len(rs) + 1 /\ x \in Range(b[k].nodes)
    BY <1>2, <2>1
  <2> QED
    BY <1>3, <2>2
<1>7. ASSUME NEW x, x \in Range(r.nodes) PROVE x \in InRoutes(b)
  <2>1. Len(rs) + 1 \in 1 .. Len(rs) + 1 /\ x \in Range(b[Len(rs) + 1].nodes)
    BY <1>2, <1>7
  <2> QED
    BY <1>3, <2>1
<1> QED
  BY <1>1, <1>2, <1>5, <1>6, <1>7

LEMMA RoutesSplit ==
  ASSUME NEW rs \in Seq(Routes), rs # <<>>
  PROVE  /\ Front(rs) \in Seq(Routes) /\ Last(rs) \in Routes
         /\ rs = Append(Front(rs), Last(rs))
<1>1. Len(rs) \in Nat \ {0} /\ DOMAIN rs = 1 .. Len(rs)
  BY EmptySeq
<1>2. Last(rs) = rs[Len(rs)] /\ Len(rs) \in 1 .. Len(rs)
  BY <1>1 DEF Last
<1>3. Last(rs) \in Routes
  BY <1>2, ElementOfSeq
<1>4. Front(rs) = SubSeq(rs, 1, Len(rs) - 1)
  BY DEF Front
<1>5. /\ Front(rs) \in Seq(Routes) /\ Len(Front(rs)) = Len(rs) - 1
      /\ \A k \in 1 .. Len(rs) - 1 : Front(rs)[k] = rs[k]
  BY <1>1, <1>4, SubSeqProperties
<1>6. PICK b : b = Append(Front(rs), Last(rs))
  OBVIOUS
<1>7. /\ b \in Seq(Routes) /\ Len(b) = Len(rs)
      /\ \A k \in 1 .. Len(rs) - 1 : b[k] = rs[k]
      /\ b[Len(rs)] = rs[Len(rs)]
  <2>1. PICK t : t = Front(rs)
    OBVIOUS
  <2>2. PICK r : r = Last(rs)
    OBVIOUS
  <2>3. /\ Len(t) = Len(rs) - 1 /\ t \in Seq(Routes) /\ r \in Routes
        /\ \A k \in 1 .. Len(rs) - 1 : t[k] = rs[k]
    BY <1>3, <1>5, <2>1, <2>2
  <2>4. /\ Append(t, r) \in Seq(Routes) /\ Len(Append(t, r)) = Len(t) + 1
        /\ Append(t, r)[Len(t) + 1] = r
        /\ \A k \in 1 .. Len(t) : Append(t, r)[k] = t[k]
    BY <2>3
  <2>5. b = Append(t, r) /\ Len(t) + 1 = Len(rs) /\ r = rs[Len(rs)]
    BY <1>1, <1>2, <1>6, <2>1, <2>2, <2>3
  <2> QED
    BY <2>3, <2>4, <2>5
<1>8. \A k \in 1 .. Len(rs) : b[k] = rs[k]
  BY <1>1, <1>7
<1>9. b = rs
  BY <1>7, <1>8, SeqEqual
<1> QED
  BY <1>3, <1>5, <1>6, <1>9

LEMMA DispatchKeyStep ==
  ASSUME FocusInv, dispatch_key
  PROVE  FocusInv'
<1>1. ManagerOK(focus) /\ Hung(focus, mounted) /\ Referenced(focus, mounted, route)
  BY DEF FocusInv
<1>2. focus.focused \in 0 .. MaxNodes
  BY <1>1 DEF ManagerOK
<1>3. PICK p : p = RouteOf(focus.focused)
  OBVIOUS
<1>4. p \in Seq(Ids) /\ \A j \in Range(p) : focus.node[j].alive
  BY <1>1, <1>2, <1>3, RouteFits
<1>5. PICK r : r = [nodes |-> p, asked |-> 1]
  OBVIOUS
<1>6. r \in Routes /\ r.nodes = p
  BY <1>4, <1>5 DEF Routes
<1>7. route' = Append(route, r) /\ UNCHANGED <<focus, mounted>>
  BY <1>3, <1>5 DEF dispatch_key
<1>8. /\ route \in Seq(Routes) /\ mounted \in [FocusViews -> 0 .. MaxNodes]
      /\ \A j \in Ids : focus.node[j].alive <=> j \in InTree(mounted) \cup InRoutes(route)
  BY <1>1 DEF Referenced, Routes
<1>9. route' \in Seq(Routes) /\ InRoutes(route') = InRoutes(route) \cup Range(p)
  BY <1>6, <1>7, <1>8, RoutesAppend
<1>10. \A j \in Ids : focus.node[j].alive <=> j \in InTree(mounted) \cup InRoutes(route')
  BY <1>4, <1>8, <1>9
<1>11. Referenced(focus, mounted, route')
  BY <1>8, <1>9, <1>10 DEF Referenced, Routes
<1> QED
  BY <1>1, <1>7, <1>11 DEF FocusInv

LEMMA HandlerReturnsStep ==
  ASSUME FocusInv, NEW ignored \in BOOLEAN, handler_returns(ignored)
  PROVE  FocusInv'
<1>1. ManagerOK(focus) /\ Hung(focus, mounted) /\ Referenced(focus, mounted, route)
  BY DEF FocusInv
<1>2. /\ route \in Seq(Routes) /\ mounted \in [FocusViews -> 0 .. MaxNodes]
      /\ \A j \in Ids : focus.node[j].alive <=> j \in InTree(mounted) \cup InRoutes(route)
  BY <1>1 DEF Referenced, Routes
<1>3. PICK r : r = Last(route)
  OBVIOUS
<1>4. PICK rs : rs = Front(route)
  OBVIOUS
<1>5. route # <<>> /\ UNCHANGED mounted
  BY DEF handler_returns
<1>6. rs \in Seq(Routes) /\ r \in Routes /\ route = Append(rs, r)
  BY <1>2, <1>3, <1>4, <1>5, RoutesSplit
<1>7. InRoutes(route) = InRoutes(rs) \cup Range(r.nodes)
  BY <1>6, RoutesAppend
<1>8. CASE ignored /\ r.asked < Len(r.nodes)
  <2>1. PICK y : y = [r EXCEPT !.asked = @ + 1]
    OBVIOUS
  <2>2. route' = Append(rs, y) /\ UNCHANGED focus
    BY <1>3, <1>4, <1>8, <2>1 DEF handler_returns
  <2>3. y \in Routes /\ y.nodes = r.nodes
    <3>1. /\ r = [nodes |-> r.nodes, asked |-> r.asked]
          /\ r.nodes \in Seq(Ids) /\ r.asked \in Nat
      BY <1>6 DEF Routes
    <3>2. y = [nodes |-> r.nodes, asked |-> r.asked + 1]
      BY <2>1, <3>1
    <3>3. y.nodes = r.nodes /\ r.asked + 1 \in Nat
      BY <3>1, <3>2
    <3> QED
      BY <3>1, <3>2, <3>3 DEF Routes
  <2>4. route' \in Seq(Routes) /\ InRoutes(route') = InRoutes(rs) \cup Range(r.nodes)
    BY <1>6, <2>2, <2>3, RoutesAppend
  <2>5. Referenced(focus, mounted, route')
    BY <1>2, <1>7, <2>4 DEF Referenced, Routes
  <2> QED
    BY <1>1, <1>5, <2>2, <2>5 DEF FocusInv
<1>9. CASE ~(ignored /\ r.asked < Len(r.nodes))
  <2>1. PICK kept : kept = InTree(mounted) \cup InRoutes(rs)
    OBVIOUS
  <2>2. PICK g : g = Release(focus, r.nodes, kept)
    OBVIOUS
  <2>3. route' = rs /\ focus' = g
    BY <1>3, <1>4, <1>9, <2>1, <2>2 DEF handler_returns
  <2>4. r.nodes \in Seq(Ids) /\ rs \in Seq([nodes : Seq(Ids), asked : Nat])
    BY <1>6 DEF Routes
  <2>5. \A v \in FocusViews : mounted[v] # 0 =>
          mounted[v] = mounted[v] /\ (Enclosing[v] # NoView => mounted[Enclosing[v]] = mounted[Enclosing[v]])
    OBVIOUS
  <2>6. InRoutes(rs) \subseteq InRoutes(route)
        /\ InTree(mounted) \cup InRoutes(route) \subseteq kept \cup Range(r.nodes)
    BY <1>7, <2>1
  <2>7. ManagerOK(g) /\ Hung(g, mounted) /\ Referenced(g, mounted, rs)
    BY <1>2, <2>1, <2>2, <2>4, <2>5, <2>6, ReleaseStep
  <2> QED
    BY <1>5, <2>3, <2>7 DEF FocusInv
<1> QED
  BY <1>8, <1>9

LEMMA FocusStep ==
  ASSUME FocusInv, [FocusNext]_focusVars
  PROVE  FocusInv'
<1>0. MaxNodes \in Nat /\ Ids = 1 .. MaxNodes
  BY FocusConstants DEF Ids
<1>1. ASSUME clear_focus PROVE FocusInv'
  <2>1. focus' = [focus EXCEPT !.focused = 0] /\ UNCHANGED <<mounted, route>> /\ 0 \in 0 .. MaxNodes
    BY <1>0, <1>1 DEF clear_focus
  <2> QED
    BY <2>1, FocusMoves
<1>2. ASSUME NEW i \in Ids, request_focus(i) PROVE FocusInv'
  <2>1. /\ focus' = [focus EXCEPT !.focused = i] /\ UNCHANGED <<mounted, route>> /\ i \in 0 .. MaxNodes
        /\ focus.node[i].alive /\ focus.node[i].can_focus
    BY <1>0, <1>2 DEF request_focus
  <2> QED
    BY <2>1, FocusMoves
<1>3. CASE UNCHANGED focusVars
  BY <1>3 DEF focusVars, FocusInv, ManagerOK, Hung, Referenced, InTree, InRoutes
<1> QED
  BY <1>1, <1>2, <1>3, DispatchKeyStep, HandlerReturnsStep, MountStep, SetCanFocusStep,
     UnmountViewStep DEF FocusNext

LEMMA FocusInvAlways == FocusSpec => []FocusInv
  BY FocusStart, FocusStep, PTL DEF FocusSpec

(* The nodes of the focus manager, the focus_node_ of every FocusView and  *)
(* the routes of the dispatches under way keep their types, whatever the   *)
(* views, the bound on nodes and the depth of nested dispatches.           *)
THEOREM FocusTypeCorrect == FocusSpec => []FocusTypeOK
<1>1. FocusInv => FocusTypeOK
  BY FocusInvFits
<1> QED
  BY <1>1, FocusInvAlways, PTL

(* The focused node always exists and can have the focus, handlers run     *)
(* only on live nodes, and a live node's parent is alive; when no dispatch *)
(* holds a route the nodes are those of the mounted FocusViews, in their   *)
(* tree.  detach (src/input.cpp) keeps this for every shape of the tree    *)
(* and every interleaving of handlers, updates and unmounts.               *)
THEOREM FocusAlwaysFits == FocusSpec => []FocusFits
<1>1. FocusInv => FocusFits
  BY FocusInvFits
<1> QED
  BY <1>1, FocusInvAlways, PTL
===============================================================================
